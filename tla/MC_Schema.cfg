CONSTANTS
    Null = Null
    Unset = Unset
    e1 = e1
    e2 = e2
    k1 = k1
    k2 = k2

SPECIFICATION Spec
\* The replayed tests stop after their last step, validate_Attr_map after
\* it returns.
CHECK_DEADLOCK FALSE
INVARIANT TypeOK
INVARIANT UniqueEnforced
INVARIANT CardinalityOneHolds
INVARIANT FlagsMatchSchema
PROPERTY AlterKeepsUnasserted
INVARIANT AlterTestsPass
INVARIANT ValidationAsSpecified
INVARIANT ValidationTestsPass
INVARIANT KeywordRefRoundTrip
PROPERTY ReopenKeepsSchema
