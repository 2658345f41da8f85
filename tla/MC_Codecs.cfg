CONSTANTS
    Null = Null
    InvalidDataType = InvalidDataType
    d1 = d1
    NaN = NaN

SPECIFICATION Spec
INVARIANT TypeOK
INVARIANT SqlRoundTrip
INVARIANT InstantsReadBackFloored
INVARIANT EmlLosesOnlyRefs
INVARIANT IntegerColumnsRoundTrip
