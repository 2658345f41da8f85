CONSTANTS
    Entity <- MC_Entity
    Attr <- MC_Attr
    Value <- MC_Value
    CardOne <- MC_CardOne
    UniqueValueAttr <- MC_UniqueValueAttr
    MaxTerms = 6
    MaxTx = 6
    Metadata <- MC_Metadata
    Null = Null
    NonString = NonString
    Plain = Plain

SPECIFICATION MCSpec
\* A test stops after its last step.
CHECK_DEADLOCK FALSE
INVARIANT TestsPass
INVARIANT FtsTestsPass
INVARIANT CipherTestsPass
