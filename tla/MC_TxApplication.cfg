CONSTANTS
    Entity <- MC_Entity
    Attr <- MC_Attr
    Value <- MC_Value
    CardOne <- MC_CardOne
    UniqueValueAttr <- MC_UniqueValueAttr
    MaxTerms = 2
    MaxTx = 3
    Metadata <- MC_Attr
    Null = Null

SPECIFICATION Spec
INVARIANT TypeOK
INVARIANT SafetyNetsHold
PROPERTY StoreSpec
PROPERTY SpacetimeReportMatchesLog
