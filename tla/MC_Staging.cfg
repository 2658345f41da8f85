CONSTANTS
    Null = Null
    NonString = NonString
    e1 = e1
    e2 = e2
    a1 = a1
    v1 = v1
    v2 = v2

SPECIFICATION Spec
INVARIANT TypeOK
INVARIANT SearchesResolveToOwnText
INVARIANT FulltextValuesInterned
PROPERTY FulltextStoreSpec
INVARIANT ResolveAvsAsDocumented
INVARIANT InsertStagesAll
