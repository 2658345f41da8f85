CONSTANTS
    Part <- MC_Part
    Start <- MC_ContiguousStart
    End <- MC_ContiguousEnd
    MaxAlloc = 2
    Null = Null
SPECIFICATION Spec
INVARIANTS
    FreshCausetids
