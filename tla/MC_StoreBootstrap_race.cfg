CONSTANTS
    Proc = {p1, p2}
    Versions <- MC_Versions
    Null = Null

SPECIFICATION Spec



INVARIANT NoCreateOverExistingStore
