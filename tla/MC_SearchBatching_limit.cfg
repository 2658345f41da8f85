\* SQLITE_LIMIT_VARIABLE_NUMBER 12, a multiple of both 4 and 6: the first
\* chunk of either function is full.
CONSTANTS
    E = {e1, e2}
    A = {a1}
    V = {v1, v2}
    MaxVars = 12
    MaxAvs = 3
    MaxCausets = 2
    Null = Null

SPECIFICATION Spec
INVARIANT NoTooManyValues
