CONSTANTS
    Entity <- MC_Entity
    Value <- MC_Value
    Unset = Unset
    Null = Null

SPECIFICATION TestSpec
CHECK_DEADLOCK FALSE
INVARIANT AlterationRefusedOnlyOnConflict
