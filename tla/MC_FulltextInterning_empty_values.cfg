CONSTANTS
    Text <- MC_Text
    NonString = NonString
    Null = Null
    MaxVars = 13
    MaxLen = 4

SPECIFICATION Spec
INVARIANT OnlyNonStringsRefused
