CONSTANTS
    Null = Null
    Plain = Plain
    p1 = p1
    p2 = p2
    p3 = p3

SPECIFICATION Spec
INVARIANT TypeOK
INVARIANT EncryptedWithUserKey
INVARIANT VersionMarksTables
INVARIANT OpenOnCurrentStore
PROPERTY AllocatorSpec
SYMMETRY Symm
