CONSTANTS
    NPROC = 3
    NINODES = 1
    UserUid = 1
    USHORT = 4
    Uids = {0, 1, 5}
    Modes <- SomeModes
SPECIFICATION Spec
INVARIANTS IdentityInv AttrsAsSet
PROPERTIES OpenAsSet
