SPECIFICATION Spec
CONSTANTS
    CHUNK_SZ = 3
    Chars = {0, 127, 128, 255}
    Nums = {0, 127, 255}
INVARIANTS
    TypeOK
    DamageDetected
    IntactAccepted
    SyncLossIsReal
