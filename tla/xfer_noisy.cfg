\* Blocks of 8 characters, numbers modulo 4, every damage the medium can do.
SPECIFICATION ContractSpec
CONSTANTS
    ChunkSz = 3
    ErrB = 3
    NumMod = 4
    Params <- MCNoisy
INVARIANTS TypeOK InStep Aligned RoomForWrites
PROPERTIES ImplementsFileTransfer EndsOverContract
\* The process ends.
CHECK_DEADLOCK FALSE
