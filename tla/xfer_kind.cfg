\* The constants of the program.
SPECIFICATION ContractSpec
CONSTANTS
    ChunkSz = 128
    ErrB = 10
    NumMod = 256
    Params <- MCKind
PROPERTIES DoneOverContract
\* The process ends.
CHECK_DEADLOCK FALSE
