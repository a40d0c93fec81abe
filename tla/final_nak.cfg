\* The constants of the program and a file of nine blocks.
SPECIFICATION ContractSpec
CONSTANTS
    ChunkSz = 128
    ErrB = 10
    NumMod = 256
    Params <- MCNineBlocks
PROPERTIES DoneOverContract
\* The process ends.
CHECK_DEADLOCK FALSE
