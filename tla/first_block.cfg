\* The calls of a transfer as far as its first block, by its three threads.
SPECIFICATION ScriptSpec
CONSTANTS
    A = A
    B = B
    C = C
    Threads = {A, B, C}
    Fds <- TransferFds
    PeerOf <- TransferPeerOf
    Calls <- MCCalls
    Program <- FirstBlock
    Selecting = {C}
    QueueCap = 1000
    SpuriousWakeups = FALSE
PROPERTY
    FlushReturns
CHECK_DEADLOCK FALSE
