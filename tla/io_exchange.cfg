SPECIFICATION ScriptSpec
CONSTANTS
    A = A
    B = B
    C = C
    Threads = {A, B, C}
    Fds <- MCFds
    PeerOf <- MCPeerOf
    Calls <- MCCalls
    Program <- Exchange
    Selecting = {}
    QueueCap = 4
    SpuriousWakeups = FALSE
PROPERTY
    AllCallsReturn
CHECK_DEADLOCK FALSE
