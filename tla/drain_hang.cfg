SPECIFICATION ScriptSpec
CONSTANTS
    A = A
    B = B
    C = C
    Threads = {A, B}
    Fds <- MCFds
    PeerOf <- MCPeerOf
    Calls <- MCCalls
    Program <- DrainAnswered
    Selecting = {}
    QueueCap = 3
    SpuriousWakeups = FALSE
PROPERTY
    DrainReturns
CHECK_DEADLOCK FALSE
