SPECIFICATION ScriptSpec
CONSTANTS
    A = A
    B = B
    C = C
    Threads = {A, B}
    Fds <- MCFds
    PeerOf <- MCPeerOf
    Calls <- MCCalls
    Program <- TwoMessages
    Selecting = {}
    QueueCap = 3
    SpuriousWakeups = FALSE
PROPERTY
    AllCallsReturn
CHECK_DEADLOCK FALSE
