SPECIFICATION ScriptSpec
CONSTANTS
    A = A
    B = B
    C = C
    Threads = {A, B}
    Fds <- MCFds
    PeerOf <- MCPeerOf
    Calls <- MCCalls
    Program <- AnswerAndClose
    Selecting = {}
    QueueCap = 3
    SpuriousWakeups = FALSE
INVARIANT
    NoUseAfterFree
CHECK_DEADLOCK FALSE
