SPECIFICATION ScriptSpec
CONSTANTS
    A = A
    B = B
    C = C
    Threads = {A, B, C}
    Fds <- MCFds
    PeerOf <- MCPeerOf
    Calls <- MCCalls
    Program <- General
    Selecting = {}
    QueueCap = 3
    SpuriousWakeups = TRUE
INVARIANTS
    TypeOK
    MutexExcludes
    CounterMirrors
    NoLostReadWakeup
    IndInv
    UnpairedIsClosed
PROPERTIES
    DrainersWokenWhenEmpty
    CloseReleasesSleepers
    ImplementsPipe
CHECK_DEADLOCK FALSE
