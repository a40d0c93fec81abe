\* Room for two pairs in the kernel, one descriptor more than in the table.
SPECIFICATION Spec
CONSTANTS
    Threads = {a, b, c}
    a = a
    b = b
    c = c
    Capacity = 3
    FdLimit = 4
    MaxPairs = 3
SYMMETRY Sym
INVARIANTS TableInv HeldHasEntry
PROPERTIES FailsForAReason
\* The pairs are used up.
CHECK_DEADLOCK FALSE
