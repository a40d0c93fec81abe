SPECIFICATION Spec
CONSTANTS
    Order <- MCOrder
    Parent <- MCParent
    Type <- MCType
    History = {"R"}
    NoState = "none"
    Targets = {"C", "none"}
    MaxPosted = 2
INVARIANTS
    TypeOK
    LegalConfiguration
    ActiveAreReady
    HeardByReady
    ExitsOnlyReady
PROPERTIES
    OthersUndisturbed
    CallsEnd
