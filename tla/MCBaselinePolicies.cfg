\* Each policy: four requests in groups of up to three, on three nodes that
\* come and go.
SPECIFICATION FairSpec
CONSTANTS
    Nodes = {1, 2, 3}
    Depths <- MCDepths
    Prompts <- MCPrompts
    PrefixTokens = 2
    Hash <- MCHash
    GroupLimit = 3
    MaxRequests = 4
    Ending = {1}
    None = None
INVARIANTS
    RoundRobinCycles
    PrefixAffinity
PROPERTIES
    GroupIsLevelled
    ImplementsAssignment
