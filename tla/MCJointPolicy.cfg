\* Three requests and two nodes, every snapshot.
SPECIFICATION Spec
CONSTANTS
    Requests = {1, 2, 3}
    Nodes = {1, 2}
    Prefill <- MCPrefill
    DecodeCost = 1
    TransferCost <- MCTransferCost
    BaseLatency <- MCBaseLatency
    MaxTokens = 4
    BlockSize = 4
    Matches <- MCMatches
    include_external_cache = TRUE
    States <- MCStates
    Slope = 1
    Penalty = 4
    HighWatermark = 60
    HardLimit = 95
    None = None
INVARIANTS
    VirtualLoadIsLedger
    EveryRequestAssigned
PROPERTIES
    ScarceNodeIsKept
    NoAvoidableOverflow
    ImplementsAssignment
