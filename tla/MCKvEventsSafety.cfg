\* Every fault on every Python; two processes; the replay buffer forgets.
SPECIFICATION Spec
CONSTANTS
    MaxBatches = 5
    MaxProcesses = 2
    BufferSize = 2
    ReplayConfigs = {TRUE, FALSE}
    TimeoutIsCaught = {TRUE, FALSE}
    Faults = {"loss", "undecodable", "malformed", "timeout", "failure", "exit"}
    None = None
INVARIANTS
    TypeOK
    HealthyIsExact
    FreshAfterPoll
    EndedLoopIsDegraded
    FirstBatchStartsAnew
PROPERTIES
    AppliedInOrder
