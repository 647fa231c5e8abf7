\* Python 3.10, where asyncio.TimeoutError is not TimeoutError.
SPECIFICATION Spec
CONSTANTS
    MaxBatches = 3
    MaxProcesses = 1
    BufferSize = 2
    ReplayConfigs = {TRUE}
    TimeoutIsCaught = {FALSE}
    Faults = {"loss", "timeout"}
    None = None
INVARIANTS
    DeadListenerIsDegraded
