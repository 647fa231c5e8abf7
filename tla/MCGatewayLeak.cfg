\* A client disconnects while its stream runs or while its upstream session
\* is being closed.
SPECIFICATION Spec
CONSTANTS
    Requests = {r1, r2}
    Nodes = {n1}
    Works = {1}
    GroupLimit = 2
    CancelPoints = {"streaming", "closing"}
    UncaughtErrors = FALSE
    None = None
INVARIANTS
    IdleMeansNoLoad
