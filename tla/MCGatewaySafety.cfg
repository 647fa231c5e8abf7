\* Every await may be cancelled; nobody assumed fair.
SPECIFICATION Spec
CONSTANTS
    Requests = {r1, r2, r3}
    Nodes = {n1, n2}
    GroupLimit = 2
    UncaughtErrors = TRUE
    None = None
    Works = {1, 2}
    CancelPoints = {"waiting", "waking", "opening", "refusing", "starting",
                    "streaming", "yielded", "reading", "closing"}
SYMMETRY Symmetry
INVARIANTS
    TypeOK
    ReservationsBalanced
    WorkBalanced
    PendingIsOwned
    OutcomeIsHonest
PROPERTIES
    PlanIsAtomic
    ImplementsLedger
