\* Every await may be cancelled and the upstream may fail in every way; the
\* event loop is fair.
SPECIFICATION FairSpec
CONSTANTS
    Requests = {r1, r2, r3}
    Nodes = {n1}
    GroupLimit = 2
    None = None
    Works = {1}
    CancelPoints = {"waiting", "waking", "opening", "refusing", "starting",
                    "streaming", "yielded", "reading", "closing"}
    UncaughtErrors = TRUE
PROPERTIES
    EveryRequestAnswered
    EveryReservationReleased
