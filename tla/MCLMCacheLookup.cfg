\* Two domains, two requests, two adapters; every fault.
SPECIFICATION Spec
CONSTANTS
    Domains = {d1, d2}
    Queries = {q1, q2}
    Adapters = 2
    Chunks = 2
    WorldSize = 2
    HitSets <- MCHitSets
    Faults = {"refused", "foreign", "broken", "server_timeout"}
SYMMETRY Symmetry
INVARIANTS
    StatusTellsMatches
    MatchIsBacked
    PrefixIsLongest
    LockHasOwner
CHECK_DEADLOCK FALSE
