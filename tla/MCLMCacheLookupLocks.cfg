\* One query at one adapter that times out.
SPECIFICATION Spec
CONSTANTS
    Domains = {d1}
    Queries = {q1}
    Adapters = 1
    Chunks = 2
    WorldSize = 2
    HitSets <- MCHitSets
    Faults = {"server_timeout"}
INVARIANTS
    LookupIsReadOnly
CHECK_DEADLOCK FALSE
