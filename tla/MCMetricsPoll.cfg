\* Three nodes that fail and come back, bad texts and a shutdown at any time.
SPECIFICATION FairSpecPoll
CONSTANTS
    Last = 3
INVARIANTS
    SweepTellsAll
PROPERTIES
    PlansFollowHealth
    ShutdownIsComplete
