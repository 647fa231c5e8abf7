\* Four requests in groups of up to two; bodies of up to four lines, cut twice.
SPECIFICATION SpecFeedback
CONSTANTS
    Nodes = {1, 2}
    History = 2
    LocalMin = 2
    GroupLimit = 2
    Shares = {1, 2}
    Rate <- MCRate
    MaxRequests = 4
    LineKinds <- MCLineKinds
    MaxLines = 4
    None = None
INVARIANTS
    TypeOK
    OutputIsHeard
    PredictionIsLeastSquares
    LearnsTheRate
    NeverUnderestimates
