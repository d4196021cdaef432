CONSTANTS
    w1 = w1
    w2 = w2
    NoWorker = NoWorker
    NoTask = 0
    NoKey = NoKey
    Tasks <- TwoTasks
    Workers = {w1, w2}
    LoopWorkers = {w1, w2}
    Keys = {}
    AgentKinds = {}
    MaxAttempts = 2
    SubmitKinds = {"continuous", "planning"}
    AuthorCommands = {"pause", "resume", "retry", "cancel", "confirm"}
    LateHeartbeats = TRUE
    MaxCrashes = 1
SYMMETRY LoopSymmetry
SPECIFICATION WSpec
CHECK_DEADLOCK FALSE
INVARIANT WTypeOK
INVARIANT LeaseIsTruthful
PROPERTY SettledByOwner
PROPERTY WriteRequeuedOnlyByOwner
