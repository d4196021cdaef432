CONSTANTS
    w1 = w1
    w2 = w2
    NoWorker = NoWorker
    NoTask = 0
    NoKey = NoKey
    Tasks <- OneTask
    Workers = {w1, w2}
    LoopWorkers = {w1, w2}
    Keys = {}
    AgentKinds = {}
    MaxAttempts = 2
    SubmitKinds = {"review"}
    AuthorCommands = {"pause", "resume"}
    LateHeartbeats = FALSE
    MaxCrashes = 0
SPECIFICATION WSpec
CHECK_DEADLOCK FALSE
INVARIANT NoConcurrentHandlers
