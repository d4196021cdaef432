CONSTANTS
    w1 = w1
    w2 = w2
    NoWorker = NoWorker
    NoTask = 0
    NoKey = NoKey
    Tasks <- OneTask
    Workers = {w1}
    LoopWorkers = {w1}
    Keys = {}
    AgentKinds = {}
    MaxAttempts = 2
    SubmitKinds = {"review"}
    AuthorCommands = {"pause"}
    LateHeartbeats = FALSE
    MaxCrashes = 0
SPECIFICATION WSpec
CHECK_DEADLOCK FALSE
INVARIANT LoopSurvives
