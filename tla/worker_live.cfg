CONSTANTS
    w1 = w1
    w2 = w2
    NoWorker = NoWorker
    NoTask = 0
    NoKey = NoKey
    Tasks <- TwoTasks
    Workers = {w1, w2}
    LoopWorkers = {w1}
    Keys = {}
    AgentKinds = {}
    MaxAttempts = 2
    SubmitKinds = {"continuous"}
    AuthorCommands = {"cancel"}
    LateHeartbeats = FALSE
    MaxCrashes = 0
SPECIFICATION WFairSpec
CHECK_DEADLOCK FALSE
PROPERTY ActiveSettles
PROPERTY QueueDrains
PROPERTY ParentWakes
