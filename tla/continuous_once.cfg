SPECIFICATION CSpec
INVARIANT AppliedOnce

CONSTANTS
    Tasks <- FiveTasks
    Workers = {w1}
    NoWorker = NoWorker
    NoTask = 0
    Keys <- SessionKeys
    NoKey = NoKey
    AgentKinds = {}
    MaxAttempts = 2
    Count = 2
    Interval = 1
    MaxVersion = 1
    Requests = {r1}
    MaxDecisions = 2
    Commands = {}
    MaxCrashes = 0
CHECK_DEADLOCK FALSE
