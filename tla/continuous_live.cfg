SPECIFICATION LFairSpec
PROPERTY SessionRests
PROPERTY CommandAnswered

CONSTANTS
    Tasks <- SixTasks
    Workers = {w1, w2}
    NoWorker = NoWorker
    NoTask = 0
    Keys <- SessionKeys
    NoKey = NoKey
    AgentKinds = {}
    MaxAttempts = 2
    Count = 2
    Interval = 2
    MaxVersion = 2
    Requests = {r1}
    MaxDecisions = 2
    Commands = {"pause", "resume", "retry", "cancel"}
    MaxCrashes = 0
    Submitted = {1, 2}
    Loops = {h1, h2}
    NoHost = NoHost
    GatedTool = "gated"
    MaxDepartures = 1
    MaxStalls = 1
CHECK_DEADLOCK FALSE
