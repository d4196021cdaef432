SPECIFICATION SandboxSpec
INVARIANT STypeOK
INVARIANT CountedIsAccepted
INVARIANT GateIsHard
INVARIANT FinishedIsWhole
INVARIANT SimTypeOK
INVARIANT RecoverIsReplay
INVARIANT ActsOnce
INVARIANT ActsAreRemembered
PROPERTY TombstoneHolds
SYMMETRY WorkerSymmetry

CONSTANTS
    Tasks <- SevenTasks
    Workers = {w1, w2}
    NoWorker = NoWorker
    NoTask = 0
    Keys <- SessionKeys
    NoKey = NoKey
    AgentKinds = {}
    MaxAttempts = 2
    Count = 3
    Interval = 2
    MaxVersion = 2
    Requests = {r1}
    MaxDecisions = 2
    Commands = {"pause", "resume", "retry", "cancel"}
    MaxCrashes = 1
    SimRuns = {1, 2}
    Agents = {1}
    MaxRounds = 2
    Prints = {1}
    Executors = {w1, w2}
    Studio = studio
    NoExecutor = NoExecutor
    MaxEvents = 2
    MaxTrouble = 3
CHECK_DEADLOCK FALSE
