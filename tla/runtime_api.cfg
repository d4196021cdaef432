CONSTANTS
    w1 = w1
    w2 = w2
    NoWorker = NoWorker
    NoTask = 0
    NoKey = NoKey
    Tasks <- TwoTasks
    Workers = {w1, w2}
    Keys = {k1}
    AgentKinds = {}
    MaxAttempts = 2
    Plans = {1}
    Adoptions = {2}
    Branches = {3}
    StoryCommits = {1, 2}
    Threads = {t1}
    Host = host
    Deltas <- SomeDeltas
    MaxStory = 2
    MaxMoves = 3
SYMMETRY WorkerSymmetry
SPECIFICATION PlanningSpec
CHECK_DEADLOCK FALSE
INVARIANT ConfirmedOnce
PROPERTY PlanKept
INVARIANT TypeOK
INVARIANT LeaseIffActive
INVARIANT KeysUnique
PROPERTY KeepsLifecycle
