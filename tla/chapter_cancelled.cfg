CONSTANTS
    w1 = w1
    w2 = w2
    r1 = r1
    NoWorker = NoWorker
    Workers = {w1}
    Tasks = {1}
    MaxRevisions = 1
    PlanChapters = {1}
    MaxDisturbances = 3
    Chapters = {1, 2}
    CommitIds = {1}
    ReviewIds = {1}
    MaxVersion = 1
    EditStatuses = {}
    Callers = {}
    MaxCalls = 1
    MaxDeaths = 0
    Commands = {}
    Loops = {}
    Requests = {}
    NoHost = NoHost
    Grants = {}
    GatedTool = "gated"
    CommandNames = {}
    MaxDepartures = 0
    MaxStalls = 0
    Routers = {}
    MaxReservations = 0
    Total = 2
    CriticalReserve = 1
    Costs = {}
    Reports = {}
    Extra = 1
    MaxEstimate = 2
    MaxPlans = 2
    MaxLosses = 0
CONSTRAINT SceneBound
SPECIFICATION MCSpec
CHECK_DEADLOCK FALSE
PROPERTY CancelledIsInert
