CONSTANTS
    w1 = w1
    w2 = w2
    r1 = r1
    NoWorker = NoWorker
    Workers = {w1, w2}
    Tasks = {1, 2}
    MaxRevisions = 1
    PlanChapters = {1}
    MaxDisturbances = 4
    Chapters = {1, 2}
    CommitIds = {1, 2, 3}
    ReviewIds = {1, 2}
    MaxVersion = 3
    EditStatuses = {"drafted"}
    Callers = {w1, w2}
    MaxCalls = 3
    MaxDeaths = 2
    Commands = {1, 2}
    Loops = {w1, w2}
    Requests = {r1}
    NoHost = NoHost
    Grants = {1}
    GatedTool = "gated"
    CommandNames = {"task.enqueue", "approval.request", "approval.approve", "approval.reject", "approval.revoke", "compute.escalation.request", "compute.escalate"}
    MaxDepartures = 1
    MaxStalls = 1
    Routers = {w1, w2}
    MaxReservations = 2
    Total = 2
    CriticalReserve = 1
    Costs = {1}
    Reports = {1}
    Extra = 1
    MaxEstimate = 2
    MaxPlans = 2
    MaxLosses = 1
SYMMETRY WorkerSymmetry
CONSTRAINT SceneBound
SPECIFICATION MCSpec
CHECK_DEADLOCK FALSE
INVARIANT TypeOK
INVARIANT CanonIsHead
INVARIANT CanonMirror
INVARIANT DerivedIsReplay
INVARIANT LedgersAgree
INVARIANT FirstAnswerSuffices
INVARIANT GrantSpentOnce
INVARIANT OneTaskPerCommand
INVARIANT BudgetTypeOK
INVARIANT BudgetKept
INVARIANT ReservationsReturn
PROPERTY SettledByClaimant
PROPERTY AnswerIsKept
PROPERTY EditInvalidates
PROPERTY CompletedIsCanon
