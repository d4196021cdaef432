---------------------------- MODULE SimulationRuns --------------------------
(* The StoryFlow sandbox: simulation runs, their append-only event ledger, *)
(* branches, checkpoints and episodic memory (SimulationRepository), the   *)
(* engine that runs one round (SimulationRoundEngine), the handler of the  *)
(* durable task "simulation-round" (SimulationTaskHandlers), and the       *)
(* studio's endpoints.                                                     *)
(*                                                                         *)
(* A world is the sequence of the events applied to the snapshot: whatever *)
(* an event's state_delta does, two equal sequences give equal worlds.     *)
(* Left out: simulation time (a function of the round, and replay and      *)
(* recover both end by taking it from the row of the run), the read models *)
(* rebuilt from the ledger (graph, causal traces, activations, semantic    *)
(* memories), the run's configuration, and the cost ledger: the budget may *)
(* be found exhausted wherever it is looked at.  The statuses of a round   *)
(* task are those TaskRuntime gives it without the author's pause and      *)
(* cancellation, of which the handler takes no notice (a pause only makes  *)
(* the task one whose owner has lost its lease), and without a child to    *)
(* wait for, which it never has.                                           *)
EXTENDS Naturals, Sequences, FiniteSets, SequencesExt

CONSTANTS
    SimRuns,        \* ids of runs, 1 is there from the start, the others are branches of it
    Agents,         \* the agents of the sandbox
    MaxRounds,      \* max_rounds of every run
    Prints,         \* fingerprints of the payload of a round task
    Executors,      \* task workers
    Studio,         \* the studio's event loop: one request at a time
    NoExecutor,     \* the owner of a task nobody holds, or whose owner died
    MaxEvents,      \* bound: events of a run and the runs it descends from
    MaxTrouble      \* bound: requests, deaths of a process, and claims of a task whose
                    \* owner has lost its lease and lives on

ASSUME SimAssumption ==
    /\ SimRuns \subseteq Nat \ {0} /\ 1 \in SimRuns
    /\ IsFiniteSet(Agents)
    /\ MaxRounds \in Nat \ {0} /\ MaxEvents \in Nat
    /\ MaxTrouble \in Nat
    /\ Prints \subseteq Nat \ {0} /\ NoExecutor \notin Executors \cup {Studio}
    /\ Studio \notin Executors

VARIABLES
    simRun,     \* rows of simulation_runs and simulation_branches, last action of simulation_run_history
    ledger,     \* simulation_events: what each run appended itself
    remembered, \* simulation_agent_memories: <<run, sequence>> of the events with an episodic memory
    ckpt,       \* simulation_checkpoints of each run
    roundTask,  \* rows of tasks, by idempotency key
    exec,       \* what each process is doing
    fate        \* trouble so far, and whether a living worker lost its task

simVars == <<simRun, ledger, remembered, ckpt, roundTask, exec, fate>>

RunStatuses == {"DRAFT", "PREPARING", "READY", "RUNNING", "PAUSED", "PAUSED_BUDGET",
             "COMPLETED", "FAILED", "CANCELLED"}

RUN_STATUS_TRANSITIONS ==
    [DRAFT |-> {"PREPARING", "READY", "CANCELLED"},
     PREPARING |-> {"READY", "FAILED", "CANCELLED"},
     READY |-> {"RUNNING", "CANCELLED"},
     RUNNING |-> {"PAUSED", "PAUSED_BUDGET", "COMPLETED", "FAILED", "CANCELLED"},
     PAUSED |-> {"RUNNING", "CANCELLED"},
     PAUSED_BUDGET |-> {"RUNNING", "CANCELLED"},
     COMPLETED |-> {},
     FAILED |-> {"READY", "CANCELLED"},
     CANCELLED |-> {}]

\* The idempotency key of a round task names the run, the round and the payload;
\* print 0 is a preview, which has no task.
Key == [run: SimRuns, round: 1..MaxRounds, print: Prints]
Preview(r, n) == [run |-> r, round |-> n, print |-> 0]

Event == [seq: Nat, kind: {"action", "clock", "author"}, round: Nat,
          by: [run: SimRuns, round: Nat, print: Prints \cup {0}], agent: Agents \cup {0}]

Absent == [status |-> "absent", round |-> 0, task |-> {}, history |-> "UNARCHIVE", parent |-> 0, fork |-> 0]
NoWork == [pc |-> "idle", key |-> Preview(1, 0), path |-> "round", world |-> <<>>, batch |-> <<>>, todo |-> {}]

-----------------------------------------------------------------------------
(* Reading the sandbox.                                                    *)

RunExists(r) == simRun[r].status # "absent"

\* _assert_run_mutable: the last action of the history is not DELETE.
Mutable(r) == RunExists(r) /\ simRun[r].history # "DELETE"

\* The rows come ORDER BY sequence: how many of them are numbered up to n.
UpTo(events, n) == CHOOSE k \in 0..Len(events) : \A i \in DOMAIN events : events[i].seq <= n <=> i <= k

\* events: a branch sees its parent's events up to the fork, then its own.
EventsOf[r \in SimRuns] ==
    IF simRun[r].parent = 0
    THEN ledger[r]
    ELSE LET inherited == EventsOf[simRun[r].parent]
         IN  SubSeq(inherited, 1, UpTo(inherited, simRun[r].fork)) \o ledger[r]

\* rebuild_simulation_state; apply_event refuses a gap in the sequence.
Replays(world) == \A i \in DOMAIN world : world[i].seq = i

\* recover: the latest checkpoint and the events after it.
LastCheckpoint(r) == CHOOSE c \in ckpt[r] : \A d \in ckpt[r] : d.seq <= c.seq
RecoveredWorld(r) ==
    IF ckpt[r] = {}
    THEN EventsOf[r]
    ELSE LET all == EventsOf[r]
         IN  LastCheckpoint(r).world \o SubSeq(all, UpTo(all, LastCheckpoint(r).seq) + 1, Len(all))

\* What the transaction of append_event and append_actions expects next.
ExpectedSequence(r) == simRun[r].fork + Len(ledger[r]) + 1

\* Mutant: the transaction forgets the tombstone.
AcceptsDeleted(r, events) == RunExists(r) /\ events[1].seq = ExpectedSequence(r)

\* One transaction of the ledger: it takes the events or refuses all of them.
Accepts(r, events) == Mutable(r) /\ events[1].seq = ExpectedSequence(r)

Appended(r, events) ==
    /\ ledger' = [ledger EXCEPT ![r] = @ \o events]
    /\ simRun' = [simRun EXCEPT ![r].round = IF @ < events[1].round THEN events[1].round ELSE @]

-----------------------------------------------------------------------------
(* The ends of a handler.  Only the owner settles its task; an exception   *)
(* of any other handler, or of a preview, is lost.                         *)

Set(e, pc) == exec' = [exec EXCEPT ![e].pc = pc]
ExecAt(e, pc) == exec[e].pc = pc
KeyOf(e) == exec[e].key
RunOf(e) == exec[e].key.run
RoundOf(e) == exec[e].key.round

\* Mutant: the settled row keeps its owner.
TaskSettledOwned(e, status) ==
    IF e # Studio /\ roundTask[KeyOf(e)].owner = e
    THEN [roundTask EXCEPT ![KeyOf(e)].status = status]
    ELSE roundTask

TaskSettled(e, status) ==
    IF e # Studio /\ roundTask[KeyOf(e)].owner = e
    THEN [roundTask EXCEPT ![KeyOf(e)] = [status |-> status, owner |-> NoExecutor]]
    ELSE roundTask

HandlerEnds(e, status) ==
    /\ roundTask' = TaskSettled(e, status)
    /\ exec' = [exec EXCEPT ![e] = NoWork]

Raises(e) == HandlerEnds(e, "failed") /\ UNCHANGED <<simRun, ledger, remembered, ckpt, fate>>
Returns(e) == HandlerEnds(e, "completed") /\ UNCHANGED <<simRun, ledger, remembered, ckpt, fate>>
MovesOn(e, pc) == Set(e, pc) /\ UNCHANGED <<simRun, ledger, remembered, ckpt, roundTask, fate>>

-----------------------------------------------------------------------------
(* SimulationTaskHandlers.execute_round, up to the engine.                 *)

\* Mutant: the claim does not look at the lease.
ClaimsLeased(e, k) == roundTask[k].status \in {"queued", "running"} /\ roundTask[k].owner # e /\ fate' = fate

\* The worker may have the task because it was queued, because its last owner
\* died, or because the last owner lost the lease, which ran out or was given up
\* by a pause, and works on: the handler never looks at its lease.
Claims(e, k) ==
    \/ roundTask[k].status = "queued" /\ fate' = fate
    \/ roundTask[k].status = "running" /\ roundTask[k].owner = NoExecutor /\ fate' = fate
    \/ /\ roundTask[k].status = "running" /\ roundTask[k].owner \notin {e, NoExecutor}
       /\ fate.trouble < MaxTrouble
       /\ fate' = [trouble |-> fate.trouble + 1, takenOver |-> TRUE]

ClaimRound(e, k) ==
    /\ ExecAt(e, "idle") /\ e # Studio
    /\ Claims(e, k)
    /\ roundTask' = [roundTask EXCEPT ![k] = [status |-> "running", owner |-> e]]
    /\ exec' = [exec EXCEPT ![e] = [NoWork EXCEPT !.pc = "claimed", !.key = k]]
    /\ UNCHANGED <<simRun, ledger, remembered, ckpt>>

\* Mutant: the reconciliation restores nothing.
OwnActionsNone(k) == {}

\* What _reconcile_round finds of this task in the ledger.
OwnActions(k) == {i \in DOMAIN ledger[k.run] : ledger[k.run][i].kind = "action" /\ ledger[k.run][i].by = k}

ReconcileRound(e) ==
    /\ ExecAt(e, "claimed")
    /\ simRun[RunOf(e)].round >= RoundOf(e)
    /\ exec' = [exec EXCEPT ![e].pc = "remembering", ![e].path = "reconcile", ![e].todo = OwnActions(KeyOf(e))]
    /\ UNCHANGED <<simRun, ledger, remembered, ckpt, roundTask, fate>>

\* The run must be RUNNING, and persist_agent_activations refuses a deleted one.
ScheduleRound(e) ==
    /\ ExecAt(e, "claimed")
    /\ simRun[RunOf(e)].round < RoundOf(e)
    /\ IF simRun[RunOf(e)].status = "RUNNING" /\ Mutable(RunOf(e)) THEN MovesOn(e, "entering") ELSE Raises(e)

\* A budget found exhausted before a provider call, or after the round.  The
\* exception reaches _pause_for_budget, which reads the status before it asks
\* for PAUSED_BUDGET; then the task is done.  In _reconcile_round nobody
\* catches it.
BudgetStops(e) ==
    /\ e # Studio
    /\ \/ exec[e].pc \in {"entering", "deciding"}
       \/ exec[e].pc \in {"consolidating", "settling"} /\ exec[e].path = "round"
    /\ MovesOn(e, "pausing")

BudgetBreaks(e) ==
    /\ ExecAt(e, "consolidating") /\ exec[e].path = "reconcile"
    /\ Raises(e)

\* A provider fails: the worker queues the task again, or gives it up.
ProviderFails(e, status) ==
    /\ e # Studio /\ exec[e].pc \in {"deciding", "consolidating"}
    /\ HandlerEnds(e, status)
    /\ UNCHANGED <<simRun, ledger, remembered, ckpt, fate>>

PauseForBudget(e) ==
    /\ ExecAt(e, "pausing")
    /\ IF simRun[RunOf(e)].status = "RUNNING" THEN MovesOn(e, "halting") ELSE Returns(e)

\* transition_run: the same status is no transition, any other must be allowed.
MayTurn(r, status) ==
    Mutable(r) /\ (simRun[r].status = status \/ status \in RUN_STATUS_TRANSITIONS[simRun[r].status])

Turned(r, status) == simRun' = [simRun EXCEPT ![r].status = status]

HaltRun(e) ==
    /\ ExecAt(e, "halting")
    /\ IF MayTurn(RunOf(e), "PAUSED_BUDGET")
       THEN /\ Turned(RunOf(e), "PAUSED_BUDGET")
            /\ HandlerEnds(e, "completed")
            /\ UNCHANGED <<ledger, remembered, ckpt, fate>>
       ELSE Raises(e)

-----------------------------------------------------------------------------
(* SimulationRoundEngine.run_round.                                        *)

\* The run is read and checked, then the ledger is read.
EnterRound(e) ==
    /\ ExecAt(e, "entering")
    /\ LET r == RunOf(e)
       IN  IF simRun[r].status = "RUNNING" /\ simRun[r].round < RoundOf(e) /\ RoundOf(e) <= MaxRounds
           THEN MovesOn(e, "reading")
           ELSE Raises(e)

\* An action of this task that is there already is not decided again, but
\* remembered; the actions of a preview have ids of their own each time.
ReadRound(e) ==
    /\ ExecAt(e, "reading")
    /\ exec' = [exec EXCEPT ![e].pc = "deciding", ![e].world = EventsOf[RunOf(e)],
                   ![e].todo = IF e = Studio THEN {} ELSE OwnActions(KeyOf(e))]
    /\ UNCHANGED <<simRun, ledger, remembered, ckpt, roundTask, fate>>

KnownActors(e) ==
    {a \in Agents : e # Studio /\ \E i \in DOMAIN exec[e].world :
        exec[e].world[i].kind = "action" /\ exec[e].world[i].by = KeyOf(e) /\ exec[e].world[i].agent = a}

ActionEvents(e, actors, base) ==
    LET order == SetToSeq(actors)
    IN  [i \in DOMAIN order |-> [seq |-> base + i, kind |-> "action", round |-> RoundOf(e),
                                 by |-> KeyOf(e), agent |-> order[i]]]

ClockEvent(e, base) ==
    [seq |-> base + 1, kind |-> "clock", round |-> RoundOf(e), by |-> KeyOf(e), agent |-> 0]

\* The agents have decided.  append_actions replays the ledger once more before
\* it numbers the accepted actions; a round in which nobody acts appends a
\* ROUND_CLOCK event to the world the engine entered with.
DecideRound(e) ==
    /\ ExecAt(e, "deciding") /\ exec[e].todo = {}
    /\ \E actors \in SUBSET (Agents \ KnownActors(e)) :
          /\ Cardinality(actors) <= MaxEvents - Len(EventsOf[RunOf(e)])
          /\ exec' = [exec EXCEPT ![e].pc = "appending", ![e].world = <<>>,
                         ![e].batch = IF actors = {}
                                      THEN <<ClockEvent(e, Len(exec[e].world))>>
                                      ELSE ActionEvents(e, actors, Len(EventsOf[RunOf(e)]))]
    /\ UNCHANGED <<simRun, ledger, remembered, ckpt, roundTask, fate>>

AppendRound(e) ==
    /\ ExecAt(e, "appending")
    /\ LET r == RunOf(e)
       IN  IF Accepts(r, exec[e].batch)
           THEN /\ Appended(r, exec[e].batch)
                /\ exec' = [exec EXCEPT ![e].pc = "remembering", ![e].batch = <<>>,
                               ![e].todo = {i \in DOMAIN ledger'[r] : /\ i > Len(ledger[r])
                                                                      /\ ledger'[r][i].kind = "action"}]
                /\ UNCHANGED <<remembered, ckpt, roundTask, fate>>
           ELSE Raises(e)

\* remember_event, event by event; adding a memory that is there changes nothing.
RememberEvent(e) ==
    /\ exec[e].pc \in {"deciding", "remembering"} /\ exec[e].todo # {}
    /\ IF Mutable(RunOf(e))
       THEN LET i == CHOOSE i \in exec[e].todo : \A j \in exec[e].todo : i <= j
            IN  /\ remembered' = remembered \cup {<<RunOf(e), i>>}
                /\ exec' = [exec EXCEPT ![e].todo = @ \ {i}]
                /\ UNCHANGED <<simRun, ledger, ckpt, roundTask, fate>>
       ELSE Raises(e)

\* advance_round: the counter is behind, is there already, or has passed.
AdvanceRound(e) ==
    /\ ExecAt(e, "remembering") /\ exec[e].todo = {}
    /\ LET r == RunOf(e)
       IN  IF Mutable(r) /\ simRun[r].round <= RoundOf(e)
           THEN /\ simRun' = [simRun EXCEPT ![r].round = RoundOf(e)]
                /\ Set(e, "consolidating")
                /\ UNCHANGED <<ledger, remembered, ckpt, roundTask, fate>>
           ELSE Raises(e)

\* checkpoint: the world is replayed outside the transaction that stores it.
ReplayWorld(e) ==
    /\ ExecAt(e, "consolidating")
    /\ IF Mutable(RunOf(e))
       THEN /\ exec' = [exec EXCEPT ![e].pc = "checkpointing", ![e].world = EventsOf[RunOf(e)]]
            /\ UNCHANGED <<simRun, ledger, remembered, ckpt, roundTask, fate>>
       ELSE Raises(e)

\* Mutant: the sequence is read when the row is written, the world before.
CheckpointAtHead(e) == [seq |-> Len(EventsOf[RunOf(e)]), world |-> exec[e].world]

CheckpointOf(e) == [seq |-> Len(exec[e].world), world |-> exec[e].world]

WriteCheckpoint(e) ==
    /\ ExecAt(e, "checkpointing")
    /\ LET r == RunOf(e)
           taken == \E c \in ckpt[r] : c.seq = CheckpointOf(e).seq
       IN  IF Mutable(r)
           THEN /\ ckpt' = IF taken THEN ckpt
                           ELSE [ckpt EXCEPT ![r] = @ \cup {CheckpointOf(e)}]
                /\ exec' = [exec EXCEPT ![e].pc = "closing", ![e].world = <<>>]
                /\ UNCHANGED <<simRun, ledger, remembered, roundTask, fate>>
           ELSE Raises(e)

\* The last round completes the run; a reconciliation first looks whether it runs.
CloseRound(e) ==
    /\ ExecAt(e, "closing")
    /\ IF RoundOf(e) = MaxRounds /\ (exec[e].path = "round" \/ simRun[RunOf(e)].status = "RUNNING")
       THEN MovesOn(e, "completing")
       ELSE MovesOn(e, "settling")

CompleteRun(e) ==
    /\ ExecAt(e, "completing")
    /\ IF MayTurn(RunOf(e), "COMPLETED")
       THEN /\ Turned(RunOf(e), "COMPLETED")
            /\ Set(e, "settling")
            /\ UNCHANGED <<ledger, remembered, ckpt, roundTask, fate>>
       ELSE Raises(e)

SettleRound(e) == ExecAt(e, "settling") /\ Returns(e)

-----------------------------------------------------------------------------
(* Processes die; the lease of a dead owner runs out.                      *)

Fall(e) ==
    /\ ~ExecAt(e, "idle") /\ fate.trouble < MaxTrouble
    /\ exec' = [exec EXCEPT ![e] = NoWork]
    /\ roundTask' = [k \in Key |-> IF roundTask[k].owner = e THEN [roundTask[k] EXCEPT !.owner = NoExecutor]
                                                            ELSE roundTask[k]]
    /\ fate' = [fate EXCEPT !.trouble = @ + 1]
    /\ UNCHANGED <<simRun, ledger, remembered, ckpt>>

-----------------------------------------------------------------------------
(* The studio.  Its handlers are coroutines that never wait, so one        *)
(* request is finished before the next begins; only workers come between   *)
(* its transactions.                                                       *)

Request ==
    /\ ExecAt(Studio, "idle") /\ fate.trouble < MaxTrouble
    /\ fate' = [fate EXCEPT !.trouble = @ + 1]

\* POST .../status
TransitionRun(r, status) ==
    /\ Request
    /\ MayTurn(r, status) /\ simRun[r].status # status
    /\ Turned(r, status)
    /\ UNCHANGED <<ledger, remembered, ckpt, roundTask, exec>>

\* POST .../round-tasks reads the run and checks the round against it, and then
\* looks at the bound task, enqueues and binds.
AskRound(r, n, p) ==
    /\ Request
    /\ simRun[r].status = "RUNNING"
    /\ simRun[r].round < n /\ n <= MaxRounds
    /\ exec' = [exec EXCEPT ![Studio] = [NoWork EXCEPT !.pc = "enqueuing",
                                            !.key = [run |-> r, round |-> n, print |-> p]]]
    /\ UNCHANGED <<simRun, ledger, remembered, ckpt, roundTask>>

\* A second request for the bound task gets it back; another active one is in the
\* way (no worker makes a settled task active, so that looking first makes no
\* difference); enqueue returns the row that has the key already.
EnqueueRound ==
    /\ ExecAt(Studio, "enqueuing")
    /\ LET k == KeyOf(Studio)
           bound == simRun[RunOf(Studio)].task
           busy == \E b \in bound : roundTask[b].status \in {"queued", "running"}
       IN  IF bound = {k} \/ busy
           THEN exec' = [exec EXCEPT ![Studio] = NoWork] /\ UNCHANGED roundTask
           ELSE /\ roundTask' = [roundTask EXCEPT ![k].status = IF @ = "absent" THEN "queued" ELSE @]
                /\ Set(Studio, "binding")
    /\ UNCHANGED <<simRun, ledger, remembered, ckpt, fate>>

\* bind_task.  Only the author deletes a run, and not while it is RUNNING, as it was
\* when this request began: binding is not refused, and no task is cancelled for it.
BindRound ==
    /\ ExecAt(Studio, "binding")
    /\ simRun' = [simRun EXCEPT ![RunOf(Studio)].task = {KeyOf(Studio)}]
    /\ exec' = [exec EXCEPT ![Studio] = NoWork]
    /\ UNCHANGED <<ledger, remembered, ckpt, roundTask, fate>>

RetryRound(k) ==
    /\ Request
    /\ roundTask[k].status = "failed"
    /\ roundTask' = [roundTask EXCEPT ![k].status = "queued"]
    /\ UNCHANGED <<simRun, ledger, remembered, ckpt, exec>>

\* POST .../rounds: a preview runs the engine in the studio, without a task.
PreviewRound(r, n) ==
    /\ Request
    /\ RunExists(r)
    /\ exec' = [exec EXCEPT ![Studio] = [NoWork EXCEPT !.pc = "entering", !.key = Preview(r, n)]]
    /\ UNCHANGED <<simRun, ledger, remembered, ckpt, roundTask>>

\* POST .../interventions: intervene recovers the world, then appends.
AskIntervention(r, n) ==
    /\ Request
    /\ Mutable(r) /\ Len(EventsOf[r]) < MaxEvents
    /\ exec' = [exec EXCEPT ![Studio] = [NoWork EXCEPT !.pc = "intervening", !.key = Preview(r, n),
          !.batch = <<[seq |-> Len(EventsOf[r]) + 1, kind |-> "author", round |-> n,
                       by |-> Preview(r, n), agent |-> 0]>>]]
    /\ UNCHANGED <<simRun, ledger, remembered, ckpt, roundTask>>

Intervene ==
    /\ ExecAt(Studio, "intervening")
    /\ IF Accepts(RunOf(Studio), exec[Studio].batch)
       THEN Appended(RunOf(Studio), exec[Studio].batch)
       ELSE UNCHANGED <<simRun, ledger>>
    /\ exec' = [exec EXCEPT ![Studio] = NoWork]
    /\ UNCHANGED <<remembered, ckpt, roundTask, fate>>

\* POST .../branches: the fork lies within the parent's ledger, and the branch
\* starts READY in the round of the fork.  The parent's events up to the fork
\* never change, so that reading them first makes no difference.
CreateBranch(r, child, fork) ==
    /\ Request
    /\ Mutable(r) /\ ~RunExists(child)
    /\ r < child
    /\ fork <= Len(EventsOf[r])
    /\ simRun' = [simRun EXCEPT ![child] =
          [Absent EXCEPT !.status = "READY", !.parent = r, !.fork = fork,
                         !.round = IF fork = 0 THEN 0 ELSE EventsOf[r][fork].round]]
    /\ UNCHANGED <<ledger, remembered, ckpt, roundTask, exec>>

\* The History endpoints: _append_history_action under the checks of its callers.
\* No worker makes a run RUNNING, so that the status read first is still refused.
ArchiveRun(r) ==
    /\ Request
    /\ Mutable(r) /\ simRun[r].status # "RUNNING" /\ simRun[r].history # "ARCHIVE"
    /\ simRun' = [simRun EXCEPT ![r].history = "ARCHIVE"]
    /\ UNCHANGED <<ledger, remembered, ckpt, roundTask, exec>>

UnarchiveRun(r) ==
    /\ Request
    /\ Mutable(r) /\ simRun[r].history = "ARCHIVE"
    /\ simRun' = [simRun EXCEPT ![r].history = "UNARCHIVE"]
    /\ UNCHANGED <<ledger, remembered, ckpt, roundTask, exec>>

DeleteRun(r) ==
    /\ Request
    /\ Mutable(r) /\ simRun[r].status # "RUNNING"
    /\ simRun' = [simRun EXCEPT ![r].history = "DELETE"]
    /\ UNCHANGED <<ledger, remembered, ckpt, roundTask, exec>>

-----------------------------------------------------------------------------

SimInit ==
    /\ simRun = [r \in SimRuns |-> IF r = 1 THEN [Absent EXCEPT !.status = "RUNNING"] ELSE Absent]
    /\ ledger = [r \in SimRuns |-> <<>>]
    /\ remembered = {}
    /\ ckpt = [r \in SimRuns |-> {}]
    /\ roundTask = [k \in Key |-> [status |-> "absent", owner |-> NoExecutor]]
    /\ exec = [e \in Executors \cup {Studio} |-> NoWork]
    /\ fate = [trouble |-> 0, takenOver |-> FALSE]

RoundStep(e) ==
    \/ EnterRound(e) \/ ReadRound(e) \/ DecideRound(e) \/ AppendRound(e) \/ RememberEvent(e) \/ AdvanceRound(e)
    \/ ReplayWorld(e) \/ WriteCheckpoint(e) \/ CloseRound(e) \/ CompleteRun(e)
    \/ SettleRound(e) \/ Fall(e)

WorkerStep(e) ==
    \/ \E k \in Key : ClaimRound(e, k)
    \/ ReconcileRound(e) \/ ScheduleRound(e)
    \/ \E status \in {"queued", "failed"} : ProviderFails(e, status)
    \/ BudgetStops(e) \/ BudgetBreaks(e) \/ PauseForBudget(e) \/ HaltRun(e)

StudioStep(r) ==
    \/ \E status \in RunStatuses : TransitionRun(r, status)
    \/ \E n \in 1..MaxRounds, p \in Prints : AskRound(r, n, p)
    \/ \E n \in 1..MaxRounds : PreviewRound(r, n)
    \/ \E n \in 0..MaxRounds + 1 : AskIntervention(r, n)
    \/ \E child \in SimRuns, fork \in 0..MaxEvents : CreateBranch(r, child, fork)
    \/ ArchiveRun(r) \/ UnarchiveRun(r) \/ DeleteRun(r)

SimNext ==
    \/ \E e \in Executors \cup {Studio} : RoundStep(e)
    \/ \E e \in Executors : WorkerStep(e)
    \/ \E r \in SimRuns : RunExists(r) /\ StudioStep(r)
    \/ EnqueueRound \/ BindRound \/ Intervene
    \/ \E k \in Key : RetryRound(k)

SimSpec == SimInit /\ [][SimNext]_simVars

-----------------------------------------------------------------------------
(* Properties.                                                             *)

RunRow == [status: RunStatuses \cup {"absent"}, round: Nat, task: SUBSET Key,
           history: {"ARCHIVE", "UNARCHIVE", "DELETE"}, parent: SimRuns \cup {0}, fork: Nat]
RoundTaskRow == [status: {"absent", "queued", "running", "completed", "failed"}, owner: Executors \cup {NoExecutor}]
ExecRow == [pc: {"idle", "claimed", "entering", "reading", "deciding", "appending", "remembering", "consolidating",
              "checkpointing", "closing", "completing", "settling", "pausing", "halting",
              "enqueuing", "binding", "intervening"},
         key: [run: SimRuns, round: Nat, print: Prints \cup {0}], path: {"round", "reconcile"},
         world: Seq(Event), batch: Seq(Event), todo: SUBSET Nat]

\* The tables and the processes are well formed; only a running task has an owner.
SimTypeOK ==
    /\ simRun \in [SimRuns -> RunRow]
    /\ ledger \in [SimRuns -> Seq(Event)]
    /\ remembered \subseteq SimRuns \X Nat
    /\ \A r \in SimRuns : \A c \in ckpt[r] : c.seq \in Nat /\ c.world \in Seq(Event)
    /\ roundTask \in [Key -> RoundTaskRow]
    /\ \A k \in Key : roundTask[k].owner = NoExecutor \/ roundTask[k].status = "running"
    /\ exec \in [Executors \cup {Studio} -> ExecRow]
    /\ fate \in [trouble: 0..MaxTrouble, takenOver: BOOLEAN]

\* Recovery from the last checkpoint and the replay of the whole ledger, through
\* the parent for a branch, give the same world, without a gap: whoever appends
\* to the run or its parent while a checkpoint is being taken.
RecoverIsReplay ==
    \A r \in SimRuns : RunExists(r) => Replays(EventsOf[r]) /\ RecoveredWorld(r) = EventsOf[r]

\* Unless a lease was taken over from a living worker, a round task acts once,
\* however often its handlers die or fail and are retried.
ActsOnce ==
    ~fate.takenOver =>
        \A r \in SimRuns : \A i, j \in DOMAIN ledger[r] :
            /\ ledger[r][i].kind = "action" /\ ledger[r][i].by.print # 0
            /\ ledger[r][j].kind = "action" /\ ledger[r][j].by = ledger[r][i].by
            /\ ledger[r][i].agent = ledger[r][j].agent
            => i = j

\* ... and when it has completed, each of its actions is in its agent's memory.
ActsAreRemembered ==
    ~fate.takenOver =>
        \A k \in Key : roundTask[k].status = "completed" =>
            \A i \in DOMAIN ledger[k.run] :
                ledger[k.run][i].kind = "action" /\ ledger[k.run][i].by = k => <<k.run, i>> \in remembered

\* A deleted run stays as it is: no retry, restart or late answer of a handler
\* that was under way moves its row, its ledger or its checkpoints.
Tombstone ==
    \A r \in SimRuns :
        simRun[r].history = "DELETE"
        => simRun'[r] = simRun[r] /\ ledger'[r] = ledger[r] /\ ckpt'[r] = ckpt[r]
TombstoneHolds == [][Tombstone]_simVars
=============================================================================
