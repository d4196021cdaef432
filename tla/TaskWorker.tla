----------------------------- MODULE TaskWorker -----------------------------
(***************************************************************************)
(* The worker processes of src/src/core/task_worker.py running handlers on *)
(* the rows of TaskRuntime, while the author pauses, resumes, retries and  *)
(* cancels, leases run out, and processes crash and start again.           *)
(*                                                                         *)
(* Between two calls of the runtime a worker holds only local state: the   *)
(* task it was handed, the status it last read and what its handler        *)
(* returned.  Every such gap is a place where another actor may move.      *)
(***************************************************************************)
EXTENDS TaskRuntime

CONSTANTS
    LoopWorkers,        \* run run_forever; the others serve one HTTP request at a time
    SubmitKinds,        \* kinds the environment enqueues
    AuthorCommands,     \* commands the author may give
    LateHeartbeats,     \* TRUE: a stalled process may miss its own lease deadline
    MaxCrashes          \* bound on process crashes

ASSUME WorkerAssumption ==
    /\ LoopWorkers \subseteq Workers
    /\ SubmitKinds \subseteq Kinds
    /\ AuthorCommands \subseteq {"pause", "resume", "retry", "cancel", "confirm"}
    /\ LateHeartbeats \in BOOLEAN
    /\ MaxCrashes \in Nat

VARIABLES worker, crashes

vars2 == <<task, worker, crashes>>

(***************************************************************************)
(* Where a worker is in execute_claimed:                                   *)
(*   working     the handler runs                                          *)
(*   boundary    the handler has read the task's status (field seen)       *)
(*   returned    the handler has returned (field outcome)                  *)
(*   deciding    the worker has read the status after the handler          *)
(*   cancelling  it saved the safe-boundary checkpoint of a cancellation   *)
(*   failing     an exception reached `except' and fail() comes next       *)
(*   ended       an exception left run_forever: the loop is over           *)
(*   crashed     the process died                                          *)
(***************************************************************************)
Points == {"idle", "working", "boundary", "returned", "deciding", "cancelling", "failing",
           "ended", "crashed"}
Outcomes == {"none", "done", "incomplete", "bad", "defer", "retryable", "fatal"}

Idle == [pc |-> "idle", job |-> NoTask, seen |-> "none", outcome |-> "none",
         child |-> NoTask, beating |-> FALSE]
Gone(p) == [Idle EXCEPT !.pc = p]

Alive(w) == worker[w].pc \notin {"ended", "crashed"}
Handling(w, t) == worker[w].job = t

\* Worker w's next local state.
Goes(w, local) == worker' = [worker EXCEPT ![w] = local]
At(w, p) == worker[w].pc = p
Job(w) == worker[w].job
Seen(w) == worker[w].seen

\* The statuses a read tells from the rest.
Noticed(t) == task[t].status \in {"running", "cancelling", "paused"}

\* A runtime call refused with TaskStateError surfaces in the `except' clause.
Raises(w) == Goes(w, [worker[w] EXCEPT !.pc = "failing", !.outcome = "fatal", !.seen = "none",
                                       !.child = NoTask])
Refused(w, possible) == ~possible /\ Raises(w) /\ UNCHANGED task

-----------------------------------------------------------------------------
(* Taking work.                                                            *)

Started(t) == [Idle EXCEPT !.pc = "working", !.job = t, !.beating = TRUE]

\* execute_once, in the loop.
Take(w) ==
    /\ w \in LoopWorkers
    /\ At(w, "idle")
    /\ \E t \in Tasks : Claim(w, t) /\ Goes(w, Started(t))
    /\ UNCHANGED crashes

\* execute_task, for one HTTP request.
TakeById(w) ==
    /\ w \notin LoopWorkers
    /\ At(w, "idle")
    /\ \E t \in Tasks : ClaimById(w, t) /\ Goes(w, Started(t))
    /\ UNCHANGED crashes

\* No handler is registered for the kind.  The call is outside the try block.
NoHandler(w) ==
    /\ At(w, "working")
    /\ task[Job(w)].kind = "planning"
    /\ \/ Transition(Job(w), "needs_author_decision", w) /\ Goes(w, Idle)
       \/ /\ ~CanTransition(Job(w), "needs_author_decision", w)
          /\ Goes(w, IF w \in LoopWorkers THEN Gone("ended") ELSE Idle)
          /\ UNCHANGED task
    /\ UNCHANGED crashes

\* The heartbeat stops for good at the first renewal that finds no lease.
Heartbeat(w) ==
    /\ worker[w].beating
    /\ Job(w) # NoTask
    /\ \/ RenewLease(w, Job(w)) /\ task[Job(w)].expired /\ UNCHANGED worker
       \/ /\ ~(task[Job(w)].status = "running" /\ task[Job(w)].owner = w)
          /\ Goes(w, [worker[w] EXCEPT !.beating = FALSE])
          /\ UNCHANGED task
    /\ UNCHANGED crashes

-----------------------------------------------------------------------------
(* Inside a handler.                                                       *)

InHandler(w) == At(w, "working") /\ task[Job(w)].kind # "planning"

\* A handler of LegacyTaskHandlers checkpoints without naming its lease, the
\* writing pipeline names it.
HandlerCheckpoints(w) ==
    /\ InHandler(w)
    /\ \E as \in {w, NoWorker} :
        \/ Checkpoint(Job(w), as) /\ UNCHANGED worker
        \/ Refused(w, CanCheckpoint(Job(w), as))
    /\ UNCHANGED crashes

\* The pipeline reads the status before and after every stage; it goes on
\* working on any status but these three ...
HandlerLooks(w) ==
    /\ InHandler(w)
    /\ Noticed(Job(w))
    /\ Goes(w, [worker[w] EXCEPT !.pc = "boundary", !.seen = task[Job(w)].status])
    /\ UNCHANGED <<task, crashes>>

\* ... to stop where the author asked it to, or to save the stage.
HandlerAtBoundary(w) ==
    /\ At(w, "boundary")
    /\ LET t == Job(w)
           on == [worker[w] EXCEPT !.pc = "working", !.seen = "none"]
           returned == [on EXCEPT !.pc = "returned", !.outcome = "incomplete"]
           as == IF Seen(w) = "paused" THEN NoWorker ELSE w
       IN  \/ /\ Seen(w) = "cancelling"
              /\ \/ Transition(t, "cancelled", w) /\ Goes(w, returned)
                 \/ Refused(w, CanTransition(t, "cancelled", w))
           \/ Seen(w) = "paused" /\ Goes(w, returned) /\ UNCHANGED task
           \/ Checkpoint(t, as) /\ Goes(w, on)
           \/ Refused(w, CanCheckpoint(t, as))
           \/ Seen(w) = "running" /\ Goes(w, on) /\ UNCHANGED task
    /\ UNCHANGED crashes

\* A quality or planning gate: the handler hands the task to the author itself.
HandlerStops(w) ==
    /\ InHandler(w)
    /\ \/ /\ Transition(Job(w), "needs_author_decision", w)
          /\ Goes(w, [worker[w] EXCEPT !.pc = "returned", !.outcome = "incomplete"])
       \/ Refused(w, CanTransition(Job(w), "needs_author_decision", w))
    /\ UNCHANGED crashes

HandlerReturns(w) ==
    /\ InHandler(w)
    /\ \E o \in {"done", "incomplete", "bad"} :
        Goes(w, [worker[w] EXCEPT !.pc = "returned", !.outcome = o])
    /\ UNCHANGED <<task, crashes>>

HandlerRaises(w) ==
    /\ InHandler(w)
    /\ \E o \in {"retryable", "fatal"} :
        Goes(w, [worker[w] EXCEPT !.pc = "failing", !.outcome = o])
    /\ UNCHANGED <<task, crashes>>

\* The continuous-writing handler queues a child ...
HandlerSchedules(w) ==
    /\ InHandler(w)
    /\ task[Job(w)].kind = "continuous"
    /\ \E t \in Tasks : Enqueue(t, "write", NoKey, "queued", FALSE)
    /\ UNCHANGED <<worker, crashes>>

\* ... and asks to wait for a child it has found unfinished.
HandlerDefers(w) ==
    /\ InHandler(w)
    /\ task[Job(w)].kind = "continuous"
    /\ \E c \in Tasks \ {Job(w)} :
        /\ Exists(c) /\ task[c].kind = "write" /\ task[c].status \notin ChildDone
        /\ Goes(w, [worker[w] EXCEPT !.pc = "returned", !.outcome = "defer", !.child = c])
    /\ UNCHANGED <<task, crashes>>

-----------------------------------------------------------------------------
(* After the handler.                                                      *)

Defer(w) ==
    /\ At(w, "returned")
    /\ worker[w].outcome = "defer"
    /\ \/ DeferUntilChild(Job(w), worker[w].child, w) /\ Goes(w, Idle)
       \/ Refused(w, CanDefer(Job(w), worker[w].child, w))
    /\ UNCHANGED crashes

\* Mutant of ReadStatus: a task that is being cancelled is left as it is, too.
ReadStatusRunning(w) ==
    /\ At(w, "returned")
    /\ worker[w].outcome # "defer"
    /\ Goes(w, IF task[Job(w)].status = "running"
               THEN [worker[w] EXCEPT !.pc = "deciding", !.seen = task[Job(w)].status]
               ELSE Idle)
    /\ UNCHANGED <<task, crashes>>

\* A task that is no longer active is left as it is.
ReadStatus(w) ==
    /\ At(w, "returned")
    /\ worker[w].outcome # "defer"
    /\ Goes(w, IF task[Job(w)].status \in Active
               THEN [worker[w] EXCEPT !.pc = "deciding", !.seen = task[Job(w)].status]
               ELSE Idle)
    /\ UNCHANGED <<task, crashes>>

TargetOf(outcome) ==
    CASE outcome = "done" -> "completed"
      [] outcome = "bad" -> "failed"
      [] OTHER -> "needs_author_decision"

\* Settle the task on the status read a moment ago.  A chapter's completion is
\* refused unless its StoryCommit is accepted (_validate_chapter_completion).
Settle(w) ==
    /\ At(w, "deciding")
    /\ LET t == Job(w)
           target == TargetOf(worker[w].outcome)
       IN  \/ /\ Seen(w) = "running"
              /\ \/ Transition(t, target, w) /\ Goes(w, Idle)
                 \/ Refused(w, CanTransition(t, target, w))
                 \/ /\ target = "completed" /\ task[t].kind = "write"
                    /\ Raises(w) /\ UNCHANGED task
           \/ /\ Seen(w) = "cancelling"
              /\ \/ /\ CanCheckpoint(t, w)
                    /\ Goes(w, [worker[w] EXCEPT !.pc = "cancelling"])
                    /\ UNCHANGED task
                 \/ Refused(w, CanCheckpoint(t, w))
    /\ UNCHANGED crashes

SettleCancelled(w) ==
    /\ At(w, "cancelling")
    /\ \/ Transition(Job(w), "cancelled", w) /\ Goes(w, Idle)
       \/ Refused(w, CanTransition(Job(w), "cancelled", w))
    /\ UNCHANGED crashes

\* The except clause.  fail() may itself refuse; that error leaves the loop.
Failing(w) ==
    /\ At(w, "failing")
    /\ \/ Fail(Job(w), w, worker[w].outcome = "retryable") /\ Goes(w, Idle)
       \/ /\ ~CanFail(Job(w), w)
          /\ Goes(w, IF w \in LoopWorkers THEN Gone("ended") ELSE Idle)
          /\ UNCHANGED task
    /\ UNCHANGED crashes

-----------------------------------------------------------------------------
(* Processes, time and the author.                                         *)

Crash(w) ==
    /\ crashes < MaxCrashes
    /\ Alive(w)
    /\ Goes(w, Gone("crashed"))
    /\ crashes' = crashes + 1
    /\ UNCHANGED task

\* run_forever recovers expired leases once, before its first claim.
Restart(w) ==
    /\ ~Alive(w)
    /\ RecoverLeases(FALSE)
    /\ Goes(w, Idle)
    /\ UNCHANGED crashes

\* A heartbeat that beats on time keeps its lease.
LeaseRunsOut(t) ==
    /\ LateHeartbeats \/ \A w \in Workers : ~(Handling(w, t) /\ worker[w].beating
                                             /\ task[t].owner = w /\ task[t].status = "running")
    /\ LeaseExpires(t)
    /\ UNCHANGED <<worker, crashes>>

Submission ==
    /\ \E t \in Tasks :
        \/ \E k \in SubmitKinds \ {"continuous", "planning"} :
               Enqueue(t, k, NoKey, "queued", FALSE)
        \/ "continuous" \in SubmitKinds /\ EnqueueContinuous(t, NoKey)
        \/ "planning" \in SubmitKinds /\ Enqueue(t, "planning", NoKey, "needs_author_decision", FALSE)
    /\ UNCHANGED <<worker, crashes>>

Author(t) ==
    /\ \/ "pause" \in AuthorCommands /\ Pause(t)
       \/ "resume" \in AuthorCommands /\ Resume(t)
       \/ "retry" \in AuthorCommands /\ Retry(t)
       \/ "cancel" \in AuthorCommands /\ Cancel(t)
       \/ "confirm" \in AuthorCommands /\ CompleteAuthorDecision(t)
    /\ UNCHANGED <<worker, crashes>>

BackoffEnds(t) == BackoffElapses(t) /\ UNCHANGED <<worker, crashes>>

Works(w) ==
    \/ Take(w) \/ TakeById(w) \/ NoHandler(w)
    \/ HandlerCheckpoints(w) \/ HandlerLooks(w) \/ HandlerAtBoundary(w) \/ HandlerStops(w)
    \/ HandlerReturns(w) \/ HandlerRaises(w) \/ HandlerSchedules(w) \/ HandlerDefers(w)
    \/ Defer(w) \/ ReadStatus(w) \/ Settle(w) \/ SettleCancelled(w) \/ Failing(w)

WInit == Init /\ worker = [w \in Workers |-> Idle] /\ crashes = 0

WNext ==
    \/ Submission
    \/ \E w \in Workers : Works(w) \/ Heartbeat(w) \/ Crash(w) \/ Restart(w)
    \/ \E t \in Tasks : Author(t) \/ LeaseRunsOut(t) \/ BackoffEnds(t)

-----------------------------------------------------------------------------
(* Properties.                                                             *)

Local == [pc: Points, job: Tasks \cup {NoTask}, outcome: Outcomes, child: Tasks \cup {NoTask},
          seen: {"none", "running", "cancelling", "paused"}, beating: BOOLEAN]

\* Every row and every worker has a well-formed state.
WTypeOK == task \in [Tasks -> Row] /\ worker \in [Workers -> Local] /\ crashes \in 0..MaxCrashes

\* The lease is truthful: as long as no process has died, a row that names a
\* lease owner is being worked on by exactly that worker, whatever the author
\* did between two calls of that worker and however its calls were refused.
LeaseIsTruthful ==
    crashes = 0 => \A t \in Tasks, w \in Workers : task[t].owner = w => Handling(w, t)

\* Only the lease owner settles a claimed task: a handler that lost its lease
\* (pause and resume, an expired lease recovered at a restart) cannot complete
\* it, fail it or park it on a child behind the new owner's back.
OwnerSettles ==
    \A t \in Tasks :
        /\ task[t].status \in Active
        /\ task'[t].status \in {"completed", "failed", "waiting_on_child"}
        => \E w \in Workers : task[t].owner = w /\ Handling(w, t) /\ worker'[w] = Idle
SettledByOwner == [][OwnerSettles]_vars2

\* A chapter-writing task never goes back to the queue by itself: from active to
\* queued only through its own worker's retryable failure, never through the
\* recovery of a lease (RECOVERY_REQUIRES_AUTHOR), and never once it is cancelling.
OwnerRequeues ==
    \A t \in Tasks :
        /\ task[t].kind = "write"
        /\ task[t].status \in Active
        /\ task'[t].status = "queued"
        => /\ task[t].status = "running"
           /\ \E w \in Workers : task[t].owner = w /\ At(w, "failing") /\ ~Handling(w, t)'
WriteRequeuedOnlyByOwner == [][OwnerRequeues]_vars2

WSpec == WInit /\ [][WNext]_vars2

(***************************************************************************)
(* Fairness: a live process takes its next step, a handler ends some day   *)
(* however often it looks at its task, a retry deadline is reached.  No    *)
(* author, crash or request is ever forced.                                *)
(***************************************************************************)
HandlerEnds(w) == HandlerReturns(w) \/ HandlerRaises(w) \/ HandlerStops(w) \/ HandlerDefers(w)
AfterHandler(w) == HandlerAtBoundary(w) \/ NoHandler(w) \/ Defer(w) \/ ReadStatus(w)
                   \/ Settle(w) \/ SettleCancelled(w) \/ Failing(w)

WFair ==
    /\ \A w \in Workers : /\ WF_vars2(Take(w)) /\ WF_vars2(AfterHandler(w))
                          /\ SF_vars2(HandlerEnds(w))
                          /\ WF_vars2(Restart(w))
    /\ \A t \in Tasks : WF_vars2(BackoffEnds(t)) /\ WF_vars2(LeaseRunsOut(t))

WFairSpec == WSpec /\ WFair

\* However calls interleave, a claimed task leaves the active statuses: no order
\* of author commands and worker steps leaves a row running or cancelling for
\* good while the processes live.
ActiveSettles ==
    \A t \in Tasks : task[t].status \in Active ~> task[t].status \notin Active

\* A queued task is taken up: older tasks, deferred parents and retries with a
\* deadline do not starve it.
QueueDrains ==
    \A t \in Tasks : task[t].status = "queued" ~> task[t].status # "queued"

\* A parent waiting for a settled child is woken.
ParentWakes ==
    \A t, c \in Tasks :
        task[t].status = "waiting_on_child" /\ task[t].waitingFor = c /\ task[c].status \in ChildDone
        ~> task[t].status # "waiting_on_child"

\* Recover expired leases and continuously claim durable work (docstring of
\* run_forever): no exception ends the loop of a worker whose process lives.
LoopSurvives == \A w \in LoopWorkers : ~At(w, "ended")

\* A running task whose lease has expired is handled by the recovery policy (the
\* message of `worker' in src/src/cli/main.py).
ExpiredIsRecovered ==
    \A t \in Tasks : task[t].status = "running" /\ task[t].expired ~> ~task[t].expired

\* The lease avoids duplicate execution (docs/architecture/01-system-architecture.md):
\* no two workers are inside a handler of the same task.
Executing(w, t) == Handling(w, t) /\ worker[w].pc \in {"working", "boundary"}
NoConcurrentHandlers ==
    \A t \in Tasks, v, w \in Workers : Executing(v, t) /\ Executing(w, t) => v = w
=============================================================================
