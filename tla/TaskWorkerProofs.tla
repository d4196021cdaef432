------------------------- MODULE TaskWorkerProofs --------------------------
(***************************************************************************)
(* Theorems of TaskWorker.  The workers only ever use the runtime as its   *)
(* own specification allows (WSpec => Spec), so what TaskRuntimeProofs     *)
(* shows of the table holds for it here.  Fencing then gives the two       *)
(* action properties, and the local invariant that a worker without a job  *)
(* is idle or gone makes LeaseIsTruthful inductive.                        *)
(***************************************************************************)
EXTENDS TaskWorker, TaskRuntimeProofs

\* A worker has a job exactly while it is in execute_claimed, and a deferring one
\* has a child to wait for.
LocalOK(l) ==
    /\ l \in Local
    /\ l.job = NoTask <=> l.pc \in {"idle", "ended", "crashed"}
    /\ l.outcome = "defer" => l.child \in Tasks

WorkerInv ==
    /\ worker \in [Workers -> Local]
    /\ \A w \in Workers : LocalOK(worker[w])
    /\ crashes \in 0..MaxCrashes

\* Worker w moves on with its job; it starts one; it drops one.
Continues(w) == \E l : LocalOK(l) /\ l.job = Job(w) /\ Job(w) # NoTask /\ Goes(w, l)
Starts(w) == \E t \in Tasks : Goes(w, Started(t)) /\ At(w, "idle")
Drops(w) == \E l : LocalOK(l) /\ l.job = NoTask /\ Goes(w, l)

-----------------------------------------------------------------------------
(* Local states.                                                           *)

\* The local states named by the actions are well formed.
LEMMA LocalFacts ==
    /\ LocalOK(Idle) /\ Idle.job = NoTask
    /\ \A p \in {"idle", "ended", "crashed"} : LocalOK(Gone(p)) /\ Gone(p).job = NoTask
    /\ \A t \in Tasks : LocalOK(Started(t)) /\ Started(t).job = t
<1>1. /\ Idle \in Local /\ Idle.job = NoTask /\ Idle.pc = "idle" /\ Idle.outcome = "none"
      /\ \A p \in Points : [Idle EXCEPT !.pc = p] \in Local
  BY DEF Idle, Local, Points, Outcomes
<1>2. \A p \in {"idle", "ended", "crashed"} :
        /\ Gone(p) \in Local /\ Gone(p).pc = p /\ Gone(p).job = NoTask
        /\ Gone(p).outcome = "none"
  BY <1>1 DEF Gone, Idle, Points
<1>3. \A t \in Tasks :
        /\ Started(t) \in Local /\ Started(t).pc = "working" /\ Started(t).job = t
        /\ Started(t).outcome = "none"
  BY DEF Started, Idle, Local, Points, Outcomes
<1> QED
  BY <1>1, <1>2, <1>3, TaskAssumption DEF LocalOK

\* What Goes does to the function worker.
LEMMA GoesWorker ==
    ASSUME WorkerInv, NEW w \in Workers, NEW l, LocalOK(l), Goes(w, l)
    PROVE  /\ worker' \in [Workers -> Local]
           /\ worker'[w] = l
           /\ \A v \in Workers : v # w => worker'[v] = worker[v]
           /\ \A v \in Workers : LocalOK(worker'[v])
  BY DEF WorkerInv, Goes, LocalOK

\* The local states that the actions of a worker with a job go to.
LEMMA LocalShapes ==
    ASSUME NEW r, LocalOK(r), r.job # NoTask
    PROVE  LET Same(l) == LocalOK(l) /\ l.job = r.job
           IN  /\ \A s \in {"running", "cancelling", "paused"} :
                     /\ Same([r EXCEPT !.pc = "boundary", !.seen = s])
                     /\ Same([r EXCEPT !.pc = "deciding", !.seen = s])
               /\ Same([r EXCEPT !.pc = "working", !.seen = "none"])
               /\ Same([[r EXCEPT !.pc = "working", !.seen = "none"]
                             EXCEPT !.pc = "returned", !.outcome = "incomplete"])
               /\ \A o \in {"done", "incomplete", "bad"} :
                     Same([r EXCEPT !.pc = "returned", !.outcome = o])
               /\ \A o \in {"retryable", "fatal"} :
                     Same([r EXCEPT !.pc = "failing", !.outcome = o])
               /\ \A c \in Tasks :
                     Same([r EXCEPT !.pc = "returned", !.outcome = "defer", !.child = c])
               /\ Same([r EXCEPT !.pc = "failing", !.outcome = "fatal", !.seen = "none",
                                  !.child = NoTask])
               /\ Same([r EXCEPT !.pc = "cancelling"])
               /\ Same([r EXCEPT !.beating = FALSE])
<1> DEFINE Same(l) == LocalOK(l) /\ l.job = r.job
<1>0. r \in Local /\ (r.outcome = "defer" => r.child \in Tasks)
  BY DEF LocalOK
<1>1. ASSUME NEW s \in {"running", "cancelling", "paused"}
      PROVE  /\ Same([r EXCEPT !.pc = "boundary", !.seen = s])
             /\ Same([r EXCEPT !.pc = "deciding", !.seen = s])
  BY <1>0 DEF LocalOK, Local, Points
<1>2. Same([r EXCEPT !.pc = "working", !.seen = "none"])
  BY <1>0 DEF LocalOK, Local, Points
<1>3. Same([[r EXCEPT !.pc = "working", !.seen = "none"]
               EXCEPT !.pc = "returned", !.outcome = "incomplete"])
  BY <1>0 DEF LocalOK, Local, Points, Outcomes
<1>4. ASSUME NEW o \in {"done", "incomplete", "bad"}
      PROVE  Same([r EXCEPT !.pc = "returned", !.outcome = o])
  BY <1>0 DEF LocalOK, Local, Points, Outcomes
<1>5. ASSUME NEW o \in {"retryable", "fatal"}
      PROVE  Same([r EXCEPT !.pc = "failing", !.outcome = o])
  BY <1>0 DEF LocalOK, Local, Points, Outcomes
<1>6. ASSUME NEW c \in Tasks
      PROVE  Same([r EXCEPT !.pc = "returned", !.outcome = "defer", !.child = c])
  BY <1>0 DEF LocalOK, Local, Points, Outcomes
<1>7. Same([r EXCEPT !.pc = "failing", !.outcome = "fatal", !.seen = "none", !.child = NoTask])
  BY <1>0 DEF LocalOK, Local, Points, Outcomes
<1>8. Same([r EXCEPT !.pc = "cancelling"])
  BY <1>0 DEF LocalOK, Local, Points
<1>9. Same([r EXCEPT !.beating = FALSE])
  BY <1>0 DEF LocalOK, Local, Points
<1> QED
  BY <1>1, <1>2, <1>3, <1>4, <1>5, <1>6, <1>7, <1>8, <1>9

-----------------------------------------------------------------------------
(* What the calls of the runtime do to active tasks.                       *)

\* No active task is completed, failed, parked on a child, or (a chapter) requeued.
Unsettled ==
    \A t \in Tasks : task[t].status \in Active =>
        /\ task'[t].status \notin {"completed", "failed", "waiting_on_child"}
        /\ task'[t].status = "queued" => task[t].kind # "write"

\* A step that leaves the table alone settles nothing.
LEMMA UnchangedUnsettled == UNCHANGED task => Unsettled
  BY DEF Unsettled, Active

\* A change of one row that leaves it active, or that moves an inactive row.
LEMMA OneRowUnsettled ==
    ASSUME IInv, NEW t \in Tasks, NEW q, task' = [task EXCEPT ![t] = q],
           task[t].status \in Active =>
               q.status \in Active \cup {"paused", "cancelled", "needs_author_decision"}
    PROVE  Unsettled
<1> SUFFICES ASSUME NEW u \in Tasks, task[u].status \in Active
             PROVE  /\ task'[u].status \notin {"completed", "failed", "waiting_on_child"}
                    /\ task'[u].status = "queued" => task[u].kind # "write"
  BY DEF Unsettled
<1>1. task'[u] = IF u = t THEN q ELSE task[u]
  BY DEF IInv, TypeOK
<1> QED
  BY <1>1 DEF Active

\* Enqueueing settles nothing.
LEMMA EnqueueUnsettled ==
    ASSUME IInv, NEW t \in Tasks, NEW k \in Kinds, NEW key, NEW b, NEW i,
           Enqueue(t, k, key, i, b) \/ EnqueueContinuous(t, key)
    PROVE  Unsettled
<1>1. task[t].status \notin Active
  BY DEF Enqueue, EnqueueContinuous, NextId, Exists, Active
<1>2. \E q : task' = [task EXCEPT ![t] = q]
  BY DEF Enqueue, EnqueueContinuous
<1> QED
  BY <1>1, <1>2, OneRowUnsettled

\* Claiming settles nothing.
LEMMA ClaimUnsettled ==
    ASSUME IInv, NEW t \in Tasks, NEW w \in Workers, Claim(w, t) \/ ClaimById(w, t)
    PROVE  Unsettled
<1>1. task[t].status \notin Active
  BY DEF Claim, ClaimById, Claimable, Active
<1>2. \E q : task' = [task EXCEPT ![t] = q]
  BY DEF Claim, ClaimById
<1> QED
  BY <1>1, <1>2, OneRowUnsettled

\* Checkpoints, renewals and time settle nothing.
LEMMA KeepingUnsettled ==
    ASSUME IInv, NEW t \in Tasks,
           \/ \E w \in Workers : RenewLease(w, t)
           \/ \E w \in Workers \cup {NoWorker} : Checkpoint(t, w)
           \/ LeaseExpires(t)
           \/ BackoffElapses(t)
    PROVE  Unsettled
<1>0. task[t] \in Row
  BY RowsGood
<1>1. ASSUME NEW w \in Workers, RenewLease(w, t) PROVE Unsettled
  <2>1. [task[t] EXCEPT !.expired = FALSE].status = task[t].status
    BY <1>0 DEF Row
  <2> QED
    BY <1>1, <2>1, OneRowUnsettled DEF RenewLease
<1>2. ASSUME NEW w \in Workers \cup {NoWorker}, Checkpoint(t, w) PROVE Unsettled
  <2>1. [task[t] EXCEPT !.blocked = FALSE].status = task[t].status
    BY <1>0 DEF Row
  <2> QED
    BY <1>2, <2>1, OneRowUnsettled DEF Checkpoint
<1>3. ASSUME LeaseExpires(t) PROVE Unsettled
  <2>1. [task[t] EXCEPT !.expired = TRUE].status = task[t].status
    BY <1>0 DEF Row
  <2> QED
    BY <1>3, <2>1, OneRowUnsettled DEF LeaseExpires
<1>4. ASSUME BackoffElapses(t) PROVE Unsettled
  <2>1. [task[t] EXCEPT !.backoff = FALSE].status = task[t].status
    BY <1>0 DEF Row
  <2> QED
    BY <1>4, <2>1, OneRowUnsettled DEF BackoffElapses
<1> QED
  BY <1>1, <1>2, <1>3, <1>4

\* The transitions that stop a task at the author or at a cancellation.
LEMMA StoppingUnsettled ==
    ASSUME IInv, NEW t \in Tasks, NEW w \in Workers,
           NEW s \in {"cancelled", "needs_author_decision"}, Transition(t, s, w)
    PROVE  Unsettled
<1>0. task[t] \in Row
  BY RowsGood
<1>1. s \in Statuses \ Active
  BY DEF Statuses, Active
<1>2. Released(task[t], s) \in Row /\ Released(task[t], s).status = s
  BY <1>0, <1>1, ReleasedGood DEF Good
<1>3. Synced(Released(task[t], s)).status = s
  BY <1>2, SyncedKeeps
<1>4. task' = [task EXCEPT ![t] = Synced(Released(task[t], s))]
  BY <1>1 DEF Transition
<1> QED
  BY <1>3, <1>4, OneRowUnsettled

\* Recovery completes and fails nothing, and queues no chapter.
LEMMA RecoverUnsettled ==
    ASSUME IInv, NEW force \in BOOLEAN, RecoverLeases(force)
    PROVE  Unsettled
<1> SUFFICES ASSUME NEW t \in Tasks, task[t].status \in Active
             PROVE  /\ task'[t].status \notin {"completed", "failed", "waiting_on_child"}
                    /\ task'[t].status = "queued" => task[t].kind # "write"
  BY DEF Unsettled
<1>1. task[t] \in Row
  BY RowsGood
<1> DEFINE s == IF task[t].status = "cancelling" \/ task[t].kind \in RecoveryRequiresAuthor
                THEN "needs_author_decision" ELSE "queued"
<1>2. s \in Statuses \ Active /\ s \in {"needs_author_decision", "queued"}
      /\ (s = "queued" => task[t].kind # "write")
  BY DEF Statuses, Active, RecoveryRequiresAuthor
<1>3. Recovered(task[t]) = Synced(Released(task[t], s))
  BY DEF Recovered
<1> HIDE DEF s
<1>4. Recovered(task[t]).status = s
  BY <1>1, <1>2, <1>3, ReleasedGood, SyncedKeeps DEF Good
<1>5. task'[t] = task[t] \/ task'[t] = Recovered(task[t])
  BY DEF RecoverLeases
<1> QED
  BY <1>2, <1>4, <1>5 DEF Active

\* The author completes and fails nothing that is active.
LEMMA AuthorUnsettled ==
    ASSUME IInv, NEW t \in Tasks,
           Pause(t) \/ Resume(t) \/ Retry(t) \/ Cancel(t) \/ CompleteAuthorDecision(t)
    PROVE  Unsettled
<1>0. task[t] \in Row
  BY RowsGood
<1>1. ASSUME Pause(t) PROVE Unsettled
  <2>1. Released(task[t], "paused") \in Row /\ Released(task[t], "paused").status = "paused"
    BY <1>0, ReleasedGood DEF Good, Statuses, Active
  <2>2. Synced(Released(task[t], "paused")).status = "paused"
    BY <2>1, SyncedKeeps
  <2>3. task' = [task EXCEPT ![t] = Synced(Released(task[t], "paused"))]
    BY <1>1 DEF Pause, Transition, Active
  <2> QED
    BY <2>2, <2>3, OneRowUnsettled
<1>2. ASSUME Resume(t) \/ Retry(t) PROVE Unsettled
  <2>1. "queued" \in TRANSITIONS[task[t].status]
    BY <1>2 DEF Resume, Retry, Transition, CanTransition
  <2>2. task[t].status \notin Active
    BY <1>0, <2>1 DEF TRANSITIONS, Statuses, Active, Row
  <2>3. \E q : task' = [task EXCEPT ![t] = q]
    BY <1>2 DEF Resume, Retry, Transition
  <2> QED
    BY <2>2, <2>3, OneRowUnsettled
<1>3. ASSUME Cancel(t) PROVE Unsettled
  <2> SUFFICES ASSUME NEW u \in Tasks, task[u].status \in Active
               PROVE  task'[u].status \in Active
    BY DEF Unsettled, Active
  <2>1. task[u] \in Row
    BY RowsGood
  <2>2. CancelParent(task[u]).status = "cancelling" /\ CancelChild(task[u]).status \in Active
    BY <2>1 DEF CancelParent, CancelChild, Active, Row
  <2>3. task'[u] \in {task[u], CancelParent(task[u]), CancelChild(task[u])}
    BY <1>3 DEF Cancel
  <2> QED
    BY <2>2, <2>3 DEF Active
<1>4. ASSUME CompleteAuthorDecision(t) PROVE Unsettled
  <2>1. task[t].status \notin Active
    BY <1>4 DEF CompleteAuthorDecision, Active
  <2>2. \E q : task' = [task EXCEPT ![t] = q]
    BY <1>4 DEF CompleteAuthorDecision
  <2> QED
    BY <2>1, <2>2, OneRowUnsettled
<1> QED
  BY <1>1, <1>2, <1>3, <1>4

\* Calls that settle nothing and take no lease.
NoNewLease == \A t \in Tasks : task'[t].owner \in {task[t].owner, NoWorker}
Harmless == [Next]_vars /\ Unsettled /\ NoNewLease

\* Quiet steps take no lease.
LEMMA QuietNoNewLease == AllQuiet => NoNewLease
  BY DEF AllQuiet, Quiet, RStay, RAsk, RGiveUp, RRest, NoNewLease

\* A new row has no lease.
LEMMA CreatedNoNewLease ==
    ASSUME IInv, NEW t \in Tasks, Created(t)
    PROVE  NoNewLease
  BY DEF Created, IInv, TypeOK, NoNewLease, LeaseOK, Active

\* A step that leaves the table alone is harmless.
LEMMA UnchangedHarmless == UNCHANGED task => Harmless
  BY UnchangedUnsettled DEF Harmless, vars, NoNewLease

\* Enqueueing is harmless.
LEMMA EnqueueHarmless ==
    ASSUME IInv, NEW t \in Tasks,
           \/ \E k \in Kinds : Enqueue(t, k, NoKey, "queued", FALSE)
           \/ Enqueue(t, "planning", NoKey, "needs_author_decision", FALSE)
           \/ EnqueueContinuous(t, NoKey)
    PROVE  Harmless
<1>1. Submit
  BY DEF Submit
<1>2. Unsettled
  BY EnqueueUnsettled DEF Kinds
<1>3. NoNewLease
  BY <1>1, SubmitCreates, CreatedNoNewLease
<1> QED
  BY <1>1, <1>2, <1>3 DEF Harmless, Next

\* A checkpoint is harmless.
LEMMA CheckpointHarmless ==
    ASSUME IInv, NEW t \in Tasks, NEW w \in Workers, NEW as \in {w, NoWorker}, Checkpoint(t, as)
    PROVE  Harmless
<1>1. WorkerCall(w, t)
  BY DEF WorkerCall
<1>2. Unsettled /\ NoNewLease
  BY KeepingUnsettled, KeepingQuiet, QuietNoNewLease
<1> QED
  BY <1>1, <1>2 DEF Harmless, Next

\* Stopping at the author or at a cancellation is harmless.
LEMMA StoppingHarmless ==
    ASSUME IInv, NEW t \in Tasks, NEW w \in Workers,
           NEW s \in {"cancelled", "needs_author_decision"}, Transition(t, s, w)
    PROVE  Harmless
<1>1. \E target \in WorkerTargets : Transition(t, target, w)
  BY DEF WorkerTargets
<1>2. WorkerCall(w, t)
  BY <1>1 DEF WorkerCall
<1>3. Unsettled /\ NoNewLease
  BY <1>1, StoppingUnsettled, SettlingQuiet, QuietNoNewLease
<1> QED
  BY <1>2, <1>3 DEF Harmless, Next

\* What time, the author and new requests do is harmless.
LEMMA EnvironmentHarmless ==
    ASSUME IInv, NEW t \in Tasks,
           \/ Pause(t) \/ Resume(t) \/ Retry(t) \/ Cancel(t) \/ CompleteAuthorDecision(t)
           \/ LeaseExpires(t) \/ BackoffElapses(t) \/ RecoverLeases(FALSE)
           \/ \E w \in Workers : RenewLease(w, t)
    PROVE  Harmless
<1>1. CASE Pause(t) \/ Resume(t) \/ Retry(t) \/ Cancel(t) \/ CompleteAuthorDecision(t)
  <2>1. AuthorCall(t)
    BY <1>1 DEF AuthorCall
  <2> QED
    BY <1>1, <2>1, AuthorUnsettled, AuthorQuiet, QuietNoNewLease DEF Harmless, Next
<1>2. CASE LeaseExpires(t) \/ BackoffElapses(t)
  BY <1>2, KeepingUnsettled, KeepingQuiet, QuietNoNewLease DEF Harmless, Next
<1>3. CASE RecoverLeases(FALSE)
  BY <1>3, RecoverUnsettled, RecoverQuiet, QuietNoNewLease DEF Harmless, Next
<1>4. ASSUME NEW w \in Workers, RenewLease(w, t) PROVE Harmless
  <2>1. WorkerCall(w, t)
    BY <1>4 DEF WorkerCall
  <2> QED
    BY <1>4, <2>1, KeepingUnsettled, KeepingQuiet, QuietNoNewLease DEF Harmless, Next
<1> QED
  BY <1>1, <1>2, <1>3, <1>4

-----------------------------------------------------------------------------
(* What a step does to the worker.                                         *)

\* A worker that is at work has a task.
LEMMA JobIsTask ==
    ASSUME WorkerInv, NEW w \in Workers, worker[w].pc \notin {"idle", "ended", "crashed"}
    PROVE  /\ LocalOK(worker[w]) /\ Job(w) = worker[w].job /\ Job(w) # NoTask
           /\ Job(w) \in Tasks
  BY DEF WorkerInv, LocalOK, Local, Job

\* A refused call leaves the worker with its job.
LEMMA RaisesContinues ==
    ASSUME WorkerInv, NEW w \in Workers, worker[w].pc \notin {"idle", "ended", "crashed"},
           Raises(w)
    PROVE  Continues(w)
  BY JobIsTask, LocalShapes DEF Raises, Continues

\* The steps of a handler keep the job and are harmless.
LEMMA HandlerSteps ==
    ASSUME IInv, WorkerInv, NEW w \in Workers,
           \/ HandlerCheckpoints(w) \/ HandlerLooks(w) \/ HandlerAtBoundary(w) \/ HandlerStops(w)
           \/ HandlerReturns(w) \/ HandlerRaises(w) \/ HandlerSchedules(w) \/ HandlerDefers(w)
    PROVE  /\ Harmless
           /\ Continues(w) \/ UNCHANGED worker
           /\ crashes' = crashes
<1>0. worker[w].pc \in {"working", "boundary"}
  BY DEF HandlerCheckpoints, HandlerLooks, HandlerAtBoundary, HandlerStops, HandlerReturns,
         HandlerRaises, HandlerSchedules, HandlerDefers, InHandler, At
<1>1. /\ LocalOK(worker[w]) /\ Job(w) = worker[w].job /\ Job(w) # NoTask /\ Job(w) \in Tasks
      /\ Raises(w) => Continues(w)
  BY <1>0, JobIsTask, RaisesContinues
<1>2. CASE HandlerCheckpoints(w)
  BY <1>1, <1>2, CheckpointHarmless, UnchangedHarmless DEF HandlerCheckpoints, Refused
<1>3. CASE HandlerLooks(w)
  <2>1. task[Job(w)].status \in {"running", "cancelling", "paused"}
    BY <1>3 DEF HandlerLooks, Noticed
  <2> QED
    BY <1>1, <1>3, <2>1, LocalShapes, UnchangedHarmless DEF HandlerLooks, Continues
<1>4. CASE HandlerAtBoundary(w)
  <2> DEFINE on == [worker[w] EXCEPT !.pc = "working", !.seen = "none"]
             returned == [on EXCEPT !.pc = "returned", !.outcome = "incomplete"]
             as == IF Seen(w) = "paused" THEN NoWorker ELSE w
  <2>1. /\ Goes(w, on) => Continues(w)
        /\ Goes(w, returned) => Continues(w)
    BY <1>1, LocalShapes DEF Continues
  <2>2. crashes' = crashes
    BY <1>4 DEF HandlerAtBoundary
  <2>3. \/ Transition(Job(w), "cancelled", w) /\ Goes(w, returned)
        \/ Raises(w) /\ UNCHANGED task
        \/ Goes(w, returned) /\ UNCHANGED task
        \/ Checkpoint(Job(w), as) /\ Goes(w, on)
        \/ Goes(w, on) /\ UNCHANGED task
    BY <1>4 DEF HandlerAtBoundary, Refused
  <2>4. as \in {w, NoWorker}
    OBVIOUS
  <2> HIDE DEF on, returned, as
  <2> QED
    BY <1>1, <2>1, <2>2, <2>3, <2>4, StoppingHarmless, CheckpointHarmless, UnchangedHarmless
<1>5. CASE HandlerStops(w)
  <2>1. \/ /\ Transition(Job(w), "needs_author_decision", w)
           /\ Goes(w, [worker[w] EXCEPT !.pc = "returned", !.outcome = "incomplete"])
        \/ Raises(w) /\ UNCHANGED task
    BY <1>5 DEF HandlerStops, Refused
  <2>2. CASE Raises(w) /\ UNCHANGED task
    BY <1>1, <1>5, <2>2, UnchangedHarmless DEF HandlerStops
  <2>3. CASE /\ Transition(Job(w), "needs_author_decision", w)
             /\ Goes(w, [worker[w] EXCEPT !.pc = "returned", !.outcome = "incomplete"])
    <3>1. Harmless
      BY <1>1, <2>3, StoppingHarmless
    <3>2. Continues(w)
      BY <1>1, <2>3, LocalShapes DEF Continues
    <3> QED
      BY <1>5, <3>1, <3>2 DEF HandlerStops
  <2> QED
    BY <2>1, <2>2, <2>3
<1>6. CASE HandlerReturns(w)
  BY <1>1, <1>6, LocalShapes, UnchangedHarmless DEF HandlerReturns, Continues
<1>7. CASE HandlerRaises(w)
  BY <1>1, <1>7, LocalShapes, UnchangedHarmless DEF HandlerRaises, Continues
<1>8. CASE HandlerSchedules(w)
  <2>1. "write" \in Kinds
    BY DEF Kinds
  <2> QED
    BY <1>8, <2>1, EnqueueHarmless DEF HandlerSchedules
<1>9. CASE HandlerDefers(w)
  BY <1>1, <1>9, LocalShapes, UnchangedHarmless DEF HandlerDefers, Continues
<1> QED
  BY <1>2, <1>3, <1>4, <1>5, <1>6, <1>7, <1>8, <1>9

\* A worker that takes a job was idle, and the only new lease is its own.
TakesJob(w) ==
    \E t \in Tasks : /\ At(w, "idle") /\ Goes(w, Started(t))
                     /\ \A u \in Tasks : \/ task'[u].owner \in {task[u].owner, NoWorker}
                                         \/ u = t /\ task'[u].owner = w

\* Taking work leases one row to the worker that starts on it.
LEMMA TakingSteps ==
    ASSUME IInv, WorkerInv, NEW w \in Workers, Take(w) \/ TakeById(w)
    PROVE  [Next]_vars /\ Unsettled /\ TakesJob(w) /\ crashes' = crashes
<1>1. PICK t \in Tasks : /\ Claim(w, t) \/ ClaimById(w, t)
                         /\ Goes(w, Started(t)) /\ At(w, "idle") /\ crashes' = crashes
  BY DEF Take, TakeById
<1>2. WorkerCall(w, t)
  BY <1>1 DEF WorkerCall
<1>3. Unsettled
  BY <1>1, ClaimUnsettled
<1>4. PICK q \in Row : q.owner = w /\ task' = [task EXCEPT ![t] = q]
  <2>1. task[t].status \in {"queued", "waiting_on_child"} /\ task[t] \in Row
    BY <1>1, RowsGood DEF Claim, ClaimById, Claimable
  <2>2. Taken(task[t], Leased(task[t], w))
    BY <2>1, LeasedTaken
  <2>3. Leased(task[t], w) \in Row /\ Leased(task[t], w).owner = w
    <3>1. \A r \in Row : Synced(r).owner = r.owner
      BY SyncedKeeps
    <3>2. Leased(task[t], w) \in Row
      BY <2>2 DEF Taken, Good
    <3>3. Leased(task[t], w).owner = w
      BY <2>1 DEF Leased, Synced, Row
    <3> QED
      BY <3>2, <3>3
  <2> DEFINE q == Leased(task[t], w)
             q0 == [q EXCEPT !.waitingFor = NoTask]
  <2>4. q0 \in Row /\ q0.owner = w
    <3> HIDE DEF q
    <3>1. q \in Row /\ q.owner = w
      BY <2>3 DEF q
    <3> QED
      BY <3>1 DEF Row
  <2>5. task' = [task EXCEPT ![t] = q] \/ task' = [task EXCEPT ![t] = q0]
    BY <1>1 DEF Claim, ClaimById
  <2> HIDE DEF q0
  <2> QED
    BY <2>3, <2>4, <2>5
<1>5. \A u \in Tasks : task'[u] = IF u = t THEN q ELSE task[u]
  BY <1>4 DEF IInv, TypeOK
<1>6. TakesJob(w)
  BY <1>1, <1>4, <1>5 DEF TakesJob
<1> QED
  BY <1>1, <1>2, <1>3, <1>6 DEF Next

\* The owner settles its job: it alone moves, and drops the job.
Settles(w) ==
    /\ Job(w) \in Tasks
    /\ task[Job(w)].owner = w
    /\ Goes(w, Idle)
    /\ \E q \in Row : /\ task' = [task EXCEPT ![Job(w)] = q]
                      /\ q.owner = NoWorker
                      /\ q.status = "queued" => task[Job(w)].status = "running" /\ At(w, "failing")

\* The worker drops a job whose lease it no longer has.
Abandons(w) ==
    /\ Harmless
    /\ Drops(w)
    /\ crashes' > 0 \/ \A t \in Tasks : t = Job(w) => task'[t].owner # w

\* Transition and defer_until_child settle under the lease.
LEMMA SettlingCalls ==
    ASSUME IInv, WorkerInv, NEW w \in Workers, Job(w) \in Tasks, Goes(w, Idle),
           \/ \E s \in WorkerTargets : Transition(Job(w), s, w)
           \/ \E c \in Tasks : DeferUntilChild(Job(w), c, w)
    PROVE  [Next]_vars /\ Settles(w)
<1>0. task[Job(w)] \in Row
  BY RowsGood
<1>1. WorkerCall(w, Job(w))
  BY DEF WorkerCall
<1>2. CASE \E s \in WorkerTargets : Transition(Job(w), s, w)
  <2>1. PICK s \in WorkerTargets : Transition(Job(w), s, w)
    BY <1>2
  <2>2. s \in Statuses \ Active /\ s # "queued"
    BY DEF WorkerTargets, Statuses, Active
  <2>3. task[Job(w)].owner = w
    BY <2>1, TaskAssumption DEF Transition, CanTransition, Fenced
  <2>4. task' = [task EXCEPT ![Job(w)] = Synced(Released(task[Job(w)], s))]
    BY <2>1, <2>2 DEF Transition
  <2> DEFINE q == Synced(Released(task[Job(w)], s))
  <2>5. q \in Row /\ q.owner = NoWorker /\ q.status = s
    BY <1>0, <2>2, ReleasedGood, SyncedKeeps DEF Good
  <2> HIDE DEF q
  <2>6. Settles(w)
    BY <2>2, <2>3, <2>4, <2>5 DEF Settles, q
  <2> QED
    BY <1>1, <2>6 DEF Next
<1>3. CASE \E c \in Tasks : DeferUntilChild(Job(w), c, w)
  <2>1. PICK c \in Tasks : DeferUntilChild(Job(w), c, w)
    BY <1>3
  <2> DEFINE r == Released(task[Job(w)], "waiting_on_child")
             q == [r EXCEPT !.waitingFor = c, !.blocked = FALSE]
  <2>2. task[Job(w)].owner = w /\ task' = [task EXCEPT ![Job(w)] = q]
    BY <2>1, TaskAssumption DEF DeferUntilChild, CanDefer, Fenced
  <2>3. r \in Row /\ r.owner = NoWorker /\ r.status = "waiting_on_child"
    BY <1>0, ReleasedGood DEF Good, Statuses, Active
  <2> HIDE DEF r
  <2>4. q \in Row /\ q.owner = NoWorker /\ q.status = "waiting_on_child"
    BY <2>3 DEF Row
  <2> HIDE DEF q
  <2>5. Settles(w)
    BY <2>2, <2>4 DEF Settles
  <2> QED
    BY <1>1, <2>5 DEF Next
<1> QED
  BY <1>2, <1>3

\* fail() settles under the lease.
LEMMA FailSettles ==
    ASSUME IInv, WorkerInv, NEW w \in Workers, Job(w) \in Tasks, Goes(w, Idle), At(w, "failing"),
           NEW b \in BOOLEAN, Fail(Job(w), w, b)
    PROVE  [Next]_vars /\ Settles(w)
<1>0. task[Job(w)] \in Row
  BY RowsGood
<1>1. WorkerCall(w, Job(w))
  BY DEF WorkerCall
<1>2. task[Job(w)].owner = w /\ task[Job(w)].status \in Active
  BY TaskAssumption DEF Fail, CanFail, Fenced
<1> DEFINE r(s) == Released(task[Job(w)], s)
           again == [r("queued") EXCEPT !.backoff = TRUE]
<1>3. \/ task[Job(w)].status = "running" /\ task' = [task EXCEPT ![Job(w)] = again]
      \/ task' = [task EXCEPT ![Job(w)] = r("failed")]
      \/ task' = [task EXCEPT ![Job(w)] = r("needs_author_decision")]
  BY <1>2 DEF Fail, Active
<1>4. \A s \in {"queued", "failed", "needs_author_decision"} :
        r(s) \in Row /\ r(s).owner = NoWorker /\ r(s).status = s
  BY <1>0, ReleasedGood DEF Good, Statuses, Active
<1>5. again \in Row /\ again.owner = NoWorker /\ again.status = "queued"
  <2> DEFINE x == r("queued")
  <2>1. x \in Row /\ x.owner = NoWorker /\ x.status = "queued"
    BY <1>4
  <2> HIDE DEF x
  <2>2. [x EXCEPT !.backoff = TRUE] \in Row /\ [x EXCEPT !.backoff = TRUE].owner = NoWorker
        /\ [x EXCEPT !.backoff = TRUE].status = "queued"
    BY <2>1 DEF Row
  <2> QED
    BY <2>2 DEF x
<1> HIDE DEF again, r
<1>6. Settles(w)
  BY <1>2, <1>3, <1>4, <1>5 DEF Settles
<1> QED
  BY <1>1, <1>6 DEF Next

\* The outcomes of a step of a live worker.
WorkerStep(w) ==
    /\ [Next]_vars
    /\ crashes' = crashes
    /\ \/ Harmless /\ (Continues(w) \/ UNCHANGED worker)
       \/ Unsettled /\ TakesJob(w)
       \/ Settles(w)
       \/ Abandons(w)

\* After its handler a worker keeps its job, settles it, or abandons it.
LEMMA SettlingSteps ==
    ASSUME IInv, WorkerInv, NEW w \in Workers,
           NoHandler(w) \/ Defer(w) \/ ReadStatus(w) \/ Settle(w) \/ SettleCancelled(w) \/ Failing(w)
    PROVE  WorkerStep(w)
<1>0. worker[w].pc \in {"working", "returned", "deciding", "cancelling", "failing"}
  BY DEF NoHandler, Defer, ReadStatus, Settle, SettleCancelled, Failing, At
<1>1. /\ LocalOK(worker[w]) /\ Job(w) = worker[w].job /\ Job(w) # NoTask /\ Job(w) \in Tasks
      /\ Raises(w) => Continues(w)
  BY <1>0, JobIsTask, RaisesContinues
<1>2. crashes' = crashes
  BY DEF NoHandler, Defer, ReadStatus, Settle, SettleCancelled, Failing
<1>3. /\ \A p \in {"idle", "ended", "crashed"} : Goes(w, Gone(p)) => Drops(w)
      /\ Goes(w, Idle) => Drops(w)
  BY LocalFacts DEF Drops
<1>4. task[Job(w)] \in Row /\ LeaseOK(task[Job(w)])
  BY <1>1, RowsGood
<1>5. (UNCHANGED task /\ Raises(w)) => WorkerStep(w)
  BY <1>1, <1>2, UnchangedHarmless DEF WorkerStep, Harmless
<1>6. ASSUME UNCHANGED task, Drops(w), task[Job(w)].owner # w PROVE WorkerStep(w)
  <2>1. Abandons(w)
    BY <1>6, UnchangedHarmless DEF Abandons
  <2> QED
    BY <1>2, <1>6, <2>1, UnchangedHarmless DEF WorkerStep, Harmless
<1>7. CASE NoHandler(w)
  <2>1. CASE Transition(Job(w), "needs_author_decision", w) /\ Goes(w, Idle)
    <3>1. "needs_author_decision" \in WorkerTargets
      BY DEF WorkerTargets
    <3> QED
      BY <1>1, <1>2, <2>1, <3>1, SettlingCalls DEF WorkerStep
  <2>2. CASE /\ ~CanTransition(Job(w), "needs_author_decision", w)
             /\ Goes(w, IF w \in LoopWorkers THEN Gone("ended") ELSE Idle)
             /\ UNCHANGED task
    <3>1. task[Job(w)].owner # w
      <4>1. task[Job(w)].status \in Active
              => "needs_author_decision" \in TRANSITIONS[task[Job(w)].status]
        BY DEF Active, TRANSITIONS, Statuses
      <4> QED
        BY <1>4, <2>2, <4>1, TaskAssumption DEF CanTransition, Fenced, LeaseOK
    <3> QED
      BY <1>3, <1>6, <2>2, <3>1
  <2> QED
    BY <1>7, <2>1, <2>2 DEF NoHandler
<1>8. CASE Defer(w)
  <2>1. worker[w].child \in Tasks
    BY <1>1, <1>8 DEF Defer, LocalOK
  <2>2. CASE DeferUntilChild(Job(w), worker[w].child, w) /\ Goes(w, Idle)
    BY <1>1, <1>2, <2>1, <2>2, SettlingCalls DEF WorkerStep
  <2>3. CASE Raises(w) /\ UNCHANGED task
    BY <1>5, <2>3
  <2> QED
    BY <1>8, <2>2, <2>3 DEF Defer, Refused
<1>9. CASE ReadStatus(w)
  <2>1. CASE task[Job(w)].status \in Active
    <3>1. Continues(w)
      BY <1>1, <1>9, <2>1, LocalShapes DEF ReadStatus, Continues, Active
    <3> QED
      BY <1>2, <1>9, <3>1, UnchangedHarmless DEF ReadStatus, WorkerStep, Harmless
  <2>2. CASE task[Job(w)].status \notin Active
    <3>1. task[Job(w)].owner # w
      BY <1>4, <2>2, TaskAssumption DEF LeaseOK
    <3> QED
      BY <1>3, <1>6, <1>9, <2>2, <3>1 DEF ReadStatus
  <2> QED
    BY <2>1, <2>2
<1>10. CASE Settle(w)
  <2> DEFINE target == TargetOf(worker[w].outcome)
  <2>1. target \in WorkerTargets
    BY DEF TargetOf, WorkerTargets
  <2>2. \/ Transition(Job(w), target, w) /\ Goes(w, Idle)
        \/ Raises(w) /\ UNCHANGED task
        \/ Goes(w, [worker[w] EXCEPT !.pc = "cancelling"]) /\ UNCHANGED task
    BY <1>10 DEF Settle, Refused
  <2> HIDE DEF target
  <2>3. CASE Transition(Job(w), target, w) /\ Goes(w, Idle)
    BY <1>1, <1>2, <2>1, <2>3, SettlingCalls DEF WorkerStep
  <2>4. CASE Goes(w, [worker[w] EXCEPT !.pc = "cancelling"]) /\ UNCHANGED task
    <3>1. Continues(w)
      BY <1>1, <2>4, LocalShapes DEF Continues
    <3> QED
      BY <1>2, <2>4, <3>1, UnchangedHarmless DEF WorkerStep, Harmless
  <2> QED
    BY <1>5, <2>2, <2>3, <2>4
<1>11. CASE SettleCancelled(w)
  <2>1. "cancelled" \in WorkerTargets
    BY DEF WorkerTargets
  <2>2. CASE Transition(Job(w), "cancelled", w) /\ Goes(w, Idle)
    BY <1>1, <1>2, <2>1, <2>2, SettlingCalls DEF WorkerStep
  <2> QED
    BY <1>5, <1>11, <2>2 DEF SettleCancelled, Refused
<1>12. CASE Failing(w)
  <2>1. CASE Fail(Job(w), w, worker[w].outcome = "retryable") /\ Goes(w, Idle)
    <3>1. PICK b \in BOOLEAN : Fail(Job(w), w, b)
      <4>1. (worker[w].outcome = "retryable") \in BOOLEAN
        OBVIOUS
      <4> QED
        BY <2>1, <4>1, Zenon
    <3>2. [Next]_vars /\ Settles(w)
      BY <1>1, <1>12, <2>1, <3>1, FailSettles DEF Failing
    <3> QED
      BY <1>2, <3>2 DEF WorkerStep
  <2>2. CASE /\ ~CanFail(Job(w), w)
             /\ Goes(w, IF w \in LoopWorkers THEN Gone("ended") ELSE Idle)
             /\ UNCHANGED task
    <3>1. task[Job(w)].owner # w
      BY <1>4, <2>2, TaskAssumption DEF CanFail, Fenced, LeaseOK
    <3> QED
      BY <1>3, <1>6, <2>2, <3>1
  <2> QED
    BY <1>12, <2>1, <2>2 DEF Failing
<1> QED
  BY <1>7, <1>8, <1>9, <1>10, <1>11, <1>12

\* The outcomes of a step of the whole system.
SystemStep ==
    /\ [Next]_vars
    /\ crashes' \in 0..MaxCrashes
    /\ crashes' = 0 => crashes = 0
    /\ \/ Harmless /\ UNCHANGED worker
       \/ \E w \in Workers : \/ Harmless /\ Continues(w)
                             \/ Unsettled /\ TakesJob(w)
                             \/ Settles(w)
                             \/ Abandons(w)

\* Heartbeats, crashes and restarts settle nothing.
LEMMA ProcessSteps ==
    ASSUME IInv, WorkerInv, NEW w \in Workers, Heartbeat(w) \/ Crash(w) \/ Restart(w)
    PROVE  SystemStep
<1>0. crashes \in 0..MaxCrashes /\ MaxCrashes \in Nat /\ LocalOK(worker[w])
  BY WorkerAssumption DEF WorkerInv
<1>1. CASE Heartbeat(w)
  <2>1. Job(w) # NoTask /\ Job(w) \in Tasks /\ Job(w) = worker[w].job
    BY <1>0, <1>1 DEF Heartbeat, Job, LocalOK, Local
  <2>2. CASE RenewLease(w, Job(w)) /\ UNCHANGED worker
    BY <1>0, <1>1, <2>1, <2>2, EnvironmentHarmless DEF Heartbeat, SystemStep, Harmless
  <2>3. CASE Goes(w, [worker[w] EXCEPT !.beating = FALSE]) /\ UNCHANGED task
    <3>1. Continues(w)
      BY <1>0, <2>1, <2>3, LocalShapes DEF Continues
    <3> QED
      BY <1>0, <1>1, <2>3, <3>1, UnchangedHarmless DEF Heartbeat, SystemStep, Harmless
  <2> QED
    BY <1>1, <2>2, <2>3 DEF Heartbeat
<1>2. CASE Crash(w)
  <2>1. Drops(w)
    BY <1>2, LocalFacts DEF Crash, Drops
  <2>2. crashes' > 0 /\ crashes' \in 0..MaxCrashes /\ UNCHANGED task
    BY <1>0, <1>2 DEF Crash
  <2>3. Harmless
    BY <2>2, UnchangedHarmless
  <2>4. Abandons(w)
    BY <2>1, <2>2, <2>3 DEF Abandons
  <2>5. crashes' = 0 => crashes = 0
    BY <1>0, <2>2
  <2> QED
    BY <2>2, <2>3, <2>4, <2>5 DEF SystemStep, Harmless
<1>3. CASE Restart(w)
  <2>1. Drops(w) /\ crashes' = crashes
    BY <1>3, LocalFacts DEF Restart, Drops
  <2>2. Job(w) \notin Tasks
    BY <1>0, <1>3, TaskAssumption DEF Restart, Alive, LocalOK, Job
  <2>3. Harmless
    <3>1. RecoverLeases(FALSE)
      BY <1>3 DEF Restart
    <3>2. Next
      BY <3>1 DEF Next
    <3>3. Unsettled /\ NoNewLease
      BY <3>1, RecoverUnsettled, RecoverQuiet, QuietNoNewLease
    <3> QED
      BY <3>2, <3>3 DEF Harmless
  <2>4. Abandons(w)
    BY <2>1, <2>2, <2>3 DEF Abandons
  <2> QED
    BY <1>0, <2>1, <2>3, <2>4 DEF SystemStep, Harmless
<1> QED
  BY <1>1, <1>2, <1>3

\* Steps outside the workers are harmless and leave the workers alone.
LEMMA OutsideSteps ==
    ASSUME IInv, WorkerInv,
           Submission \/ \E t \in Tasks : Author(t) \/ LeaseRunsOut(t) \/ BackoffEnds(t)
    PROVE  SystemStep
<1>0. crashes \in 0..MaxCrashes
  BY DEF WorkerInv
<1>1. Harmless /\ UNCHANGED <<worker, crashes>>
  <2>1. CASE Submission
    <3>1. \A k \in SubmitKinds : k \in Kinds
      BY WorkerAssumption
    <3> QED
      BY <2>1, <3>1, EnqueueHarmless DEF Submission
  <2>2. ASSUME NEW t \in Tasks, Author(t) \/ LeaseRunsOut(t) \/ BackoffEnds(t)
        PROVE  Harmless /\ UNCHANGED <<worker, crashes>>
    BY <2>2, EnvironmentHarmless DEF Author, LeaseRunsOut, BackoffEnds
  <2> QED
    BY <2>1, <2>2
<1> QED
  BY <1>0, <1>1 DEF SystemStep, Harmless

\* The classification of all steps.
LEMMA AllSteps ==
    ASSUME IInv, WorkerInv, WNext
    PROVE  SystemStep
<1>0. crashes \in 0..MaxCrashes
  BY DEF WorkerInv
<1>1. ASSUME NEW w \in Workers, Works(w) PROVE SystemStep
  <2>1. CASE Take(w) \/ TakeById(w)
    BY <1>0, <2>1, TakingSteps DEF SystemStep
  <2>2. CASE \/ HandlerCheckpoints(w) \/ HandlerLooks(w) \/ HandlerAtBoundary(w)
             \/ HandlerStops(w) \/ HandlerReturns(w) \/ HandlerRaises(w)
             \/ HandlerSchedules(w) \/ HandlerDefers(w)
    BY <1>0, <2>2, HandlerSteps DEF SystemStep, Harmless
  <2>3. CASE \/ NoHandler(w) \/ Defer(w) \/ ReadStatus(w) \/ Settle(w)
             \/ SettleCancelled(w) \/ Failing(w)
    BY <1>0, <2>3, SettlingSteps DEF SystemStep, WorkerStep
  <2> QED
    BY <1>1, <2>1, <2>2, <2>3 DEF Works
<1> QED
  BY <1>1, ProcessSteps, OutsideSteps DEF WNext

-----------------------------------------------------------------------------
(* Theorems.                                                               *)

\* The initial state satisfies the three invariants.
LEMMA InitWorker == WInit => IInv /\ WorkerInv /\ LeaseIsTruthful
<1> SUFFICES ASSUME WInit PROVE IInv /\ WorkerInv /\ LeaseIsTruthful
  OBVIOUS
<1>1. IInv
  BY InitIInv DEF WInit
<1>2. WorkerInv
  BY LocalFacts, WorkerAssumption DEF WInit, WorkerInv, LocalOK
<1>3. LeaseIsTruthful
  BY TaskAssumption DEF WInit, Init, EmptyRow, NewRow, LeaseIsTruthful
<1> QED
  BY <1>1, <1>2, <1>3

\* Every step of the workers and their environment is one of the runtime, and
\* preserves its invariant and the workers'.
LEMMA StepWorker == IInv /\ WorkerInv /\ [WNext]_vars2 => IInv' /\ WorkerInv' /\ [Next]_vars
<1> SUFFICES ASSUME IInv, WorkerInv, [WNext]_vars2
             PROVE  IInv' /\ WorkerInv' /\ [Next]_vars
  OBVIOUS
<1>1. CASE UNCHANGED vars2
  BY <1>1 DEF vars2, vars, IInv, TypeOK, LeaseIffActive, WorkerInv
<1>2. CASE WNext
  <2>1. SystemStep
    BY <1>2, AllSteps
  <2>2. IInv' /\ [Next]_vars
    BY <2>1, StepIInv DEF SystemStep
  <2>3. \/ UNCHANGED worker
        \/ \E w \in Workers : \E l : LocalOK(l) /\ Goes(w, l)
    BY <2>1, LocalFacts DEF SystemStep, Continues, TakesJob, Settles, Abandons, Drops
  <2>4. worker' \in [Workers -> Local] /\ \A v \in Workers : LocalOK(worker'[v])
    BY <2>3, GoesWorker DEF WorkerInv
  <2> QED
    BY <2>1, <2>2, <2>4 DEF SystemStep, WorkerInv
<1> QED
  BY <1>1, <1>2

\* Workers, crashes and authors use the runtime only as Spec allows, so every
\* theorem about Spec is one about the workers.
THEOREM UsesRuntime == WSpec => Spec /\ [](IInv /\ WorkerInv)
<1>1. WInit => Init /\ IInv /\ WorkerInv
  BY InitWorker DEF WInit
<1> QED
  BY <1>1, StepWorker, PTL DEF WSpec, Spec

\* Rows and workers stay well formed.
THEOREM WorkerTypes == WSpec => []WTypeOK
<1>1. IInv /\ WorkerInv => WTypeOK
  BY DEF IInv, TypeOK, WorkerInv, WTypeOK
<1> QED
  BY <1>1, UsesRuntime, PTL

\* While no process has died, a row that names a lease owner is being worked on by
\* that worker.
LEMMA StepTruthful ==
    IInv /\ WorkerInv /\ LeaseIsTruthful /\ [WNext]_vars2 => LeaseIsTruthful'
<1> SUFFICES ASSUME IInv, WorkerInv, LeaseIsTruthful, [WNext]_vars2, crashes' = 0,
                    NEW t \in Tasks, NEW v \in Workers, task'[t].owner = v
             PROVE  Handling(v, t)'
  BY DEF LeaseIsTruthful
<1>0. v # NoWorker /\ task \in [Tasks -> Row]
  BY TaskAssumption DEF IInv, TypeOK
<1>1. CASE UNCHANGED vars2
  BY <1>1 DEF vars2, LeaseIsTruthful, Handling
<1>2. CASE WNext
  <2>1. SystemStep
    BY <1>2, AllSteps
  <2>2. task[t].owner = v => worker[v].job = t
    BY <2>1 DEF SystemStep, LeaseIsTruthful, Handling
  <2>3. CASE Harmless /\ UNCHANGED worker
    BY <1>0, <2>2, <2>3 DEF Harmless, NoNewLease, Handling
  <2>4. ASSUME NEW w \in Workers, Harmless /\ Continues(w) PROVE Handling(v, t)'
    <3>1. PICK l : LocalOK(l) /\ l.job = Job(w) /\ Goes(w, l)
      BY <2>4 DEF Continues
    <3>2. worker'[v].job = worker[v].job
      BY <3>1, GoesWorker DEF Job
    <3> QED
      BY <1>0, <2>2, <2>4, <3>2 DEF Harmless, NoNewLease, Handling
  <2>5. ASSUME NEW w \in Workers, TakesJob(w) PROVE Handling(v, t)'
    <3>1. PICK u \in Tasks : /\ At(w, "idle") /\ Goes(w, Started(u))
                             /\ task[t].owner = v \/ (t = u /\ v = w)
      BY <1>0, <2>5 DEF TakesJob
    <3>2. /\ worker'[w].job = u
          /\ v # w => worker'[v] = worker[v]
      BY <3>1, LocalFacts, GoesWorker
    <3>3. worker[w].job = NoTask
      BY <3>1 DEF At, WorkerInv, LocalOK
    <3> QED
      BY <2>2, <3>1, <3>2, <3>3, TaskAssumption DEF Handling
  <2>6. ASSUME NEW w \in Workers, Settles(w) PROVE Handling(v, t)'
    <3>1. PICK q \in Row : task' = [task EXCEPT ![Job(w)] = q] /\ q.owner = NoWorker
      BY <2>6 DEF Settles
    <3>2. t # Job(w) /\ task[t].owner = v
      BY <1>0, <2>6, <3>1 DEF Settles
    <3>3. v # w
      BY <2>2, <3>2 DEF Job
    <3>4. worker'[v] = worker[v]
      BY <2>6, <3>3, LocalFacts, GoesWorker DEF Settles
    <3> QED
      BY <2>2, <3>2, <3>4 DEF Handling
  <2>7. ASSUME NEW w \in Workers, Abandons(w) PROVE Handling(v, t)'
    <3>1. task[t].owner = v
      BY <1>0, <2>7 DEF Abandons, Harmless, NoNewLease
    <3>2. v # w
      BY <2>2, <2>7, <3>1 DEF Abandons, Job
    <3>3. worker'[v] = worker[v]
      BY <2>7, <3>2, GoesWorker DEF Abandons, Drops
    <3> QED
      BY <2>2, <3>1, <3>3 DEF Handling
  <2> QED
    BY <2>1, <2>3, <2>4, <2>5, <2>6, <2>7 DEF SystemStep
<1> QED
  BY <1>1, <1>2

\* While no process has died, a row that names a lease owner is being worked on by
\* that worker, for any number of workers, tasks and author commands.
THEOREM LeasesAreTruthful == WSpec => []LeaseIsTruthful
  BY InitWorker, StepTruthful, UsesRuntime, PTL DEF WSpec

\* Only the lease owner, in the step in which it drops the job, completes or fails
\* a claimed task or parks it on a child.
THEOREM OwnersSettle == WSpec => SettledByOwner
<1>1. ASSUME IInv, WorkerInv, [WNext]_vars2 PROVE [OwnerSettles]_vars2
  <2> SUFFICES ASSUME WNext, NEW t \in Tasks, task[t].status \in Active,
                      task'[t].status \in {"completed", "failed", "waiting_on_child"}
               PROVE  \E w \in Workers : /\ task[t].owner = w /\ Handling(w, t)
                                         /\ worker'[w] = Idle
    BY <1>1 DEF OwnerSettles
  <2>1. SystemStep
    BY <1>1, AllSteps
  <2>2. ~Unsettled
    BY DEF Unsettled
  <2>3. PICK w \in Workers : Settles(w)
    BY <2>1, <2>2 DEF SystemStep, Harmless, Abandons
  <2>4. t = Job(w)
    <3>1. \A u \in Tasks : u # Job(w) => task'[u] = task[u]
      BY <1>1, <2>3 DEF Settles, IInv, TypeOK
    <3> QED
      BY <3>1 DEF Active
  <2>5. worker'[w] = Idle
    BY <1>1, <2>3, LocalFacts, GoesWorker DEF Settles
  <2> QED
    BY <2>3, <2>4, <2>5 DEF Settles, Handling, Job
<1>2. WSpec => []IInv /\ []WorkerInv /\ [][WNext]_vars2
  BY UsesRuntime, PTL DEF WSpec
<1>3. IInv /\ WorkerInv /\ [WNext]_vars2 => [OwnerSettles]_vars2
  BY <1>1
<1> QED
  BY <1>2, <1>3, PTL DEF SettledByOwner

\* A chapter goes back to the queue only by its own worker's retryable failure.
THEOREM ChaptersStayWithAuthor == WSpec => WriteRequeuedOnlyByOwner
<1>1. ASSUME IInv, WorkerInv, [WNext]_vars2 PROVE [OwnerRequeues]_vars2
  <2> SUFFICES ASSUME WNext, NEW t \in Tasks, task[t].kind = "write", task[t].status \in Active,
                      task'[t].status = "queued"
               PROVE  /\ task[t].status = "running"
                      /\ \E w \in Workers : /\ task[t].owner = w /\ At(w, "failing")
                                            /\ ~Handling(w, t)'
    BY <1>1 DEF OwnerRequeues
  <2>1. SystemStep
    BY <1>1, AllSteps
  <2>2. ~Unsettled
    BY DEF Unsettled
  <2>3. PICK w \in Workers : Settles(w)
    BY <2>1, <2>2 DEF SystemStep, Harmless, Abandons
  <2>4. PICK q \in Row : /\ task' = [task EXCEPT ![Job(w)] = q]
                         /\ q.status = "queued" => task[Job(w)].status = "running" /\ At(w, "failing")
    BY <2>3 DEF Settles
  <2>5. \A u \in Tasks : task'[u] = IF u = Job(w) THEN q ELSE task[u]
    BY <1>1, <2>4 DEF IInv, TypeOK
  <2>6. t = Job(w)
    BY <2>5 DEF Active
  <2>7. worker'[w] = Idle
    BY <1>1, <2>3, LocalFacts, GoesWorker DEF Settles
  <2>8. ~Handling(w, t)'
    BY <2>7, LocalFacts, TaskAssumption DEF Handling
  <2> QED
    BY <2>3, <2>4, <2>5, <2>6, <2>8 DEF Settles
<1>2. WSpec => []IInv /\ []WorkerInv /\ [][WNext]_vars2
  BY UsesRuntime, PTL DEF WSpec
<1>3. IInv /\ WorkerInv /\ [WNext]_vars2 => [OwnerRequeues]_vars2
  BY <1>1
<1> QED
  BY <1>2, <1>3, PTL DEF WriteRequeuedOnlyByOwner
=============================================================================
