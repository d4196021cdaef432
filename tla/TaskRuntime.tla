---------------------------- MODULE TaskRuntime ----------------------------
(***************************************************************************)
(* The durable task queue of src/src/core/task_runtime.py: the rows of the *)
(* table `tasks' and every method of TaskRuntime that changes a status, a  *)
(* lease or a parent/child link.                                           *)
(*                                                                         *)
(* Each method opens one `db.transaction()' (BEGIN IMMEDIATE on SQLite),   *)
(* so each is one atomic action here.  A caller that needs several calls   *)
(* (the worker, the continuous-writing orchestrator) is modelled by the    *)
(* modules that extend this one, with the interleavings between calls.     *)
(*                                                                         *)
(* Abstractions: payloads, progress, timestamps, event rows and the flag   *)
(* cancel_requested, which nothing reads, are left out; a lease deadline   *)
(* is the flag `expired', a retry deadline the flag `backoff' (time may    *)
(* raise the first and clear the second); `attempt' saturates at           *)
(* MaxAttempts, the only value it is compared with; the legacy status      *)
(* `pending' is read as `queued'; the mirror of a queued task, `planned',  *)
(* is written `queued'; all tasks belong to one book; a task's id is its   *)
(* rank in created_at order.                                               *)
(***************************************************************************)
EXTENDS Naturals

CONSTANTS
    Tasks,          \* ids of the rows that may be created, ordered by created_at
    Workers,        \* lease owners (worker_id)
    NoWorker,       \* lease_owner IS NULL
    NoTask,         \* waiting_for_task_id IS NULL
    Keys,           \* idempotency keys
    NoKey,          \* idempotency_key IS NULL
    AgentKinds,     \* kinds that get an AgentTask row (_AGENT_TASK_TYPES)
    MaxAttempts     \* max_attempts of fail()

ASSUME TaskAssumption ==
    /\ Tasks \subseteq Nat
    /\ NoTask \notin Tasks
    /\ NoWorker \notin Workers
    /\ NoKey \notin Keys
    /\ MaxAttempts \in Nat \ {0}

VARIABLE task       \* the table `tasks', one row per id

-----------------------------------------------------------------------------
(* The shape of a row.                                                     *)

\* "write" stands for world-bootstrap, write and write-next, "planning" for
\* storyflow-planning-change, "review" for every other type.
Kinds == {"continuous", "write", "review", "planning"}
RecoveryRequiresAuthor == {"write"}

\* "absent": no row has been inserted under this id.
Statuses == {"absent", "queued", "running", "paused", "cancelling", "completed", "failed",
             "cancelled", "waiting_on_child", "needs_author_decision"}
Active == {"running", "cancelling"}
ChildDone == {"completed", "failed", "needs_author_decision", "cancelled"}

TRANSITIONS ==
    [s \in Statuses |->
        CASE s = "queued" -> {"running", "cancelled"}
          [] s = "running" -> {"paused", "cancelling", "completed", "failed",
                               "needs_author_decision", "waiting_on_child"}
          [] s = "paused" -> {"queued", "cancelled"}
          [] s = "cancelling" -> {"cancelled", "needs_author_decision"}
          [] s = "failed" -> {"queued", "needs_author_decision"}
          [] s = "waiting_on_child" -> {"queued", "cancelled", "needs_author_decision"}
          [] s = "needs_author_decision" -> {"queued", "cancelled"}
          [] OTHER -> {}]

Row == [status: Statuses, kind: Kinds, key: Keys \cup {NoKey},
        owner: Workers \cup {NoWorker}, expired: BOOLEAN, attempt: 0..MaxAttempts,
        waitingFor: Tasks \cup {NoTask}, backoff: BOOLEAN, blocked: BOOLEAN,
        agent: Statuses \cup {"none"}]      \* the mirrored agent_tasks.status

NewRow(k, key, initial, blocked) ==
    [status |-> initial, kind |-> k, key |-> key, owner |-> NoWorker, expired |-> FALSE,
     attempt |-> 0, waitingFor |-> NoTask, backoff |-> FALSE, blocked |-> blocked,
     agent |-> IF k \in AgentKinds THEN initial ELSE "none"]

EmptyRow == [NewRow("review", NoKey, "absent", FALSE) EXCEPT !.agent = "none"]

-----------------------------------------------------------------------------
(* What the methods do to one row.                                         *)

\* Mutant of Released: the row settles and keeps its lease_owner.
ReleasedKeepsOwner(r, s) == [r EXCEPT !.status = s]

\* Status s with the lease given up.
Released(r, s) == [r EXCEPT !.status = s, !.owner = NoWorker, !.expired = FALSE]

\* _sync_agent_task_status: only a row that has an AgentTask is mirrored.
Synced(r) == IF r.agent = "none" THEN r ELSE [r EXCEPT !.agent = r.status]

Leased(r, w) ==
    Synced([r EXCEPT !.status = "running", !.owner = w, !.expired = FALSE,
                     !.attempt = IF @ < MaxAttempts THEN @ + 1 ELSE @])

\* Mutant of Fenced: the lease owner is not compared.
FencedNever(t, w) == w \in Workers \cup {NoWorker}

\* A caller that passes no lease_owner (NoWorker) is not fenced.
Fenced(t, w) == w = NoWorker \/ task[t].owner = w

\* Mutant of KeyFree: the insert does not look for the key first.
KeyFreeUnchecked(key) == key \in Keys \cup {NoKey}

Exists(t) == task[t].status # "absent"
KeyFree(key) == key = NoKey \/ \A u \in Tasks : task[u].key # key
NextId(t) == ~Exists(t) /\ \A u \in Tasks : u < t => Exists(u)

-----------------------------------------------------------------------------
(* Creating rows.                                                          *)

\* A key already used returns the earlier row and inserts nothing.
Enqueue(t, k, key, initial, blocked) ==
    /\ NextId(t)
    /\ KeyFree(key)
    /\ initial = "needs_author_decision" => k = "planning"
    /\ task' = [task EXCEPT ![t] = NewRow(k, key, initial, blocked)]

\* Statuses that make enqueue_continuous refuse a second session of the book.
SessionOpen == {"queued", "running", "waiting_on_child", "paused", "cancelling"}

EnqueueContinuous(t, key) ==
    /\ NextId(t)
    /\ KeyFree(key)
    /\ \A u \in Tasks : task[u].kind = "continuous" => task[u].status \notin SessionOpen
    /\ task' = [task EXCEPT ![t] = NewRow("continuous", key, "queued", FALSE)]

-----------------------------------------------------------------------------
(* Leases.                                                                 *)

\* Mutants of Claimable: a waiting parent is claimed before its child has settled,
\* or only when the child was not cancelled.
ClaimableBeforeChild(t) ==
    /\ \/ task[t].status = "queued" /\ ~task[t].blocked
       \/ task[t].status = "waiting_on_child"
    /\ ~task[t].backoff
ClaimableUnlessCancelled(t) ==
    /\ \/ task[t].status = "queued" /\ ~task[t].blocked
       \/ /\ task[t].status = "waiting_on_child"
          /\ task[t].waitingFor # NoTask
          /\ task[task[t].waitingFor].status \in {"completed", "failed", "needs_author_decision"}
    /\ ~task[t].backoff

Claimable(t) ==
    /\ \/ task[t].status = "queued" /\ ~task[t].blocked
       \/ /\ task[t].status = "waiting_on_child"
          /\ task[t].waitingFor # NoTask
          /\ task[task[t].waitingFor].status \in ChildDone
    /\ ~task[t].backoff

\* claim: the oldest runnable row; a parent whose child has settled is one.
Claim(w, t) ==
    /\ Claimable(t)
    /\ \A u \in Tasks : Claimable(u) => t <= u
    /\ task' = [task EXCEPT ![t] = [Leased(@, w) EXCEPT !.waitingFor = NoTask]]

\* claim_by_id: also a blocked row, never a waiting parent.
ClaimById(w, t) ==
    /\ task[t].status = "queued"
    /\ ~task[t].backoff
    /\ task' = [task EXCEPT ![t] = Leased(@, w)]

RenewLease(w, t) ==
    /\ task[t].status = "running"
    /\ task[t].owner = w
    /\ task' = [task EXCEPT ![t].expired = FALSE]

\* Time passes the lease deadline, or the retry deadline.
LeaseExpires(t) ==
    /\ task[t].owner # NoWorker
    /\ ~task[t].expired
    /\ task' = [task EXCEPT ![t].expired = TRUE]

BackoffElapses(t) ==
    /\ task[t].backoff
    /\ task' = [task EXCEPT ![t].backoff = FALSE]

\* Mutants of Recovered: everything is queued again; a cancelled task is; the
\* status is none of the state machine.
RecoveredAlwaysQueued(r) == Synced(Released(r, "queued"))
RecoveredForgetsCancel(r) ==
    Synced(Released(r, IF r.kind \in RecoveryRequiresAuthor
                       THEN "needs_author_decision" ELSE "queued"))
RecoveredInterrupted(r) == Synced(Released(r, "interrupted"))

\* _recover_leases for one row.
Recovered(r) ==
    Synced(Released(r, IF r.status = "cancelling" \/ r.kind \in RecoveryRequiresAuthor
                       THEN "needs_author_decision" ELSE "queued"))

\* recover_expired_leases (force = FALSE), recover_all_leases_for_restore.
RecoverLeases(force) ==
    task' = [t \in Tasks |-> IF task[t].status \in Active /\ (force \/ task[t].expired)
                             THEN Recovered(task[t]) ELSE task[t]]

-----------------------------------------------------------------------------
(* State changes of a claimed task.                                        *)

CanTransition(t, target, w) == target \in TRANSITIONS[task[t].status] /\ Fenced(t, w)

Transition(t, target, w) ==
    /\ CanTransition(t, target, w)
    /\ task' = [task EXCEPT ![t] = Synced(IF target \in Active
                                          THEN [@ EXCEPT !.status = target]
                                          ELSE Released(@, target))]

CanCheckpoint(t, w) == task[t].status \in {"running", "cancelling", "paused"} /\ Fenced(t, w)

\* A checkpoint replaces the stage, so a row leaves the stage `blocked'.
Checkpoint(t, w) ==
    /\ CanCheckpoint(t, w)
    /\ task' = [task EXCEPT ![t].blocked = FALSE]

CanDefer(t, child, w) == task[t].status = "running" /\ Fenced(t, w) /\ Exists(child)

DeferUntilChild(t, child, w) ==
    /\ CanDefer(t, child, w)
    /\ task' = [task EXCEPT ![t] = [Released(@, "waiting_on_child") EXCEPT
                                        !.waitingFor = child, !.blocked = FALSE]]

CanUpdateData(t, w) ==
    /\ task[t].status \in {"queued", "paused", "needs_author_decision", "waiting_on_child",
                           "running"}
    /\ task[t].status = "running" => w # NoWorker /\ task[t].owner = w

\* update_data rewrites the payload and always overwrites the child link.
UpdateData(t, child, w) ==
    /\ CanUpdateData(t, w)
    /\ task' = [task EXCEPT ![t].waitingFor = child]

CanFail(t, w) == task[t].status \in Active /\ Fenced(t, w)

\* fail: a retryable failure with attempts left goes back to the queue with a
\* deadline; a cancelled one goes to the author.
Fail(t, w, retryable) ==
    /\ CanFail(t, w)
    /\ task' = [task EXCEPT ![t] =
                    IF @.status = "cancelling" THEN Released(@, "needs_author_decision")
                    ELSE IF retryable /\ @.attempt < MaxAttempts
                    THEN [Released(@, "queued") EXCEPT !.backoff = TRUE]
                    ELSE Released(@, "failed")]

-----------------------------------------------------------------------------
(* The author's commands.                                                  *)

Pause(t) == Transition(t, "paused", NoWorker)
Resume(t) == Transition(t, "queued", NoWorker)

\* retry clears what the earlier attempt left, except the child link.
Retry(t) ==
    /\ "queued" \in TRANSITIONS[task[t].status]
    /\ task' = [task EXCEPT ![t] = [Released(@, "queued") EXCEPT !.backoff = FALSE]]

\* Mutant of CancelParent: a status outside the state machine is written.
CancelParentMisspelt(r) == [r EXCEPT !.status = "canceled"]

CancelParent(r) ==
    IF r.status \in Active
    THEN [r EXCEPT !.status = "cancelling"]
    ELSE [r EXCEPT !.status = "cancelled", !.waitingFor = NoTask]

CancelChild(r) ==
    CASE r.status \in {"queued", "paused", "needs_author_decision"}
             -> [r EXCEPT !.status = "cancelled"]
      [] r.status = "running" -> [r EXCEPT !.status = "cancelling"]
      [] OTHER -> r

\* cancel: the task and, in the same transaction, the child it waits for.
Cancel(t) ==
    /\ task[t].status \notin {"absent", "completed", "cancelled", "failed"}
    /\ task' = [u \in Tasks |-> CASE u = t -> CancelParent(task[t])
                                  [] u # t /\ u = task[t].waitingFor -> CancelChild(task[u])
                                  [] OTHER -> task[u]]

\* complete_author_decision_task: a confirmed StoryFlow proposal.
CompleteAuthorDecision(t) ==
    /\ task[t].kind = "planning"
    /\ task[t].status = "needs_author_decision"
    /\ task' = [task EXCEPT ![t] = Synced(Released(@, "completed"))]

-----------------------------------------------------------------------------
(* The runtime on its own: any caller may make any call in any order.  The *)
(* callers of this repository pass lease_owner in every call that settles  *)
(* a claimed task; only checkpoints are also saved without it.             *)

Init == task = [t \in Tasks |-> EmptyRow]

Submit ==
    \E t \in Tasks, key \in Keys \cup {NoKey} :
        \/ EnqueueContinuous(t, key)
        \/ \E k \in Kinds, b \in BOOLEAN : Enqueue(t, k, key, "queued", b)
        \/ Enqueue(t, "planning", key, "needs_author_decision", FALSE)

WorkerTargets == {"completed", "failed", "needs_author_decision", "cancelled"}

WorkerCall(w, t) ==
    \/ Claim(w, t)
    \/ ClaimById(w, t)
    \/ RenewLease(w, t)
    \/ \E target \in WorkerTargets : Transition(t, target, w)
    \/ Checkpoint(t, w)
    \/ Checkpoint(t, NoWorker)
    \/ \E child \in Tasks : DeferUntilChild(t, child, w)
    \/ UpdateData(t, NoTask, w)
    \/ \E retryable \in BOOLEAN : Fail(t, w, retryable)

AuthorCall(t) ==
    \/ Pause(t) \/ Resume(t) \/ Retry(t) \/ Cancel(t) \/ CompleteAuthorDecision(t)
    \/ \E child \in Tasks \cup {NoTask} : UpdateData(t, child, NoWorker)

Next ==
    \/ Submit
    \/ \E w \in Workers, t \in Tasks : WorkerCall(w, t)
    \/ \E t \in Tasks : AuthorCall(t) \/ LeaseExpires(t) \/ BackoffElapses(t)
    \/ \E force \in BOOLEAN : RecoverLeases(force)

vars == task
Spec == Init /\ [][Next]_vars

-----------------------------------------------------------------------------
(* Properties.                                                             *)

TypeOK == task \in [Tasks -> Row]

\* A lease exists exactly while a task is active, and only a lease can expire:
\* no call order leaves an owner on a row that has settled (its next claim would
\* look stolen) or an active row without one (no fence, and no deadline that a
\* recovery could find).
LeaseIffActive ==
    \A t \in Tasks : /\ task[t].owner # NoWorker <=> task[t].status \in Active
                     /\ task[t].expired => task[t].owner # NoWorker

\* An idempotency key names one task, however often a request is repeated and
\* whichever of the enqueue methods receives it.
KeysUnique ==
    \A t, u \in Tasks : t # u /\ task[t].key = task[u].key => task[t].key = NoKey

\* The queue keeps the promises of TaskLifecycle.
Lifecycle ==
    INSTANCE TaskLifecycle WITH status <- [t \in Tasks |-> task[t].status],
                                holder <- [t \in Tasks |-> task[t].owner]
KeepsLifecycle == Lifecycle!LSpec
=============================================================================
