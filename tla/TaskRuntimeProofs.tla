------------------------- MODULE TaskRuntimeProofs -------------------------
(***************************************************************************)
(* Theorems of TaskRuntime, for every set of tasks, workers and keys and   *)
(* every bound on attempts.                                                *)
(*                                                                         *)
(* The argument is one table row at a time.  Each method changes one row   *)
(* by an operator on rows (Released, Leased, ...), and Cancel and          *)
(* RecoverLeases change several rows, each by such an operator.  The       *)
(* lemmas about rows say that the result is a well-formed row that keeps   *)
(* the key, owns a lease exactly when it is active, and makes a move of    *)
(* TaskLifecycle; the lemmas about actions carry that to the table.        *)
(***************************************************************************)
EXTENDS TaskRuntime, TLAPS

\* The conjuncts of LeaseIffActive for one row.
LeaseOK(r) ==
    /\ r.owner # NoWorker <=> r.status \in Active
    /\ r.expired => r.owner # NoWorker

Good(r) == r \in Row /\ LeaseOK(r)

\* TaskLifecycle's moves, for a row r that becomes q.
RStay(r, q) == q.status = r.status /\ q.owner = r.owner
RTake(r, q) == r.status \in {"queued", "waiting_on_child"} /\ q.status = "running" /\ q.owner \in Workers
RAsk(r, q) == r.status = "running" /\ q.status = "cancelling" /\ q.owner = r.owner
RGiveUp(r, q) ==
    /\ \/ r.status = "running" /\ q.status \in {"queued", "paused", "completed", "failed",
                                                "waiting_on_child", "needs_author_decision"}
       \/ r.status = "cancelling" /\ q.status \in {"cancelled", "needs_author_decision"}
    /\ q.owner = NoWorker
RRest(r, q) ==
    /\ \/ /\ r.status \in {"paused", "failed", "waiting_on_child", "needs_author_decision"}
          /\ q.status = "queued"
       \/ /\ r.status \in {"queued", "paused", "waiting_on_child", "needs_author_decision"}
          /\ q.status = "cancelled"
       \/ r.status = "needs_author_decision" /\ q.status = "completed"
    /\ q.owner = NoWorker

\* A move that takes no lease and keeps the key.
Quiet(r, q) ==
    /\ Good(q)
    /\ q.key = r.key
    /\ RStay(r, q) \/ RAsk(r, q) \/ RGiveUp(r, q) \/ RRest(r, q)

\* A move that takes the lease.
Taken(r, q) == Good(q) /\ q.key = r.key /\ RTake(r, q)

\* The three shapes of a step of the table.
Created(t) ==
    \E q \in Row : /\ LeaseOK(q) /\ KeyFree(q.key) /\ ~Exists(t)
                   /\ q.status \in {"queued", "needs_author_decision"}
                   /\ task' = [task EXCEPT ![t] = q]
TakenOne(t) == \E q \in Row : Taken(task[t], q) /\ task' = [task EXCEPT ![t] = q]
AllQuiet == /\ task' \in [Tasks -> Row]
            /\ \A t \in Tasks : Quiet(task[t], task'[t])

IInv == TypeOK /\ LeaseIffActive

-----------------------------------------------------------------------------
(* Lemmas about rows.                                                      *)

\* Giving the lease up yields a good row for every status that needs none.
LEMMA ReleasedGood ==
    ASSUME NEW r \in Row, NEW s \in Statuses \ Active
    PROVE  /\ Good(Released(r, s))
           /\ Released(r, s).status = s
           /\ Released(r, s).owner = NoWorker
           /\ Released(r, s).key = r.key
  BY DEF Good, LeaseOK, Released, Row, Statuses, Active

\* Mirroring the status into the AgentTask row changes nothing else.
LEMMA SyncedKeeps ==
    ASSUME NEW r \in Row
    PROVE  /\ Synced(r) \in Row
           /\ Synced(r).status = r.status
           /\ Synced(r).owner = r.owner
           /\ Synced(r).expired = r.expired
           /\ Synced(r).key = r.key
  BY DEF Synced, Row

\* Leasing a claimable row takes it.
LEMMA LeasedTaken ==
    ASSUME NEW r \in Row, NEW w \in Workers, r.status \in {"queued", "waiting_on_child"}
    PROVE  Taken(r, Leased(r, w))
<1> DEFINE n == IF r.attempt < MaxAttempts THEN r.attempt + 1 ELSE r.attempt
           q == [r EXCEPT !.status = "running", !.owner = w, !.expired = FALSE, !.attempt = n]
<1>0. n \in 0..MaxAttempts
  <2>1. r.attempt \in 0..MaxAttempts
    BY DEF Row
  <2> QED
    BY <2>1, TaskAssumption
<1> HIDE DEF n
<1>1. q \in Row
  BY <1>0 DEF Row, Statuses
<1>2. Leased(r, w) = Synced(q)
  BY DEF Leased, n
<1>3. q.status = "running" /\ q.owner = w /\ q.expired = FALSE /\ q.key = r.key
  BY DEF Row
<1> HIDE DEF q
<1>4. Synced(q) \in Row /\ Synced(q).status = "running" /\ Synced(q).owner = w
      /\ Synced(q).expired = FALSE /\ Synced(q).key = r.key
  BY <1>1, <1>3, SyncedKeeps
<1> QED
  BY <1>2, <1>4, TaskAssumption DEF Taken, Good, LeaseOK, RTake, Active

\* Recovering an active row gives its lease up.
LEMMA RecoveredQuiet ==
    ASSUME NEW r \in Row, r.status \in Active
    PROVE  Quiet(r, Recovered(r))
<1> DEFINE s == IF r.status = "cancelling" \/ r.kind \in RecoveryRequiresAuthor
                THEN "needs_author_decision" ELSE "queued"
           q == Released(r, s)
<1>1. s \in Statuses \ Active /\ s \in {"queued", "needs_author_decision"}
      /\ (r.status = "cancelling" => s = "needs_author_decision")
  BY DEF Statuses, Active
<1>2. Recovered(r) = Synced(q)
  BY DEF Recovered
<1> HIDE DEF s
<1>3. Good(q) /\ q.status = s /\ q.owner = NoWorker /\ q.key = r.key
  BY <1>1, ReleasedGood
<1> HIDE DEF q
<1>4. Good(Synced(q)) /\ Synced(q).status = s /\ Synced(q).owner = NoWorker
      /\ Synced(q).key = r.key
  BY <1>3, SyncedKeeps DEF Good, LeaseOK
<1>5. RGiveUp(r, Synced(q))
  BY <1>1, <1>4 DEF RGiveUp, Active
<1> QED
  BY <1>2, <1>4, <1>5 DEF Quiet

\* A lease owner's transition to one of the worker's targets gives the lease up.
LEMMA SettledQuiet ==
    ASSUME NEW r \in Row, NEW s \in WorkerTargets, r.status \in Active,
           s \in TRANSITIONS[r.status]
    PROVE  Quiet(r, Synced(Released(r, s)))
<1> DEFINE q == Released(r, s)
<1>1. s \in Statuses \ Active
  BY DEF WorkerTargets, Statuses, Active
<1>2. Good(q) /\ q.status = s /\ q.owner = NoWorker /\ q.key = r.key
  BY <1>1, ReleasedGood
<1> HIDE DEF q
<1>3. Good(Synced(q)) /\ Synced(q).status = s /\ Synced(q).owner = NoWorker
      /\ Synced(q).key = r.key
  BY <1>2, SyncedKeeps DEF Good, LeaseOK
<1>4. RGiveUp(r, Synced(q))
  BY <1>3 DEF RGiveUp, WorkerTargets, Active, TRANSITIONS, Statuses
<1> QED
  BY <1>3, <1>4 DEF Quiet, q

\* Pausing gives the lease up, resuming moves a row nobody holds.
LEMMA AuthorTransitionQuiet ==
    ASSUME NEW r \in Row, NEW s \in {"paused", "queued"}, s \in TRANSITIONS[r.status]
    PROVE  Quiet(r, Synced(Released(r, s)))
<1> DEFINE q == Released(r, s)
<1>1. s \in Statuses \ Active
  BY DEF Statuses, Active
<1>2. Good(q) /\ q.status = s /\ q.owner = NoWorker /\ q.key = r.key
  BY <1>1, ReleasedGood
<1> HIDE DEF q
<1>3. Good(Synced(q)) /\ Synced(q).status = s /\ Synced(q).owner = NoWorker
      /\ Synced(q).key = r.key
  BY <1>2, SyncedKeeps DEF Good, LeaseOK
<1>4. r.status \in Statuses
  BY DEF Row
<1>5. RGiveUp(r, Synced(q)) \/ RRest(r, Synced(q))
  BY <1>3, <1>4 DEF RGiveUp, RRest, TRANSITIONS, Statuses
<1> QED
  BY <1>3, <1>5 DEF Quiet, q

\* What cancel does to the task and to the child it waits for.
LEMMA CancelledQuiet ==
    ASSUME NEW r \in Row, LeaseOK(r)
    PROVE  /\ r.status \notin {"absent", "completed", "cancelled", "failed"}
              => Quiet(r, CancelParent(r))
           /\ Quiet(r, CancelChild(r))
<1>1. r.status \in Statuses
  BY DEF Row
<1>2. ASSUME r.status \notin {"absent", "completed", "cancelled", "failed"}
      PROVE  Quiet(r, CancelParent(r))
  <2>1. CancelParent(r) \in Row
    BY DEF CancelParent, Row, Statuses
  <2>2. CancelParent(r).owner = r.owner /\ CancelParent(r).expired = r.expired
        /\ CancelParent(r).key = r.key
        /\ CancelParent(r).status = IF r.status \in Active THEN "cancelling" ELSE "cancelled"
    BY DEF CancelParent, Row
  <2> QED
    BY <1>1, <1>2, <2>1, <2>2 DEF Quiet, Good, LeaseOK, RStay, RAsk, RRest, Active, Statuses
<1>3. Quiet(r, CancelChild(r))
  <2>1. CancelChild(r) \in Row
    BY DEF CancelChild, Row, Statuses
  <2>2. CancelChild(r).owner = r.owner /\ CancelChild(r).expired = r.expired
        /\ CancelChild(r).key = r.key
        /\ CancelChild(r).status =
             IF r.status \in {"queued", "paused", "needs_author_decision"} THEN "cancelled"
             ELSE IF r.status = "running" THEN "cancelling" ELSE r.status
    BY DEF CancelChild, Row
  <2> QED
    BY <1>1, <2>1, <2>2 DEF Quiet, Good, LeaseOK, RStay, RAsk, RRest, Active, Statuses
<1> QED
  BY <1>2, <1>3

-----------------------------------------------------------------------------
(* Lemmas about the table.                                                 *)

\* Every row of a table that satisfies the invariant is good, and may stay.
LEMMA RowsGood ==
    ASSUME IInv, NEW t \in Tasks
    PROVE  task[t] \in Row /\ LeaseOK(task[t]) /\ Quiet(task[t], task[t])
  BY DEF IInv, TypeOK, LeaseIffActive, LeaseOK, Good, Quiet, RStay

\* A quiet change of one row is a quiet step of the table.
LEMMA ChangeOne ==
    ASSUME IInv, NEW t \in Tasks, NEW q, Quiet(task[t], q), task' = [task EXCEPT ![t] = q]
    PROVE  AllQuiet
<1>1. q \in Row /\ task \in [Tasks -> Row]
  BY DEF Quiet, Good, IInv, TypeOK
<1>2. task' \in [Tasks -> Row]
  BY <1>1
<1>3. ASSUME NEW u \in Tasks PROVE Quiet(task[u], task'[u])
  <2>1. CASE u = t
    BY <1>1, <2>1
  <2>2. CASE u # t
    BY <1>1, <2>2, RowsGood
  <2> QED
    BY <2>1, <2>2
<1> QED
  BY <1>2, <1>3 DEF AllQuiet

\* Rows enter queued or at the author, under a free key.
LEMMA SubmitCreates ==
    ASSUME IInv, Submit
    PROVE  \E t \in Tasks : Created(t)
<1> DEFINE Fresh(q) == /\ q \in Row /\ LeaseOK(q)
                       /\ q.status \in {"queued", "needs_author_decision"}
<1>1. ASSUME NEW k \in Kinds, NEW key \in Keys \cup {NoKey}, NEW b \in BOOLEAN,
             NEW i \in {"queued", "needs_author_decision"}
      PROVE  Fresh(NewRow(k, key, i, b)) /\ NewRow(k, key, i, b).key = key
  BY TaskAssumption DEF NewRow, Row, LeaseOK, Active, Statuses
<1>2. PICK t \in Tasks, key \in Keys \cup {NoKey} :
        \/ EnqueueContinuous(t, key)
        \/ \E k \in Kinds, b \in BOOLEAN : Enqueue(t, k, key, "queued", b)
        \/ Enqueue(t, "planning", key, "needs_author_decision", FALSE)
  BY DEF Submit
<1>3. \E k \in Kinds, b \in BOOLEAN, i \in {"queued", "needs_author_decision"} :
        NextId(t) /\ KeyFree(key) /\ task' = [task EXCEPT ![t] = NewRow(k, key, i, b)]
  <2>1. "continuous" \in Kinds /\ "planning" \in Kinds
    BY DEF Kinds
  <2>2. CASE EnqueueContinuous(t, key)
    BY <2>1, <2>2 DEF EnqueueContinuous
  <2>3. CASE \E k \in Kinds, b \in BOOLEAN : Enqueue(t, k, key, "queued", b)
    BY <2>3 DEF Enqueue
  <2>4. CASE Enqueue(t, "planning", key, "needs_author_decision", FALSE)
    BY <2>1, <2>4 DEF Enqueue
  <2> QED
    BY <1>2, <2>2, <2>3, <2>4
<1>4. PICK k \in Kinds, b \in BOOLEAN, i \in {"queued", "needs_author_decision"} :
        NextId(t) /\ KeyFree(key) /\ task' = [task EXCEPT ![t] = NewRow(k, key, i, b)]
  BY <1>3
<1> DEFINE q == NewRow(k, key, i, b)
<1>5. q \in Row /\ LeaseOK(q) /\ q.status \in {"queued", "needs_author_decision"} /\ q.key = key
  BY <1>1
<1> HIDE DEF q
<1>6. task' = [task EXCEPT ![t] = q] /\ KeyFree(q.key) /\ ~Exists(t)
  BY <1>4, <1>5 DEF q, NextId
<1> QED
  BY <1>5, <1>6 DEF Created

\* A worker that claims a row takes it; no other row moves.
LEMMA ClaimTakes ==
    ASSUME IInv, NEW t \in Tasks, NEW w \in Workers, Claim(w, t) \/ ClaimById(w, t)
    PROVE  TakenOne(t)
<1> DEFINE q == Leased(task[t], w)
           q0 == [q EXCEPT !.waitingFor = NoTask]
<1>1. task[t].status \in {"queued", "waiting_on_child"}
  BY DEF Claim, ClaimById, Claimable
<1>2. Taken(task[t], q) /\ q \in Row
  BY <1>1, RowsGood, LeasedTaken DEF Taken, Good
<1>3. q0 \in Row /\ q0.status = q.status /\ q0.owner = q.owner /\ q0.expired = q.expired
      /\ q0.key = q.key
  <2> HIDE DEF q
  <2> QED
    BY <1>2 DEF Row
<1>4. Taken(task[t], q0)
  <2> HIDE DEF q, q0
  <2> QED
    BY <1>2, <1>3 DEF Taken, Good, LeaseOK, RTake
<1>5. CASE Claim(w, t)
  <2>1. task' = [task EXCEPT ![t] = q0]
    BY <1>5 DEF Claim
  <2> HIDE DEF q, q0
  <2> QED
    BY <1>3, <1>4, <2>1 DEF TakenOne
<1>6. CASE ClaimById(w, t)
  <2>1. task' = [task EXCEPT ![t] = q]
    BY <1>6 DEF ClaimById
  <2> HIDE DEF q
  <2> QED
    BY <1>2, <2>1 DEF TakenOne
<1> QED
  BY <1>5, <1>6

\* A call that rewrites fields outside status, owner, expired and key is quiet.
LEMMA OtherFieldsQuiet ==
    ASSUME IInv, NEW t \in Tasks, NEW q \in Row,
           q.status = task[t].status, q.owner = task[t].owner, q.key = task[t].key,
           q.expired => q.owner # NoWorker,
           task' = [task EXCEPT ![t] = q]
    PROVE  AllQuiet
<1>1. Quiet(task[t], q)
  BY RowsGood DEF Quiet, Good, LeaseOK, RStay
<1> QED
  BY <1>1, ChangeOne

\* The calls that keep the status: renewals, checkpoints, payloads, and time.
LEMMA KeepingQuiet ==
    ASSUME IInv, NEW t \in Tasks,
           \/ \E w \in Workers : RenewLease(w, t)
           \/ \E w \in Workers \cup {NoWorker} : Checkpoint(t, w)
           \/ \E w \in Workers \cup {NoWorker}, c \in Tasks \cup {NoTask} : UpdateData(t, c, w)
           \/ LeaseExpires(t)
           \/ BackoffElapses(t)
    PROVE  AllQuiet
<1>0. task[t] \in Row /\ LeaseOK(task[t])
  BY RowsGood
<1>1. ASSUME NEW w \in Workers, RenewLease(w, t) PROVE AllQuiet
  <2> DEFINE q == [task[t] EXCEPT !.expired = FALSE]
  <2>1. q \in Row /\ q.status = task[t].status /\ q.owner = task[t].owner /\ q.key = task[t].key
        /\ q.expired = FALSE
    BY <1>0 DEF Row
  <2>2. task' = [task EXCEPT ![t] = q]
    BY <1>1 DEF RenewLease
  <2> HIDE DEF q
  <2> QED
    BY <2>1, <2>2, OtherFieldsQuiet
<1>2. ASSUME NEW w \in Workers \cup {NoWorker}, Checkpoint(t, w) PROVE AllQuiet
  <2> DEFINE q == [task[t] EXCEPT !.blocked = FALSE]
  <2>1. q \in Row /\ q.status = task[t].status /\ q.owner = task[t].owner /\ q.key = task[t].key
        /\ q.expired = task[t].expired
    BY <1>0 DEF Row
  <2>2. task' = [task EXCEPT ![t] = q]
    BY <1>2 DEF Checkpoint
  <2> HIDE DEF q
  <2> QED
    BY <1>0, <2>1, <2>2, OtherFieldsQuiet DEF LeaseOK
<1>3. ASSUME NEW w \in Workers \cup {NoWorker}, NEW c \in Tasks \cup {NoTask},
             UpdateData(t, c, w)
      PROVE  AllQuiet
  <2> DEFINE q == [task[t] EXCEPT !.waitingFor = c]
  <2>1. q \in Row /\ q.status = task[t].status /\ q.owner = task[t].owner /\ q.key = task[t].key
        /\ q.expired = task[t].expired
    BY <1>0 DEF Row
  <2>2. task' = [task EXCEPT ![t] = q]
    BY <1>3 DEF UpdateData, CanUpdateData
  <2> HIDE DEF q
  <2> QED
    BY <1>0, <2>1, <2>2, OtherFieldsQuiet DEF LeaseOK
<1>4. ASSUME LeaseExpires(t) PROVE AllQuiet
  <2> DEFINE q == [task[t] EXCEPT !.expired = TRUE]
  <2>1. q \in Row /\ q.status = task[t].status /\ q.owner = task[t].owner /\ q.key = task[t].key
    BY <1>0 DEF Row
  <2>2. task' = [task EXCEPT ![t] = q] /\ task[t].owner # NoWorker
    BY <1>4 DEF LeaseExpires
  <2> HIDE DEF q
  <2> QED
    BY <2>1, <2>2, OtherFieldsQuiet
<1>5. ASSUME BackoffElapses(t) PROVE AllQuiet
  <2> DEFINE q == [task[t] EXCEPT !.backoff = FALSE]
  <2>1. q \in Row /\ q.status = task[t].status /\ q.owner = task[t].owner /\ q.key = task[t].key
        /\ q.expired = task[t].expired
    BY <1>0 DEF Row
  <2>2. task' = [task EXCEPT ![t] = q]
    BY <1>5 DEF BackoffElapses
  <2> HIDE DEF q
  <2> QED
    BY <1>0, <2>1, <2>2, OtherFieldsQuiet DEF LeaseOK
<1> QED
  BY <1>1, <1>2, <1>3, <1>4, <1>5

\* The calls of a lease owner that settle its task.
LEMMA SettlingQuiet ==
    ASSUME IInv, NEW t \in Tasks, NEW w \in Workers,
           \/ \E s \in WorkerTargets : Transition(t, s, w)
           \/ \E c \in Tasks : DeferUntilChild(t, c, w)
           \/ \E b \in BOOLEAN : Fail(t, w, b)
    PROVE  AllQuiet
<1>0. task[t] \in Row /\ LeaseOK(task[t])
  BY RowsGood
<1>1. ASSUME NEW s \in WorkerTargets, Transition(t, s, w) PROVE AllQuiet
  <2>1. task[t].owner = w /\ s \in TRANSITIONS[task[t].status]
    BY <1>1, TaskAssumption DEF Transition, CanTransition, Fenced
  <2>2. task[t].status \in Active
    BY <1>0, <2>1, TaskAssumption DEF LeaseOK
  <2>3. s \notin Active
    BY DEF WorkerTargets, Active
  <2>4. task' = [task EXCEPT ![t] = Synced(Released(task[t], s))]
    BY <1>1, <2>3 DEF Transition
  <2>5. Quiet(task[t], Synced(Released(task[t], s)))
    BY <1>0, <2>1, <2>2, SettledQuiet
  <2> QED
    BY <2>4, <2>5, ChangeOne
<1>2. ASSUME NEW c \in Tasks, DeferUntilChild(t, c, w) PROVE AllQuiet
  <2> DEFINE q == Released(task[t], "waiting_on_child")
             q0 == [q EXCEPT !.waitingFor = c, !.blocked = FALSE]
  <2>1. Good(q) /\ q \in Row /\ q.status = "waiting_on_child" /\ q.owner = NoWorker
        /\ q.key = task[t].key
    BY <1>0, ReleasedGood DEF Statuses, Active, Good
  <2>2. task' = [task EXCEPT ![t] = q0] /\ task[t].status = "running"
    BY <1>2 DEF DeferUntilChild, CanDefer
  <2> HIDE DEF q
  <2>3. q0 \in Row /\ q0.status = "waiting_on_child" /\ q0.owner = NoWorker
        /\ q0.key = task[t].key /\ q0.expired = q.expired
    BY <2>1 DEF Row
  <2> HIDE DEF q0
  <2>4. Quiet(task[t], q0)
    BY <2>1, <2>2, <2>3 DEF Quiet, Good, LeaseOK, RGiveUp
  <2> QED
    BY <2>2, <2>4, ChangeOne
<1>3. ASSUME NEW b \in BOOLEAN, Fail(t, w, b) PROVE AllQuiet
  <2>1. task[t].status \in Active
    BY <1>3 DEF Fail, CanFail
  <2>2. CASE task[t].status = "cancelling"
    <3>1. task' = [task EXCEPT ![t] = Released(task[t], "needs_author_decision")]
      BY <1>3, <2>2 DEF Fail
    <3>2. Quiet(task[t], Released(task[t], "needs_author_decision"))
      BY <1>0, <2>2, ReleasedGood DEF Quiet, RGiveUp, Statuses, Active
    <3> QED
      BY <3>1, <3>2, ChangeOne
  <2>3. CASE task[t].status = "running" /\ b /\ task[t].attempt < MaxAttempts
    <3> DEFINE q == Released(task[t], "queued")
               q0 == [q EXCEPT !.backoff = TRUE]
    <3>1. Good(q) /\ q \in Row /\ q.status = "queued" /\ q.owner = NoWorker /\ q.key = task[t].key
      BY <1>0, ReleasedGood DEF Statuses, Active, Good
    <3>2. task' = [task EXCEPT ![t] = q0]
      BY <1>3, <2>3 DEF Fail
    <3> HIDE DEF q
    <3>3. q0 \in Row /\ q0.status = "queued" /\ q0.owner = NoWorker /\ q0.key = task[t].key
          /\ q0.expired = q.expired
      BY <3>1 DEF Row
    <3> HIDE DEF q0
    <3>4. Quiet(task[t], q0)
      BY <2>3, <3>1, <3>3 DEF Quiet, Good, LeaseOK, RGiveUp
    <3> QED
      BY <3>2, <3>4, ChangeOne
  <2>4. CASE task[t].status = "running" /\ ~(b /\ task[t].attempt < MaxAttempts)
    <3>1. task' = [task EXCEPT ![t] = Released(task[t], "failed")]
      BY <1>3, <2>4 DEF Fail
    <3>2. Quiet(task[t], Released(task[t], "failed"))
      BY <1>0, <2>4, ReleasedGood DEF Quiet, RGiveUp, Statuses, Active
    <3> QED
      BY <3>1, <3>2, ChangeOne
  <2> QED
    BY <2>1, <2>2, <2>3, <2>4 DEF Active
<1> QED
  BY <1>1, <1>2, <1>3

\* The author's commands take no lease; cancel moves two rows at most.
LEMMA AuthorQuiet ==
    ASSUME IInv, NEW t \in Tasks, AuthorCall(t)
    PROVE  AllQuiet
<1>0. task[t] \in Row /\ LeaseOK(task[t])
  BY RowsGood
<1>1. ASSUME Pause(t) \/ Resume(t) PROVE AllQuiet
  <2>1. PICK s \in {"paused", "queued"} : Transition(t, s, NoWorker)
    BY <1>1 DEF Pause, Resume
  <2>2. s \in TRANSITIONS[task[t].status]
        /\ task' = [task EXCEPT ![t] = Synced(Released(task[t], s))]
    BY <2>1 DEF Transition, CanTransition, Active
  <2>3. Quiet(task[t], Synced(Released(task[t], s)))
    BY <1>0, <2>2, AuthorTransitionQuiet
  <2> QED
    BY <2>2, <2>3, ChangeOne
<1>2. ASSUME Retry(t) PROVE AllQuiet
  <2> DEFINE q == Released(task[t], "queued")
             q0 == [q EXCEPT !.backoff = FALSE]
  <2>1. Good(q) /\ q \in Row /\ q.status = "queued" /\ q.owner = NoWorker /\ q.key = task[t].key
    BY <1>0, ReleasedGood DEF Statuses, Active, Good
  <2>2. task' = [task EXCEPT ![t] = q0] /\ "queued" \in TRANSITIONS[task[t].status]
    BY <1>2 DEF Retry
  <2>3. task[t].status \in {"paused", "failed", "waiting_on_child", "needs_author_decision"}
    BY <1>0, <2>2 DEF TRANSITIONS, Statuses, Row
  <2> HIDE DEF q
  <2>4. q0 \in Row /\ q0.status = "queued" /\ q0.owner = NoWorker
        /\ q0.key = task[t].key /\ q0.expired = q.expired
    BY <2>1 DEF Row
  <2> HIDE DEF q0
  <2>5. Quiet(task[t], q0)
    BY <2>1, <2>3, <2>4 DEF Quiet, Good, LeaseOK, RRest
  <2> QED
    BY <2>2, <2>5, ChangeOne
<1>3. ASSUME Cancel(t) PROVE AllQuiet
  <2>1. ASSUME NEW u \in Tasks PROVE Quiet(task[u], task'[u])
    <3>1. task[u] \in Row /\ LeaseOK(task[u]) /\ Quiet(task[u], task[u])
      BY RowsGood
    <3>2. CASE u = t
      BY <1>3, <3>1, <3>2, CancelledQuiet DEF Cancel
    <3>3. CASE u # t /\ u = task[t].waitingFor
      BY <1>3, <3>1, <3>3, CancelledQuiet DEF Cancel
    <3>4. CASE u # t /\ u # task[t].waitingFor
      <4>1. task'[u] = task[u]
        BY <1>3, <3>4 DEF Cancel
      <4> QED
        BY <3>1, <4>1
    <3> QED
      BY <3>2, <3>3, <3>4
  <2>2. task' = [u \in Tasks |-> task'[u]]
    BY <1>3 DEF Cancel
  <2>3. task' \in [Tasks -> Row]
    BY <2>1, <2>2 DEF Quiet, Good
  <2> QED
    BY <2>1, <2>3 DEF AllQuiet
<1>4. ASSUME CompleteAuthorDecision(t) PROVE AllQuiet
  <2> DEFINE q == Released(task[t], "completed")
  <2>1. Good(q) /\ q.status = "completed" /\ q.owner = NoWorker /\ q.key = task[t].key
    BY <1>0, ReleasedGood DEF Statuses, Active
  <2>2. task' = [task EXCEPT ![t] = Synced(q)] /\ task[t].status = "needs_author_decision"
    BY <1>4 DEF CompleteAuthorDecision
  <2> HIDE DEF q
  <2>3. Good(Synced(q)) /\ Synced(q).status = "completed" /\ Synced(q).owner = NoWorker
        /\ Synced(q).key = task[t].key
    BY <2>1, SyncedKeeps DEF Good, LeaseOK
  <2>4. Quiet(task[t], Synced(q))
    BY <2>2, <2>3 DEF Quiet, RRest
  <2> QED
    BY <2>2, <2>4, ChangeOne
<1>5. ASSUME NEW c \in Tasks \cup {NoTask}, UpdateData(t, c, NoWorker) PROVE AllQuiet
  BY <1>5, KeepingQuiet
<1> QED
  BY <1>1, <1>2, <1>3, <1>4, <1>5 DEF AuthorCall

\* Recovery gives up every lease it finds and takes none.
LEMMA RecoverQuiet ==
    ASSUME IInv, NEW force \in BOOLEAN, RecoverLeases(force)
    PROVE  AllQuiet
<1>1. ASSUME NEW t \in Tasks PROVE Quiet(task[t], task'[t])
  <2>1. task[t] \in Row /\ Quiet(task[t], task[t])
    BY RowsGood
  <2>2. CASE task[t].status \in Active /\ (force \/ task[t].expired)
    <3>1. task'[t] = Recovered(task[t])
      BY <2>2 DEF RecoverLeases
    <3> QED
      BY <2>1, <2>2, <3>1, RecoveredQuiet
  <2>3. CASE ~(task[t].status \in Active /\ (force \/ task[t].expired))
    <3>1. task'[t] = task[t]
      BY <2>3 DEF RecoverLeases
    <3> QED
      BY <2>1, <3>1
  <2> QED
    BY <2>2, <2>3
<1>2. task' = [t \in Tasks |-> task'[t]]
  BY DEF RecoverLeases
<1>3. task' \in [Tasks -> Row]
  BY <1>1, <1>2 DEF Quiet, Good
<1> QED
  BY <1>1, <1>3 DEF AllQuiet

-----------------------------------------------------------------------------
(* The inductive invariant.                                                *)

\* A step of the runtime creates one row, takes one row, or is quiet.
LEMMA StepShape ==
    ASSUME IInv, Next
    PROVE  (\E t \in Tasks : Created(t)) \/ (\E t \in Tasks : TakenOne(t)) \/ AllQuiet
<1>1. CASE Submit
  BY <1>1, SubmitCreates
<1>2. ASSUME NEW w \in Workers, NEW t \in Tasks, WorkerCall(w, t)
      PROVE  TakenOne(t) \/ AllQuiet
  <2>1. CASE Claim(w, t) \/ ClaimById(w, t)
    BY <2>1, ClaimTakes
  <2>2. CASE RenewLease(w, t) \/ Checkpoint(t, w) \/ Checkpoint(t, NoWorker)
             \/ UpdateData(t, NoTask, w)
    BY <2>2, KeepingQuiet
  <2>3. CASE \/ \E s \in WorkerTargets : Transition(t, s, w)
             \/ \E c \in Tasks : DeferUntilChild(t, c, w)
             \/ \E b \in BOOLEAN : Fail(t, w, b)
    BY <2>3, SettlingQuiet
  <2> QED
    BY <1>2, <2>1, <2>2, <2>3 DEF WorkerCall
<1>3. ASSUME NEW t \in Tasks, AuthorCall(t) PROVE AllQuiet
  BY <1>3, AuthorQuiet
<1>4. ASSUME NEW t \in Tasks, LeaseExpires(t) \/ BackoffElapses(t) PROVE AllQuiet
  BY <1>4, KeepingQuiet
<1>5. ASSUME NEW force \in BOOLEAN, RecoverLeases(force) PROVE AllQuiet
  BY <1>5, RecoverQuiet
<1> QED
  BY <1>1, <1>2, <1>3, <1>4, <1>5 DEF Next

\* The empty table satisfies the invariant.
LEMMA InitIInv == Init => IInv
<1> SUFFICES ASSUME Init PROVE IInv
  OBVIOUS
<1>1. EmptyRow \in Row /\ EmptyRow.status = "absent" /\ EmptyRow.owner = NoWorker
      /\ EmptyRow.expired = FALSE
  <2> DEFINE n == NewRow("review", NoKey, "absent", FALSE)
  <2>1. n \in Row /\ n.status = "absent" /\ n.owner = NoWorker /\ n.expired = FALSE
    BY TaskAssumption DEF NewRow, Row, Kinds, Statuses
  <2>2. EmptyRow = [n EXCEPT !.agent = "none"]
    BY DEF EmptyRow
  <2> HIDE DEF n
  <2> QED
    BY <2>1, <2>2 DEF Row
<1> QED
  BY <1>1 DEF Init, IInv, TypeOK, LeaseIffActive, Active

\* Every call of the runtime preserves the invariant.
LEMMA StepIInv == IInv /\ [Next]_vars => IInv'
<1> SUFFICES ASSUME IInv, [Next]_vars PROVE IInv'
  OBVIOUS
<1>0. task \in [Tasks -> Row]
  BY DEF IInv, TypeOK
<1>1. ASSUME NEW t \in Tasks, NEW q \in Row, LeaseOK(q), task' = [task EXCEPT ![t] = q]
      PROVE  IInv'
  BY <1>0, <1>1 DEF IInv, TypeOK, LeaseIffActive, LeaseOK
<1>2. CASE \E t \in Tasks : Created(t)
  BY <1>1, <1>2 DEF Created
<1>3. CASE \E t \in Tasks : TakenOne(t)
  BY <1>1, <1>3 DEF TakenOne, Taken, Good
<1>4. CASE AllQuiet
  BY <1>4 DEF AllQuiet, Quiet, Good, LeaseOK, IInv, TypeOK, LeaseIffActive
<1>5. CASE UNCHANGED vars
  BY <1>5 DEF vars, IInv, TypeOK, LeaseIffActive
<1> QED
  BY <1>2, <1>3, <1>4, <1>5, StepShape

\* Every row is well formed, and a lease exists exactly while a task is running or
\* cancelling, whoever calls the runtime in whatever order.
THEOREM LeaseInvariant == Spec => [](TypeOK /\ LeaseIffActive)
<1>1. Spec => []IInv
  BY InitIInv, StepIInv, PTL DEF Spec
<1> QED
  BY <1>1, PTL DEF IInv

\* Every row of the table `tasks' has a status of the state machine and well-typed
\* fields, whoever calls the runtime in whatever order.
THEOREM TypeCorrect == Spec => []TypeOK
  BY LeaseInvariant, PTL

\* No two tasks are ever created under one idempotency key.
THEOREM KeyInvariant == Spec => []KeysUnique
<1>1. Init => KeysUnique
  BY DEF Init, KeysUnique, EmptyRow, NewRow
<1>2. IInv /\ KeysUnique /\ [Next]_vars => KeysUnique'
  <2> SUFFICES ASSUME IInv, KeysUnique, [Next]_vars PROVE KeysUnique'
    OBVIOUS
  <2>0. task \in [Tasks -> Row]
    BY DEF IInv, TypeOK
  <2>1. ASSUME NEW t \in Tasks, Created(t) PROVE KeysUnique'
    <3>1. PICK q \in Row : KeyFree(q.key) /\ task' = [task EXCEPT ![t] = q]
      BY <2>1 DEF Created
    <3>2. \A u \in Tasks : task'[u] = IF u = t THEN q ELSE task[u]
      BY <2>0, <3>1
    <3> QED
      BY <3>1, <3>2 DEF KeysUnique, KeyFree
  <2>2. ASSUME NEW t \in Tasks, TakenOne(t) PROVE KeysUnique'
    <3>1. PICK q \in Row : q.key = task[t].key /\ task' = [task EXCEPT ![t] = q]
      BY <2>2 DEF TakenOne, Taken
    <3>2. \A u \in Tasks : task'[u].key = task[u].key
      BY <2>0, <3>1
    <3> QED
      BY <3>2 DEF KeysUnique
  <2>3. CASE AllQuiet
    BY <2>3 DEF AllQuiet, Quiet, KeysUnique
  <2>4. CASE UNCHANGED vars
    BY <2>4 DEF vars, KeysUnique
  <2> QED
    BY <2>1, <2>2, <2>3, <2>4, StepShape
<1>3. Spec => []IInv
  BY InitIInv, StepIInv, PTL DEF Spec
<1> QED
  BY <1>1, <1>2, <1>3, PTL DEF Spec

-----------------------------------------------------------------------------
(* The queue implements TaskLifecycle.                                     *)

\* A quiet move of a row is a move of TaskLifecycle that takes nothing.
LEMMA QuietMoves ==
    ASSUME NEW t \in Tasks, Quiet(task[t], task'[t])
    PROVE  Lifecycle!Move(t) /\ ~Lifecycle!Take(t)
  BY DEF Quiet, RStay, RAsk, RGiveUp, RRest, Lifecycle!Move, Lifecycle!Stay,
         Lifecycle!AskToCancel, Lifecycle!GiveUp, Lifecycle!Rest, Lifecycle!Take,
         Lifecycle!AfterRunning, Lifecycle!AfterCancelling

\* A step that changes one row leaves the others where they are.
LEMMA OthersStay ==
    ASSUME IInv, NEW t \in Tasks, NEW q, task' = [task EXCEPT ![t] = q],
           NEW u \in Tasks, u # t
    PROVE  Lifecycle!Move(u) /\ ~Lifecycle!Take(u)
<1>1. task'[u] = task[u]
  BY DEF IInv, TypeOK
<1> QED
  BY <1>1, RowsGood, QuietMoves

\* Every call of the runtime is a step of TaskLifecycle, or none.
LEMMA StepLifecycle == IInv /\ IInv' /\ [Next]_vars => [Lifecycle!LNext]_(Lifecycle!lvars)
<1> SUFFICES ASSUME IInv, IInv', Next PROVE Lifecycle!LNext
  <2>1. ASSUME UNCHANGED vars PROVE UNCHANGED Lifecycle!lvars
    BY <2>1 DEF vars, Lifecycle!lvars
  <2> QED
    BY <2>1
<1>1. /\ [t \in Tasks |-> task[t].status]' \in [Tasks -> Lifecycle!TaskStatus]
      /\ [t \in Tasks |-> task[t].owner]' \in [Tasks -> Workers \cup {NoWorker}]
  BY DEF IInv, TypeOK, Row, Statuses, Lifecycle!TaskStatus
<1>2. ASSUME NEW t \in Tasks, NEW q \in Row, task' = [task EXCEPT ![t] = q],
             Lifecycle!Move(t)
      PROVE  Lifecycle!LNext
  <2>1. \A u \in Tasks : u # t => Lifecycle!Move(u) /\ ~Lifecycle!Take(u)
    BY <1>2, OthersStay
  <2> QED
    BY <1>1, <1>2, <2>1 DEF Lifecycle!LNext
<1>3. ASSUME NEW t \in Tasks, Created(t) PROVE Lifecycle!LNext
  <2>1. PICK q \in Row : /\ LeaseOK(q) /\ ~Exists(t)
                         /\ q.status \in {"queued", "needs_author_decision"}
                         /\ task' = [task EXCEPT ![t] = q]
    BY <1>3 DEF Created
  <2>2. task[t].status = "absent" /\ task'[t] = q /\ q.owner = NoWorker
    BY <2>1, TaskAssumption DEF Exists, IInv, TypeOK, LeaseOK, Active, Row
  <2>3. Lifecycle!Move(t)
    BY <2>1, <2>2 DEF Lifecycle!Move, Lifecycle!Create
  <2> QED
    BY <1>2, <2>1, <2>3
<1>4. ASSUME NEW t \in Tasks, TakenOne(t) PROVE Lifecycle!LNext
  <2>1. PICK q \in Row : Taken(task[t], q) /\ task' = [task EXCEPT ![t] = q]
    BY <1>4 DEF TakenOne
  <2>2. task'[t] = q
    BY <2>1 DEF IInv, TypeOK
  <2>3. Lifecycle!Move(t)
    BY <2>1, <2>2 DEF Taken, RTake, Lifecycle!Move, Lifecycle!Take
  <2> QED
    BY <1>2, <2>1, <2>3
<1>5. CASE AllQuiet
  <2>1. \A t \in Tasks : Lifecycle!Move(t) /\ ~Lifecycle!Take(t)
    BY <1>5, QuietMoves DEF AllQuiet
  <2> QED
    BY <1>1, <2>1 DEF Lifecycle!LNext
<1> QED
  BY <1>3, <1>4, <1>5, StepShape

\* The durable queue implements TaskLifecycle: the statuses move only along its
\* arrows, leases are taken one at a time, by a claim, and end with the active
\* statuses; a completed or cancelled task never changes again.
THEOREM ImplementsLifecycle == Spec => KeepsLifecycle
<1>1. Init => Lifecycle!LInit
  BY DEF Init, Lifecycle!LInit, EmptyRow, NewRow
<1>2. IInv /\ IInv' /\ [Next]_vars => [Lifecycle!LNext]_(Lifecycle!lvars)
  BY StepLifecycle
<1>3. Spec => []IInv
  BY InitIInv, StepIInv, PTL DEF Spec
<1> QED
  BY <1>1, <1>2, <1>3, PTL DEF Spec, KeepsLifecycle, Lifecycle!LSpec
=============================================================================
