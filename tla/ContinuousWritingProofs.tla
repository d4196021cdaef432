---------------------- MODULE ContinuousWritingProofs ----------------------
(***************************************************************************)
(* Theorems of ContinuousWriting, for every number of chapters, interval,  *)
(* worker, request and every bound on versions, decisions and crashes.     *)
(*                                                                         *)
(* What a checkpoint may say depends on what has happened: which children  *)
(* exist, which chapters have a writing child, which are written, which    *)
(* windows are reviewed or overridden.  `Known' collects these facts.  They*)
(* only grow (KnownGrows), so whatever a worker or a request carries       *)
(* between two transactions stays true however late it writes it.  That is *)
(* why a stale checkpoint can go back but can never count a chapter that   *)
(* was not accepted.                                                       *)
(***************************************************************************)
EXTENDS ContinuousWriting, TaskRuntimeProofs, FiniteSetTheorems, SequenceTheorems

-----------------------------------------------------------------------------
(* What has happened.                                                      *)

Kids == {c \in Tasks : c # Parent /\ Exists(c)}
WriteKid(c, n) == task[c].kind = "write" /\ child[c].window = ChapterOf(n)

Known == [kids     |-> Kids,
          sessions |-> {t \in {Parent} : Exists(t)},
          started  |-> {n \in Chapters : \E c \in Kids : WriteKid(c, n)},
          written  |-> {n \in Chapters : Written(n)},
          reviewed |-> {win \in Windows : Reviewed(win)},
          overrode |-> overrode]

\* k2 knows all that k knows.
Extends(k, k2) ==
    /\ k.kids \subseteq k2.kids /\ k.sessions \subseteq k2.sessions
    /\ k.started \subseteq k2.started /\ k.written \subseteq k2.written
    /\ k.reviewed \subseteq k2.reviewed /\ k.overrode \subseteq k2.overrode

\* The runs of chapters a review may be asked for: the ends of a full window, or a
\* window that starts at the current chapter of a checkpoint.
ReviewRuns == (Chapters \X Chapters) \cup {<<x, x + Interval - 1>> : x \in 1..Count + Interval}
ChapterRuns == {ChapterOf(n) : n \in Chapters}

-----------------------------------------------------------------------------
(* What a key, a payload and a checkpoint may say, given k.                *)

KeyOK(k, key) ==
    /\ key \in SessionKeys
    /\ \/ /\ key[1] = "write" /\ key[3] \in 0..MaxVersion
          /\ \E n \in k.started : key[2] = ChapterOf(n)
       \/ key[1] = "review" /\ key[2] \in ReviewRuns

Link(k, c) == c \in k.kids \cup {NoTask}

DataOK(k, d) ==
    /\ d \in [resume: Tasks \cup {NoTask}, override: Windows \cup {NoWindow}]
    /\ Link(k, d.resume)
    /\ d.override \in k.overrode \cup {NoWindow}

Pending == [kind: {"none", "review", "chapter"}, child: Tasks \cup {NoTask},
            window: Windows \cup {NoWindow}, id: Tasks \cup {NoTask}]

PendingOK(k, p) ==
    /\ p \in Pending
    /\ p.kind = "none" => p = NoPending
    /\ p.kind # "none" => p.child \in k.kids
    /\ p.kind = "review" => p.window \in ReviewRuns /\ p.window \in Windows
    /\ p.kind = "chapter" => \E n \in k.started : p.window = ChapterOf(n)

Review == [window: Windows, gate: Gates, id: Tasks]
Once(s) == \A i, j \in Indices(s) : s[i] = s[j] => i = j

SaveOK(k, s) ==
    /\ s \in [completed: Seq(Chapters), reviews: Seq(Review), waiting: Tasks \cup {NoTask},
              current: 1..Count + Interval, pending: Pending]
    /\ Once(s.completed)
    /\ \A i \in Indices(s.completed) : s.completed[i] \in k.written
    /\ \A i \in Indices(s.reviews) :
          s.reviews[i].gate \in {"passed", "overridden"} => s.reviews[i].window \in k.reviewed
    /\ Link(k, s.waiting)
    /\ PendingOK(k, s.pending)

AtParent == {"begin", "look", "check", "plan", "save", "write", "pop", "stop", "stopping",
             "defer", "returned", "cancelling"}
Local == [pc: AtParent \cup {"idle", "child", "failing", "down"}, job: Tasks \cup {NoTask},
          data: [resume: Tasks \cup {NoTask}, override: Windows \cup {NoWindow}],
          state: [completed: Seq(Chapters), reviews: Seq(Review), waiting: Tasks \cup {NoTask},
                  current: 1..Count + Interval, pending: Pending],
          child: Tasks \cup {NoTask}, fence: Workers \cup {NoWorker},
          next: {"idle", "look", "stop", "pop", "plan", "defer"}]

RunOK(k, l) ==
    /\ l \in Local
    /\ DataOK(k, l.data) /\ SaveOK(k, l.state) /\ Link(k, l.child)
    /\ l.pc \in AtParent => l.job = Parent /\ Parent \in k.sessions
    /\ l.pc = "child" => l.job \in k.kids
    /\ l.pc = "failing" => l.job \in Tasks
    /\ \/ l.pc \in {"check", "defer"}
       \/ l.pc \in {"save", "write"} /\ l.next = "defer"
       => l.child # NoTask
    /\ l.pc \in {"save", "write"} => l.next # "idle"

Ask == [pc: {"idle", "queuing", "linking", "retrying"},
        data: [resume: Tasks \cup {NoTask}, override: Windows \cup {NoWindow}],
        key: SessionKeys \cup {NoKey}]

AskOK(k, a) ==
    /\ a \in Ask
    /\ DataOK(k, a.data)
    /\ a.pc # "idle" => Parent \in k.sessions
    /\ a.pc = "queuing" => KeyOK(k, a.key)

\* One row and what its child is about.
ChildRecord == [window: Windows \cup {NoWindow}, draft: 0..MaxVersion,
                outcome: {"none", "accepted", "pass", "fail"}]
KidOK(r, c) ==
    /\ r.key \in SessionKeys /\ r.kind = r.key[1] /\ c.window = r.key[2]
    /\ r.kind = "write" =>
          /\ c.window \in ChapterRuns
          /\ c.outcome = IF r.status = "completed" THEN "accepted" ELSE "none"
    /\ r.kind = "review" =>
          /\ c.window \in ReviewRuns
          /\ IF r.status = "completed" THEN c.outcome \in {"pass", "fail"} /\ c.window[1] <= Count
             ELSE c.outcome = "none"
ChildOK(t, r, c) ==
    /\ c \in ChildRecord
    /\ r.status = "absent" \/ t = Parent => c = NoChild /\ r.key = NoKey
    /\ r.status # "absent" /\ t = Parent => r.kind = "continuous"
    /\ r.status # "absent" /\ t # Parent => KidOK(r, c)

\* Tables of the database and the history of overrides.
TableInv ==
    /\ IInv
    /\ version \in [Chapters -> 0..MaxVersion]
    /\ overrode \subseteq Windows
    /\ child \in [Tasks -> ChildRecord]
    /\ \A t \in Tasks : ChildOK(t, task[t], child[t])
    /\ Kids # {} => Exists(Parent)

\* What is carried from one transaction to a later one.
Carried(k, d, s, local, request) ==
    /\ DataOK(k, d)
    /\ SaveOK(k, s)
    /\ local \in [Workers -> Local] /\ \A w \in Workers : RunOK(k, local[w])
    /\ request \in [Requests -> Ask] /\ \A r \in Requests : AskOK(k, request[r])

\* The inductive invariant.
SInv == TableInv /\ Carried(Known, data, saved, run, ask)

-----------------------------------------------------------------------------
(* What the calls of the runtime do to the rows of a session.              *)

\* The calls a session makes that take no lease, create no row and complete none.
Plain ==
    \/ \E w \in Workers, t \in Tasks :
          \/ Fail(t, w, FALSE) \/ UpdateData(t, NoTask, w)
          \/ Checkpoint(t, w) \/ Checkpoint(t, NoWorker)
          \/ \E s \in {"needs_author_decision", "cancelled"} : Transition(t, s, w)
          \/ \E c \in Tasks : DeferUntilChild(t, c, w)
    \/ \E t \in Tasks :
          \/ Pause(t) \/ Resume(t) \/ Retry(t) \/ Cancel(t) \/ LeaseExpires(t)
          \/ \E c \in Tasks \cup {NoTask} : UpdateData(t, c, NoWorker)
    \/ RecoverLeases(FALSE)

\* All its calls that create no row.  Only the parent is completed here: a child is
\* completed together with its outcome.
Call ==
    \/ Plain
    \/ \E w \in Workers, t \in Tasks : Claim(w, t)
    \/ \E w \in Workers : Transition(Parent, "completed", w)

\* Row r becomes q: it stays what it is, and completed only if it was.
Same(r, q) == q.kind = r.kind /\ q.key = r.key /\ (q.status = "absent" <=> r.status = "absent")
Calm(r, q) == Same(r, q) /\ (q.status = "completed" <=> r.status = "completed")

\* The operators on rows keep the kind; only Released can complete a row.
LEMMA RowsCalm ==
    ASSUME NEW r \in Row
    PROVE  /\ \A s \in Statuses : /\ Synced(Released(r, s)).kind = r.kind
                                /\ Synced(Released(r, s)).status = s
                                /\ Released(r, s).kind = r.kind
                                /\ Released(r, s).status = s
           /\ Recovered(r).kind = r.kind /\ Recovered(r).status # "completed"
           /\ CancelParent(r).kind = r.kind /\ CancelParent(r).status # "completed"
           /\ CancelChild(r).kind = r.kind
           /\ CancelChild(r).status = "completed" => r.status = "completed"
<1>1. ASSUME NEW s \in Statuses
      PROVE  /\ Released(r, s) \in [status: Statuses, kind: Kinds, key: Keys \cup {NoKey},
                 owner: Workers \cup {NoWorker}, expired: BOOLEAN, attempt: 0..MaxAttempts,
                 waitingFor: Tasks \cup {NoTask}, backoff: BOOLEAN, blocked: BOOLEAN,
                 agent: Statuses \cup {"none"}]
             /\ Released(r, s).kind = r.kind /\ Released(r, s).status = s
  BY DEF Released, Row
<1>2. ASSUME NEW s \in Statuses
      PROVE  Synced(Released(r, s)).kind = r.kind /\ Synced(Released(r, s)).status = s
  <2> DEFINE q == Released(r, s)
  <2>1. q \in Row /\ q.kind = r.kind /\ q.status = s
    BY <1>1 DEF Row
  <2> HIDE DEF q
  <2>2. Synced(q).kind = r.kind /\ Synced(q).status = s
    BY <2>1 DEF Synced, Row
  <2> QED
    BY <2>2 DEF q
<1>3. Recovered(r).kind = r.kind /\ Recovered(r).status # "completed"
  BY <1>2 DEF Recovered, Statuses
<1>4. CancelParent(r).kind = r.kind /\ CancelParent(r).status # "completed"
  BY DEF CancelParent, Row
<1>5. /\ CancelChild(r).kind = r.kind
      /\ CancelChild(r).status = "completed" => r.status = "completed"
  BY DEF CancelChild, Row
<1> QED
  BY <1>1, <1>2, <1>3, <1>4, <1>5

\* A changed row is calm if the new one is.
LEMMA OneRowCalm ==
    ASSUME IInv, NEW t \in Tasks, NEW q, task' = [task EXCEPT ![t] = q],
           q.kind = task[t].kind, q.status = "completed" => task[t].status = "completed"
    PROVE  \A u \in Tasks : /\ task'[u].kind = task[u].kind
                            /\ task'[u].status = "completed" => task[u].status = "completed"
  BY DEF IInv, TypeOK

\* A quiet step of rows whose kind stays is the same, and forgets no completion.
LEMMA QuietSame ==
    ASSUME NEW r, NEW q, Quiet(r, q), q.kind = r.kind
    PROVE  Same(r, q) /\ (r.status = "completed" => q.status = "completed")
  BY DEF Quiet, RStay, RAsk, RGiveUp, RRest, Same

\* The plain calls move no row into running and complete none.
LEMMA PlainMoves ==
    ASSUME IInv, Plain
    PROVE  Next /\ AllQuiet /\ \A t \in Tasks : Calm(task[t], task'[t])
<1> DEFINE Kept == \A u \in Tasks : task'[u].kind = task[u].kind
           Open == \A u \in Tasks : task'[u].status = "completed" => task[u].status = "completed"
<1>1. Next
  <2>1. CASE RecoverLeases(FALSE)
    BY <2>1 DEF Next
  <2>2. CASE \E t \in Tasks : \/ Pause(t) \/ Resume(t) \/ Retry(t) \/ Cancel(t) \/ LeaseExpires(t)
                              \/ \E c \in Tasks \cup {NoTask} : UpdateData(t, c, NoWorker)
    BY <2>2 DEF Next, AuthorCall
  <2>3. ASSUME NEW w \in Workers, NEW t \in Tasks,
               \/ Fail(t, w, FALSE) \/ UpdateData(t, NoTask, w)
               \/ Checkpoint(t, w) \/ Checkpoint(t, NoWorker)
               \/ \E s \in {"needs_author_decision", "cancelled"} : Transition(t, s, w)
               \/ \E c \in Tasks : DeferUntilChild(t, c, w)
        PROVE  Next
    <3>1. WorkerCall(w, t)
      BY <2>3 DEF WorkerCall, WorkerTargets
    <3> QED
      BY <3>1 DEF Next
  <2> QED
    BY <2>1, <2>2, <2>3 DEF Plain
<1>2. ASSUME AllQuiet, Kept, Open PROVE \A t \in Tasks : Calm(task[t], task'[t])
  BY <1>2, QuietSame DEF AllQuiet, Calm
<1>3. ASSUME NEW t \in Tasks,
             \/ \E w \in Workers \cup {NoWorker} : Checkpoint(t, w)
             \/ \E w \in Workers \cup {NoWorker}, c \in Tasks \cup {NoTask} : UpdateData(t, c, w)
             \/ LeaseExpires(t)
      PROVE  AllQuiet /\ \A u \in Tasks : Calm(task[u], task'[u])
  <2>1. AllQuiet
    BY <1>3, KeepingQuiet
  <2>2. PICK q : task' = [task EXCEPT ![t] = q] /\ q.kind = task[t].kind /\ q.status = task[t].status
    <3>1. task[t] \in Row
      BY RowsGood
    <3>2. /\ [task[t] EXCEPT !.blocked = FALSE].kind = task[t].kind
          /\ [task[t] EXCEPT !.blocked = FALSE].status = task[t].status
          /\ [task[t] EXCEPT !.expired = TRUE].kind = task[t].kind
          /\ [task[t] EXCEPT !.expired = TRUE].status = task[t].status
          /\ \A c : /\ [task[t] EXCEPT !.waitingFor = c].kind = task[t].kind
                    /\ [task[t] EXCEPT !.waitingFor = c].status = task[t].status
      BY <3>1 DEF Row
    <3>3. CASE \E w \in Workers \cup {NoWorker} : Checkpoint(t, w)
      BY <3>2, <3>3 DEF Checkpoint
    <3>4. CASE \E w \in Workers \cup {NoWorker}, c \in Tasks \cup {NoTask} : UpdateData(t, c, w)
      <4>1. PICK w \in Workers \cup {NoWorker}, c \in Tasks \cup {NoTask} : UpdateData(t, c, w)
        BY <3>4
      <4>2. task' = [task EXCEPT ![t] = [task[t] EXCEPT !.waitingFor = c]]
        BY <4>1 DEF UpdateData
      <4> QED
        BY <3>2, <4>2
    <3>5. CASE LeaseExpires(t)
      BY <3>2, <3>5 DEF LeaseExpires
    <3> QED
      BY <1>3, <3>3, <3>4, <3>5
  <2>3. Kept /\ Open
    BY <2>2, OneRowCalm
  <2> QED
    BY <1>2, <2>1, <2>3
<1>4. ASSUME NEW t \in Tasks, NEW w \in Workers \cup {NoWorker},
             NEW s \in {"needs_author_decision", "cancelled", "completed", "paused", "queued"},
             Transition(t, s, w), AllQuiet
      PROVE  /\ Kept /\ (s # "completed" => Open)
             /\ \A u \in Tasks : u # t => task'[u] = task[u]
  <2>1. task[t] \in Row /\ s \in Statuses /\ s \notin Active
    BY RowsGood DEF Statuses, Active
  <2>2. task' = [task EXCEPT ![t] = Synced(Released(task[t], s))]
    BY <1>4, <2>1 DEF Transition
  <2>3. /\ Synced(Released(task[t], s)).kind = task[t].kind
        /\ Synced(Released(task[t], s)).status = s
    BY <2>1, RowsCalm
  <2>4. \A u \in Tasks : task'[u] = IF u = t THEN Synced(Released(task[t], s)) ELSE task[u]
    BY <2>2 DEF IInv, TypeOK
  <2> QED
    BY <2>3, <2>4
<1>5. ASSUME NEW t \in Tasks, NEW w \in Workers,
             NEW s \in {"needs_author_decision", "cancelled"}, Transition(t, s, w)
      PROVE  AllQuiet /\ \A u \in Tasks : Calm(task[u], task'[u])
  <2>1. AllQuiet
    BY <1>5, SettlingQuiet DEF WorkerTargets
  <2> QED
    BY <1>2, <1>4, <1>5, <2>1
<1>6. ASSUME NEW t \in Tasks, NEW w \in Workers,
             Fail(t, w, FALSE) \/ \E c \in Tasks : DeferUntilChild(t, c, w)
      PROVE  AllQuiet /\ \A u \in Tasks : Calm(task[u], task'[u])
  <2>1. AllQuiet
    BY <1>6, SettlingQuiet
  <2>2. \E q : task' = [task EXCEPT ![t] = q] /\ q.kind = task[t].kind /\ q.status # "completed"
    <3>1. task[t] \in Row
      BY RowsGood
    <3>2. \A s \in Statuses : Released(task[t], s).kind = task[t].kind /\ Released(task[t], s).status = s
      BY <3>1, RowsCalm
    <3>3. CASE Fail(t, w, FALSE)
      <4>1. \/ task' = [task EXCEPT ![t] = Released(task[t], "needs_author_decision")]
            \/ task' = [task EXCEPT ![t] = Released(task[t], "failed")]
        BY <3>3 DEF Fail
      <4> QED
        BY <3>2, <4>1 DEF Statuses
    <3>4. ASSUME NEW c \in Tasks, DeferUntilChild(t, c, w)
          PROVE  \E q : task' = [task EXCEPT ![t] = q] /\ q.kind = task[t].kind /\ q.status # "completed"
      <4> DEFINE q == [Released(task[t], "waiting_on_child") EXCEPT !.waitingFor = c, !.blocked = FALSE]
      <4>1. q.kind = task[t].kind /\ q.status # "completed"
        BY <3>1 DEF Released, Row
      <4> QED
        BY <3>4, <4>1 DEF DeferUntilChild
    <3> QED
      BY <1>6, <3>3, <3>4
  <2>3. Kept /\ Open
    BY <2>2, OneRowCalm
  <2> QED
    BY <1>2, <2>1, <2>3
<1>7. ASSUME NEW t \in Tasks, Pause(t) \/ Resume(t) \/ Retry(t)
       PROVE  AllQuiet /\ \A u \in Tasks : Calm(task[u], task'[u])
  <2>1. AllQuiet
    BY <1>7, AuthorQuiet DEF AuthorCall
  <2>2. CASE Pause(t) \/ Resume(t)
    BY <1>2, <1>4, <2>1, <2>2 DEF Pause, Resume
  <2>3. CASE Retry(t)
    <3>1. task[t] \in Row
      BY RowsGood
    <3>2. /\ [Released(task[t], "queued") EXCEPT !.backoff = FALSE].kind = task[t].kind
          /\ [Released(task[t], "queued") EXCEPT !.backoff = FALSE].status = "queued"
      BY <3>1 DEF Released, Row
    <3>3. Kept /\ Open
      BY <2>3, <3>2, OneRowCalm DEF Retry
    <3> QED
      BY <1>2, <2>1, <3>3
  <2> QED
    BY <1>7, <2>2, <2>3
<1>8. ASSUME NEW t \in Tasks, Cancel(t)
       PROVE  AllQuiet /\ \A u \in Tasks : Calm(task[u], task'[u])
  <2>1. AllQuiet
    BY <1>8, AuthorQuiet DEF AuthorCall
  <2>2. \A u \in Tasks : task[u] \in Row
    BY RowsGood
  <2>3. \A u \in Tasks : task'[u] \in {task[u], CancelParent(task[u]), CancelChild(task[u])}
    BY <1>8 DEF Cancel
  <2>4. Kept /\ Open
    BY <2>2, <2>3, RowsCalm
  <2> QED
    BY <1>2, <2>1, <2>4
<1>9. ASSUME RecoverLeases(FALSE)
       PROVE  AllQuiet /\ \A u \in Tasks : Calm(task[u], task'[u])
  <2>1. AllQuiet
    BY <1>9, RecoverQuiet
  <2>2. \A u \in Tasks : task[u] \in Row /\ task'[u] \in {task[u], Recovered(task[u])}
    BY <1>9, RowsGood DEF RecoverLeases
  <2>3. Kept /\ Open
    BY <2>2, RowsCalm
  <2> QED
    BY <1>2, <2>1, <2>3
<1> QED
  BY <1>1, <1>3, <1>5, <1>6, <1>7, <1>8, <1>9 DEF Plain

\* A settled row: the others are left alone.
LEMMA SettleRow ==
    ASSUME IInv, NEW t \in Tasks, NEW w \in Workers,
           NEW s \in {"needs_author_decision", "completed", "cancelled"}, Transition(t, s, w)
    PROVE  /\ Next /\ \A u \in Tasks : Same(task[u], task'[u]) /\ (u # t => task'[u] = task[u])
           /\ task'[t].status = s /\ task[t].status \in Active
<1>1. Next
  BY DEF Next, WorkerCall, WorkerTargets
<1>2. AllQuiet
  BY SettlingQuiet DEF WorkerTargets
<1>3. task[t] \in Row /\ LeaseOK(task[t]) /\ s \in Statuses /\ s \notin Active /\ NoWorker \notin Workers
  BY RowsGood, TaskAssumption DEF Statuses, Active
<1>4. task' = [task EXCEPT ![t] = Synced(Released(task[t], s))]
  BY <1>3 DEF Transition
<1>5. /\ Synced(Released(task[t], s)).kind = task[t].kind
      /\ Synced(Released(task[t], s)).status = s
  BY <1>3, RowsCalm
<1>6. \A u \in Tasks : task'[u] = IF u = t THEN Synced(Released(task[t], s)) ELSE task[u]
  BY <1>4 DEF IInv, TypeOK
<1>7. \A u \in Tasks : Same(task[u], task'[u])
  BY <1>2, <1>5, <1>6, QuietSame DEF AllQuiet
<1>8. task[t].owner = w
  BY <1>3 DEF Transition, CanTransition, Fenced
<1> QED
  BY <1>1, <1>3, <1>5, <1>6, <1>7, <1>8 DEF LeaseOK

\* The calls of a session take no row away and forget no completion.
LEMMA CallMoves ==
    ASSUME IInv, Call
    PROVE  /\ Next
           /\ \A t \in Tasks : /\ Same(task[t], task'[t])
                               /\ task[t].status = "completed" => task'[t].status = "completed"
                               /\ t # Parent => Calm(task[t], task'[t])
<1>1. CASE Plain
  BY <1>1, PlainMoves DEF Calm
<1>2. CASE \E w \in Workers, t \in Tasks : Claim(w, t)
  <2>1. PICK w \in Workers, t \in Tasks : Claim(w, t)
    BY <1>2
  <2>2. Next
    BY <2>1 DEF Next, WorkerCall
  <2>3. PICK q \in Row : Taken(task[t], q) /\ task' = [task EXCEPT ![t] = q]
    BY <2>1, ClaimTakes DEF TakenOne
  <2>4. task[t] \in Row /\ task' = [task EXCEPT ![t] = [Leased(task[t], w) EXCEPT !.waitingFor = NoTask]]
    BY <2>1, RowsGood DEF Claim
  <2>5. [Leased(task[t], w) EXCEPT !.waitingFor = NoTask].kind = task[t].kind
    BY <2>4 DEF Leased, Synced, Row
  <2>6. \A u \in Tasks : task'[u] = IF u = t THEN q ELSE task[u]
    BY <2>3 DEF IInv, TypeOK
  <2>7. q.kind = task[t].kind
    <3>1. task'[t] = [Leased(task[t], w) EXCEPT !.waitingFor = NoTask]
      BY <2>4 DEF IInv, TypeOK
    <3> QED
      BY <2>5, <2>6, <3>1
  <2> QED
    BY <2>2, <2>3, <2>6, <2>7 DEF Taken, RTake, Calm, Same
<1>3. CASE \E w \in Workers : Transition(Parent, "completed", w)
  <2>1. PICK w \in Workers : Transition(Parent, "completed", w)
    BY <1>3
  <2>2. /\ Next /\ \A u \in Tasks : Same(task[u], task'[u]) /\ (u # Parent => task'[u] = task[u])
        /\ task'[Parent].status = "completed" /\ Parent \in Tasks
    BY <2>1, SettleRow, SessionAssumption
  <2> QED
    BY <2>2 DEF Calm
<1> QED
  BY <1>1, <1>2, <1>3 DEF Call

-----------------------------------------------------------------------------
(* What was true of something carried stays true.                          *)

\* A payload, a checkpoint, a key, a worker's and a request's local state say nothing
\* that more knowledge could refute.
LEMMA StaysTrue ==
    ASSUME NEW k, NEW k2, Extends(k, k2)
    PROVE  /\ \A d : DataOK(k, d) => DataOK(k2, d)
           /\ \A s : SaveOK(k, s) => SaveOK(k2, s)
           /\ \A key : KeyOK(k, key) => KeyOK(k2, key)
           /\ \A l : RunOK(k, l) => RunOK(k2, l)
           /\ \A a : AskOK(k, a) => AskOK(k2, a)
           /\ \A d, s, l, a : Carried(k, d, s, l, a) => Carried(k2, d, s, l, a)
<1>1. ASSUME NEW d, DataOK(k, d) PROVE DataOK(k2, d)
  BY <1>1 DEF DataOK, Link, Extends
<1>2. ASSUME NEW p, PendingOK(k, p) PROVE PendingOK(k2, p)
  BY <1>2 DEF PendingOK, Extends
<1>3. ASSUME NEW s, SaveOK(k, s) PROVE SaveOK(k2, s)
  BY <1>2, <1>3 DEF SaveOK, Link, Extends
<1>4. ASSUME NEW key, KeyOK(k, key) PROVE KeyOK(k2, key)
  BY <1>4 DEF KeyOK, Extends
<1>5. ASSUME NEW l, RunOK(k, l) PROVE RunOK(k2, l)
  BY <1>1, <1>3, <1>5 DEF RunOK, Link, Extends
<1>6. ASSUME NEW a, AskOK(k, a) PROVE AskOK(k2, a)
  BY <1>1, <1>4, <1>6 DEF AskOK, Extends
<1> QED
  BY <1>1, <1>3, <1>4, <1>5, <1>6 DEF Carried

\* The tables lose nothing.
Grown ==
    /\ overrode \subseteq overrode'
    /\ \A t \in Tasks : Exists(t) =>
          /\ Exists(t)' /\ task'[t].kind = task[t].kind
          /\ child'[t].window = child[t].window
          /\ child[t].outcome # "none" => child'[t].outcome = child[t].outcome

\* Then what is known only grows.
LEMMA KnownGrows ==
    ASSUME TableInv, Grown
    PROVE  Extends(Known, Known')
<1>0. Parent \in Tasks
  BY SessionAssumption
<1>1. Known.kids \subseteq Known'.kids
  BY DEF Known, Kids, Grown
<1>2. Known.sessions \subseteq Known'.sessions
  BY <1>0 DEF Known, Grown
<1>3. \A c \in Tasks : child[c].outcome # "none" => Exists(c)
  BY DEF TableInv, ChildOK, NoChild, Exists
<1>4. Known.started \subseteq Known'.started
  BY DEF Known, Kids, WriteKid, Grown
<1>5. Known.written \subseteq Known'.written
  BY <1>3 DEF Known, Written, Grown
<1>6. Known.reviewed \subseteq Known'.reviewed
  BY <1>3 DEF Known, Reviewed, Grown
<1>7. Known.overrode \subseteq Known'.overrode
  BY DEF Known, Grown
<1> QED
  BY <1>1, <1>2, <1>4, <1>5, <1>6, <1>7 DEF Extends

\* A call on the tables, or none, leaves the children what they are.
LEMMA CallTables ==
    ASSUME TableInv, Call \/ UNCHANGED task, UNCHANGED <<child, version, overrode>>
    PROVE  [Next]_vars /\ TableInv' /\ Extends(Known, Known')
<1>1. /\ [Next]_vars
      /\ \A t \in Tasks : /\ Same(task[t], task'[t])
                          /\ task[t].status = "completed" => task'[t].status = "completed"
                          /\ t # Parent => Calm(task[t], task'[t])
  BY CallMoves DEF TableInv, vars, Same, Calm
<1>2. IInv'
  BY <1>1, StepIInv DEF TableInv
<1>3. \A t \in Tasks : ChildOK(t, task'[t], child'[t])
  BY <1>1 DEF TableInv, ChildOK, KidOK, Same, Calm
<1>4. Kids' = Kids
  BY <1>1 DEF Kids, Exists, Same
<1>5. Parent \in Tasks /\ (Exists(Parent) => Exists(Parent)')
  BY <1>1, SessionAssumption DEF Exists, Same
<1>6. TableInv'
  BY <1>2, <1>3, <1>4, <1>5 DEF TableInv
<1>7. Grown
  BY <1>1 DEF Grown, Exists, Same
<1> QED
  BY <1>1, <1>6, <1>7, KnownGrows

-----------------------------------------------------------------------------
(* Constants.                                                              *)

LEMMA ParentFirst ==
    /\ Parent \in Tasks /\ NoTask \notin Tasks
    /\ \A t \in Tasks : t \in Nat /\ t >= Parent
  BY SessionAssumption, TaskAssumption DEF Parent

LEMMA WindowsFit ==
    /\ NoWindow \notin Windows
    /\ ReviewRuns \subseteq Windows /\ Chapters \X Chapters \subseteq ReviewRuns
    /\ ChapterRuns \subseteq Windows
    /\ \A n \in Chapters : ChapterOf(n)[1] = n /\ ChapterOf(n)[2] = n
    /\ \A x \in 1..Count + Interval : <<x, x + Interval - 1>> \in ReviewRuns
<1>0. Count \in Nat \ {0} /\ Interval \in Nat \ {0}
  BY SessionAssumption
<1>1. NoWindow \notin Windows
  BY <1>0 DEF NoWindow, Windows
<1>2. Chapters \X Chapters \subseteq Windows
  BY <1>0 DEF Chapters, Windows
<1>3. \A x \in 1..Count + Interval : <<x, x + Interval - 1>> \in Windows
  BY <1>0 DEF Windows
<1>4. ChapterRuns \subseteq Windows
  BY <1>2 DEF ChapterRuns, ChapterOf
<1> QED
  BY <1>1, <1>2, <1>3, <1>4 DEF ReviewRuns, ChapterOf

\* A review starts at a chapter or at the current chapter of a checkpoint, and ends
\* before the last chapter a checkpoint may name.
LEMMA RunsEnd ==
    \A win \in ReviewRuns : /\ win[1] \in 1..Count + Interval
                            /\ win[1] <= Count => win[2] + 1 \in 1..Count + Interval
  BY SessionAssumption DEF ReviewRuns, Chapters

LEMMA LeastNat ==
    ASSUME NEW S, S \subseteq Nat, S # {}
    PROVE  \E n \in S : \A m \in S : n <= m
<1> DEFINE Less == {ss \in Nat \X Nat : ss[1] < ss[2]}
<1>1. Less = OpToRel(<, Nat)
  BY DEF OpToRel
<1>2. IsWellFoundedOn(Less, Nat)
  BY <1>1, NatLessThanWellFounded, Zenon
<1>3. \A m, n \in Nat : <<m, n>> \notin Less => n <= m
  OBVIOUS
<1> HIDE DEF Less
<1>4. PICK n \in S : \A m \in S : <<m, n>> \notin Less
  BY <1>2, WFMin, Zenon
<1>5. \A m \in S : n <= m
  BY <1>3, <1>4
<1> QED
  BY <1>5

-----------------------------------------------------------------------------
(* The operators on checkpoints.                                           *)

\* A position that closes a window has the window's chapters before it.
LEMMA BoundaryFits ==
    ASSUME NEW completed \in Seq(Chapters), NEW b \in Boundaries(completed)
    PROVE  /\ b \in 1..Len(completed) /\ b - Interval + 1 \in 1..b
           /\ WindowAt(completed, b) \in Chapters \X Chapters
<1>1. Interval \in Nat \ {0} /\ Len(completed) \in Nat
  BY SessionAssumption
<1>2. b \in 1..Len(completed) /\ b % Interval = 0
  BY DEF Boundaries, Indices
<1>3. b >= Interval
  <2>1. SUFFICES ASSUME b < Interval PROVE FALSE
    BY <1>1, <1>2
  <2>2. b % Interval = b
    BY <1>1, <1>2, <2>1
  <2> QED
    BY <1>2, <2>2
<1>4. b - Interval + 1 \in 1..b
  BY <1>1, <1>2, <1>3
<1>5. completed[b] \in Chapters /\ completed[b - Interval + 1] \in Chapters
  BY <1>1, <1>2, <1>4
<1> QED
  BY <1>2, <1>4, <1>5 DEF WindowAt

\* _next_joint_review_range finds the first window that is not cleared, if any.
LEMMA DueWindowFirst ==
    ASSUME NEW completed \in Seq(Chapters), NEW reviews
    PROVE  \/ /\ DueWindow(completed, reviews) = NoWindow
              /\ \A b \in Boundaries(completed) : Cleared(reviews, WindowAt(completed, b))
           \/ /\ DueWindow(completed, reviews) \in Chapters \X Chapters
              /\ \E b \in Boundaries(completed) :
                    /\ DueWindow(completed, reviews) = WindowAt(completed, b)
                    /\ \A a \in Boundaries(completed) :
                          a < b => Cleared(reviews, WindowAt(completed, a))
<1> DEFINE due == {b \in Boundaries(completed) : ~Cleared(reviews, WindowAt(completed, b))}
           first == CHOOSE b \in due : \A other \in due : b <= other
<1>1. CASE due = {}
  <2>1. DueWindow(completed, reviews) = NoWindow
    BY <1>1 DEF DueWindow
  <2> QED
    BY <1>1, <2>1
<1>2. CASE due # {}
  <2>1. due \subseteq Nat
    BY DEF Boundaries, Indices
  <2>2. \E b \in due : \A other \in due : b <= other
    BY <1>2, <2>1, LeastNat
  <2>3. first \in due /\ \A other \in due : first <= other
    BY <2>2
  <2>4. DueWindow(completed, reviews) = WindowAt(completed, first)
    BY <1>2 DEF DueWindow
  <2>5. \A a \in Boundaries(completed) : a < first => Cleared(reviews, WindowAt(completed, a))
    <3> SUFFICES ASSUME NEW a \in Boundaries(completed), a < first,
                        ~Cleared(reviews, WindowAt(completed, a))
                 PROVE  FALSE
      OBVIOUS
    <3>1. first <= a /\ a \in Nat /\ first \in Nat
      BY <2>1, <2>3
    <3> QED
      BY <3>1
  <2> QED
    BY <2>3, <2>4, <2>5, BoundaryFits
<1> QED
  BY <1>1, <1>2

\* As long as fewer than Count chapters are completed, the next one is well defined:
\* the list cannot name every chapter.
LEMMA NextChapterFirst ==
    ASSUME NEW completed \in Seq(Chapters), Len(completed) < Count
    PROVE  /\ NextChapter(completed) \in Chapters
           /\ ~InSeq(NextChapter(completed), completed)
           /\ \A m \in 1..NextChapter(completed) - 1 : InSeq(m, completed)
<1> DEFINE open == {n \in Chapters : ~InSeq(n, completed)}
<1>0. Count \in Nat \ {0} /\ Len(completed) \in Nat
  BY SessionAssumption
<1>1. open # {}
  <2> SUFFICES ASSUME \A n \in Chapters : InSeq(n, completed) PROVE FALSE
    OBVIOUS
  <2>1. completed \in [1..Len(completed) -> Chapters]
    BY LenProperties
  <2>2. completed \in Surjection(1..Len(completed), Chapters)
    BY <2>1 DEF Surjection, InSeq, Indices
  <2>3. IsFiniteSet(1..Len(completed)) /\ Cardinality(1..Len(completed)) = Len(completed)
    <3>1. \A n \in Nat : IsFiniteSet(1..n) /\ Cardinality(1..n) = n
      <4> SUFFICES ASSUME NEW n \in Nat PROVE IsFiniteSet(1..n) /\ Cardinality(1..n) = n
        OBVIOUS
      <4>1. IsFiniteSet(1..n) /\ Cardinality(1..n) = IF 1 > n THEN 0 ELSE n - 1 + 1
        BY FS_Interval
      <4> QED
        BY <4>1
    <3> QED
      BY <1>0, <3>1
  <2>4. Cardinality(Chapters) = Count
    BY <1>0, FS_Interval DEF Chapters
  <2>5. Cardinality(Chapters) <= Cardinality(1..Len(completed))
    BY <2>2, <2>3, FS_Surjection
  <2> QED
    BY <1>0, <2>3, <2>4, <2>5
<1>2. PICK n \in open : \A m \in open : n <= m
  <2>1. open \subseteq Nat
    BY DEF Chapters
  <2> HIDE DEF open
  <2> QED
    BY <1>1, <2>1, LeastNat
<1>3. \A m \in 1..n - 1 : InSeq(m, completed)
  BY <1>0, <1>2 DEF Chapters
<1> QED
  BY <1>2, <1>3 DEF NextChapter

\* What the author's override leaves of the reviews.
LEMMA OverriddenReviews ==
    ASSUME NEW reviews \in Seq(Review), NEW window
    PROVE  /\ Overridden(reviews, window) \in Seq(Review)
           /\ Len(Overridden(reviews, window)) = Len(reviews)
           /\ \A i \in Indices(reviews) :
                 /\ Overridden(reviews, window)[i].window = reviews[i].window
                 /\ Overridden(reviews, window)[i].gate # reviews[i].gate =>
                       reviews[i].window = window
<1> DEFINE changed(i) ==
        IF reviews[i].window = window
           /\ \A j \in Indices(reviews) : j > i => reviews[j].window # window
        THEN [reviews[i] EXCEPT !.gate = "overridden"] ELSE reviews[i]
<1>1. Len(reviews) \in Nat /\ \A i \in 1..Len(reviews) : reviews[i] \in Review
  OBVIOUS
<1>2. \A i \in 1..Len(reviews) :
          /\ changed(i) \in Review /\ changed(i).window = reviews[i].window
          /\ changed(i).gate # reviews[i].gate => reviews[i].window = window
  BY <1>1 DEF Review, Gates
<1>3. Overridden(reviews, window) = [i \in 1..Len(reviews) |-> changed(i)]
  BY DEF Overridden, Indices
<1> HIDE DEF changed
<1>4. Overridden(reviews, window) \in [1..Len(reviews) -> Review]
  BY <1>2, <1>3
<1>5. /\ Overridden(reviews, window) \in Seq(Review)
      /\ Len(Overridden(reviews, window)) = Len(reviews)
  BY <1>1, <1>4
<1> QED
  BY <1>2, <1>3, <1>5 DEF Indices

\* One more chapter, or one more review, in a checkpoint.
LEMMA OnceAppend ==
    ASSUME NEW S, NEW s \in Seq(S), NEW x \in S
    PROVE  /\ Append(s, x) \in Seq(S)
           /\ \A i \in Indices(Append(s, x)) :
                 \/ i \in Indices(s) /\ Append(s, x)[i] = s[i]
                 \/ i = Len(s) + 1 /\ Append(s, x)[i] = x
           /\ Once(s) /\ ~InSeq(x, s) => Once(Append(s, x))
<1>1. /\ Append(s, x) \in Seq(S) /\ Len(Append(s, x)) = Len(s) + 1 /\ Len(s) \in Nat
      /\ \A i \in 1..Len(s) : Append(s, x)[i] = s[i]
      /\ Append(s, x)[Len(s) + 1] = x
  BY AppendProperties
<1>2. \A i \in Indices(Append(s, x)) :
         \/ i \in Indices(s) /\ Append(s, x)[i] = s[i]
         \/ i = Len(s) + 1 /\ Append(s, x)[i] = x
  BY <1>1 DEF Indices
<1>3. ASSUME Once(s), ~InSeq(x, s) PROVE Once(Append(s, x))
  BY <1>2, <1>3 DEF Once, InSeq
<1> QED
  BY <1>1, <1>2, <1>3

\* A checkpoint moved on by the fields that advance sets.
LEMMA NothingSavedOK == \A k : SaveOK(k, NothingSaved)
<1>1. NoPending \in Pending
  BY DEF NoPending, Pending
<1>2. NothingSaved.completed = <<>> /\ NothingSaved.reviews = <<>> /\ Len(<<>>) = 0
  BY DEF NothingSaved
<1>3. NothingSaved \in [completed: Seq(Chapters), reviews: Seq(Review), waiting: Tasks \cup {NoTask},
                        current: 1..Count + Interval, pending: Pending]
  BY <1>1, SessionAssumption DEF NothingSaved
<1> QED
  BY <1>1, <1>2, <1>3 DEF SaveOK, NothingSaved, Once, Indices, Link, PendingOK, NoPending

\* The reviews that a checkpoint may count, given what is known.
ReviewsOK(k, reviews) ==
    /\ reviews \in Seq(Review)
    /\ \A i \in Indices(reviews) :
          reviews[i].gate \in {"passed", "overridden"} => reviews[i].window \in k.reviewed
CompletedOK(k, completed) ==
    /\ completed \in Seq(Chapters)
    /\ Once(completed)
    /\ \A i \in Indices(completed) : completed[i] \in k.written

LEMMA SaveParts ==
    ASSUME NEW k, NEW s
    PROVE  SaveOK(k, s) <=>
             /\ s = [completed |-> s.completed, reviews |-> s.reviews, waiting |-> s.waiting,
                     current |-> s.current, pending |-> s.pending]
             /\ CompletedOK(k, s.completed) /\ ReviewsOK(k, s.reviews)
             /\ s.waiting \in Tasks \cup {NoTask} /\ Link(k, s.waiting)
             /\ s.current \in 1..Count + Interval
             /\ PendingOK(k, s.pending)
  BY DEF SaveOK, CompletedOK, ReviewsOK, PendingOK

LEMMA MoreReviewsOK ==
    ASSUME NEW k, NEW reviews, ReviewsOK(k, reviews), NEW r \in Review,
           r.gate \in {"passed", "overridden"} => r.window \in k.reviewed
    PROVE  ReviewsOK(k, Append(reviews, r))
  BY OnceAppend DEF ReviewsOK

LEMMA MoreCompletedOK ==
    ASSUME NEW k, NEW completed, CompletedOK(k, completed), NEW n \in Chapters,
           n \in k.written, ~InSeq(n, completed)
    PROVE  CompletedOK(k, Append(completed, n))
  BY OnceAppend DEF CompletedOK

LEMMA OverriddenOK ==
    ASSUME NEW k, NEW reviews, ReviewsOK(k, reviews), NEW window, window \in k.reviewed
    PROVE  ReviewsOK(k, Overridden(reviews, window))
  BY OverriddenReviews DEF ReviewsOK, Indices

\* What the tables say of a child.
LEMMA KidFacts ==
    ASSUME TableInv, NEW c \in Kids
    PROVE  /\ c \in Tasks /\ c # Parent /\ task[c] \in Row /\ Exists(c) /\ Exists(Parent)
           /\ KidOK(task[c], child[c]) /\ child[c] \in ChildRecord
           /\ task[c].kind \in {"write", "review"}
<1>1. c \in Tasks /\ c # Parent /\ Exists(c) /\ Exists(Parent) /\ task[c] \in Row
  BY RowsGood DEF TableInv, Kids
<1>2. KidOK(task[c], child[c]) /\ child[c] \in ChildRecord
  BY <1>1 DEF TableInv, ChildOK, Exists
<1>3. \A key \in SessionKeys : key[1] \in {"write", "review"}
  BY DEF SessionKeys
<1> QED
  BY <1>1, <1>2, <1>3 DEF KidOK

\* _reconcile_async_child turns a good checkpoint and a settled child into a good
\* checkpoint: a chapter is counted because its child completed, a review because it
\* has a result.
LEMMA ReconciledOK ==
    ASSUME TableInv, NEW c \in Kids, NEW s, SaveOK(Known, s)
    PROVE  SaveOK(Known, Reconciled(c, s))
<1> DEFINE window == child[c].window
           gate == IF child[c].outcome = "pass" THEN "passed" ELSE "failed"
           q == Reconciled(c, s)
<1>0. /\ c \in Tasks /\ KidOK(task[c], child[c]) /\ task[c].kind \in {"write", "review"}
      /\ window \in Windows \cup {NoWindow} /\ c \in Known.kids
      /\ child[c].outcome \in {"none", "accepted", "pass", "fail"}
  BY KidFacts DEF ChildRecord, Known
<1>1. /\ s = [completed |-> s.completed, reviews |-> s.reviews, waiting |-> s.waiting,
              current |-> s.current, pending |-> s.pending]
      /\ CompletedOK(Known, s.completed) /\ ReviewsOK(Known, s.reviews)
      /\ s.current \in 1..Count + Interval
  BY SaveParts
<1>2. NoPending \in Pending /\ PendingOK(Known, NoPending) /\ Link(Known, NoTask)
  BY DEF NoPending, Pending, PendingOK, Link
<1>3. CASE task[c].kind = "review" /\ Done(c)
  <2> DEFINE r == [window |-> window, gate |-> gate, id |-> c]
             p == IF gate = "passed" THEN NoPending
                  ELSE [kind |-> "review", child |-> c, id |-> c, window |-> window]
  <2>1. q = [s EXCEPT !.waiting = NoTask, !.reviews = Append(s.reviews, r),
                      !.current = window[2] + 1, !.pending = p]
    BY <1>1, <1>3 DEF Reconciled
  <2>2. /\ window \in ReviewRuns /\ window[1] <= Count
        /\ child[c].outcome \in {"pass", "fail"}
    BY <1>0, <1>3 DEF KidOK, Done
  <2>3. window \in Windows /\ window[2] + 1 \in 1..Count + Interval
    BY <2>2, WindowsFit, RunsEnd
  <2>4. gate \in Gates /\ (gate \in {"passed", "overridden"} => window \in Known.reviewed)
    BY <1>0, <2>2, <2>3 DEF Gates, Known, Reviewed
  <2>5. r \in Review /\ (r.gate \in {"passed", "overridden"} => r.window \in Known.reviewed)
    BY <1>0, <2>3, <2>4 DEF Review
  <2>6. ReviewsOK(Known, Append(s.reviews, r))
    BY <1>1, <2>5, MoreReviewsOK
  <2>7. PendingOK(Known, p)
    BY <1>0, <1>2, <2>2, <2>3 DEF PendingOK, Pending
  <2> HIDE DEF r, p, q, window
  <2>8. q = [completed |-> s.completed, reviews |-> Append(s.reviews, r), waiting |-> NoTask,
             current |-> window[2] + 1, pending |-> p]
    BY <1>1, <2>1
  <2>9. SaveOK(Known, q)
    BY <1>1, <1>2, <2>3, <2>6, <2>7, <2>8, SaveParts
  <2> QED
    BY <2>9 DEF q
<1>4. CASE task[c].kind = "review" /\ ~Done(c)
  <2>1. q = [s EXCEPT !.waiting = NoTask, !.pending = Unreviewed(c, s)]
    BY <1>1, <1>4 DEF Reconciled
  <2>2. PendingOK(Known, Unreviewed(c, s))
    <3>1. <<s.current, s.current + Interval - 1>> \in ReviewRuns
      BY <1>1, WindowsFit
    <3> QED
      BY <1>0, <3>1, WindowsFit DEF Unreviewed, PendingOK, Pending
  <2> HIDE DEF q
  <2>3. q = [completed |-> s.completed, reviews |-> s.reviews, waiting |-> NoTask,
             current |-> s.current, pending |-> Unreviewed(c, s)]
    BY <1>1, <2>1
  <2>4. SaveOK(Known, q)
    BY <1>1, <1>2, <2>2, <2>3, SaveParts
  <2> QED
    BY <2>4 DEF q
<1>5. CASE task[c].kind = "write"
  <2>1. PICK n \in Chapters : window = ChapterOf(n)
    BY <1>0, <1>5 DEF KidOK, ChapterRuns
  <2>2. window[1] = n /\ n \in 1..Count + Interval /\ n + 1 \in 1..Count + Interval
    BY <2>1, WindowsFit, SessionAssumption DEF Chapters
  <2>3. n \in Known.started
    BY <1>0, <1>5, <2>1 DEF Known, WriteKid
  <2>4. CASE Done(c)
    <3> DEFINE completed == IF InSeq(n, s.completed) THEN s.completed ELSE Append(s.completed, n)
    <3>1. q = [s EXCEPT !.waiting = NoTask, !.pending = NoPending, !.completed = completed,
                        !.current = n + 1]
      BY <1>1, <1>5, <2>2, <2>4 DEF Reconciled
    <3>2. n \in Known.written
      BY <1>0, <1>5, <2>1, <2>4 DEF Known, Written, KidOK, Done
    <3>3. CompletedOK(Known, completed)
      BY <1>1, <3>2, MoreCompletedOK
    <3> HIDE DEF q, completed
    <3>4. q = [completed |-> completed, reviews |-> s.reviews, waiting |-> NoTask,
               current |-> n + 1, pending |-> NoPending]
      BY <1>1, <3>1
    <3>5. SaveOK(Known, q)
      BY <1>1, <1>2, <2>2, <3>3, <3>4, SaveParts
    <3> QED
      BY <3>5 DEF q
  <2>5. CASE ~Done(c)
    <3> DEFINE p == [kind |-> "chapter", child |-> c, id |-> NoTask, window |-> window]
    <3>1. q = [s EXCEPT !.waiting = NoTask, !.pending = p, !.current = n]
      BY <1>1, <1>5, <2>2, <2>5 DEF Reconciled
    <3>2. PendingOK(Known, p)
      <4>1. window \in Windows
        BY <2>1, WindowsFit DEF ChapterRuns
      <4> QED
        BY <1>0, <2>1, <2>3, <4>1 DEF PendingOK, Pending
    <3> HIDE DEF q, p
    <3>3. q = [completed |-> s.completed, reviews |-> s.reviews, waiting |-> NoTask,
               current |-> n, pending |-> p]
      BY <1>1, <3>1
    <3>4. SaveOK(Known, q)
      BY <1>1, <1>2, <2>2, <3>2, <3>3, SaveParts
    <3> QED
      BY <3>4 DEF q
  <2> QED
    BY <2>4, <2>5
<1> QED
  BY <1>0, <1>3, <1>4, <1>5

-----------------------------------------------------------------------------
(* Steps of the tables and of what is carried.                             *)

\* A step that leaves good tables, keeps what is known and writes only good things
\* keeps the invariant.
LEMMA Continue ==
    ASSUME SInv, TableInv', Extends(Known, Known'),
           data' = data \/ DataOK(Known', data'),
           saved' = saved \/ SaveOK(Known', saved'),
           \/ run' = run
           \/ \E w \in Workers : run' = [run EXCEPT ![w] = run'[w]] /\ RunOK(Known', run'[w]),
           \/ ask' = ask
           \/ \E r \in Requests : ask' = [ask EXCEPT ![r] = ask'[r]] /\ AskOK(Known', ask'[r])
    PROVE  SInv'
<1>1. Carried(Known, data, saved, run, ask)
  BY DEF SInv
<1>2. /\ DataOK(Known', data) /\ SaveOK(Known', saved)
      /\ \A w \in Workers : RunOK(Known', run[w])
      /\ \A r \in Requests : AskOK(Known', ask[r])
  BY <1>1, StaysTrue DEF Carried
<1>3. \A l : RunOK(Known', l) => l \in Local
  BY DEF RunOK
<1>4. \A a : AskOK(Known', a) => a \in Ask
  BY DEF AskOK
<1>5. run' \in [Workers -> Local] /\ \A w \in Workers : RunOK(Known', run'[w])
  BY <1>1, <1>2, <1>3 DEF Carried
<1>6. ask' \in [Requests -> Ask] /\ \A r \in Requests : AskOK(Known', ask'[r])
  BY <1>1, <1>2, <1>4 DEF Carried
<1> QED
  BY <1>2, <1>5, <1>6 DEF SInv, Carried

\* A worker goes on, and nothing else that is carried changes.
LEMMA WorkerGoes ==
    ASSUME SInv, TableInv', Extends(Known, Known'), UNCHANGED <<data, saved, ask>>,
           NEW w \in Workers, NEW l, Goes(w, l), RunOK(Known', l)
    PROVE  SInv'
<1>1. run \in [Workers -> Local]
  BY DEF SInv, Carried
<1>2. run' = [run EXCEPT ![w] = run'[w]] /\ run'[w] = l
  BY <1>1 DEF Goes
<1> QED
  BY <1>2, Continue

\* So does a request.
LEMMA RequestGoes ==
    ASSUME SInv, TableInv', Extends(Known, Known'), UNCHANGED <<data, saved, run>>,
           NEW r \in Requests, NEW a, Asks(r, a), AskOK(Known', a)
    PROVE  SInv'
<1>1. ask \in [Requests -> Ask]
  BY DEF SInv, Carried
<1>2. ask' = [ask EXCEPT ![r] = ask'[r]] /\ ask'[r] = a
  BY <1>1 DEF Asks
<1> QED
  BY <1>2, Continue

\* What a child is asked for.
Wanted(key) ==
    /\ key \in SessionKeys
    /\ \/ key[1] = "write" /\ key[3] \in 0..MaxVersion /\ key[2] \in ChapterRuns
       \/ key[1] = "review" /\ key[2] \in ReviewRuns

\* enqueue gives a child of the session, the old one or a new one, and the tables only
\* grow.
LEMMA SpawnGrows ==
    ASSUME TableInv, Exists(Parent), UNCHANGED <<version, overrode>>,
           NEW c \in Tasks, NEW key, Wanted(key), Spawn(c, key)
    PROVE  /\ [Next]_vars /\ TableInv' /\ Extends(Known, Known')
           /\ c \in Known'.kids
           /\ task'[c].kind = key[1] /\ child'[c].window = key[2]
           /\ \A u \in Tasks : Exists(u) => task'[u] = task[u] /\ child'[u] = child[u]
<1>0. /\ IInv /\ task \in [Tasks -> Row] /\ child \in [Tasks -> ChildRecord]
      /\ \A t \in Tasks : ChildOK(t, task[t], child[t])
      /\ Parent \in Tasks /\ NoKey \notin Keys /\ key \in SessionKeys /\ key \in Keys
  BY ParentFirst, TaskAssumption, SessionAssumption DEF TableInv, IInv, TypeOK, Wanted
<1>1. CASE task[c].key = key /\ UNCHANGED <<task, child>>
  <2>1. c # Parent /\ Exists(c)
    BY <1>0, <1>1 DEF ChildOK, Exists
  <2>2. KidOK(task[c], child[c])
    BY <1>0, <2>1 DEF ChildOK, Exists
  <2>3. [Next]_vars /\ TableInv' /\ Extends(Known, Known')
    BY <1>1, CallTables
  <2>4. c \in Known'.kids
    BY <1>1, <2>1 DEF Known, Kids, Exists
  <2> QED
    BY <1>1, <2>2, <2>3, <2>4 DEF KidOK
<1>2. CASE /\ Enqueue(c, key[1], key, "queued", FALSE)
           /\ child' = [child EXCEPT ![c] = [NoChild EXCEPT !.window = key[2],
                                                 !.draft = IF key[1] = "write" THEN key[3] ELSE 0]]
  <2> DEFINE new == NewRow(key[1], key, "queued", FALSE)
             about == [NoChild EXCEPT !.window = key[2],
                                      !.draft = IF key[1] = "write" THEN key[3] ELSE 0]
  <2>1. /\ ~Exists(c) /\ c # Parent
        /\ task' = [task EXCEPT ![c] = new] /\ child' = [child EXCEPT ![c] = about]
    BY <1>2 DEF Enqueue, NextId
  <2>2. key[1] \in Kinds /\ key[1] \in {"write", "review"}
    BY DEF Wanted, Kinds
  <2>3. /\ new.status = "queued" /\ new.kind = key[1] /\ new.key = key
    BY DEF NewRow
  <2>4. /\ about.window = key[2] /\ about.outcome = "none" /\ about \in ChildRecord
    <3>1. key[2] \in Windows
      BY WindowsFit DEF Wanted
    <3>2. (IF key[1] = "write" THEN key[3] ELSE 0) \in 0..MaxVersion
      BY SessionAssumption DEF Wanted
    <3> QED
      BY <3>1, <3>2 DEF NoChild, ChildRecord
  <2>5. KidOK(new, about)
    BY <1>0, <2>2, <2>3, <2>4 DEF KidOK, Wanted
  <2>6. Next
    BY <1>0, <1>2, <2>2 DEF Next, Submit
  <2>7. IInv'
    BY <1>0, <2>6, StepIInv DEF vars
  <2> HIDE DEF new, about
  <2>8. \A t \in Tasks : /\ task'[t] = IF t = c THEN new ELSE task[t]
                         /\ child'[t] = IF t = c THEN about ELSE child[t]
    BY <1>0, <2>1
  <2>9. \A t \in Tasks : ChildOK(t, task'[t], child'[t])
    BY <1>0, <2>1, <2>3, <2>4, <2>5, <2>8 DEF ChildOK
  <2>10. child' \in [Tasks -> ChildRecord]
    BY <1>0, <2>1, <2>4
  <2>11. Exists(Parent)' /\ Exists(c)'
    BY <1>0, <2>1, <2>3, <2>8 DEF Exists
  <2>12. TableInv'
    BY <2>7, <2>9, <2>10, <2>11 DEF TableInv
  <2>13. Grown
    BY <2>1, <2>8 DEF Grown, Exists
  <2>14. c \in Known'.kids
    BY <2>1, <2>11 DEF Known, Kids
  <2>15. \A u \in Tasks : Exists(u) => task'[u] = task[u] /\ child'[u] = child[u]
    BY <2>1, <2>8
  <2> QED
    BY <2>3, <2>4, <2>6, <2>8, <2>12, <2>13, <2>14, <2>15, KnownGrows
<1> QED
  BY <1>1, <1>2 DEF Spawn

-----------------------------------------------------------------------------
(* Local states.                                                           *)

LEMMA NothingOK ==
    \A k : /\ NoData \in [resume: Tasks \cup {NoTask}, override: Windows \cup {NoWindow}]
           /\ DataOK(k, NoData) /\ Link(k, NoTask) /\ SaveOK(k, NothingSaved)
           /\ NoAsk \in Ask /\ AskOK(k, NoAsk)
<1>1. NoData \in [resume: Tasks \cup {NoTask}, override: Windows \cup {NoWindow}]
  BY DEF NoData
<1>2. \A k : DataOK(k, NoData) /\ Link(k, NoTask)
  BY <1>1 DEF DataOK, NoData, Link
<1>3. NoAsk \in Ask
  BY <1>1 DEF NoAsk, Ask
<1> QED
  BY <1>1, <1>2, <1>3, NothingSavedOK DEF AskOK, NoAsk

\* A worker with nothing in its hands.
LEMMA FreeOK ==
    ASSUME NEW k
    PROVE  /\ RunOK(k, Idle) /\ RunOK(k, Down)
           /\ \A t \in Tasks : RunOK(k, [Idle EXCEPT !.pc = "failing", !.job = t])
           /\ \A t \in Tasks : t \in k.kids => RunOK(k, [Idle EXCEPT !.pc = "child", !.job = t])
<1>1. NothingSaved \in [completed: Seq(Chapters), reviews: Seq(Review), waiting: Tasks \cup {NoTask},
                        current: 1..Count + Interval, pending: Pending]
  BY NothingSavedOK DEF SaveOK
<1>2. Idle \in Local /\ Idle.pc = "idle"
  BY <1>1, NothingOK DEF Idle, Local
<1>3. RunOK(k, Idle)
  BY <1>2, NothingOK DEF RunOK, AtParent, Idle
<1>4. ASSUME NEW i \in Local, RunOK(k, i), i.pc = "idle", NEW t \in Tasks
      PROVE  /\ RunOK(k, [i EXCEPT !.pc = "down"])
             /\ RunOK(k, [i EXCEPT !.pc = "failing", !.job = t])
             /\ t \in k.kids => RunOK(k, [i EXCEPT !.pc = "child", !.job = t])
  <2>1. ASSUME NEW p \in {"down", "failing", "child"}, NEW j \in Tasks \cup {NoTask},
               NEW q \in Local, q.pc = p, q.job = j, q.data = i.data, q.state = i.state,
               q.child = i.child, p = "child" => j \in k.kids, p = "failing" => j \in Tasks
        PROVE  RunOK(k, q)
    BY <1>4, <2>1 DEF RunOK, AtParent
  <2>2. ASSUME NEW p \in {"down", "failing", "child"}
        PROVE  LET q == [i EXCEPT !.pc = p, !.job = t]
               IN  /\ q \in Local /\ q.pc = p /\ q.job = t /\ q.data = i.data
                   /\ q.state = i.state /\ q.child = i.child
    BY DEF Local
  <2>3. LET q == [i EXCEPT !.pc = "down"]
        IN  /\ q \in Local /\ q.pc = "down" /\ q.job = i.job /\ q.data = i.data
            /\ q.state = i.state /\ q.child = i.child /\ i.job \in Tasks \cup {NoTask}
    BY DEF Local
  <2>4. RunOK(k, [i EXCEPT !.pc = "down"])
    BY <2>1, <2>3
  <2>5. RunOK(k, [i EXCEPT !.pc = "failing", !.job = t])
    BY <2>1, <2>2
  <2>6. t \in k.kids => RunOK(k, [i EXCEPT !.pc = "child", !.job = t])
    BY <2>1, <2>2
  <2> QED
    BY <2>4, <2>5, <2>6
<1>5. Parent \in Tasks
  BY ParentFirst
<1> QED
  BY <1>2, <1>3, <1>4, <1>5 DEF Down

\* A worker in advance.
Advancing(k, l) ==
    /\ l = [pc |-> l.pc, job |-> Parent, data |-> l.data, state |-> l.state,
            child |-> l.child, fence |-> l.fence, next |-> l.next]
    /\ l.pc \in AtParent
    /\ DataOK(k, l.data) /\ SaveOK(k, l.state)
    /\ l.child \in Tasks \cup {NoTask} /\ Link(k, l.child) /\ Parent \in k.sessions
    /\ l.fence \in Workers \cup {NoWorker}
    /\ l.next \in {"idle", "look", "stop", "pop", "plan", "defer"}
    /\ \/ l.pc \in {"check", "defer"}
       \/ l.pc \in {"save", "write"} /\ l.next = "defer"
       => l.child # NoTask
    /\ l.pc \in {"save", "write"} => l.next # "idle"

LEMMA AdvancingOK ==
    ASSUME NEW k, NEW l
    PROVE  RunOK(k, l) /\ l.pc \in AtParent <=> Advancing(k, l)
<1>1. ASSUME RunOK(k, l), l.pc \in AtParent PROVE Advancing(k, l)
  BY <1>1 DEF RunOK, Local, Advancing
<1>2. ASSUME Advancing(k, l) PROVE RunOK(k, l)
  <2>1. l \in Local
    BY <1>2, ParentFirst DEF Advancing, Local, DataOK, SaveOK
  <2> QED
    BY <1>2, <2>1 DEF RunOK, Advancing, AtParent
<1> QED
  BY <1>1, <1>2 DEF Advancing

\* advance goes on at p.
LEMMA MovesOK ==
    ASSUME NEW k, NEW l, Advancing(k, l), NEW p \in AtParent \ {"save", "write"},
           p \in {"check", "defer"} => l.child # NoTask
    PROVE  RunOK(k, [l EXCEPT !.pc = p])
<1>1. [l EXCEPT !.pc = p] = [pc |-> p, job |-> Parent, data |-> l.data, state |-> l.state,
                             child |-> l.child, fence |-> l.fence, next |-> l.next]
  BY DEF Advancing
<1>2. Advancing(k, [l EXCEPT !.pc = p])
  BY <1>1 DEF Advancing
<1> QED
  BY <1>2, AdvancingOK

\* The local states that advance goes to, field by field.
LEMMA LocalShapes ==
    ASSUME NEW k, NEW l, Advancing(k, l), NEW s, NEW p, NEW f
    PROVE  /\ [l EXCEPT !.pc = "write", !.fence = f] =
                  [pc |-> "write", job |-> Parent, data |-> l.data, state |-> l.state,
                   child |-> l.child, fence |-> f, next |-> l.next]
           /\ [l EXCEPT !.pc = "save", !.state = s, !.next = p] =
                  [pc |-> "save", job |-> Parent, data |-> l.data, state |-> s,
                   child |-> l.child, fence |-> l.fence, next |-> p]
<1>1. /\ l = [pc |-> l.pc, job |-> l.job, data |-> l.data, state |-> l.state,
              child |-> l.child, fence |-> l.fence, next |-> l.next]
      /\ l.job = Parent
  BY DEF Advancing
<1>2. ASSUME NEW q, q = [l EXCEPT !.pc = "write", !.fence = f]
      PROVE  q = [pc |-> "write", job |-> l.job, data |-> l.data, state |-> l.state,
                  child |-> l.child, fence |-> f, next |-> l.next]
  BY <1>1, <1>2
<1>3. ASSUME NEW q, q = [l EXCEPT !.pc = "save", !.state = s, !.next = p]
      PROVE  q = [pc |-> "save", job |-> l.job, data |-> l.data, state |-> s,
                  child |-> l.child, fence |-> l.fence, next |-> p]
  BY <1>1, <1>3
<1>4. l.job = Parent
  BY <1>1
<1> QED
  BY <1>2, <1>3, <1>4, Zenon

LEMMA OverrideShape ==
    ASSUME NEW k, NEW l, Advancing(k, l), NEW s, NEW d
    PROVE  [l EXCEPT !.pc = "save", !.next = "look", !.state = s, !.data = d, !.child = NoTask] =
                [pc |-> "save", job |-> Parent, data |-> d, state |-> s,
                 child |-> NoTask, fence |-> l.fence, next |-> "look"]
<1>1. /\ l = [pc |-> l.pc, job |-> l.job, data |-> l.data, state |-> l.state,
              child |-> l.child, fence |-> l.fence, next |-> l.next]
      /\ l.job = Parent
  BY DEF Advancing
<1>2. ASSUME NEW q, q = [l EXCEPT !.pc = "save", !.next = "look", !.state = s, !.data = d,
                                  !.child = NoTask]
      PROVE  q = [pc |-> "save", job |-> l.job, data |-> d, state |-> s,
                  child |-> NoTask, fence |-> l.fence, next |-> "look"]
  BY <1>1, <1>2
<1>3. l.job = Parent
  BY <1>1
<1> QED
  BY <1>2, <1>3, Zenon

LEMMA WaitsShape ==
    ASSUME NEW k, NEW l, Advancing(k, l), NEW s, NEW c
    PROVE  [l EXCEPT !.pc = "save", !.next = "defer", !.child = c, !.state = s] =
                [pc |-> "save", job |-> Parent, data |-> l.data, state |-> s,
                 child |-> c, fence |-> l.fence, next |-> "defer"]
<1>1. /\ l = [pc |-> l.pc, job |-> l.job, data |-> l.data, state |-> l.state,
              child |-> l.child, fence |-> l.fence, next |-> l.next]
      /\ l.job = Parent
  BY DEF Advancing
<1>2. ASSUME NEW q, q = [l EXCEPT !.pc = "save", !.next = "defer", !.child = c, !.state = s]
      PROVE  q = [pc |-> "save", job |-> l.job, data |-> l.data, state |-> s,
                  child |-> c, fence |-> l.fence, next |-> "defer"]
  BY <1>1, <1>2
<1>3. l.job = Parent
  BY <1>1
<1> QED
  BY <1>2, <1>3, Zenon

\* So are the checkpoints.
LEMMA OverriddenShape ==
    ASSUME NEW k, NEW s, SaveOK(k, s), NEW reviews
    PROVE  [s EXCEPT !.reviews = reviews, !.waiting = NoTask, !.pending = NoPending] =
                [completed |-> s.completed, reviews |-> reviews, waiting |-> NoTask,
                 current |-> s.current, pending |-> NoPending]
<1>1. s = [completed |-> s.completed, reviews |-> s.reviews, waiting |-> s.waiting,
           current |-> s.current, pending |-> s.pending]
  BY SaveParts
<1>2. ASSUME NEW q, q = [s EXCEPT !.reviews = reviews, !.waiting = NoTask, !.pending = NoPending]
      PROVE  q = [completed |-> s.completed, reviews |-> reviews, waiting |-> NoTask,
                  current |-> s.current, pending |-> NoPending]
  BY <1>1, <1>2
<1> QED
  BY <1>2, Zenon

LEMMA WaitingShape ==
    ASSUME NEW k, NEW s, SaveOK(k, s), NEW c, NEW n
    PROVE  [s EXCEPT !.waiting = c, !.current = n, !.pending = NoPending] =
                [completed |-> s.completed, reviews |-> s.reviews, waiting |-> c,
                 current |-> n, pending |-> NoPending]
<1>1. s = [completed |-> s.completed, reviews |-> s.reviews, waiting |-> s.waiting,
           current |-> s.current, pending |-> s.pending]
  BY SaveParts
<1>2. ASSUME NEW q, q = [s EXCEPT !.waiting = c, !.current = n, !.pending = NoPending]
      PROVE  q = [completed |-> s.completed, reviews |-> s.reviews, waiting |-> c,
                  current |-> n, pending |-> NoPending]
  BY <1>1, <1>2
<1> QED
  BY <1>2, Zenon

\* advance saves a good checkpoint.
LEMMA SavesOK ==
    ASSUME NEW k, NEW l, Advancing(k, l), NEW s, SaveOK(k, s), NEW d, DataOK(k, d),
           NEW c \in Tasks \cup {NoTask}, Link(k, c),
           NEW p \in {"look", "stop", "pop", "plan", "defer"}, p = "defer" => c # NoTask
    PROVE  RunOK(k, [pc |-> "save", job |-> Parent, data |-> d, state |-> s,
                     child |-> c, fence |-> l.fence, next |-> p])
<1>1. Advancing(k, [pc |-> "save", job |-> Parent, data |-> d, state |-> s,
                    child |-> c, fence |-> l.fence, next |-> p])
  BY DEF Advancing, AtParent
<1> QED
  BY <1>1, AdvancingOK

\* What a step may rely on.
LEMMA Have ==
    ASSUME SInv
    PROVE  /\ TableInv /\ IInv /\ DataOK(Known, data) /\ SaveOK(Known, saved)
           /\ \A w \in Workers : RunOK(Known, run[w])
           /\ \A r \in Requests : AskOK(Known, ask[r])
           /\ \A w \in Workers : run[w].pc \in AtParent => Advancing(Known, run[w])
           /\ Parent \in Known.sessions => Exists(Parent)
<1>1. /\ TableInv /\ IInv /\ DataOK(Known, data) /\ SaveOK(Known, saved)
      /\ \A w \in Workers : RunOK(Known, run[w])
      /\ \A r \in Requests : AskOK(Known, ask[r])
  BY DEF SInv, Carried, TableInv
<1>2. Parent \in Known.sessions => Exists(Parent)
  BY DEF Known
<1> QED
  BY <1>1, <1>2, AdvancingOK

\* A call that touches nothing but rows.
LEMMA CallKeeps ==
    ASSUME SInv, Call \/ UNCHANGED task, UNCHANGED <<child, version, overrode>>
    PROVE  /\ [Next]_vars /\ TableInv' /\ Extends(Known, Known')
           /\ \A d : DataOK(Known, d) => DataOK(Known', d)
           /\ \A s : SaveOK(Known, s) => SaveOK(Known', s)
           /\ \A l : RunOK(Known, l) => RunOK(Known', l)
           /\ \A l : Advancing(Known, l) => Advancing(Known', l)
           /\ \A a : AskOK(Known, a) => AskOK(Known', a)
<1>1. [Next]_vars /\ TableInv' /\ Extends(Known, Known')
  BY CallTables DEF SInv
<1> QED
  BY <1>1, StaysTrue, AdvancingOK

LEMMA RefusedOK ==
    ASSUME SInv, NEW w \in Workers, run[w].job \in Tasks, NEW possible, Refused(w, possible),
           UNCHANGED <<session, ask, world>>
    PROVE  SInv' /\ [Next]_vars /\ Extends(Known, Known')
<1>1. /\ Goes(w, [Idle EXCEPT !.pc = "failing", !.job = run[w].job])
      /\ UNCHANGED <<task, child, version, overrode, data, saved, ask>>
  BY DEF Refused, session, world
<1>2. [Next]_vars /\ TableInv' /\ Extends(Known, Known')
  BY <1>1, CallKeeps
<1> QED
  BY <1>1, <1>2, FreeOK, WorkerGoes

-----------------------------------------------------------------------------
(* One lemma for each action of a worker.                                  *)

LEMMA StepTake ==
    ASSUME SInv, NEW w \in Workers, Take(w)
    PROVE  SInv' /\ [Next]_vars /\ Extends(Known, Known')
<1>1. PICK t \in Tasks :
        /\ Claim(w, t)
        /\ Goes(w, IF t = Parent
                   THEN [Idle EXCEPT !.pc = "begin", !.job = t, !.data = data, !.state = saved,
                                     !.child = IF data.resume # NoTask THEN data.resume
                                               ELSE saved.waiting]
                   ELSE [Idle EXCEPT !.pc = "child", !.job = t])
  BY DEF Take
<1>2. UNCHANGED <<child, version, overrode, data, saved, ask>>
  BY DEF Take, session, world
<1>3. /\ [Next]_vars /\ TableInv' /\ Extends(Known, Known')
      /\ DataOK(Known', data) /\ SaveOK(Known', saved)
  BY <1>1, <1>2, CallKeeps, Have DEF Call, Plain
<1>4. Exists(t) /\ (t # Parent => t \in Known.kids) /\ (t = Parent => Parent \in Known.sessions)
  BY <1>1 DEF Claim, Claimable, Exists, Known, Kids
<1>5. CASE t = Parent
  <2> DEFINE c == IF data.resume # NoTask THEN data.resume ELSE saved.waiting
             l == [pc |-> "begin", job |-> Parent, data |-> data, state |-> saved, child |-> c,
                   fence |-> NoWorker, next |-> "idle"]
  <2>1. Goes(w, l)
    BY <1>1, <1>5 DEF Idle
  <2>2. c \in Tasks \cup {NoTask} /\ Link(Known', c) /\ Parent \in Known'.sessions
    BY <1>3, <1>4, <1>5 DEF DataOK, SaveOK, Extends
  <2>3. RunOK(Known', l)
    <3> HIDE DEF c
    <3>1. Advancing(Known', l)
      BY <1>3, <2>2 DEF Advancing, AtParent
    <3> QED
      BY <3>1, AdvancingOK
  <2> HIDE DEF l
  <2> QED
    BY <1>2, <1>3, <2>1, <2>3, WorkerGoes
<1>6. CASE t # Parent
  <2>1. t \in Known'.kids
    BY <1>3, <1>4, <1>6 DEF Extends
  <2> QED
    BY <1>1, <1>2, <1>3, <1>6, <2>1, FreeOK, WorkerGoes
<1> QED
  BY <1>5, <1>6

LEMMA StepOverride ==
    ASSUME SInv, NEW w \in Workers, Override(w)
    PROVE  SInv' /\ [Next]_vars /\ Extends(Known, Known')
<1> DEFINE window == run[w].data.override
           state == [run[w].state EXCEPT !.reviews = Overridden(@, window),
                                         !.waiting = NoTask, !.pending = NoPending]
           rest == [run[w].data EXCEPT !.override = NoWindow]
<1>0. /\ UNCHANGED <<child, version, overrode, saved, ask>> /\ window # NoWindow
      /\ Advancing(Known, run[w]) /\ Parent \in Tasks
  BY Have, ParentFirst DEF Override, At, AtParent, world
<1>1. CASE Refused(w, CanUpdateData(Parent, w)) /\ UNCHANGED data
  <2>1. run[w].job \in Tasks
    BY <1>0 DEF Advancing
  <2>2. UNCHANGED <<session, ask, world>>
    BY <1>1 DEF Override, session
  <2> QED
    BY <1>1, <2>1, <2>2, RefusedOK
<1>2. CASE /\ UpdateData(Parent, NoTask, w)
           /\ data' = rest
           /\ Goes(w, [run[w] EXCEPT !.pc = "save", !.next = "look", !.state = state,
                                     !.data = rest, !.child = NoTask])
  <2>1. Call
    BY <1>0, <1>2 DEF Call, Plain
  <2>2. [Next]_vars /\ TableInv' /\ Extends(Known, Known') /\ Advancing(Known', run[w])
    BY <1>0, <2>1, CallKeeps
  <2>3. DataOK(Known', run[w].data) /\ SaveOK(Known', run[w].state)
    BY <2>2 DEF Advancing
  <2>4. DataOK(Known', rest)
    BY <2>3 DEF DataOK
  <2>5. window \in Known'.reviewed
    BY <1>0, <2>3 DEF DataOK, Known, Reviewed
  <2>6. SaveOK(Known', state)
    <3>1. ReviewsOK(Known', Overridden(run[w].state.reviews, window))
      BY <2>3, <2>5, OverriddenOK, SaveParts
    <3>2. state = [completed |-> run[w].state.completed,
                   reviews |-> Overridden(run[w].state.reviews, window), waiting |-> NoTask,
                   current |-> run[w].state.current, pending |-> NoPending]
      BY <2>3, OverriddenShape
    <3>3. PendingOK(Known', NoPending) /\ Link(Known', NoTask)
      BY DEF PendingOK, NoPending, Pending, Link
    <3> HIDE DEF state
    <3> QED
      BY <2>3, <3>1, <3>2, <3>3, SaveParts
  <2> HIDE DEF rest, state, window
  <2> DEFINE l == [pc |-> "save", job |-> Parent, data |-> rest, state |-> state,
                   child |-> NoTask, fence |-> run[w].fence, next |-> "look"]
  <2>7. Goes(w, l)
    <3>1. [run[w] EXCEPT !.pc = "save", !.next = "look", !.state = state,
                         !.data = rest, !.child = NoTask] = l
      <4>1. Advancing(Known, run[w])
        BY <1>0
      <4> QED
        BY <4>1, OverrideShape, Zenon
    <3> QED
      BY <1>2, <3>1, Zenon DEF rest, state, window
  <2>8. RunOK(Known', l)
    BY <2>2, <2>4, <2>6, SavesOK DEF Link
  <2> HIDE DEF l
  <2>9. run' = [run EXCEPT ![w] = run'[w]] /\ run'[w] = l
    BY <2>7 DEF Goes, SInv, Carried
  <2> QED
    BY <1>0, <1>2, <2>2, <2>4, <2>8, <2>9, Continue
<1> QED
  BY <1>1, <1>2 DEF Override

LEMMA StepLook ==
    ASSUME SInv, NEW w \in Workers, Look(w) \/ SaveReads(w) \/ Check(w) \/ Stop(w)
    PROVE  SInv' /\ [Next]_vars /\ Extends(Known, Known')
<1>0. UNCHANGED <<task, child, version, overrode, data, saved, ask>>
  BY DEF Look, SaveReads, Check, Stop, session, world
<1>1. /\ [Next]_vars /\ TableInv' /\ Extends(Known, Known')
      /\ \A l : RunOK(Known, l) => RunOK(Known', l)
  BY <1>0, CallKeeps
<1>2. Advancing(Known, run[w])
  BY Have DEF Look, SaveReads, Check, Stop, At, AtParent
<1>3. ASSUME NEW l, Goes(w, l), RunOK(Known, l) PROVE SInv' /\ [Next]_vars /\ Extends(Known, Known')
  BY <1>0, <1>1, <1>3, WorkerGoes
<1>4. ASSUME NEW p \in AtParent \ {"save", "write"}, Moves(w, p),
             p \in {"check", "defer"} => run[w].child # NoTask
      PROVE  SInv' /\ [Next]_vars /\ Extends(Known, Known')
  BY <1>2, <1>3, <1>4, MovesOK DEF Moves
<1>5. CASE Look(w)
  BY <1>4, <1>5 DEF Look, AtParent
<1>6. CASE Stop(w)
  BY <1>4, <1>6 DEF Stop, AtParent
<1>7. CASE SaveReads(w)
  <2> DEFINE f == IF task[Parent].status = "paused" THEN NoWorker ELSE w
             l == [pc |-> "write", job |-> Parent, data |-> run[w].data, state |-> run[w].state,
                   child |-> run[w].child, fence |-> f, next |-> run[w].next]
  <2>1. Goes(w, l)
    <3>1. Goes(w, [run[w] EXCEPT !.pc = "write", !.fence = f])
      BY <1>7 DEF SaveReads
    <3>2. [run[w] EXCEPT !.pc = "write", !.fence = f] = l
      BY <1>2, LocalShapes, Zenon
    <3> QED
      BY <3>1, <3>2, Zenon
  <2>2. Advancing(Known, l)
    BY <1>2, <1>7 DEF SaveReads, Advancing, At, AtParent
  <2> HIDE DEF l
  <2> QED
    BY <1>3, <2>1, <2>2, AdvancingOK
<1>8. CASE Check(w)
  <2> DEFINE c == run[w].child
             state == Reconciled(c, run[w].state)
             p == CASE state.pending # NoPending -> "stop"
                    [] run[w].data.resume # NoTask -> "pop"
                    [] OTHER -> "plan"
  <2>1. c \in Kids
    BY <1>2, <1>8 DEF Check, At, Advancing, Link, Known
  <2>2. CASE Moves(w, "defer")
    BY <1>2, <1>4, <1>8, <2>2 DEF AtParent, Check, Advancing, At
  <2>3. CASE Saves(w, state, p)
    <3>1. SaveOK(Known, state)
      BY <1>2, <2>1, ReconciledOK, Have DEF Advancing
    <3>2. p \in {"stop", "pop", "plan"}
      OBVIOUS
    <3> HIDE DEF p, state
    <3> DEFINE l == [pc |-> "save", job |-> Parent, data |-> run[w].data, state |-> state,
                     child |-> run[w].child, fence |-> run[w].fence, next |-> p]
    <3>3. Goes(w, l)
      BY <1>2, <2>3, LocalShapes DEF Saves
    <3>4. RunOK(Known, l)
      BY <1>2, <3>1, <3>2, SavesOK DEF Advancing
    <3> HIDE DEF l
    <3> QED
      BY <1>3, <3>3, <3>4
  <2> QED
    BY <1>8, <2>2, <2>3 DEF Check
<1> QED
  BY <1>5, <1>6, <1>7, <1>8

LEMMA StepSaveWrites ==
    ASSUME SInv, NEW w \in Workers, SaveWrites(w)
    PROVE  SInv' /\ [Next]_vars /\ Extends(Known, Known')
<1>0. /\ UNCHANGED <<child, version, overrode, data, ask>> /\ Advancing(Known, run[w])
      /\ Parent \in Tasks /\ run[w].pc = "write"
  BY Have, ParentFirst DEF SaveWrites, Stores, At, AtParent, world
<1>1. CASE Refused(w, CanCheckpoint(Parent, run[w].fence)) /\ UNCHANGED <<saved, world>>
  <2>1. run[w].job \in Tasks /\ UNCHANGED <<session, ask, world>>
    BY <1>0, <1>1 DEF Advancing, SaveWrites, session
  <2> QED
    BY <1>1, <2>1, RefusedOK
<1>2. CASE /\ Checkpoint(Parent, run[w].fence)
           /\ saved' = run[w].state /\ Moves(w, run[w].next)
  <2>1. Call
    BY <1>0, <1>2 DEF Call, Plain, Advancing
  <2>2. [Next]_vars /\ TableInv' /\ Extends(Known, Known') /\ Advancing(Known', run[w])
    BY <1>0, <2>1, CallKeeps
  <2>3. /\ run[w].next \in AtParent \ {"save", "write"}
        /\ run[w].next \in {"check", "defer"} => run[w].child # NoTask
    BY <1>0 DEF Advancing, AtParent
  <2>4. RunOK(Known', [run[w] EXCEPT !.pc = run[w].next])
    BY <2>2, <2>3, MovesOK
  <2>5. run' = [run EXCEPT ![w] = run'[w]] /\ run'[w] = [run[w] EXCEPT !.pc = run[w].next]
    BY <1>2 DEF Moves, Goes, SInv, Carried
  <2>6. SaveOK(Known', saved')
    BY <1>2, <2>2 DEF Advancing
  <2> QED
    BY <1>0, <2>2, <2>4, <2>5, <2>6, Continue
<1> QED
  BY <1>1, <1>2 DEF SaveWrites, Stores

\* A call that only moves rows, after which the worker is free or moves on.
LEMMA CallThen ==
    ASSUME SInv, Call \/ UNCHANGED task, UNCHANGED <<session, ask, world>>,
           NEW w \in Workers, NEW l, Goes(w, l), RunOK(Known, l)
    PROVE  SInv' /\ [Next]_vars /\ Extends(Known, Known')
<1>1. UNCHANGED <<child, version, overrode, data, saved, ask>>
  BY DEF session, world
<1>2. [Next]_vars /\ TableInv' /\ Extends(Known, Known') /\ RunOK(Known', l)
  BY <1>1, CallKeeps
<1> QED
  BY <1>1, <1>2, WorkerGoes

LEMMA StepSettles ==
    ASSUME SInv, NEW w \in Workers,
           Stopping(w) \/ Defer(w) \/ SettleCancelled(w) \/ Failing(w) \/ Restart(w)
    PROVE  SInv' /\ [Next]_vars /\ Extends(Known, Known')
<1>0. UNCHANGED <<session, ask, world>> /\ Parent \in Tasks
  BY ParentFirst DEF Stopping, Defer, SettleCancelled, Failing, Restart
<1>1. RunOK(Known, Idle) /\ RunOK(Known, Down)
  BY FreeOK
<1>2. CASE Stopping(w)
  <2>1. Advancing(Known, run[w]) /\ run[w].job \in Tasks
    BY <1>0, <1>2, Have DEF Stopping, At, AtParent, Advancing
  <2>2. CASE Transition(Parent, "needs_author_decision", w) /\ Moves(w, "returned")
    <3>1. Call
      BY <1>0, <2>2 DEF Call, Plain
    <3>2. RunOK(Known, [run[w] EXCEPT !.pc = "returned"])
      BY <2>1, MovesOK DEF AtParent
    <3> QED
      BY <1>0, <2>2, <3>1, <3>2, CallThen DEF Moves
  <2>3. CASE Refused(w, CanTransition(Parent, "needs_author_decision", w))
    BY <1>0, <2>1, <2>3, RefusedOK
  <2> QED
    BY <1>2, <2>2, <2>3 DEF Stopping
<1>3. CASE Defer(w)
  <2>1. Advancing(Known, run[w]) /\ run[w].job \in Tasks /\ run[w].child \in Tasks
    BY <1>0, <1>3, Have DEF Defer, At, AtParent, Advancing
  <2>2. CASE DeferUntilChild(Parent, run[w].child, w) /\ Goes(w, Idle)
    <3>1. Call
      BY <1>0, <2>1, <2>2 DEF Call, Plain
    <3> QED
      BY <1>0, <1>1, <2>2, <3>1, CallThen
  <2>3. CASE Refused(w, CanDefer(Parent, run[w].child, w))
    BY <1>0, <2>1, <2>3, RefusedOK
  <2> QED
    BY <1>3, <2>2, <2>3 DEF Defer
<1>4. CASE SettleCancelled(w)
  <2>1. Advancing(Known, run[w]) /\ run[w].job \in Tasks
    BY <1>0, <1>4, Have DEF SettleCancelled, At, AtParent, Advancing
  <2>2. CASE Transition(Parent, "cancelled", w) /\ Goes(w, Idle)
    <3>1. Call
      BY <1>0, <2>2 DEF Call, Plain
    <3> QED
      BY <1>0, <1>1, <2>2, <3>1, CallThen
  <2>3. CASE Refused(w, CanTransition(Parent, "cancelled", w))
    BY <1>0, <2>1, <2>3, RefusedOK
  <2> QED
    BY <1>4, <2>2, <2>3 DEF SettleCancelled
<1>5. CASE Failing(w)
  <2>1. run[w].job \in Tasks
    BY <1>5, Have DEF Failing, At, RunOK
  <2>2. CASE Fail(run[w].job, w, FALSE) /\ Goes(w, Idle)
    <3>1. Call
      BY <2>1, <2>2 DEF Call, Plain
    <3> QED
      BY <1>0, <1>1, <2>2, <3>1, CallThen
  <2>3. CASE Goes(w, Down) /\ UNCHANGED task
    BY <1>0, <1>1, <2>3, CallThen
  <2> QED
    BY <1>5, <2>2, <2>3 DEF Failing
<1>6. CASE Restart(w)
  <2>1. Call /\ Goes(w, Idle)
    BY <1>6 DEF Restart, Call, Plain
  <2> QED
    BY <1>0, <1>1, <2>1, CallThen
<1> QED
  BY <1>2, <1>3, <1>4, <1>5, <1>6

LEMMA StepPop ==
    ASSUME SInv, NEW w \in Workers, Pop(w)
    PROVE  SInv' /\ [Next]_vars /\ Extends(Known, Known')
<1>0. /\ UNCHANGED <<child, version, overrode, saved, ask>> /\ Advancing(Known, run[w])
      /\ Parent \in Tasks
  BY Have, ParentFirst DEF Pop, At, AtParent, world
<1>1. CASE Refused(w, CanUpdateData(Parent, w)) /\ UNCHANGED data
  <2>1. run[w].job \in Tasks /\ UNCHANGED <<session, ask, world>>
    BY <1>0, <1>1 DEF Advancing, Pop, session
  <2> QED
    BY <1>1, <2>1, RefusedOK
<1>2. CASE UpdateData(Parent, NoTask, w) /\ data' = Popped(run[w].data) /\ Moves(w, "plan")
  <2>1. Call
    BY <1>0, <1>2 DEF Call, Plain
  <2>2. [Next]_vars /\ TableInv' /\ Extends(Known, Known') /\ Advancing(Known', run[w])
    BY <1>0, <2>1, CallKeeps
  <2>3. DataOK(Known', run[w].data)
    BY <2>2 DEF Advancing
  <2>4. DataOK(Known', Popped(run[w].data))
    BY <2>3 DEF DataOK, Popped, Link
  <2>5. RunOK(Known', [run[w] EXCEPT !.pc = "plan"])
    BY <2>2, MovesOK DEF AtParent
  <2>6. run' = [run EXCEPT ![w] = run'[w]] /\ run'[w] = [run[w] EXCEPT !.pc = "plan"]
    BY <1>2 DEF Moves, Goes, SInv, Carried
  <2> QED
    BY <1>0, <1>2, <2>2, <2>4, <2>5, <2>6, Continue
<1> QED
  BY <1>1, <1>2 DEF Pop

LEMMA StepSettle ==
    ASSUME SInv, NEW w \in Workers, Settle(w)
    PROVE  SInv' /\ [Next]_vars /\ Extends(Known, Known')
<1>0. /\ UNCHANGED <<child, version, overrode, data, ask>> /\ Advancing(Known, run[w])
      /\ Parent \in Tasks /\ run[w].job \in Tasks
  BY Have, ParentFirst DEF Settle, Stores, At, AtParent, world, Advancing
<1>1. ASSUME NEW possible, Refused(w, possible), UNCHANGED <<saved, world>>
      PROVE  SInv' /\ [Next]_vars /\ Extends(Known, Known')
  BY <1>0, <1>1, RefusedOK DEF session
<1>2. CASE Checkpoint(Parent, w) /\ saved' = NothingSaved /\ Moves(w, "cancelling")
  <2>1. Call
    BY <1>0, <1>2 DEF Call, Plain
  <2>2. [Next]_vars /\ TableInv' /\ Extends(Known, Known') /\ Advancing(Known', run[w])
    BY <1>0, <2>1, CallKeeps
  <2>3. SaveOK(Known', saved')
    BY <1>2, NothingOK
  <2>4. RunOK(Known', [run[w] EXCEPT !.pc = "cancelling"])
    BY <2>2, MovesOK DEF AtParent
  <2>5. run' = [run EXCEPT ![w] = run'[w]] /\ run'[w] = [run[w] EXCEPT !.pc = "cancelling"]
    BY <1>2 DEF Moves, Goes, SInv, Carried
  <2> QED
    BY <1>0, <2>2, <2>3, <2>4, <2>5, Continue
<1>3. CASE Transition(Parent, "completed", w) /\ Goes(w, Idle) /\ UNCHANGED <<saved, world>>
  <2>1. Call
    BY <1>3 DEF Call, Plain
  <2> QED
    BY <1>0, <1>3, <2>1, FreeOK, CallThen DEF session
<1>4. CASE Goes(w, Idle) /\ UNCHANGED <<task, saved, world>>
  BY <1>0, <1>4, FreeOK, CallThen DEF session
<1> QED
  BY <1>1, <1>2, <1>3, <1>4 DEF Settle, Stores

LEMMA StepPlan ==
    ASSUME SInv, NEW w \in Workers, Plan(w)
    PROVE  SInv' /\ [Next]_vars /\ Extends(Known, Known')
<1> DEFINE s == run[w].state
           window == DueWindow(s.completed, s.reviews)
           n == NextChapter(s.completed)
<1>0. /\ UNCHANGED <<version, overrode, data, saved, ask, world>> /\ Advancing(Known, run[w])
      /\ Parent \in Tasks /\ run[w].job \in Tasks /\ SaveOK(Known, s) /\ Exists(Parent)
  <2>1. UNCHANGED <<version, overrode, data, saved, ask, world>>
    BY DEF Plan, world
  <2>2. Advancing(Known, run[w])
    BY Have DEF Plan, At, AtParent
  <2> QED
    BY <2>1, <2>2, Have, ParentFirst DEF Advancing
<1>1. s.completed \in Seq(Chapters) /\ SaveOK(Known, s) /\ UNCHANGED <<version, overrode>>
  BY <1>0 DEF SaveOK
<1>2. window = NoWindow \/ window \in Chapters \X Chapters
  BY <1>1, DueWindowFirst
<1>3. ASSUME NEW c \in Tasks, NEW key, Wanted(key), Spawn(c, key),
             NEW current \in 1..Count + Interval,
             Goes(w, [run[w] EXCEPT !.pc = "save", !.next = "defer", !.child = c,
                            !.state = [s EXCEPT !.waiting = c, !.current = current,
                                                !.pending = NoPending]])
      PROVE  SInv' /\ [Next]_vars /\ Extends(Known, Known')
  <2>1. /\ [Next]_vars /\ TableInv' /\ Extends(Known, Known') /\ c \in Known'.kids
    BY <1>0, <1>3, SpawnGrows, Have
  <2>2. SaveOK(Known', s) /\ Advancing(Known', run[w])
    BY <1>0, <2>1, StaysTrue, AdvancingOK
  <2> DEFINE q == [completed |-> s.completed, reviews |-> s.reviews, waiting |-> c,
                   current |-> current, pending |-> NoPending]
             l == [pc |-> "save", job |-> Parent, data |-> run[w].data, state |-> q,
                   child |-> c, fence |-> run[w].fence, next |-> "defer"]
  <2>3. [s EXCEPT !.waiting = c, !.current = current, !.pending = NoPending] = q
    BY <2>2, WaitingShape, Zenon
  <2>4. SaveOK(Known', q)
    <3>1. PendingOK(Known', NoPending) /\ Link(Known', c)
      BY <2>1 DEF PendingOK, NoPending, Pending, Link
    <3> QED
      BY <2>2, <3>1, SaveParts
  <2> HIDE DEF q, s
  <2>5. Goes(w, l)
    <3>1. [run[w] EXCEPT !.pc = "save", !.next = "defer", !.child = c, !.state = q] = l
      BY <2>2, WaitsShape, Zenon
    <3> QED
      BY <1>3, <2>3, <3>1, Zenon
  <2>6. RunOK(Known', l)
    <3>1. /\ DataOK(Known', run[w].data) /\ Link(Known', c) /\ c \in Tasks \cup {NoTask} /\ c # NoTask
      BY <2>1, <2>2, ParentFirst DEF Advancing, Link
    <3> QED
      BY <2>2, <2>4, <3>1, SavesOK
  <2> HIDE DEF l
  <2> QED
    BY <1>0, <2>1, <2>5, <2>6, WorkerGoes
<1>4. CASE window # NoWindow
  <2>1. PICK c \in Tasks : /\ Spawn(c, <<"review", window, NoTask, "none">>)
                           /\ Goes(w, [run[w] EXCEPT !.pc = "save", !.next = "defer", !.child = c,
                                 !.state = [s EXCEPT !.waiting = c, !.current = window[2] + 1,
                                                     !.pending = NoPending]])
    BY <1>4 DEF Plan
  <2>2. Wanted(<<"review", window, NoTask, "none">>)
    <3>1. window \in ReviewRuns /\ window \in Windows
      BY <1>2, <1>4, WindowsFit
    <3>2. NoTask \in 0..MaxVersion
      BY SessionAssumption
    <3> HIDE DEF window
    <3> QED
      BY <3>1, <3>2 DEF Wanted, SessionKeys
  <2>3. window[2] + 1 \in 1..Count + Interval
    BY <1>2, <1>4, SessionAssumption DEF Chapters
  <2> QED
    BY <1>3, <2>1, <2>2, <2>3
<1>5. CASE window = NoWindow /\ Len(s.completed) < Count
  <2>1. PICK c \in Tasks : /\ Spawn(c, <<"write", ChapterOf(n), NoTask, "none">>)
                           /\ Goes(w, [run[w] EXCEPT !.pc = "save", !.next = "defer", !.child = c,
                                 !.state = [s EXCEPT !.waiting = c, !.current = n,
                                                     !.pending = NoPending]])
    BY <1>5 DEF Plan
  <2>2. n \in Chapters
    BY <1>1, <1>5, NextChapterFirst
  <2> HIDE DEF n
  <2>3. Wanted(<<"write", ChapterOf(n), NoTask, "none">>)
    <3>1. ChapterOf(n) \in ChapterRuns /\ ChapterOf(n) \in Windows
      BY <2>2, WindowsFit DEF ChapterRuns
    <3>2. NoTask \in 0..MaxVersion
      BY SessionAssumption
    <3> QED
      BY <3>1, <3>2 DEF Wanted, SessionKeys
  <2>4. n \in 1..Count + Interval
    BY <2>2, SessionAssumption DEF Chapters
  <2> QED
    BY <1>3, <2>1, <2>3, <2>4
<1>6. CASE Moves(w, "returned") /\ UNCHANGED <<task, child>>
  <2>1. RunOK(Known, [run[w] EXCEPT !.pc = "returned"])
    BY <1>0, MovesOK DEF AtParent
  <2> QED
    BY <1>0, <1>6, <2>1, CallThen DEF Moves, session
<1> QED
  BY <1>4, <1>5, <1>6 DEF Plan

\* A child settles: its outcome and its completion are one step, and only a running
\* child has none yet.
LEMMA StepChildSettles ==
    ASSUME SInv, NEW w \in Workers, ChildSettles(w)
    PROVE  SInv' /\ [Next]_vars /\ Extends(Known, Known')
<1> DEFINE c == run[w].job
<1>0. /\ UNCHANGED <<overrode, data, saved, ask>> /\ Goes(w, Idle)
      /\ c \in Kids
  <2>1. run[w].pc = "child"
    BY DEF ChildSettles, At
  <2>2. c \in Kids
    BY <2>1, Have DEF RunOK, Known
  <2> QED
    BY <2>2 DEF ChildSettles, world
<1>1. /\ TableInv /\ c \in Tasks /\ c # Parent /\ KidOK(task[c], child[c])
      /\ child[c] \in ChildRecord /\ child \in [Tasks -> ChildRecord]
      /\ task[c].kind \in {"write", "review"} /\ IInv
      /\ version \in [Chapters -> 0..MaxVersion] /\ MaxVersion \in Nat
      /\ \A t \in Tasks : ChildOK(t, task[t], child[t])
  BY <1>0, KidFacts, Have, SessionAssumption DEF TableInv
<1>2. ASSUME TableInv', Extends(Known, Known') PROVE SInv'
  BY <1>0, <1>2, FreeOK, WorkerGoes
<1>3. CASE UNCHANGED <<child, version>> /\ (Call \/ UNCHANGED task)
  <2>1. UNCHANGED <<child, version, overrode>> /\ (Call \/ UNCHANGED task)
    BY <1>0, <1>3
  <2> QED
    BY <1>2, <2>1, CallKeeps
\* The child settles with status s and outcome o.
<1>4. ASSUME NEW s \in {"completed", "needs_author_decision"}, Transition(c, s, w),
             NEW o \in {"none", "accepted", "pass", "fail"}, NEW drafted \in BOOLEAN,
             Result(c, o, drafted),
             task[c].kind = "write" => o = IF s = "completed" THEN "accepted" ELSE "none",
             task[c].kind = "review" => /\ s = "completed" /\ o \in {"pass", "fail"}
                                       /\ child[c].window[1] <= Count
      PROVE  SInv' /\ [Next]_vars /\ Extends(Known, Known')
  <2>1. /\ Next /\ \A u \in Tasks : Same(task[u], task'[u]) /\ (u # c => task'[u] = task[u])
        /\ task'[c].status = s /\ task[c].status \in Active
    BY <1>1, <1>4, SettleRow
  <2>2. IInv'
    BY <1>1, <2>1, StepIInv
  <2>3. /\ version' \in [Chapters -> 0..MaxVersion]
        /\ \E d \in 0..MaxVersion :
              child' = [child EXCEPT ![c] = [window |-> child[c].window, draft |-> d, outcome |-> o]]
    <3>1. child[c] = [window |-> child[c].window, draft |-> child[c].draft, outcome |-> child[c].outcome]
          /\ child[c].draft \in 0..MaxVersion
      BY <1>1 DEF ChildRecord
    <3>2. CASE ~drafted
      <4>1. child' = [child EXCEPT ![c].outcome = o] /\ UNCHANGED version
        BY <1>4, <3>2 DEF Result
      <4>2. [child[c] EXCEPT !.outcome = o] =
               [window |-> child[c].window, draft |-> child[c].draft, outcome |-> o]
        BY <3>1
      <4>3. child' = [child EXCEPT ![c] = [window |-> child[c].window, draft |-> child[c].draft,
                                           outcome |-> o]]
        BY <4>1, <4>2
      <4> QED
        BY <1>1, <3>1, <4>1, <4>3
    <3>3. CASE drafted
      <4> DEFINE n == child[c].window[1]
                 v == version[n] + 1
      <4>1. /\ task[c].kind = "write" /\ v <= MaxVersion /\ version' = [version EXCEPT ![n] = v]
            /\ child' = [child EXCEPT ![c].outcome = o, ![c].draft = v]
        BY <1>4, <3>3 DEF Result
      <4>2. n \in Chapters
        BY <1>1, <4>1, WindowsFit DEF KidOK, ChapterRuns
      <4> HIDE DEF n
      <4>3. v \in 0..MaxVersion
        BY <1>1, <4>1, <4>2
      <4> HIDE DEF v
      <4>4. child' = [child EXCEPT ![c] = [window |-> child[c].window, draft |-> v, outcome |-> o]]
        <5>1. [[child[c] EXCEPT !.outcome = o] EXCEPT !.draft = v] =
                 [window |-> child[c].window, draft |-> v, outcome |-> o]
          <6>1. ASSUME NEW q, q = [[child[c] EXCEPT !.outcome = o] EXCEPT !.draft = v]
                PROVE  q = [window |-> child[c].window, draft |-> v, outcome |-> o]
            BY <3>1, <6>1
          <6> QED
            BY <6>1, Zenon
        <5>2. child' = [child EXCEPT ![c] = [[child[c] EXCEPT !.outcome = o] EXCEPT !.draft = v]]
          BY <1>1, <4>1
        <5> QED
          BY <5>1, <5>2
      <4> QED
        BY <1>1, <4>1, <4>2, <4>3, <4>4
    <3> QED
      BY <3>2, <3>3
  <2>4. PICK d \in 0..MaxVersion :
           child' = [child EXCEPT ![c] = [window |-> child[c].window, draft |-> d, outcome |-> o]]
    BY <2>3
  <2> DEFINE about == [window |-> child[c].window, draft |-> d, outcome |-> o]
  <2>5. about \in ChildRecord /\ about.window = child[c].window /\ about.outcome = o
    BY <1>1, <1>4 DEF ChildRecord
  <2>6. KidOK(task'[c], about)
    BY <1>1, <1>4, <2>1, <2>5 DEF KidOK, Same
  <2> HIDE DEF about
  <2>7. \A u \in Tasks : child'[u] = IF u = c THEN about ELSE child[u]
    BY <1>1, <2>4 DEF about
  <2>8. child' \in [Tasks -> ChildRecord]
    BY <1>1, <2>4, <2>5 DEF about
  <2>9. \A u \in Tasks : ChildOK(u, task'[u], child'[u])
    <3>1. ChildOK(c, task'[c], about)
      BY <1>0, <1>1, <2>1, <2>5, <2>6 DEF ChildOK, Same, Kids, Exists
    <3> QED
      BY <1>1, <2>1, <2>7, <3>1
  <2>10. Kids' = Kids /\ (Exists(Parent) => Exists(Parent)')
    BY <2>1, ParentFirst DEF Kids, Exists, Same
  <2>11. TableInv'
    BY <1>0, <1>1, <2>2, <2>3, <2>8, <2>9, <2>10 DEF TableInv
  <2>12. child[c].outcome = "none"
    BY <1>1, <2>1 DEF KidOK, Active
  <2>13. Grown
    BY <1>0, <2>1, <2>5, <2>7, <2>12 DEF Grown, Exists, Same
  <2>14. SInv' /\ Extends(Known, Known')
    BY <1>1, <1>2, <2>11, <2>13, KnownGrows
  <2> QED
    BY <2>1, <2>14
<1>5. CASE \/ Fail(c, w, FALSE) /\ UNCHANGED <<child, version>>
           \/ Transition(c, "cancelled", w) /\ UNCHANGED <<child, version>>
           \/ UNCHANGED <<task, child, version>>
  BY <1>1, <1>3, <1>5 DEF Call, Plain
<1>6. CASE /\ \E outcome \in IF task[c].kind = "write" THEN {"accepted"} ELSE {"pass", "fail"},
                 drafted \in BOOLEAN : Result(c, outcome, drafted)
           /\ task[c].kind = "review" =>
                \E n \in Chapters : child[c].window[1] <= n
           /\ Transition(c, "completed", w)
  <2>1. PICK outcome \in IF task[c].kind = "write" THEN {"accepted"} ELSE {"pass", "fail"},
             drafted \in BOOLEAN : Result(c, outcome, drafted)
    BY <1>6
  <2>2. task[c].kind = "review" => child[c].window[1] <= Count
    <3> SUFFICES ASSUME task[c].kind = "review" PROVE child[c].window[1] <= Count
      OBVIOUS
    <3>1. PICK n \in Chapters : child[c].window[1] <= n
      BY <1>6
    <3>2. child[c].window[1] \in Nat
      BY <1>1, RunsEnd DEF KidOK
    <3> QED
      BY <3>1, <3>2, SessionAssumption DEF Chapters
  <2> QED
    BY <1>1, <1>4, <1>6, <2>1, <2>2
<1>7. CASE /\ task[c].kind = "write" /\ \E drafted \in BOOLEAN : Result(c, "none", drafted)
           /\ Transition(c, "needs_author_decision", w)
  BY <1>4, <1>7
<1> QED
  BY <1>5, <1>6, <1>7 DEF ChildSettles

-----------------------------------------------------------------------------
(* The author, time and crashes.                                           *)

LEMMA StepStart ==
    ASSUME SInv, StartSession
    PROVE  SInv' /\ [Next]_vars /\ Extends(Known, Known')
<1>0. /\ UNCHANGED <<child, version, data, saved, run, ask, overrode>>
      /\ ~Exists(Parent) /\ task' = [task EXCEPT ![Parent] = NewRow("continuous", NoKey, "queued", FALSE)]
      /\ Parent \in Tasks /\ task \in [Tasks -> Row] /\ TableInv
  BY Have, ParentFirst
  DEF StartSession, EnqueueContinuous, NextId, session, world, IInv, TypeOK
<1>1. Next
  BY <1>0 DEF StartSession, Next, Submit
<1>2. IInv'
  BY <1>0, <1>1, StepIInv DEF TableInv
<1>3. /\ task'[Parent].status = "queued" /\ task'[Parent].kind = "continuous"
      /\ task'[Parent].key = NoKey
      /\ \A t \in Tasks \ {Parent} : task'[t] = task[t]
  BY <1>0 DEF NewRow
<1>4. \A t \in Tasks : ChildOK(t, task'[t], child'[t])
  BY <1>0, <1>3 DEF TableInv, ChildOK
<1>5. Kids' = Kids /\ Exists(Parent)'
  BY <1>0, <1>3 DEF Kids, Exists
<1>6. TableInv'
  BY <1>0, <1>2, <1>4, <1>5 DEF TableInv
<1>7. Grown
  BY <1>0, <1>3 DEF Grown, Exists
<1> QED
  BY <1>0, <1>1, <1>6, <1>7, KnownGrows, Continue

LEMMA StepCommand ==
    ASSUME SInv, NEW t \in Tasks, Command(t) \/ LeaseRunsOut(t)
    PROVE  SInv' /\ [Next]_vars /\ Extends(Known, Known')
<1>1. Call /\ UNCHANGED <<child, version, overrode, data, saved, run, ask>>
  BY DEF Command, LeaseRunsOut, Call, Plain, session, world
<1> QED
  BY <1>1, CallKeeps, Continue

LEMMA StepCrash ==
    ASSUME SInv, Crash
    PROVE  SInv' /\ [Next]_vars /\ Extends(Known, Known')
<1>1. UNCHANGED <<task, child, version, overrode, data, saved>>
  BY DEF Crash, session
<1>2. [Next]_vars /\ TableInv' /\ Extends(Known, Known')
  BY <1>1, CallKeeps
<1>3. CASE \E w \in Workers : Goes(w, Down) /\ UNCHANGED ask
  BY <1>1, <1>2, <1>3, FreeOK, WorkerGoes
<1>4. CASE \E r \in Requests : Asks(r, NoAsk) /\ UNCHANGED run
  BY <1>1, <1>2, <1>4, NothingOK, RequestGoes
<1> QED
  BY <1>3, <1>4 DEF Crash

\* What a pending decision asks for is something a child can be about.
LEMMA DecisionKeyOK ==
    ASSUME TableInv, NEW p, PendingOK(Known, p), p.kind # "none",
           NEW decision \in {"retry", "override"}
    PROVE  KeyOK(Known, DecisionKey(p, decision))
<1>1. /\ p \in Pending /\ p.id \in Tasks \cup 0..MaxVersion
  BY SessionAssumption DEF PendingOK, Pending
<1>2. CASE p.kind = "review"
  <2>1. DecisionKey(p, decision) = <<"review", p.window, p.id, decision>>
    BY <1>2 DEF DecisionKey
  <2>2. p.window \in Windows /\ p.window \in ReviewRuns
    BY <1>2 DEF PendingOK
  <2> QED
    BY <1>1, <2>1, <2>2 DEF KeyOK, SessionKeys
<1>3. CASE p.kind = "chapter"
  <2>1. PICK n \in Known.started : p.window = ChapterOf(n)
    BY <1>3 DEF PendingOK
  <2>2. n \in Chapters /\ p.window[1] = n /\ p.window \in Windows
    BY <2>1, WindowsFit DEF Known, ChapterRuns
  <2>3. version[n] \in 0..MaxVersion
    BY <2>2 DEF TableInv
  <2>4. DecisionKey(p, decision) = <<"write", p.window, version[n], decision>>
    BY <1>3, <2>2 DEF DecisionKey
  <2> QED
    BY <2>1, <2>2, <2>3, <2>4 DEF KeyOK, SessionKeys
<1> QED
  BY <1>1, <1>2, <1>3 DEF Pending

LEMMA StepDecisionReads ==
    ASSUME SInv, NEW r \in Requests, DecisionReads(r)
    PROVE  SInv' /\ [Next]_vars /\ Extends(Known, Known')
<1> DEFINE p == saved.pending
<1>0. /\ UNCHANGED <<task, child, version, data, saved, run>> /\ TableInv /\ PendingOK(Known, p)
      /\ DataOK(Known, data) /\ Parent \in Known.sessions
  BY Have DEF DecisionReads, session, SaveOK, Known, Exists
<1>1. ASSUME overrode \subseteq overrode', overrode' \subseteq Windows
      PROVE  [Next]_vars /\ TableInv' /\ Extends(Known, Known')
  <2>1. UNCHANGED <<task, child, version>> /\ IInv'
    BY <1>0 DEF TableInv, IInv, TypeOK, LeaseIffActive
  <2>2. TableInv'
    BY <1>0, <1>1, <2>1 DEF TableInv, Kids, Exists
  <2>3. Grown
    BY <1>0, <1>1 DEF Grown, Exists
  <2> QED
    BY <1>0, <2>1, <2>2, <2>3, KnownGrows DEF vars
<1>2. ASSUME NEW a, Asks(r, a), AskOK(Known', a), overrode \subseteq overrode', overrode' \subseteq Windows
      PROVE  SInv' /\ [Next]_vars /\ Extends(Known, Known')
  BY <1>0, <1>1, <1>2, RequestGoes
<1>3. PICK decision \in {"retry", "override"} :
        CASE p.kind = "none" -> Asks(r, [NoAsk EXCEPT !.pc = "retrying"]) /\ UNCHANGED overrode
          [] p.kind = "review" /\ decision = "override" ->
                /\ Asks(r, [NoAsk EXCEPT !.pc = "linking", 
                                        !.data = [data EXCEPT !.override = p.window]])
                /\ overrode' = overrode \cup {p.window}
          [] OTHER ->
                /\ Asks(r, [pc |-> "queuing", data |-> [data EXCEPT !.override = NoWindow],
                            key |-> DecisionKey(p, decision)])
                /\ UNCHANGED overrode
  BY DEF DecisionReads
<1>4. overrode \subseteq Windows
  BY <1>0 DEF TableInv
<1>5. \A d : [NoAsk EXCEPT !.pc = "linking", !.data = d] = [pc |-> "linking", data |-> d, key |-> NoKey]
  <2>1. NoAsk = [pc |-> NoAsk.pc, data |-> NoAsk.data, key |-> NoAsk.key]
    BY DEF NoAsk
  <2>2. NoAsk.key = NoKey
    BY DEF NoAsk
  <2>3. ASSUME NEW d, NEW q, q = [NoAsk EXCEPT !.pc = "linking", !.data = d]
        PROVE  q = [pc |-> "linking", data |-> d, key |-> NoAsk.key]
    BY <2>1, <2>3
  <2> QED
    BY <2>2, <2>3, Zenon
<1>6. CASE p.kind = "none"
  <2> DEFINE a == [pc |-> "retrying", data |-> NoData, key |-> NoKey]
  <2>1. Asks(r, a) /\ UNCHANGED overrode
    BY <1>3, <1>6 DEF NoAsk
  <2>2. Extends(Known, Known')
    BY <1>1, <1>4, <2>1
  <2>3. AskOK(Known', a)
    BY <1>0, <2>2, NothingOK DEF AskOK, Ask, Extends
  <2> HIDE DEF a
  <2> QED
    BY <1>2, <1>4, <2>1, <2>3
<1>7. CASE p.kind = "review" /\ decision = "override"
  <2> DEFINE d == [data EXCEPT !.override = p.window]
             a == [pc |-> "linking", data |-> d, key |-> NoKey]
  <2>1. /\ Asks(r, [NoAsk EXCEPT !.pc = "linking", !.data = d])
        /\ overrode' = overrode \cup {p.window}
    BY <1>3, <1>7
  <2>2. p.window \in Windows
    BY <1>0, <1>7 DEF PendingOK
  <2>3. overrode \subseteq overrode' /\ overrode' \subseteq Windows
    BY <1>4, <2>1, <2>2
  <2>4. Extends(Known, Known')
    BY <1>1, <2>3
  <2>5. DataOK(Known', data) /\ p.window \in Known'.overrode
    BY <1>0, <2>1, <2>4, StaysTrue DEF Known
  <2>6. DataOK(Known', d)
    BY <2>2, <2>5 DEF DataOK
  <2> HIDE DEF d
  <2>7. AskOK(Known', a)
    BY <1>0, <2>4, <2>6 DEF AskOK, Ask, Extends, DataOK
  <2>8. Asks(r, a)
    BY <1>5, <2>1, Zenon
  <2> HIDE DEF a
  <2> QED
    BY <1>2, <2>3, <2>7, <2>8
<1>8. CASE p.kind # "none" /\ ~(p.kind = "review" /\ decision = "override")
  <2> DEFINE d == [data EXCEPT !.override = NoWindow]
             a == [pc |-> "queuing", data |-> d, key |-> DecisionKey(p, decision)]
  <2>1. Asks(r, a) /\ UNCHANGED overrode
    BY <1>3, <1>8
  <2>2. Extends(Known, Known')
    BY <1>1, <1>4, <2>1
  <2>3. KeyOK(Known', DecisionKey(p, decision)) /\ DataOK(Known', data)
    BY <1>0, <1>8, <2>2, DecisionKeyOK, StaysTrue
  <2>4. DataOK(Known', d)
    BY <2>3 DEF DataOK
  <2> HIDE DEF d
  <2>5. AskOK(Known', a)
    BY <1>0, <2>2, <2>3, <2>4 DEF AskOK, Ask, Extends, DataOK, KeyOK
  <2> HIDE DEF a
  <2> QED
    BY <1>2, <1>4, <2>1, <2>5
<1> QED
  BY <1>6, <1>7, <1>8

LEMMA StepDecides ==
    ASSUME SInv, NEW r \in Requests, DecisionQueues(r) \/ DecisionLinks(r) \/ DecisionRetries(r)
    PROVE  SInv' /\ [Next]_vars /\ Extends(Known, Known')
<1>0. /\ AskOK(Known, ask[r]) /\ ask[r] \in Ask /\ TableInv /\ Parent \in Tasks
      /\ Parent \in Known.sessions /\ Exists(Parent)
  <2>1. AskOK(Known, ask[r]) /\ TableInv
    BY Have
  <2>2. ask[r].pc # "idle"
    BY DEF DecisionQueues, DecisionLinks, DecisionRetries
  <2>3. Parent \in Known.sessions /\ ask[r] \in Ask
    BY <2>1, <2>2 DEF AskOK
  <2> QED
    BY <2>1, <2>3, Have, ParentFirst
<1>1. CASE DecisionQueues(r)
  <2>1. PICK c \in Tasks : /\ Spawn(c, ask[r].key)
                           /\ Asks(r, [ask[r] EXCEPT !.pc = "linking", !.data.resume = c])
    BY <1>1 DEF DecisionQueues
  <2>2. UNCHANGED <<version, overrode, data, saved, run>>
    BY <1>1 DEF DecisionQueues, world
  <2>3. Wanted(ask[r].key)
    BY <1>0, <1>1 DEF DecisionQueues, AskOK, KeyOK, Wanted, Known, ChapterRuns
  <2>4. [Next]_vars /\ TableInv' /\ Extends(Known, Known') /\ c \in Known'.kids
    BY <1>0, <2>1, <2>2, <2>3, SpawnGrows
  <2>5. AskOK(Known', ask[r]) /\ Parent \in Known'.sessions
    BY <1>0, <2>4, StaysTrue DEF Extends
  <2> DEFINE a == [ask[r] EXCEPT !.pc = "linking", !.data.resume = c]
  <2>6. a \in Ask /\ a.pc = "linking" /\ a.data = [ask[r].data EXCEPT !.resume = c]
    BY <1>0 DEF Ask
  <2>7. DataOK(Known', a.data)
    BY <2>4, <2>5, <2>6 DEF AskOK, DataOK, Link
  <2> HIDE DEF a
  <2>8. AskOK(Known', a)
    BY <2>5, <2>6, <2>7 DEF AskOK
  <2>9. Asks(r, a)
    BY <2>1 DEF a
  <2> QED
    BY <2>2, <2>4, <2>8, <2>9, RequestGoes
<1>2. CASE DecisionLinks(r)
  <2>1. UNCHANGED <<child, version, overrode, saved, run>>
    BY <1>2 DEF DecisionLinks, world
  <2>2. CASE /\ UpdateData(Parent, IF ask[r].key = NoKey THEN NoTask ELSE ask[r].data.resume, NoWorker)
             /\ data' = ask[r].data /\ Asks(r, [NoAsk EXCEPT !.pc = "retrying"])
    <3>1. Call
      <4>1. (IF ask[r].key = NoKey THEN NoTask ELSE ask[r].data.resume) \in Tasks \cup {NoTask}
        BY <1>0 DEF Ask
      <4> QED
        BY <1>0, <2>2, <4>1 DEF Call, Plain
    <3>2. [Next]_vars /\ TableInv' /\ Extends(Known, Known') /\ AskOK(Known', ask[r])
      BY <1>0, <2>1, <3>1, CallKeeps
    <3>3. DataOK(Known', data') /\ Parent \in Known'.sessions
      BY <1>0, <2>2, <3>2 DEF AskOK, Extends
    <3>4. AskOK(Known', [NoAsk EXCEPT !.pc = "retrying"])
      <4>1. [NoAsk EXCEPT !.pc = "retrying"] = [pc |-> "retrying", data |-> NoData, key |-> NoKey]
        BY DEF NoAsk
      <4> QED
        BY <3>3, <4>1, NothingOK DEF AskOK, Ask
    <3>5. ask' = [ask EXCEPT ![r] = ask'[r]] /\ ask'[r] = [NoAsk EXCEPT !.pc = "retrying"]
      BY <2>2 DEF Asks, SInv, Carried
    <3> QED
      BY <2>1, <3>2, <3>3, <3>4, <3>5, Continue
  <2>3. CASE Asks(r, NoAsk) /\ UNCHANGED <<task, data>>
    <3>1. [Next]_vars /\ TableInv' /\ Extends(Known, Known')
      BY <2>1, <2>3, CallKeeps
    <3> QED
      BY <2>1, <2>3, <3>1, NothingOK, RequestGoes
  <2> QED
    BY <1>2, <2>2, <2>3 DEF DecisionLinks
<1>3. CASE DecisionRetries(r)
  <2>1. /\ Call \/ UNCHANGED task
        /\ UNCHANGED <<child, version, overrode, data, saved, run>> /\ Asks(r, NoAsk)
    BY <1>0, <1>3 DEF DecisionRetries, Call, Plain, session, world
  <2> QED
    BY <2>1, CallKeeps, NothingOK, RequestGoes
<1> QED
  BY <1>1, <1>2, <1>3

-----------------------------------------------------------------------------
(* Theorems.                                                               *)

LEMMA InitSInv == CInit => SInv
<1> SUFFICES ASSUME CInit PROVE SInv
  OBVIOUS
<1>1. IInv
  BY InitIInv DEF CInit
<1>2. /\ \A t \in Tasks : task[t] = EmptyRow /\ child[t] = NoChild
      /\ EmptyRow.status = "absent" /\ EmptyRow.key = NoKey
  BY DEF CInit, Init, EmptyRow, NewRow
<1>3. NoChild \in ChildRecord
  BY SessionAssumption DEF NoChild, ChildRecord
<1>4. TableInv
  BY <1>1, <1>2, <1>3, SessionAssumption DEF CInit, TableInv, ChildOK, Kids, Exists
<1>5. run = [w \in Workers |-> Idle] /\ ask = [r \in Requests |-> NoAsk]
      /\ data = NoData /\ saved = NothingSaved
  BY DEF CInit
<1>6. Idle \in Local
  BY FreeOK DEF RunOK
<1> QED
  BY <1>4, <1>5, <1>6, NothingOK, FreeOK DEF SInv, Carried

LEMMA StepSInv ==
    SInv /\ [CNext]_cvars => SInv' /\ [Next]_vars /\ Extends(Known, Known')
<1> SUFFICES ASSUME SInv, [CNext]_cvars PROVE SInv' /\ [Next]_vars /\ Extends(Known, Known')
  OBVIOUS
<1>1. CASE UNCHANGED cvars
  <2>1. UNCHANGED <<task, child, version, overrode, data, saved, run, ask>>
    BY <1>1 DEF cvars, session, world
  <2> QED
    BY <2>1, CallKeeps, Continue
<1>2. CASE \E w \in Workers : Advances(w) \/ Restart(w)
  BY <1>2, StepTake, StepOverride, StepLook, StepSaveWrites, StepPop, StepPlan, StepSettles,
     StepSettle, StepChildSettles
  DEF Advances
<1>3. CASE \E t \in Tasks : Command(t) \/ LeaseRunsOut(t)
  BY <1>3, StepCommand
<1>4. CASE \E r \in Requests : Decides(r)
  BY <1>4, StepDecisionReads, StepDecides DEF Decides
<1> QED
  BY <1>1, <1>2, <1>3, <1>4, StepStart, StepCrash DEF CNext

\* A session uses the queue only through its calls: with every interleaving of its
\* workers, the author and crashes it is a behaviour of TaskRuntime, whose theorems
\* (one lease, one row for a key, the life cycle) hold of it.
THEOREM SessionUsesQueue == CSpec => Spec
<1>1. CInit => Init
  BY DEF CInit
<1> QED
  BY <1>1, InitSInv, StepSInv, PTL DEF CSpec, Spec

\* The invariant of a session.
THEOREM SessionInvariant == CSpec => []SInv
  BY InitSInv, StepSInv, PTL DEF CSpec

\* Rows, children, payload and every checkpoint, saved or carried by a worker between
\* two transactions of advance, are well formed in every reachable state.
THEOREM SessionTypeCorrect == CSpec => []STypeOK
<1>1. ASSUME NEW s, SaveOK(Known, s) PROVE CheckpointOK(s)
  <2>1. /\ s.completed \in Seq(Chapters) /\ s.reviews \in Seq(Review)
        /\ s.waiting \in Tasks \cup {NoTask} /\ s.current \in 1..Count + Interval /\ s.pending \in Pending
    BY <1>1 DEF SaveOK
  <2>2. \A i \in Indices(s.completed) : s.completed[i] \in Chapters
    BY <2>1 DEF Indices
  <2>3. \A i \in Indices(s.reviews) : s.reviews[i] \in Review
    BY <2>1 DEF Indices
  <2>4. s.current \in 1..Count + Interval + 1
    BY <2>1, SessionAssumption
  <2> QED
    BY <2>1, <2>2, <2>3, <2>4 DEF CheckpointOK, Review, Pending
<1>2. SInv => STypeOK
  <2> SUFFICES ASSUME SInv PROVE STypeOK
    OBVIOUS
  <2>1. CheckpointOK(saved) /\ \A w \in Workers : CheckpointOK(run[w].state)
    BY <1>1, Have DEF RunOK
  <2>2. task \in [Tasks -> Row] /\ child \in [Tasks -> ChildRecord]
    BY Have DEF IInv, TypeOK, TableInv
  <2>3. data \in [resume: Tasks \cup {NoTask}, override: Windows \cup {NoWindow}]
    BY Have DEF DataOK
  <2> QED
    BY <2>1, <2>2, <2>3 DEF STypeOK, ChildRecord
<1> QED
  BY <1>2, SessionInvariant, PTL

\* No chapter is counted that was not accepted, and none is counted twice, however late
\* a checkpoint is written and whatever the author, the other workers and crashes did
\* between a read and the write.
THEOREM CountedOnlyIfAccepted == CSpec => []CountedIsAccepted
<1>1. SInv => CountedIsAccepted
  BY Have DEF SaveOK, Once, Known, CountedIsAccepted
<1> QED
  BY <1>1, SessionInvariant, PTL

-----------------------------------------------------------------------------
(* The gates.                                                              *)

\* The windows that the list of completed chapters closes are the windows of the
\* chapters: whenever it holds the chapters of a window and all before, the window ends
\* at a position of the list.  A list in the order of the chapters does; so does every
\* list if each chapter is its own window.
Straight(completed) ==
    \A win \in ReviewWindows :
        (\A n \in 1..win[2] : InSeq(n, completed)) =>
            \E b \in Boundaries(completed) : WindowAt(completed, b) = win

\* Every window before chapter n is reviewed.
Passed(k, n) == \A win \in ReviewWindows : win[2] < n => win \in k.reviewed

\* Nothing is left to plan.
NothingLeft(s) == Len(s.completed) >= Count /\ DueWindow(s.completed, s.reviews) = NoWindow

\* Worker w has the lease of the session.
Holds(w) == task[Parent].status = "running" /\ task[Parent].owner = w

\* What a worker in advance knows of the gates: it plans from a straight checkpoint, and
\* it has returned, while it holds the session, only when nothing was left to plan.
GateLocal(w, l) ==
    /\ l.pc \in AtParent \ {"save", "write"} => Straight(l.state.completed)
    /\ l.pc = "returned" /\ Holds(w) => NothingLeft(l.state)

Finished(k) == Chapters \subseteq k.written /\ ReviewWindows \subseteq k.reviewed

\* Every chapter that has a child came after its windows' reviews, and a session ends
\* whole.
GateInv ==
    /\ \A n \in Known.started : Passed(Known, n)
    /\ task[Parent].status = "completed" => Finished(Known)
    /\ \A w \in Workers : GateLocal(w, run[w])

\* A list in the order of the chapters is straight.
LEMMA InOrderStraight ==
    ASSUME NEW completed \in Seq(Chapters), \A i \in Indices(completed) : completed[i] = i
    PROVE  Straight(completed)
<1> SUFFICES ASSUME NEW win \in ReviewWindows, \A n \in 1..win[2] : InSeq(n, completed)
             PROVE  \E b \in Boundaries(completed) : WindowAt(completed, b) = win
  BY DEF Straight
<1>0. Interval \in Nat \ {0} /\ Len(completed) \in Nat
  BY SessionAssumption
<1>1. /\ win = <<win[1], win[2]>> /\ win[1] \in Nat \ {0} /\ win[2] \in Nat
      /\ win[2] % Interval = 0 /\ win[1] = win[2] - Interval + 1
  <2>1. /\ win \in (1..Count + Interval) \X (1..Count + 2 * Interval)
        /\ win[2] = win[1] + Interval - 1 /\ win[2] % Interval = 0
    BY DEF ReviewWindows, Windows
  <2>2. win = <<win[1], win[2]>> /\ win[1] \in Nat \ {0} /\ win[2] \in Nat
    BY <2>1, SessionAssumption
  <2> DEFINE first == win[1]
             last == win[2]
  <2>3. first \in Nat /\ last = first + Interval - 1
    BY <2>1, <2>2
  <2> HIDE DEF first, last
  <2>4. first = last - Interval + 1
    BY <1>0, <2>3
  <2> QED
    BY <2>1, <2>2, <2>4 DEF first, last
<1>2. win[2] \in 1..win[2] /\ win[1] \in 1..win[2]
  BY <1>0, <1>1
<1>3. win[2] \in Indices(completed) /\ win[1] \in Indices(completed)
  BY <1>2 DEF InSeq
<1>4. win[2] \in Boundaries(completed)
  BY <1>1, <1>3 DEF Boundaries
<1>5. WindowAt(completed, win[2]) = <<win[1], win[2]>>
  BY <1>1, <1>3 DEF WindowAt
<1> QED
  BY <1>1, <1>4, <1>5

\* A list of as many chapters as there are names them all.
LEMMA AllChapters ==
    ASSUME NEW completed \in Seq(Chapters), Once(completed), Len(completed) >= Count
    PROVE  \A n \in Chapters : InSeq(n, completed)
<1>0. Count \in Nat \ {0} /\ Len(completed) \in Nat /\ completed \in [1..Len(completed) -> Chapters]
  BY SessionAssumption, LenProperties
<1>1. \A n \in Nat : IsFiniteSet(1..n) /\ Cardinality(1..n) = n
  <2> SUFFICES ASSUME NEW n \in Nat PROVE IsFiniteSet(1..n) /\ Cardinality(1..n) = n
    OBVIOUS
  <2>1. IsFiniteSet(1..n) /\ Cardinality(1..n) = IF 1 > n THEN 0 ELSE n - 1 + 1
    BY FS_Interval
  <2> QED
    BY <2>1
<1>2. IsFiniteSet(Chapters) /\ Cardinality(Chapters) = Count
  BY <1>0, <1>1 DEF Chapters
<1>3. Cardinality(1..Len(completed)) = Len(completed)
  BY <1>0, <1>1
<1>4. completed \in Injection(1..Len(completed), Chapters)
  <2>1. \A a, b \in 1..Len(completed) : completed[a] = completed[b] => a = b
    BY DEF Once, Indices
  <2> QED
    BY <1>0, <2>1 DEF Injection, IsInjective
<1>5. /\ Cardinality(1..Len(completed)) <= Cardinality(Chapters)
      /\ Cardinality(1..Len(completed)) = Cardinality(Chapters) =>
            completed \in Surjection(1..Len(completed), Chapters)
  BY <1>2, <1>4, FS_Injection
<1>6. completed \in Surjection(1..Len(completed), Chapters)
  BY <1>0, <1>2, <1>3, <1>5
<1> QED
  BY <1>6 DEF Surjection, InSeq, Indices

\* When no review is due, every window whose chapters are in the list is reviewed.
LEMMA NothingDue ==
    ASSUME NEW k, NEW s, SaveOK(k, s), Straight(s.completed),
           DueWindow(s.completed, s.reviews) = NoWindow,
           NEW win \in ReviewWindows, \A n \in 1..win[2] : InSeq(n, s.completed)
    PROVE  win \in k.reviewed
<1>1. s.completed \in Seq(Chapters)
  BY DEF SaveOK
<1>2. NoWindow \notin Chapters \X Chapters
  BY WindowsFit
<1>3. \A b \in Boundaries(s.completed) : Cleared(s.reviews, WindowAt(s.completed, b))
  BY <1>1, <1>2, DueWindowFirst
<1>4. PICK b \in Boundaries(s.completed) : WindowAt(s.completed, b) = win
  BY DEF Straight
<1>5. Cleared(s.reviews, win)
  BY <1>3, <1>4
<1> QED
  BY <1>5 DEF Cleared, SaveOK

LEMMA WholeFinished ==
    ASSUME NEW k, NEW s, SaveOK(k, s), Straight(s.completed), NothingLeft(s)
    PROVE  Finished(k)
<1>1. \A n \in Chapters : InSeq(n, s.completed)
  BY AllChapters DEF SaveOK, NothingLeft
<1>2. Chapters \subseteq k.written
  BY <1>1 DEF SaveOK, InSeq
<1>3. ASSUME NEW win \in ReviewWindows PROVE win \in k.reviewed
  <2>1. \A n \in 1..win[2] : n \in Chapters
    BY SessionAssumption DEF ReviewWindows, Windows, Chapters
  <2> QED
    BY <1>1, <2>1, NothingDue DEF NothingLeft
<1> QED
  BY <1>2, <1>3 DEF Finished

LEMMA PlannedPassed ==
    ASSUME NEW k, NEW s, SaveOK(k, s), Straight(s.completed),
           DueWindow(s.completed, s.reviews) = NoWindow, Len(s.completed) < Count
    PROVE  Passed(k, NextChapter(s.completed))
<1> DEFINE n == NextChapter(s.completed)
<1>1. n \in Chapters /\ \A m \in 1..n - 1 : InSeq(m, s.completed)
  BY NextChapterFirst DEF SaveOK
<1> HIDE DEF n
<1>2. ASSUME NEW win \in ReviewWindows, win[2] < n PROVE win \in k.reviewed
  <2>1. \A m \in 1..win[2] : m \in 1..n - 1
    BY <1>1, <1>2, SessionAssumption DEF ReviewWindows, Windows, Chapters
  <2> QED
    BY <1>1, <2>1, NothingDue
<1> QED
  BY <1>2 DEF Passed, n

\* What is known of the gates stays true when more is known.
LEMMA GateContinue ==
    ASSUME GateInv, Extends(Known, Known'),
           \A n \in Known'.started : n \in Known.started \/ Passed(Known, n),
           (task[Parent].status = "completed")' =>
               task[Parent].status = "completed" \/ Finished(Known),
           \A v \in Workers : GateLocal(v, run[v])'
    PROVE  GateInv'
<1>1. \A n : Passed(Known, n) => Passed(Known', n)
  BY DEF Passed, Extends
<1>2. Finished(Known) => Finished(Known')
  BY DEF Finished, Extends
<1>3. \A n \in Known'.started : Passed(Known', n)
  BY <1>1 DEF GateInv
<1>4. (task[Parent].status = "completed")' => Finished(Known')
  BY <1>2 DEF GateInv
<1>5. (Known.started)' = Known'.started /\ (\A n \in Known.started : Passed(Known, n))'
  BY <1>3
<1> QED
  BY <1>4, <1>5 DEF GateInv

\* Which chapters have a child is said by the keys of the rows.
LEMMA KeysSayStarted ==
    ASSUME TableInv, TableInv', \A t \in Tasks : Same(task[t], task'[t])
    PROVE  /\ Known'.started = Known.started
           /\ \A c \in Kids : \A n : WriteKid(c, n)' <=> WriteKid(c, n)
<1>1. ASSUME TableInv, NEW c \in Kids, NEW n
      PROVE  WriteKid(c, n) <=> task[c].key[1] = "write" /\ task[c].key[2] = ChapterOf(n)
  BY <1>1, KidFacts DEF WriteKid, KidOK
<1>2. ASSUME TableInv', NEW c \in Kids', NEW n
      PROVE  WriteKid(c, n)' <=> task'[c].key[1] = "write" /\ task'[c].key[2] = ChapterOf(n)
  <2>1. c \in Tasks /\ c # Parent /\ task'[c].status # "absent"
    BY <1>2 DEF Kids, Exists
  <2>2. KidOK(task'[c], child'[c])
    BY <1>2, <2>1 DEF TableInv, ChildOK
  <2> QED
    BY <2>2 DEF WriteKid, KidOK
<1>3. Kids' = Kids /\ \A c \in Kids : task'[c].key = task[c].key
  BY DEF Kids, Exists, Same
<1>4. \A c \in Kids : \A n : WriteKid(c, n)' <=> WriteKid(c, n)
  BY <1>1, <1>2, <1>3
<1> QED
  BY <1>3, <1>4 DEF Known

\* A plain call takes no lease of the session, completes it not and queues no chapter.
LEMMA PlainKeeps ==
    ASSUME SInv, SInv', Plain \/ UNCHANGED task
    PROVE  /\ Known'.started = Known.started
           /\ \A c \in Kids : \A n : WriteKid(c, n)' <=> WriteKid(c, n)
           /\ (task[Parent].status = "completed")' => task[Parent].status = "completed"
           /\ \A v \in Workers : Holds(v)' => Holds(v)
<1>1. TableInv /\ TableInv' /\ IInv /\ Parent \in Tasks
  BY Have, ParentFirst DEF SInv
<1>2. CASE UNCHANGED task
  BY <1>1, <1>2, KeysSayStarted DEF Same, Holds
<1>3. CASE Plain
  <2>1. AllQuiet /\ \A t \in Tasks : Calm(task[t], task'[t])
    BY <1>1, <1>3, PlainMoves
  <2>2. Known'.started = Known.started /\ \A c \in Kids : \A n : WriteKid(c, n)' <=> WriteKid(c, n)
    BY <1>1, <2>1, KeysSayStarted DEF Calm
  <2>3. task'[Parent].status = "completed" => task[Parent].status = "completed"
    BY <1>1, <2>1 DEF Calm
  <2>4. task'[Parent].status = "running" =>
            task[Parent].status = "running" /\ task'[Parent].owner = task[Parent].owner
    BY <1>1, <2>1 DEF AllQuiet, Quiet, RStay, RAsk, RGiveUp, RRest
  <2> QED
    BY <2>2, <2>3, <2>4 DEF Holds
<1> QED
  BY <1>2, <1>3

\* What a worker knows is not disturbed while another one moves.
LEMMA OtherLocal ==
    ASSUME NEW v \in Workers, GateLocal(v, run[v]), run'[v] = run[v], Holds(v)' => Holds(v)
    PROVE  GateLocal(v, run[v])'
  BY DEF GateLocal

\* A step with a plain call keeps the gates if its worker knows what it says.
LEMMA PlainGate ==
    ASSUME SInv, SInv', GateInv, Extends(Known, Known'), Plain \/ UNCHANGED task,
           \A v \in Workers : run'[v] = run[v] \/ GateLocal(v, run[v])'
    PROVE  GateInv'
<1>1. /\ Known'.started = Known.started
      /\ (task[Parent].status = "completed")' => task[Parent].status = "completed"
      /\ \A v \in Workers : Holds(v)' => Holds(v)
  BY PlainKeeps
<1>2. \A v \in Workers : GateLocal(v, run[v])
  BY DEF GateInv
<1>3. \A v \in Workers : GateLocal(v, run[v])'
  BY <1>1, <1>2, OtherLocal
<1> QED
  BY <1>1, <1>3, GateContinue

\* Where a worker needs to know nothing.
Unasked == {"idle", "child", "failing", "down", "save", "write"}

LEMMA GoesLocal ==
    ASSUME SInv, NEW w \in Workers, NEW l, Goes(w, l)
    PROVE  run'[w] = l /\ \A v \in Workers : v # w => run'[v] = run[v]
  BY DEF SInv, Carried, Goes

LEMMA UnaskedGate ==
    ASSUME SInv, SInv', GateInv, Extends(Known, Known'), Plain \/ UNCHANGED task,
           NEW w \in Workers, NEW l, Goes(w, l), l.pc \in Unasked
    PROVE  GateInv'
<1>1. run'[w] = l /\ \A v \in Workers : v # w => run'[v] = run[v]
  BY GoesLocal
<1>2. GateLocal(w, run[w])'
  BY <1>1 DEF GateLocal, Unasked, AtParent
<1> QED
  BY <1>1, <1>2, PlainGate

\* advance goes on at p with the checkpoint it has.
LEMMA MovesGate ==
    ASSUME SInv, SInv', GateInv, Extends(Known, Known'), Plain \/ UNCHANGED task,
           NEW w \in Workers, run[w].pc \in AtParent,
           Straight(run[w].state.completed), NEW p, Moves(w, p),
           p = "returned" => ~Holds(w)' \/ NothingLeft(run[w].state)
    PROVE  GateInv'
<1>1. run'[w] = [run[w] EXCEPT !.pc = p] /\ \A v \in Workers : v # w => run'[v] = run[v]
  BY GoesLocal DEF Moves
<1>2. Advancing(Known, run[w])
  BY Have
<1>3. run'[w].pc = p /\ run'[w].state = run[w].state
  BY <1>1, <1>2 DEF Advancing
<1>4. GateLocal(w, run[w])'
  BY <1>3 DEF GateLocal
<1> QED
  BY <1>1, <1>4, PlainGate

-----------------------------------------------------------------------------
(* The gates, action by action.                                            *)

\* A worker's actions that make no child and take no lease, but for the end of the session.
LEMMA GateLook ==
    ASSUME SInv, SInv', GateInv, Extends(Known, Known'), NEW w \in Workers,
           Look(w) \/ SaveReads(w) \/ Check(w) \/ Stop(w)
    PROVE  GateInv'
<1>0. UNCHANGED task /\ run[w].pc \in AtParent /\ GateLocal(w, run[w])
  BY DEF Look, SaveReads, Check, Stop, At, AtParent, GateInv
<1>1. run[w].pc # "save" => Straight(run[w].state.completed) /\ run[w].pc \in AtParent \ {"save", "write"}
  BY <1>0 DEF GateLocal, Look, SaveReads, Check, Stop, At, AtParent
<1>2. ASSUME NEW l, Goes(w, l), l.pc \in Unasked PROVE GateInv'
  BY <1>0, <1>2, UnaskedGate
<1>3. ASSUME NEW p, Moves(w, p), run[w].pc # "save", p = "returned" => ~Holds(w)'
      PROVE  GateInv'
  BY <1>0, <1>1, <1>3, MovesGate
<1>4. Advancing(Known, run[w])
  BY <1>0, Have
<1>5. CASE Look(w)
  <2>1. Holds(w)' => task[Parent].status = "running"
    BY <1>0 DEF Holds
  <2> QED
    BY <1>3, <1>5, <2>1 DEF Look, At
<1>6. CASE Stop(w)
  <2>1. Holds(w)' => task[Parent].status \in Active
    BY <1>0 DEF Holds, Active
  <2> QED
    BY <1>3, <1>6, <2>1 DEF Stop, At
<1>7. CASE SaveReads(w)
  <2> DEFINE f == IF task[Parent].status = "paused" THEN NoWorker ELSE w
             l == [run[w] EXCEPT !.pc = "write", !.fence = f]
  <2>1. Goes(w, l)
    BY <1>7 DEF SaveReads
  <2>2. l.pc = "write"
    BY <1>4 DEF Advancing
  <2> HIDE DEF l
  <2> QED
    BY <1>2, <2>1, <2>2 DEF Unasked
<1>8. CASE Check(w)
  <2>1. CASE Moves(w, "defer")
    BY <1>3, <1>8, <2>1 DEF Check, At
  <2>2. CASE \E s, p : Saves(w, s, p)
    <3>1. PICK s, p : Saves(w, s, p)
      BY <2>2
    <3>2. [run[w] EXCEPT !.pc = "save", !.state = s, !.next = p].pc = "save"
      BY <1>4 DEF Advancing
    <3> QED
      BY <1>2, <3>1, <3>2 DEF Saves, Unasked
  <2> QED
    BY <1>8, <2>1, <2>2 DEF Check
<1> QED
  BY <1>5, <1>6, <1>7, <1>8

LEMMA RefusedGate ==
    ASSUME SInv, SInv', GateInv, Extends(Known, Known'), NEW w \in Workers,
           NEW possible, Refused(w, possible)
    PROVE  GateInv'
<1>1. UNCHANGED task /\ Goes(w, [Idle EXCEPT !.pc = "failing", !.job = run[w].job])
  BY DEF Refused
<1>2. [Idle EXCEPT !.pc = "failing", !.job = run[w].job].pc = "failing"
  BY DEF Idle
<1> QED
  BY <1>1, <1>2, UnaskedGate DEF Unasked

LEMMA GateWrites ==
    ASSUME SInv, SInv', GateInv, Extends(Known, Known'), NEW w \in Workers,
           Straight(saved.completed)',
           Override(w) \/ SaveWrites(w) \/ Pop(w)
    PROVE  GateInv'
<1>0. /\ run[w].pc \in AtParent /\ GateLocal(w, run[w]) /\ Advancing(Known, run[w])
      /\ Parent \in Tasks
  BY Have, ParentFirst DEF Override, SaveWrites, Pop, At, AtParent, GateInv
<1>1. CASE \E possible : Refused(w, possible)
  BY <1>1, RefusedGate
<1>2. CASE Override(w) /\ ~\E possible : Refused(w, possible)
  <2>1. PICK s, d : Goes(w, [run[w] EXCEPT !.pc = "save", !.next = "look", !.state = s,
                                           !.data = d, !.child = NoTask])
    BY <1>2 DEF Override
  <2>2. Plain
    BY <1>0, <1>2 DEF Override, Plain
  <2>3. [run[w] EXCEPT !.pc = "save", !.next = "look", !.state = s, !.data = d,
                       !.child = NoTask].pc = "save"
    BY <1>0 DEF Advancing
  <2> QED
    BY <2>1, <2>2, <2>3, UnaskedGate DEF Unasked
<1>3. CASE SaveWrites(w) /\ ~\E possible : Refused(w, possible)
  <2>1. /\ Checkpoint(Parent, run[w].fence) /\ saved' = run[w].state /\ Moves(w, run[w].next)
        /\ run[w].pc = "write"
    BY <1>3 DEF SaveWrites, Stores, At
  <2>2. Plain
    BY <1>0, <2>1 DEF Plain, Advancing
  <2>3. run[w].next # "returned" /\ Straight(run[w].state.completed)
    BY <1>0, <2>1 DEF Advancing
  <2> QED
    BY <1>0, <2>1, <2>2, <2>3, MovesGate
<1>4. CASE Pop(w) /\ ~\E possible : Refused(w, possible)
  <2>1. UpdateData(Parent, NoTask, w) /\ Moves(w, "plan") /\ run[w].pc = "pop"
    BY <1>4 DEF Pop, At
  <2>2. Plain
    BY <1>0, <2>1 DEF Plain
  <2>3. Straight(run[w].state.completed)
    BY <1>0, <2>1 DEF GateLocal, AtParent
  <2> QED
    BY <1>0, <2>1, <2>2, <2>3, MovesGate
<1> QED
  BY <1>1, <1>2, <1>3, <1>4

LEMMA GateSettles ==
    ASSUME SInv, SInv', GateInv, Extends(Known, Known'), NEW w \in Workers,
           Stopping(w) \/ Defer(w) \/ SettleCancelled(w) \/ Failing(w) \/ Restart(w)
    PROVE  GateInv'
<1>0. Parent \in Tasks /\ Idle.pc \in Unasked /\ Down.pc \in Unasked /\ GateLocal(w, run[w])
  BY ParentFirst DEF Idle, Down, Unasked, GateInv
<1>1. CASE \E possible : Refused(w, possible)
  BY <1>1, RefusedGate
<1>3. CASE Stopping(w) /\ ~\E possible : Refused(w, possible)
  <2>1. /\ Transition(Parent, "needs_author_decision", w) /\ Moves(w, "returned")
        /\ run[w].pc = "stopping"
    BY <1>3 DEF Stopping, At
  <2>2. Plain
    BY <1>0, <2>1 DEF Plain
  <2>3. ~Holds(w)'
    <3>1. task'[Parent].status = "needs_author_decision"
      BY <1>0, <2>1, Have, SettleRow
    <3> QED
      BY <3>1 DEF Holds
  <2>4. Straight(run[w].state.completed) /\ run[w].pc \in AtParent
    BY <1>0, <2>1 DEF GateLocal, AtParent
  <2> QED
    BY <2>1, <2>2, <2>3, <2>4, MovesGate
<1>4. CASE Defer(w) /\ ~\E possible : Refused(w, possible)
  <2>1. DeferUntilChild(Parent, run[w].child, w) /\ Goes(w, Idle) /\ run[w].child \in Tasks
    <3>1. run[w].pc = "defer" /\ Advancing(Known, run[w])
      BY <1>4, Have DEF Defer, At, AtParent
    <3> QED
      BY <1>4, <3>1 DEF Defer, Advancing
  <2>2. Plain
    BY <1>0, <2>1 DEF Plain
  <2> QED
    BY <1>0, <2>1, <2>2, UnaskedGate
<1>5. CASE SettleCancelled(w) /\ ~\E possible : Refused(w, possible)
  <2>1. Transition(Parent, "cancelled", w) /\ Goes(w, Idle)
    BY <1>5 DEF SettleCancelled
  <2>2. Plain
    BY <1>0, <2>1 DEF Plain
  <2> QED
    BY <1>0, <2>1, <2>2, UnaskedGate
<1>6. CASE Failing(w)
  <2>1. run[w].job \in Tasks
    BY <1>6, Have DEF Failing, At, RunOK
  <2>2. Plain \/ UNCHANGED task
    BY <1>6, <2>1 DEF Failing, Plain
  <2> QED
    BY <1>0, <1>6, <2>2, UnaskedGate DEF Failing
<1>7. CASE Restart(w)
  BY <1>0, <1>7, UnaskedGate DEF Restart, Plain
<1> QED
  BY <1>1, <1>3, <1>4, <1>5, <1>6, <1>7

\* A claim of the session starts from its checkpoint, and no other worker has it then.
LEMMA GateTake ==
    ASSUME SInv, SInv', GateInv, Extends(Known, Known'), NEW w \in Workers, Take(w),
           Straight(saved.completed)
    PROVE  GateInv'
<1>1. PICK t \in Tasks :
        /\ Claim(w, t)
        /\ Goes(w, IF t = Parent
                   THEN [Idle EXCEPT !.pc = "begin", !.job = t, !.data = data, !.state = saved,
                                     !.child = IF data.resume # NoTask THEN data.resume
                                               ELSE saved.waiting]
                   ELSE [Idle EXCEPT !.pc = "child", !.job = t])
  BY DEF Take
<1>2. Call /\ IInv /\ TableInv /\ TableInv' /\ task[t] \in Row /\ Parent \in Tasks
  BY <1>1, Have, ParentFirst, RowsGood DEF Call, SInv
<1>3. \A u \in Tasks : /\ Same(task[u], task'[u])
                       /\ u # t => task'[u] = task[u]
  <2>1. \A u \in Tasks : Same(task[u], task'[u])
    BY <1>2, CallMoves
  <2> QED
    BY <1>1, <1>2, <2>1 DEF Claim, IInv, TypeOK
<1>4. Known'.started = Known.started
  BY <1>2, <1>3, KeysSayStarted
<1>5. task'[t].status = "running" /\ task'[t].owner = w
  <2>1. task'[t] = [Leased(task[t], w) EXCEPT !.waitingFor = NoTask]
    BY <1>1, <1>2 DEF Claim, IInv, TypeOK
  <2>2. /\ [Leased(task[t], w) EXCEPT !.waitingFor = NoTask].status = "running"
        /\ [Leased(task[t], w) EXCEPT !.waitingFor = NoTask].owner = w
    BY <1>2 DEF Leased, Synced, Row
  <2> QED
    BY <2>1, <2>2
<1>6. (task[Parent].status = "completed")' => task[Parent].status = "completed"
  BY <1>2, <1>3, <1>5
<1>7. \A v \in Workers : v # w /\ Holds(v)' => Holds(v)
  BY <1>2, <1>3, <1>5 DEF Holds
<1>8. GateLocal(w, run[w])'
  <2>1. run'[w] = IF t = Parent
                  THEN [Idle EXCEPT !.pc = "begin", !.job = t, !.data = data, !.state = saved,
                                    !.child = IF data.resume # NoTask THEN data.resume
                                              ELSE saved.waiting]
                  ELSE [Idle EXCEPT !.pc = "child", !.job = t]
    BY <1>1, GoesLocal
  <2>2. /\ t = Parent => run'[w].pc = "begin" /\ run'[w].state = saved
        /\ t # Parent => run'[w].pc = "child"
    BY <2>1 DEF Idle
  <2> QED
    BY <2>2 DEF GateLocal, AtParent
<1>9. \A v \in Workers : v # w => GateLocal(v, run[v])'
  BY <1>1, <1>7, GoesLocal, OtherLocal DEF GateInv
<1> QED
  BY <1>4, <1>6, <1>8, <1>9, GateContinue

\* A session completes only at the hands of its worker, when nothing was left to plan.
LEMMA GateSettle ==
    ASSUME SInv, SInv', GateInv, Extends(Known, Known'), NEW w \in Workers, Settle(w)
    PROVE  GateInv'
<1>0. /\ run[w].pc = "returned" /\ Advancing(Known, run[w]) /\ GateLocal(w, run[w])
      /\ Parent \in Tasks /\ IInv /\ TableInv /\ TableInv'
  BY Have, ParentFirst DEF Settle, At, AtParent, GateInv, SInv
<1>1. Straight(run[w].state.completed)
  BY <1>0 DEF GateLocal, AtParent
<1>2. CASE \E possible : Refused(w, possible)
  BY <1>2, RefusedGate
<1>3. CASE Checkpoint(Parent, w) /\ Moves(w, "cancelling")
  <2>1. Plain
    BY <1>0, <1>3 DEF Plain
  <2> QED
    BY <1>0, <1>1, <1>3, <2>1, MovesGate DEF AtParent
<1>4. CASE Goes(w, Idle) /\ UNCHANGED task
  BY <1>4, UnaskedGate DEF Idle, Unasked
<1>5. CASE Transition(Parent, "completed", w) /\ Goes(w, Idle) /\ task[Parent].status = "running"
  <2>1. Holds(w)
    BY <1>0, <1>5, TaskAssumption DEF Transition, CanTransition, Fenced, Holds
  <2>2. Finished(Known)
    BY <1>0, <1>1, <2>1, WholeFinished DEF GateLocal, Advancing
  <2>3. /\ \A u \in Tasks : Same(task[u], task'[u])
        /\ task'[Parent].status = "completed"
    BY <1>0, <1>5, SettleRow
  <2>4. Known'.started = Known.started
    BY <1>0, <2>3, KeysSayStarted
  <2>5. \A v \in Workers : ~Holds(v)'
    BY <2>3 DEF Holds
  <2>6. GateLocal(w, run[w])'
    <3>1. run'[w] = Idle
      BY <1>5, GoesLocal
    <3> QED
      BY <3>1 DEF GateLocal, Idle, AtParent
  <2>7. \A v \in Workers : v # w => GateLocal(v, run[v])'
    BY <1>5, <2>5, GoesLocal, OtherLocal DEF GateInv
  <2> QED
    BY <2>2, <2>4, <2>6, <2>7, GateContinue
<1> QED
  BY <1>2, <1>3, <1>4, <1>5 DEF Settle

\* Spawn starts no chapter but the one it is asked for, and changes no child.
LEMMA SpawnStarts ==
    ASSUME SInv, Exists(Parent), UNCHANGED <<version, overrode>>,
           NEW c \in Tasks, NEW key, Wanted(key), Spawn(c, key)
    PROVE  /\ task'[Parent] = task[Parent]
           /\ \A u \in Kids : \A n : WriteKid(u, n)' <=> WriteKid(u, n)
           /\ \A n \in Known'.started : \/ n \in Known.started
                                        \/ n \in Chapters /\ key[1] = "write" /\ key[2] = ChapterOf(n)
<1>1. /\ task'[c].kind = key[1] /\ child'[c].window = key[2]
      /\ \A u \in Tasks : Exists(u) => task'[u] = task[u] /\ child'[u] = child[u]
  BY SpawnGrows, Have
<1>2. Parent \in Tasks /\ task'[Parent] = task[Parent]
  BY <1>1, ParentFirst
<1>3. \A u \in Tasks : u # c => task'[u] = task[u] /\ child'[u] = child[u]
  <2>1. task \in [Tasks -> Row] /\ child \in [Tasks -> ChildRecord]
    BY Have DEF TableInv, IInv, TypeOK
  <2> QED
    BY <2>1 DEF Spawn, Enqueue
<1>4. ASSUME NEW n \in Known'.started
      PROVE  n \in Known.started \/ (n \in Chapters /\ key[1] = "write" /\ key[2] = ChapterOf(n))
  <2>1. n \in Chapters /\ \E u \in Kids' : WriteKid(u, n)'
    BY <1>4 DEF Known
  <2>2. PICK u \in Tasks : u # Parent /\ Exists(u)' /\ WriteKid(u, n)'
    BY <2>1 DEF Kids
  <2>3. CASE u # c
    <3>1. u \in Kids /\ WriteKid(u, n)
      BY <1>3, <2>2, <2>3 DEF Kids, Exists, WriteKid
    <3> QED
      BY <2>1, <3>1 DEF Known
  <2>4. CASE u = c
    BY <1>1, <2>1, <2>2, <2>4 DEF WriteKid
  <2> QED
    BY <2>3, <2>4
<1>5. \A u \in Kids : \A n : WriteKid(u, n)' <=> WriteKid(u, n)
  BY <1>1 DEF Kids, WriteKid
<1> QED
  BY <1>2, <1>4, <1>5

\* A spawned child of a chapter that has one, or whose gates are passed.
LEMMA SpawnGate ==
    ASSUME SInv, SInv', GateInv, Extends(Known, Known'), Exists(Parent),
           UNCHANGED <<version, overrode>>,
           NEW c \in Tasks, NEW key, Wanted(key), Spawn(c, key),
           \A n \in Chapters : key[1] = "write" /\ key[2] = ChapterOf(n) =>
               n \in Known.started \/ Passed(Known, n),
           \A v \in Workers : run'[v] = run[v] \/ GateLocal(v, run[v])'
    PROVE  GateInv'
<1>1. /\ task'[Parent] = task[Parent]
      /\ \A n \in Known'.started : n \in Known.started \/ Passed(Known, n)
  BY SpawnStarts
<1>2. \A v \in Workers : Holds(v)' => Holds(v)
  BY <1>1 DEF Holds
<1>3. \A v \in Workers : GateLocal(v, run[v])'
  BY <1>2, OtherLocal DEF GateInv
<1> QED
  BY <1>1, <1>3, GateContinue

\* advance plans a chapter only when every window before it is reviewed, and is over only
\* when the session is whole.
LEMMA GatePlan ==
    ASSUME SInv, SInv', GateInv, Extends(Known, Known'), NEW w \in Workers, Plan(w)
    PROVE  GateInv'
<1> DEFINE s == run[w].state
           window == DueWindow(s.completed, s.reviews)
           n == NextChapter(s.completed)
<1>0. /\ run[w].pc = "plan" /\ run[w].pc \in AtParent /\ Advancing(Known, run[w])
      /\ SaveOK(Known, s) /\ Straight(s.completed)
      /\ UNCHANGED <<version, overrode>> /\ Exists(Parent)
  <2>1. run[w].pc = "plan" /\ run[w].pc \in AtParent /\ UNCHANGED <<version, overrode>>
    BY DEF Plan, At, AtParent, world
  <2>2. Advancing(Known, run[w]) /\ GateLocal(w, run[w])
    BY <2>1, Have DEF GateInv
  <2> QED
    BY <2>1, <2>2, Have DEF Advancing, GateLocal, AtParent
<1>1. s.completed \in Seq(Chapters) /\ Len(s.completed) \in Nat /\ Count \in Nat
  BY <1>0, SessionAssumption DEF SaveOK
<1>2. window = NoWindow \/ window \in Chapters \X Chapters
  BY <1>1, DueWindowFirst
<1>3. ASSUME NEW c \in Tasks, NEW key, Wanted(key), Spawn(c, key),
             \A m \in Chapters : key[1] = "write" /\ key[2] = ChapterOf(m) => Passed(Known, m),
             NEW q, Goes(w, [run[w] EXCEPT !.pc = "save", !.next = "defer", !.child = c,
                                           !.state = q])
      PROVE  GateInv'
  <2>1. [run[w] EXCEPT !.pc = "save", !.next = "defer", !.child = c, !.state = q].pc = "save"
    BY <1>0 DEF Advancing
  <2>2. run'[w].pc = "save" /\ \A v \in Workers : v # w => run'[v] = run[v]
    BY <1>3, <2>1, GoesLocal
  <2>3. GateLocal(w, run[w])'
    BY <2>2 DEF GateLocal
  <2> QED
    BY <1>0, <1>3, <2>2, <2>3, SpawnGate
<1>4. CASE window # NoWindow
  <2>1. PICK c \in Tasks : /\ Spawn(c, <<"review", window, NoTask, "none">>)
                           /\ Goes(w, [run[w] EXCEPT !.pc = "save", !.next = "defer", !.child = c,
                                 !.state = [s EXCEPT !.waiting = c, !.current = window[2] + 1,
                                                     !.pending = NoPending]])
    BY <1>4 DEF Plan
  <2>2. Wanted(<<"review", window, NoTask, "none">>)
    <3>1. window \in ReviewRuns /\ window \in Windows
      BY <1>2, <1>4, WindowsFit
    <3>2. NoTask \in 0..MaxVersion
      BY SessionAssumption
    <3> HIDE DEF window
    <3> QED
      BY <3>1, <3>2 DEF Wanted, SessionKeys
  <2> HIDE DEF window
  <2>3. \A m \in Chapters : <<"review", window, NoTask, "none">>[1] # "write"
    OBVIOUS
  <2> QED
    BY <1>3, <2>1, <2>2, <2>3
<1>5. CASE window = NoWindow /\ Len(s.completed) < Count
  <2>1. PICK c \in Tasks : /\ Spawn(c, <<"write", ChapterOf(n), NoTask, "none">>)
                           /\ Goes(w, [run[w] EXCEPT !.pc = "save", !.next = "defer", !.child = c,
                                 !.state = [s EXCEPT !.waiting = c, !.current = n,
                                                     !.pending = NoPending]])
    BY <1>5 DEF Plan
  <2>2. n \in Chapters /\ Passed(Known, n)
    BY <1>0, <1>1, <1>5, NextChapterFirst, PlannedPassed
  <2> HIDE DEF n
  <2>3. Wanted(<<"write", ChapterOf(n), NoTask, "none">>)
    <3>1. ChapterOf(n) \in ChapterRuns /\ ChapterOf(n) \in Windows
      BY <2>2, WindowsFit DEF ChapterRuns
    <3>2. NoTask \in 0..MaxVersion
      BY SessionAssumption
    <3> QED
      BY <3>1, <3>2 DEF Wanted, SessionKeys
  <2>4. \A m \in Chapters : ChapterOf(n) = ChapterOf(m) => m = n
    BY <2>2, WindowsFit
  <2>5. \A m \in Chapters : <<"write", ChapterOf(n), NoTask, "none">>[2] = ChapterOf(m) => Passed(Known, m)
    BY <2>2, <2>4
  <2> QED
    BY <1>3, <2>1, <2>3, <2>5
<1>6. CASE window = NoWindow /\ ~(Len(s.completed) < Count)
  <2>1. Moves(w, "returned") /\ UNCHANGED task
    BY <1>6 DEF Plan
  <2>2. NothingLeft(s)
    BY <1>1, <1>6 DEF NothingLeft
  <2> QED
    BY <1>0, <2>1, <2>2, MovesGate
<1> QED
  BY <1>4, <1>5, <1>6

\* A child settles without the session.
LEMMA GateChild ==
    ASSUME SInv, SInv', GateInv, Extends(Known, Known'), NEW w \in Workers, ChildSettles(w)
    PROVE  GateInv'
<1> DEFINE c == run[w].job
<1>0. Goes(w, Idle) /\ Idle.pc \in Unasked /\ c \in Tasks /\ c # Parent /\ Parent \in Tasks
      /\ IInv /\ TableInv /\ TableInv'
  <2>1. run[w].pc = "child" /\ Goes(w, Idle)
    BY DEF ChildSettles, At
  <2>2. c \in Kids
    BY <2>1, Have DEF RunOK, Known
  <2> QED
    BY <2>1, <2>2, Have, ParentFirst DEF Kids, Idle, Unasked, SInv
<1>1. CASE Plain \/ UNCHANGED task
  BY <1>0, <1>1, UnaskedGate
<1>2. CASE Transition(c, "completed", w)
  <2>1. /\ \A u \in Tasks : Same(task[u], task'[u])
        /\ task'[Parent] = task[Parent]
    BY <1>0, <1>2, SettleRow
  <2>2. Known'.started = Known.started
    BY <1>0, <2>1, KeysSayStarted
  <2>3. \A v \in Workers : Holds(v)' => Holds(v)
    BY <2>1 DEF Holds
  <2>4. run'[w] = Idle /\ \A v \in Workers : v # w => run'[v] = run[v]
    BY <1>0, GoesLocal
  <2>5. GateLocal(w, run[w])'
    BY <2>4 DEF GateLocal, Idle, AtParent
  <2>6. \A v \in Workers : GateLocal(v, run[v])'
    BY <2>3, <2>4, <2>5, OtherLocal DEF GateInv
  <2> QED
    BY <2>1, <2>2, <2>6, GateContinue
<1>3. \/ Plain \/ UNCHANGED task
      \/ Transition(c, "completed", w)
  BY <1>0 DEF ChildSettles, Plain
<1> QED
  BY <1>1, <1>2, <1>3

\* The author and crashes.
LEMMA GateAuthor ==
    ASSUME SInv, SInv', GateInv, Extends(Known, Known'),
           \/ \E t \in Tasks : Command(t) \/ LeaseRunsOut(t)
           \/ \E r \in Requests : Decides(r)
    PROVE  GateInv'
<1>0. run' = run /\ Parent \in Tasks
  BY ParentFirst
  DEF Command, LeaseRunsOut, Decides, DecisionReads, DecisionQueues, DecisionLinks,
      DecisionRetries, session
<1>1. CASE \E t \in Tasks : Command(t) \/ LeaseRunsOut(t)
  <2>1. Plain
    BY <1>1 DEF Command, LeaseRunsOut, Plain
  <2> QED
    BY <1>0, <2>1, PlainGate
<1>2. ASSUME NEW r \in Requests, DecisionReads(r) \/ DecisionLinks(r) \/ DecisionRetries(r)
      PROVE  GateInv'
  <2>1. (IF ask[r].key = NoKey THEN NoTask ELSE ask[r].data.resume) \in Tasks \cup {NoTask}
    BY Have DEF AskOK, Ask
  <2>2. Plain \/ UNCHANGED task
    BY <1>0, <1>2, <2>1 DEF DecisionReads, DecisionLinks, DecisionRetries, Plain
  <2> QED
    BY <1>0, <2>2, PlainGate
<1>3. ASSUME NEW r \in Requests, DecisionQueues(r) PROVE GateInv'
  <2>1. AskOK(Known, ask[r]) /\ ask[r].pc = "queuing"
    BY <1>3, Have DEF DecisionQueues
  <2>2. PICK c \in Tasks : Spawn(c, ask[r].key)
    BY <1>3 DEF DecisionQueues
  <2>3. Wanted(ask[r].key) /\ Exists(Parent) /\ KeyOK(Known, ask[r].key)
    BY <2>1, Have DEF AskOK, KeyOK, Wanted, Known, ChapterRuns
  <2>4. UNCHANGED <<version, overrode>>
    BY <1>3 DEF DecisionQueues, world
  <2>5. \A m, n \in Chapters : ChapterOf(n) = ChapterOf(m) => m = n
    BY WindowsFit
  <2>6. \A m \in Chapters : ask[r].key[1] = "write" /\ ask[r].key[2] = ChapterOf(m) =>
            m \in Known.started
    <3>1. Known.started \subseteq Chapters
      BY DEF Known
    <3> QED
      BY <2>3, <2>5, <3>1 DEF KeyOK
  <2> QED
    BY <1>0, <2>2, <2>3, <2>4, <2>6, SpawnGate
<1> QED
  BY <1>1, <1>2, <1>3 DEF Decides

LEMMA GateStart ==
    ASSUME SInv, SInv', GateInv, Extends(Known, Known'), StartSession
    PROVE  GateInv'
<1>0. /\ UNCHANGED <<child, run>>
      /\ task' = [task EXCEPT ![Parent] = NewRow("continuous", NoKey, "queued", FALSE)]
      /\ Parent \in Tasks /\ task \in [Tasks -> Row]
  BY Have, ParentFirst DEF StartSession, EnqueueContinuous, session, IInv, TypeOK
<1>1. /\ task'[Parent].status = "queued"
      /\ \A t \in Tasks \ {Parent} : task'[t] = task[t]
  BY <1>0 DEF NewRow
<1>2. Kids' = Kids /\ \A c \in Kids : \A n : WriteKid(c, n)' <=> WriteKid(c, n)
  BY <1>0, <1>1 DEF Kids, Exists, WriteKid
<1>3. Known'.started = Known.started
  BY <1>2 DEF Known
<1>4. \A v \in Workers : ~Holds(v)'
  BY <1>1 DEF Holds
<1>5. \A v \in Workers : GateLocal(v, run[v])'
  BY <1>0, <1>4, OtherLocal DEF GateInv
<1> QED
  BY <1>1, <1>3, <1>5, GateContinue

LEMMA GateCrash ==
    ASSUME SInv, SInv', GateInv, Extends(Known, Known'), Crash
    PROVE  GateInv'
<1>1. CASE \E w \in Workers : Goes(w, Down)
  BY <1>1, UnaskedGate DEF Crash, Down, Idle, Unasked, session
<1>2. CASE run' = run
  BY <1>2, PlainGate DEF Crash, session
<1> QED
  BY <1>1, <1>2 DEF Crash

LEMMA StepGate ==
    SInv /\ SInv' /\ GateInv /\ Straight(saved.completed) /\ Straight(saved.completed)' /\ [CNext]_cvars
        => GateInv'
<1> SUFFICES ASSUME SInv, SInv', GateInv, Straight(saved.completed), Straight(saved.completed)',
                    [CNext]_cvars
             PROVE  GateInv'
  OBVIOUS
<1>0. Extends(Known, Known')
  BY StepSInv
<1>1. CASE UNCHANGED cvars
  BY <1>0, <1>1, PlainGate DEF cvars
<1>2. CASE \E w \in Workers : Advances(w) \/ Restart(w)
  BY <1>0, <1>2, GateTake, GateLook, GateWrites, GatePlan, GateSettles, GateSettle, GateChild
  DEF Advances
<1>3. CASE \/ \E t \in Tasks : Command(t) \/ LeaseRunsOut(t)
           \/ \E r \in Requests : Decides(r)
  BY <1>0, <1>3, GateAuthor
<1> QED
  BY <1>0, <1>1, <1>2, <1>3, GateStart, GateCrash DEF CNext

-----------------------------------------------------------------------------
(* Theorems about the gates.                                               *)

LEMMA InitGate == CInit => GateInv
<1> SUFFICES ASSUME CInit PROVE GateInv
  OBVIOUS
<1>1. \A t \in Tasks : task[t].status = "absent"
  BY DEF CInit, Init, EmptyRow, NewRow
<1>2. Known.started = {}
  BY <1>1 DEF Known, Kids, Exists
<1>3. task[Parent].status # "completed"
  BY <1>1, ParentFirst
<1>4. \A w \in Workers : run[w].pc = "idle"
  BY DEF CInit, Idle
<1> QED
  BY <1>2, <1>3, <1>4 DEF GateInv, GateLocal, AtParent

LEMMA HardIfGate == SInv /\ GateInv => WindowsGate
<1> SUFFICES ASSUME SInv, GateInv, NEW c \in Tasks, NEW win \in ReviewWindows,
                    task[c].kind = "write", child[c].window[1] > win[2]
             PROVE  Reviewed(win)
  BY DEF WindowsGate
<1>1. ChildOK(c, task[c], child[c])
  BY Have DEF TableInv
<1>2. win \in Windows /\ win[2] \in Nat
  BY SessionAssumption DEF ReviewWindows, Windows
<1>3. c \in Kids
  <2>1. SUFFICES ASSUME task[c].status = "absent" \/ c = Parent PROVE FALSE
    BY DEF Kids, Exists
  <2>2. child[c].window = <<0, 0>>
    BY <1>1, <2>1 DEF ChildOK, NoChild, NoWindow
  <2>3. 0 > win[2]
    BY <2>2
  <2> QED
    BY <1>2, <2>3
<1>4. child[c].window \in ChapterRuns
  BY <1>3, Have, KidFacts DEF KidOK
<1>5. PICK n \in Chapters : child[c].window = ChapterOf(n)
  BY <1>4 DEF ChapterRuns
<1>6. n \in Known.started /\ child[c].window[1] = n
  BY <1>3, <1>5, WindowsFit DEF Known, WriteKid
<1>7. win \in Known.reviewed
  BY <1>6 DEF GateInv, Passed
<1> QED
  BY <1>7 DEF Known

LEMMA WholeIfGate == GateInv => (task[Parent].status = "completed" => Whole)
<1> SUFFICES ASSUME GateInv, task[Parent].status = "completed" PROVE Whole
  OBVIOUS
<1>1. Finished(Known)
  BY DEF GateInv
<1> QED
  BY <1>1 DEF Finished, Known, Whole

\* As long as every saved list of completed chapters is straight, no chapter after a
\* window is queued before a review of the window passed or the author overrode it, and a
\* completed session has all its chapters and reviews: whatever checkpoint a worker that
\* lost its lease, a crash or a stale author's request puts back.
THEOREM StraightGates ==
    CSpec /\ []Straight(saved.completed)
        => [](WindowsGate /\ (task[Parent].status = "completed" => Whole))
<1>1. SInv /\ SInv' /\ GateInv /\ Straight(saved.completed) /\ Straight(saved.completed)' /\ [CNext]_cvars
        => GateInv'
  BY StepGate
<1>2. SInv /\ GateInv => WindowsGate /\ (task[Parent].status = "completed" => Whole)
  BY HardIfGate, WholeIfGate
<1> QED
  BY <1>1, <1>2, InitGate, SessionInvariant, PTL DEF CSpec

-----------------------------------------------------------------------------
(* Chapters are counted in order while nothing is forgotten.               *)

\* The two states in which a checkpoint is written that is not the next one: paused,
\* where the save names no lease owner, and cancelling, where it is emptied.
Undisturbed == task[Parent].status \notin {"paused", "cancelling"}

InOrder(completed) == \A i \in Indices(completed) : completed[i] = i

\* The steps that keep the order: those of an undisturbed session (calm), and those
\* that forget nothing.
Steady(calm) == IF calm THEN Undisturbed ELSE ~forgot'

\* A worker in advance is never more than one chapter ahead of the checkpoint, and, if
\* nothing disturbs the session, not behind it while it holds the session; a child it
\* still has to look at is about a chapter it has counted or about the next one.
OrderLocal(calm, w, l) ==
    l.pc \in AtParent =>
        /\ InOrder(l.state.completed)
        /\ Len(l.state.completed) <= Len(saved.completed) + 1
        /\ l.pc \notin {"save", "write"} => Len(l.state.completed) <= Len(saved.completed)
        /\ calm /\ Holds(w) => Len(saved.completed) <= Len(l.state.completed)
        /\ calm /\ l.pc = "write" => l.fence = w
        /\ l.pc \in {"save", "write"} /\ l.next = "look" => l.child = NoTask
        /\ l.pc \in {"begin", "look", "check"} =>
              \A n \in Chapters : l.child \in Kids /\ WriteKid(l.child, n) =>
                  n <= Len(l.state.completed) + 1

OrderInv(calm) ==
    /\ InOrder(saved.completed)
    /\ \A n \in Known.started : n <= Len(saved.completed) + 1
    /\ \A w \in Workers : OrderLocal(calm, w, run[w])

\* What a worker says of its child is not disturbed by others: children are not renamed.
LEMMA OrderContinue ==
    ASSUME NEW calm \in BOOLEAN, SInv, OrderInv(calm), saved'.completed = saved.completed,
           \A c \in Kids : \A n : WriteKid(c, n)' <=> WriteKid(c, n),
           \A n \in Known'.started : n <= Len(saved.completed) + 1,
           \A v \in Workers : \/ OrderLocal(calm, v, run[v])'
                              \/ run'[v] = run[v] /\ (Holds(v)' => Holds(v))
    PROVE  OrderInv(calm)'
<1>1. ASSUME NEW v \in Workers, run'[v] = run[v], Holds(v)' => Holds(v)
      PROVE  OrderLocal(calm, v, run[v])'
  <2>1. OrderLocal(calm, v, run[v])
    BY DEF OrderInv
  <2>2. run[v].child \in Kids \cup {NoTask} /\ NoTask \notin Kids'
    BY Have, ParentFirst DEF RunOK, Link, Known, Kids
  <2>3. PICK c \in Kids \cup {NoTask} : c = run[v].child /\ c = run'[v].child
    BY <1>1, <2>2
  <2>4. \A n \in Chapters : c \in Kids' /\ WriteKid(c, n)' => c \in Kids /\ WriteKid(c, n)
    BY <2>2, <2>3
  <2>5. (\A n \in Chapters : run[v].child \in Kids /\ WriteKid(run[v].child, n)
                              => n <= Len(run[v].state.completed) + 1)
        => (\A n \in Chapters : run[v].child \in Kids /\ WriteKid(run[v].child, n)
                              => n <= Len(run[v].state.completed) + 1)'
    BY <1>1, <2>3, <2>4 DEF WriteKid
  <2> QED
    BY <1>1, <2>1, <2>5 DEF OrderLocal
<1>2. \A v \in Workers : OrderLocal(calm, v, run[v])'
  BY <1>1
<1> QED
  BY <1>2 DEF OrderInv

\* A step with a plain call keeps the order if its worker knows what it says.
LEMMA PlainOrder ==
    ASSUME NEW calm \in BOOLEAN, SInv, SInv', OrderInv(calm), Plain \/ UNCHANGED task, saved'.completed = saved.completed,
           \A v \in Workers : run'[v] = run[v] \/ OrderLocal(calm, v, run[v])'
    PROVE  OrderInv(calm)'
<1>1. /\ Known'.started = Known.started
      /\ \A c \in Kids : \A n : WriteKid(c, n)' <=> WriteKid(c, n)
      /\ \A v \in Workers : Holds(v)' => Holds(v)
  BY PlainKeeps
<1> QED
  BY <1>1, OrderContinue DEF OrderInv

\* A worker that leaves advance says nothing.
LEMMA FreeOrder ==
    ASSUME NEW calm \in BOOLEAN, SInv, SInv', OrderInv(calm), Plain \/ UNCHANGED task, saved'.completed = saved.completed,
           NEW w \in Workers, NEW l, Goes(w, l), l.pc \notin AtParent
    PROVE  OrderInv(calm)'
<1>1. run'[w] = l /\ \A v \in Workers : v # w => run'[v] = run[v]
  BY GoesLocal
<1>2. OrderLocal(calm, w, run[w])'
  BY <1>1 DEF OrderLocal
<1> QED
  BY <1>1, <1>2, PlainOrder

\* A worker that goes on with the checkpoint it has.
LEMMA MovesOrder ==
    ASSUME NEW calm \in BOOLEAN, SInv, SInv', OrderInv(calm), Plain \/ UNCHANGED task, saved'.completed = saved.completed,
           NEW w \in Workers, run[w].pc \in AtParent \ {"save", "write"},
           NEW p, Moves(w, p), p \notin {"save", "write"},
           p \in {"begin", "look", "check"} => run[w].pc \in {"begin", "look", "check"}
    PROVE  OrderInv(calm)'
<1>1. run'[w] = [run[w] EXCEPT !.pc = p] /\ \A v \in Workers : v # w => run'[v] = run[v]
  BY GoesLocal DEF Moves
<1>2. Advancing(Known, run[w]) /\ OrderLocal(calm, w, run[w])
  BY Have DEF OrderInv
<1>3. run'[w].pc = p /\ run'[w].state = run[w].state /\ run'[w].child = run[w].child
  BY <1>1, <1>2 DEF Advancing
<1>4. /\ \A c \in Kids : \A n : WriteKid(c, n)' <=> WriteKid(c, n)
      /\ Holds(w)' => Holds(w)
  BY PlainKeeps
<1>5. run[w].child \in Kids \cup {NoTask} /\ NoTask \notin Kids'
  BY Have, ParentFirst DEF RunOK, Link, Known, Kids
<1>6. OrderLocal(calm, w, run[w])'
  BY <1>2, <1>3, <1>4, <1>5 DEF OrderLocal
<1> QED
  BY <1>1, <1>6, PlainOrder

\* What a settled child adds to the chapters of a checkpoint.
LEMMA ReconciledCompleted ==
    ASSUME NEW c, NEW s, NEW k, SaveOK(k, s)
    PROVE  LET n == child[c].window[1]
           IN  \/ Reconciled(c, s).completed = s.completed
               \/ /\ task[c].kind = "write"
                  /\ Reconciled(c, s).completed =
                        IF InSeq(n, s.completed) THEN s.completed ELSE Append(s.completed, n)
<1> DEFINE n == child[c].window[1]
           more == IF InSeq(n, s.completed) THEN s.completed ELSE Append(s.completed, n)
           q == Reconciled(c, s)
<1>1. s = [completed |-> s.completed, reviews |-> s.reviews, waiting |-> s.waiting,
           current |-> s.current, pending |-> s.pending]
  BY SaveParts
<1>2. CASE task[c].kind = "review" /\ Done(c)
  <2>1. \E r, m, p : q = [s EXCEPT !.waiting = NoTask, !.reviews = r, !.current = m, !.pending = p]
    <3> DEFINE r == Append(s.reviews, [window |-> child[c].window,
                               gate |-> IF child[c].outcome = "pass" THEN "passed" ELSE "failed",
                               id |-> c])
               m == child[c].window[2] + 1
               p == IF child[c].outcome = "pass" THEN NoPending
                    ELSE [kind |-> "review", child |-> c, id |-> c, window |-> child[c].window]
    <3>1. q = [s EXCEPT !.waiting = NoTask, !.reviews = r, !.current = m, !.pending = p]
      BY <1>1, <1>2 DEF Reconciled
    <3> HIDE DEF r, m, p
    <3> QED
      BY <3>1
  <2> HIDE DEF q
  <2>2. q.completed = s.completed
    BY <1>1, <2>1
  <2> QED
    BY <2>2 DEF q
<1>3. CASE task[c].kind = "review" /\ ~Done(c)
  <2>1. \E p : q = [s EXCEPT !.waiting = NoTask, !.pending = p]
    <3>1. q = [s EXCEPT !.waiting = NoTask, !.pending = Unreviewed(c, s)]
      BY <1>1, <1>3 DEF Reconciled
    <3> QED
      BY <3>1
  <2> HIDE DEF q
  <2>2. q.completed = s.completed
    BY <1>1, <2>1
  <2> QED
    BY <2>2 DEF q
<1>4. CASE task[c].kind = "write" /\ Done(c)
  <2>1. q = [s EXCEPT !.waiting = NoTask, !.pending = NoPending, !.completed = more,
                      !.current = n + 1]
    BY <1>1, <1>4 DEF Reconciled
  <2> HIDE DEF q, more, n
  <2>2. q.completed = more
    BY <1>1, <2>1
  <2> QED
    BY <1>4, <2>2 DEF q, more, n
<1>5. CASE task[c].kind # "review" /\ ~(task[c].kind = "write" /\ Done(c))
  <2>1. \E p : q = [s EXCEPT !.waiting = NoTask, !.pending = p, !.current = n]
    <3>1. q = [s EXCEPT !.waiting = NoTask, !.current = n,
                        !.pending = [kind |-> "chapter", child |-> c, id |-> NoTask,
                                     window |-> child[c].window]]
      BY <1>1, <1>5 DEF Reconciled
    <3> QED
      BY <3>1
  <2> HIDE DEF q, n
  <2>2. q.completed = s.completed
    BY <1>1, <2>1
  <2> QED
    BY <2>2 DEF q
<1> QED
  BY <1>2, <1>3, <1>4, <1>5

\* The child that settles in order is the next one.
LEMMA ReconciledOrder ==
    ASSUME SInv, NEW c \in Kids, NEW s, SaveOK(Known, s), InOrder(s.completed),
           \A n \in Chapters : WriteKid(c, n) => n <= Len(s.completed) + 1
    PROVE  /\ InOrder(Reconciled(c, s).completed)
           /\ Len(s.completed) <= Len(Reconciled(c, s).completed)
           /\ Len(Reconciled(c, s).completed) <= Len(s.completed) + 1
<1> DEFINE n == child[c].window[1]
           more == IF InSeq(n, s.completed) THEN s.completed ELSE Append(s.completed, n)
<1>1. s.completed \in Seq(Chapters) /\ Len(s.completed) \in Nat
  BY DEF SaveOK
<1>2. \/ Reconciled(c, s).completed = s.completed
      \/ task[c].kind = "write" /\ Reconciled(c, s).completed = more
  BY ReconciledCompleted
<1>3. CASE Reconciled(c, s).completed = s.completed
  BY <1>1, <1>3
<1>4. CASE task[c].kind = "write" /\ Reconciled(c, s).completed = more /\ more # s.completed
  <2>1. n \in Chapters /\ WriteKid(c, n)
    <3>1. child[c].window \in ChapterRuns
      BY <1>4, Have, KidFacts DEF KidOK
    <3> QED
      BY <1>4, <3>1, WindowsFit DEF WriteKid, ChapterRuns
  <2> HIDE DEF n
  <2>2. ~InSeq(n, s.completed) /\ more = Append(s.completed, n)
    BY <1>4
  <2>3. n <= Len(s.completed) + 1 /\ n \in Nat \ {0}
    BY <2>1, SessionAssumption DEF Chapters
  <2>4. n = Len(s.completed) + 1
    <3>1. SUFFICES ASSUME n \in 1..Len(s.completed) PROVE FALSE
      BY <1>1, <2>3
    <3>2. s.completed[n] = n
      BY <3>1 DEF InOrder, Indices
    <3> QED
      BY <2>2, <3>1, <3>2 DEF InSeq, Indices
  <2>5. /\ Len(more) = Len(s.completed) + 1
        /\ \A i \in 1..Len(s.completed) : more[i] = s.completed[i]
        /\ more[Len(s.completed) + 1] = n
    BY <1>1, <2>1, <2>2, AppendProperties
  <2> HIDE DEF more
  <2>6. InOrder(more)
    BY <1>1, <2>4, <2>5 DEF InOrder, Indices
  <2> QED
    BY <1>1, <1>4, <2>5, <2>6
<1> QED
  BY <1>2, <1>3, <1>4

LEMMA RefusedOrder ==
    ASSUME NEW calm \in BOOLEAN, SInv, SInv', OrderInv(calm), saved' = saved, NEW w \in Workers,
           NEW possible, Refused(w, possible)
    PROVE  OrderInv(calm)'
<1>1. UNCHANGED task /\ Goes(w, [Idle EXCEPT !.pc = "failing", !.job = run[w].job])
  BY DEF Refused
<1>2. [Idle EXCEPT !.pc = "failing", !.job = run[w].job].pc = "failing"
  BY DEF Idle
<1> QED
  BY <1>1, <1>2, FreeOrder DEF AtParent

LEMMA OrderLook ==
    ASSUME NEW calm \in BOOLEAN, SInv, SInv', OrderInv(calm), Steady(calm), NEW w \in Workers,
           Look(w) \/ SaveReads(w) \/ Check(w) \/ Stop(w)
    PROVE  OrderInv(calm)'
<1>0. /\ UNCHANGED task /\ saved' = saved /\ run[w].pc \in AtParent
      /\ OrderLocal(calm, w, run[w]) /\ Advancing(Known, run[w])
      /\ SaveOK(Known, run[w].state) /\ SaveOK(Known, saved)
  <2>1. UNCHANGED task /\ saved' = saved /\ run[w].pc \in AtParent
    BY DEF Look, SaveReads, Check, Stop, At, AtParent, session
  <2> QED
    BY <2>1, Have DEF OrderInv, Advancing
<1>1. Len(run[w].state.completed) \in Nat /\ Len(saved.completed) \in Nat
  BY <1>0 DEF SaveOK
<1>2. Holds(w)' => Holds(w)
  BY <1>0, PlainKeeps
<1>3. CASE Look(w)
  BY <1>0, <1>3, MovesOrder DEF Look, At, AtParent
<1>4. CASE Stop(w)
  BY <1>0, <1>4, MovesOrder DEF Stop, At, AtParent
<1>5. CASE SaveReads(w)
  <2> DEFINE f == IF task[Parent].status = "paused" THEN NoWorker ELSE w
             l == [run[w] EXCEPT !.pc = "write", !.fence = f]
  <2>1. Goes(w, l) /\ run[w].pc = "save"
    BY <1>5 DEF SaveReads, At
  <2>2. /\ l.pc = "write" /\ l.fence = f /\ l.state = run[w].state /\ l.child = run[w].child
        /\ l.next = run[w].next
    BY <1>0 DEF Advancing
  <2>5. calm => f = w
    BY DEF Steady, Undisturbed
  <2> HIDE DEF l, f
  <2>3. run'[w] = l /\ \A v \in Workers : v # w => run'[v] = run[v]
    BY <2>1, GoesLocal
  <2>4. OrderLocal(calm, w, run[w])'
    BY <1>0, <1>2, <2>1, <2>2, <2>3, <2>5 DEF OrderLocal
  <2> QED
    BY <1>0, <2>3, <2>4, PlainOrder
<1>6. CASE Check(w)
  <2> DEFINE c == run[w].child
             state == Reconciled(c, run[w].state)
             p == CASE state.pending # NoPending -> "stop"
                    [] run[w].data.resume # NoTask -> "pop"
                    [] OTHER -> "plan"
  <2>1. c \in Kids /\ run[w].pc = "check"
    BY <1>0, <1>6 DEF Check, At, Advancing, Link, Known
  <2>2. CASE Moves(w, "defer")
    BY <1>0, <2>1, <2>2, MovesOrder DEF AtParent
  <2>3. CASE Saves(w, state, p)
    <3>1. \A n \in Chapters : WriteKid(c, n) => n <= Len(run[w].state.completed) + 1
      BY <1>0, <2>1 DEF OrderLocal
    <3>2. InOrder(run[w].state.completed) /\ Len(run[w].state.completed) <= Len(saved.completed)
          /\ (calm /\ Holds(w) => Len(saved.completed) <= Len(run[w].state.completed))
      BY <1>0, <2>1 DEF OrderLocal
    <3> HIDE DEF c
    <3>3. /\ InOrder(state.completed)
          /\ Len(run[w].state.completed) <= Len(state.completed)
          /\ Len(state.completed) <= Len(run[w].state.completed) + 1
      BY <1>0, <2>1, <3>1, <3>2, ReconciledOrder
    <3>4. Len(state.completed) \in Nat
      <4>1. SaveOK(Known, state)
        BY <1>0, <2>1, ReconciledOK, Have
      <4> QED
        BY <4>1 DEF SaveOK
    <3>5. p \in {"stop", "pop", "plan"}
      OBVIOUS
    <3> HIDE DEF p, state
    <3> DEFINE l == [pc |-> "save", job |-> Parent, data |-> run[w].data, state |-> state,
                     child |-> run[w].child, fence |-> run[w].fence, next |-> p]
    <3>6. Goes(w, l)
      BY <1>0, <2>3, LocalShapes DEF Saves
    <3>7. run'[w] = l /\ \A v \in Workers : v # w => run'[v] = run[v]
      BY <3>6, GoesLocal
    <3>8. OrderLocal(calm, w, run[w])'
      BY <1>0, <1>1, <1>2, <3>2, <3>3, <3>4, <3>5, <3>7 DEF OrderLocal
    <3> QED
      BY <1>0, <3>7, <3>8, PlainOrder
  <2> QED
    BY <1>6, <2>2, <2>3 DEF Check
<1> QED
  BY <1>3, <1>4, <1>5, <1>6

\* The step that writes the checkpoint: the list of chapters does not get shorter,
\* because the worker holds the session, or because nothing is forgotten.
LEMMA OrderSaves ==
    ASSUME NEW calm \in BOOLEAN, SInv, SInv', OrderInv(calm), Steady(calm), NEW w \in Workers, SaveWrites(w)
    PROVE  OrderInv(calm)'
<1>0. /\ run[w].pc = "write" /\ OrderLocal(calm, w, run[w]) /\ Advancing(Known, run[w])
      /\ SaveOK(Known, run[w].state) /\ SaveOK(Known, saved) /\ Parent \in Tasks
      /\ task[Parent] \in Row /\ LeaseOK(task[Parent]) /\ w # NoWorker
  <2>1. run[w].pc = "write" /\ run[w].pc \in AtParent
    BY DEF SaveWrites, At, AtParent
  <2> QED
    BY <2>1, Have, ParentFirst, RowsGood, TaskAssumption DEF OrderInv, Advancing
<1>1. Len(run[w].state.completed) \in Nat /\ Len(saved.completed) \in Nat
  BY <1>0 DEF SaveOK
<1>2. CASE Refused(w, CanCheckpoint(Parent, run[w].fence)) /\ UNCHANGED saved
  BY <1>2, RefusedOrder
<1>3. CASE /\ Checkpoint(Parent, run[w].fence)
           /\ Stores(run[w].state) /\ Moves(w, run[w].next)
  <2>1. /\ InOrder(run[w].state.completed) /\ saved' = run[w].state
        /\ calm => run[w].fence = w
    BY <1>0, <1>3 DEF OrderLocal, AtParent, Stores
  <2>2. calm => Holds(w)
    BY <1>0, <1>3, <2>1 DEF Checkpoint, CanCheckpoint, Fenced, Steady, Undisturbed, Holds
  <2>3. Len(saved.completed) <= Len(run[w].state.completed)
    <3>1. CASE calm
      BY <1>0, <2>2, <3>1 DEF OrderLocal, AtParent
    <3>2. CASE ~calm /\ Len(saved.completed) > 0
      <4> DEFINE last == Len(saved.completed)
      <4>1. last \in Indices(saved.completed) /\ saved.completed[last] = last
        BY <1>1, <3>2 DEF OrderInv, InOrder, Indices
      <4>2. InSeq(saved.completed[last], run[w].state.completed)
        BY <1>3, <3>2, <4>1 DEF Stores, Steady
      <4>3. PICK i \in Indices(run[w].state.completed) : run[w].state.completed[i] = last
        BY <4>1, <4>2 DEF InSeq
      <4> QED
        BY <1>1, <2>1, <4>3 DEF InOrder, Indices
    <3> QED
      BY <1>1, <3>1, <3>2
  <2>4. Plain
    BY <1>0, <1>3 DEF Plain, Advancing
  <2>5. /\ Known'.started = Known.started
        /\ \A c \in Kids : \A n : WriteKid(c, n)' <=> WriteKid(c, n)
        /\ \A v \in Workers : Holds(v)' => Holds(v)
    BY <2>4, PlainKeeps
  <2>6. /\ run'[w] = [run[w] EXCEPT !.pc = run[w].next]
        /\ \A v \in Workers : v # w => run'[v] = run[v]
    BY <1>3, GoesLocal DEF Moves
  <2>7. run'[w].pc = run[w].next /\ run'[w].state = run[w].state /\ run'[w].child = run[w].child
    BY <1>0, <2>6 DEF Advancing
  <2>8. run[w].next \in {"look", "stop", "pop", "plan", "defer"} /\ NoTask \notin Kids'
    BY <1>0, ParentFirst DEF Advancing, Kids
  <2>9. OrderLocal(calm, w, run[w])'
    <3>1. run[w].next = "look" => run'[w].child = NoTask
      BY <1>0, <2>7 DEF OrderLocal, AtParent
    <3> QED
      BY <1>1, <2>1, <2>7, <2>8, <3>1 DEF OrderLocal
  <2>10. ASSUME NEW v \in Workers, v # w PROVE OrderLocal(calm, v, run[v])'
    <3>1. calm => ~Holds(v)'
      BY <2>2, <2>5, <2>10 DEF Holds
    <3>2. OrderLocal(calm, v, run[v]) /\ run'[v] = run[v] /\ SaveOK(Known, run[v].state)
      BY <2>6, <2>10, Have DEF OrderInv, RunOK
    <3>3. Len(run[v].state.completed) \in Nat
      BY <3>2 DEF SaveOK
    <3>4. PICK c \in Kids \cup {NoTask} : c = run[v].child /\ c = run'[v].child
      BY <3>2, Have DEF RunOK, Link, Known
    <3>5. \A n \in Chapters : c \in Kids' /\ WriteKid(c, n)' => c \in Kids /\ WriteKid(c, n)
      BY <2>5, <2>8, <3>4
    <3>6. (\A n \in Chapters : run[v].child \in Kids /\ WriteKid(run[v].child, n)
                                => n <= Len(run[v].state.completed) + 1)
          => (\A n \in Chapters : run[v].child \in Kids /\ WriteKid(run[v].child, n)
                                => n <= Len(run[v].state.completed) + 1)'
      BY <3>2, <3>4, <3>5 DEF WriteKid
    <3>7. Len(saved'.completed) \in Nat /\ Len(saved.completed) <= Len(saved'.completed)
      BY <1>1, <2>1, <2>3
    <3> QED
      BY <1>1, <3>1, <3>2, <3>3, <3>6, <3>7 DEF OrderLocal
  <2>11. \A n \in Known'.started : n <= Len(saved'.completed) + 1
    <3>1. \A n \in Known.started : n \in Nat
      BY DEF Known, Chapters
    <3>2. \A n \in Known.started : n <= Len(saved.completed) + 1
      BY DEF OrderInv
    <3> QED
      BY <1>1, <2>1, <2>3, <2>5, <3>1, <3>2
  <2> QED
    BY <2>1, <2>9, <2>10, <2>11 DEF OrderInv
<1> QED
  BY <1>2, <1>3 DEF SaveWrites

LEMMA OrderOverride ==
    ASSUME NEW calm \in BOOLEAN, SInv, SInv', OrderInv(calm), NEW w \in Workers, Override(w) \/ Pop(w)
    PROVE  OrderInv(calm)'
<1>0. /\ run[w].pc \in {"begin", "pop"} /\ run[w].pc \in AtParent \ {"save", "write"}
      /\ OrderLocal(calm, w, run[w]) /\ Advancing(Known, run[w])
      /\ SaveOK(Known, run[w].state) /\ SaveOK(Known, saved) /\ saved' = saved /\ Parent \in Tasks
  <2>1. run[w].pc \in {"begin", "pop"} /\ saved' = saved
    BY DEF Override, Pop, At
  <2>2. run[w].pc \in AtParent \ {"save", "write"}
    BY <2>1 DEF AtParent
  <2> QED
    BY <2>1, <2>2, Have, ParentFirst DEF OrderInv, Advancing
<1>1. Len(run[w].state.completed) \in Nat /\ Len(saved.completed) \in Nat
  BY <1>0 DEF SaveOK
<1>2. CASE \E possible : Refused(w, possible)
  BY <1>0, <1>2, RefusedOrder
<1>3. CASE Pop(w) /\ ~\E possible : Refused(w, possible)
  <2>1. UpdateData(Parent, NoTask, w) /\ Moves(w, "plan")
    BY <1>3 DEF Pop
  <2>2. Plain
    BY <1>0, <2>1 DEF Plain
  <2> QED
    BY <1>0, <2>1, <2>2, MovesOrder
<1>4. CASE Override(w) /\ ~\E possible : Refused(w, possible)
  <2> DEFINE window == run[w].data.override
             state == [run[w].state EXCEPT !.reviews = Overridden(@, window),
                                           !.waiting = NoTask, !.pending = NoPending]
             rest == [run[w].data EXCEPT !.override = NoWindow]
  <2>1. /\ UpdateData(Parent, NoTask, w)
        /\ Goes(w, [run[w] EXCEPT !.pc = "save", !.next = "look", !.state = state,
                                  !.data = rest, !.child = NoTask])
    BY <1>4 DEF Override
  <2>2. Plain
    BY <1>0, <2>1 DEF Plain
  <2>3. state.completed = run[w].state.completed
    <3>1. run[w].state = [completed |-> run[w].state.completed, reviews |-> run[w].state.reviews,
                          waiting |-> run[w].state.waiting, current |-> run[w].state.current,
                          pending |-> run[w].state.pending]
      BY <1>0, SaveParts
    <3> QED
      BY <3>1
  <2> HIDE DEF state, rest, window
  <2> DEFINE l == [pc |-> "save", job |-> Parent, data |-> rest, state |-> state,
                   child |-> NoTask, fence |-> run[w].fence, next |-> "look"]
  <2>4. Goes(w, l)
    <3>1. Advancing(Known, run[w])
      BY <1>0
    <3>2. [run[w] EXCEPT !.pc = "save", !.next = "look", !.state = state,
                         !.data = rest, !.child = NoTask] = l
      BY <3>1, OverrideShape, Zenon
    <3> QED
      BY <2>1, <3>2, Zenon
  <2>5. run'[w] = l /\ \A v \in Workers : v # w => run'[v] = run[v]
    BY <2>4, GoesLocal
  <2>6. Holds(w)' => Holds(w)
    BY <2>2, PlainKeeps
  <2>7. /\ InOrder(run[w].state.completed)
        /\ Len(run[w].state.completed) <= Len(saved.completed)
        /\ calm /\ Holds(w) => Len(saved.completed) <= Len(run[w].state.completed)
    BY <1>0 DEF OrderLocal
  <2>8. OrderLocal(calm, w, run[w])'
    BY <1>0, <1>1, <2>3, <2>5, <2>6, <2>7 DEF OrderLocal
  <2> QED
    BY <1>0, <2>2, <2>5, <2>8, PlainOrder
<1> QED
  BY <1>2, <1>3, <1>4

LEMMA OrderSettles ==
    ASSUME NEW calm \in BOOLEAN, SInv, SInv', OrderInv(calm), NEW w \in Workers,
           Stopping(w) \/ Defer(w) \/ SettleCancelled(w) \/ Failing(w) \/ Restart(w)
    PROVE  OrderInv(calm)'
<1>0. Parent \in Tasks /\ Idle.pc \notin AtParent /\ Down.pc \notin AtParent /\ saved' = saved
  BY ParentFirst DEF Idle, Down, AtParent, Stopping, Defer, SettleCancelled, Failing, Restart, session
<1>1. CASE \E possible : Refused(w, possible)
  BY <1>0, <1>1, RefusedOrder
<1>2. CASE Stopping(w) /\ ~\E possible : Refused(w, possible)
  <2>1. /\ Transition(Parent, "needs_author_decision", w) /\ Moves(w, "returned")
        /\ run[w].pc = "stopping"
    BY <1>2 DEF Stopping, At
  <2>2. Plain
    BY <1>0, <2>1 DEF Plain
  <2> QED
    BY <1>0, <2>1, <2>2, MovesOrder DEF AtParent
<1>3. CASE Defer(w) /\ ~\E possible : Refused(w, possible)
  <2>1. DeferUntilChild(Parent, run[w].child, w) /\ Goes(w, Idle) /\ run[w].child \in Tasks
    <3>1. run[w].pc = "defer" /\ Advancing(Known, run[w])
      BY <1>3, Have DEF Defer, At, AtParent
    <3> QED
      BY <1>3, <3>1 DEF Defer, Advancing
  <2>2. Plain
    BY <1>0, <2>1 DEF Plain
  <2> QED
    BY <1>0, <2>1, <2>2, FreeOrder
<1>4. CASE SettleCancelled(w) /\ ~\E possible : Refused(w, possible)
  <2>1. Transition(Parent, "cancelled", w) /\ Goes(w, Idle)
    BY <1>4 DEF SettleCancelled
  <2>2. Plain
    BY <1>0, <2>1 DEF Plain
  <2> QED
    BY <1>0, <2>1, <2>2, FreeOrder
<1>5. CASE Failing(w)
  <2>1. run[w].job \in Tasks
    BY <1>5, Have DEF Failing, At, RunOK
  <2>2. Plain \/ UNCHANGED task
    BY <1>5, <2>1 DEF Failing, Plain
  <2> QED
    BY <1>0, <1>5, <2>2, FreeOrder DEF Failing
<1>6. CASE Restart(w)
  BY <1>0, <1>6, FreeOrder DEF Restart, Plain
<1> QED
  BY <1>1, <1>2, <1>3, <1>4, <1>5, <1>6

\* A task settled as completed, by a worker that is free then.
LEMMA CompletedOrder ==
    ASSUME NEW calm \in BOOLEAN, SInv, SInv', OrderInv(calm), saved' = saved, NEW w \in Workers, Goes(w, Idle),
           NEW t \in Tasks, Transition(t, "completed", w)
    PROVE  OrderInv(calm)'
<1>1. Parent \in Tasks /\ IInv /\ TableInv /\ TableInv'
  BY Have, ParentFirst DEF SInv
<1>2. /\ \A u \in Tasks : Same(task[u], task'[u]) /\ (u # t => task'[u] = task[u])
      /\ task'[t].status = "completed"
  BY <1>1, SettleRow
<1>3. /\ Known'.started = Known.started
      /\ \A c \in Kids : \A n : WriteKid(c, n)' <=> WriteKid(c, n)
  BY <1>1, <1>2, KeysSayStarted
<1>4. \A v \in Workers : Holds(v)' => Holds(v)
  BY <1>1, <1>2 DEF Holds
<1>5. run'[w] = Idle /\ \A v \in Workers : v # w => run'[v] = run[v]
  BY GoesLocal
<1>6. OrderLocal(calm, w, run[w])'
  BY <1>5 DEF OrderLocal, Idle, AtParent
<1> QED
  BY <1>3, <1>4, <1>5, <1>6, OrderContinue DEF OrderInv

\* The empty checkpoint of a cancelled session forgets nothing only if nothing had been
\* counted.
LEMMA OrderSettle ==
    ASSUME NEW calm \in BOOLEAN, SInv, SInv', OrderInv(calm), Steady(calm), NEW w \in Workers, Settle(w)
    PROVE  OrderInv(calm)'
<1>0. Parent \in Tasks /\ Idle.pc \notin AtParent /\ run[w].pc = "returned"
  BY ParentFirst DEF Idle, AtParent, Settle, At
<1>1. CASE \E possible : Refused(w, possible) /\ saved' = saved
  BY <1>0, <1>1, RefusedOrder
<1>2. CASE Transition(Parent, "completed", w) /\ Goes(w, Idle) /\ saved' = saved
  BY <1>0, <1>2, CompletedOrder
<1>3. CASE Goes(w, Idle) /\ UNCHANGED task /\ saved' = saved
  BY <1>0, <1>3, FreeOrder
<1>4. CASE /\ task[Parent].status = "cancelling"
           /\ Checkpoint(Parent, w) /\ Stores(NothingSaved) /\ Moves(w, "cancelling")
  <2>1. ~forgot'
    BY <1>4 DEF Steady, Undisturbed
  <2>2. saved.completed \in Seq(Chapters)
    BY Have DEF SaveOK
  <2>3. Len(saved.completed) = 0
    <3>1. SUFFICES ASSUME Len(saved.completed) > 0 PROVE FALSE
      BY <2>2
    <3>2. 1 \in Indices(saved.completed)
      BY <2>2, <3>1 DEF Indices
    <3>3. InSeq(saved.completed[1], NothingSaved.completed)
      BY <1>4, <2>1, <3>2 DEF Stores
    <3> QED
      BY <3>3 DEF InSeq, Indices, NothingSaved
  <2>4. saved'.completed = saved.completed
    BY <1>4, <2>2, <2>3, EmptySeq DEF Stores, NothingSaved
  <2>5. Plain
    BY <1>0, <1>4 DEF Plain
  <2> QED
    BY <1>0, <1>4, <2>4, <2>5, MovesOrder DEF AtParent
<1> QED
  BY <1>1, <1>2, <1>3, <1>4 DEF Settle

LEMMA OrderChild ==
    ASSUME NEW calm \in BOOLEAN, SInv, SInv', OrderInv(calm), NEW w \in Workers, ChildSettles(w)
    PROVE  OrderInv(calm)'
<1>0. Goes(w, Idle) /\ Idle.pc \notin AtParent /\ saved' = saved /\ run[w].job \in Tasks
  <2>1. run[w].pc = "child" /\ Goes(w, Idle) /\ saved' = saved
    BY DEF ChildSettles, At
  <2> QED
    BY <2>1, Have DEF RunOK, Known, Kids, Idle, AtParent
<1>1. \/ Plain \/ UNCHANGED task
      \/ Transition(run[w].job, "completed", w)
  BY <1>0 DEF ChildSettles, Plain
<1> QED
  BY <1>0, <1>1, FreeOrder, CompletedOrder

\* A claim starts from the checkpoint, and no chapter after the next has a child then.
LEMMA OrderTake ==
    ASSUME NEW calm \in BOOLEAN, SInv, SInv', OrderInv(calm), NEW w \in Workers, Take(w)
    PROVE  OrderInv(calm)'
<1>1. PICK t \in Tasks :
        /\ Claim(w, t)
        /\ Goes(w, IF t = Parent
                   THEN [Idle EXCEPT !.pc = "begin", !.job = t, !.data = data, !.state = saved,
                                     !.child = IF data.resume # NoTask THEN data.resume
                                               ELSE saved.waiting]
                   ELSE [Idle EXCEPT !.pc = "child", !.job = t])
  BY DEF Take
<1>2. /\ Call /\ IInv /\ TableInv /\ TableInv' /\ task[t] \in Row /\ Parent \in Tasks
      /\ saved' = saved /\ SaveOK(Known, saved)
  BY <1>1, Have, ParentFirst, RowsGood DEF Call, SInv, Take, session
<1>3. \A u \in Tasks : /\ Same(task[u], task'[u])
                       /\ u # t => task'[u] = task[u]
  <2>1. \A u \in Tasks : Same(task[u], task'[u])
    BY <1>2, CallMoves
  <2> QED
    BY <1>1, <1>2, <2>1 DEF Claim, IInv, TypeOK
<1>4. /\ Known'.started = Known.started
      /\ \A c \in Kids : \A n : WriteKid(c, n)' <=> WriteKid(c, n)
  BY <1>2, <1>3, KeysSayStarted
<1>5. task'[t].owner = w
  <2>1. task'[t] = [Leased(task[t], w) EXCEPT !.waitingFor = NoTask]
    BY <1>1, <1>2 DEF Claim, IInv, TypeOK
  <2>2. [Leased(task[t], w) EXCEPT !.waitingFor = NoTask].owner = w
    BY <1>2 DEF Leased, Synced, Row
  <2> QED
    BY <2>1, <2>2
<1>6. \A v \in Workers : v # w /\ Holds(v)' => Holds(v)
  BY <1>2, <1>3, <1>5 DEF Holds
<1>7. OrderLocal(calm, w, run[w])'
  <2>1. run'[w] = IF t = Parent
                  THEN [Idle EXCEPT !.pc = "begin", !.job = t, !.data = data, !.state = saved,
                                    !.child = IF data.resume # NoTask THEN data.resume
                                              ELSE saved.waiting]
                  ELSE [Idle EXCEPT !.pc = "child", !.job = t]
    BY <1>1, GoesLocal
  <2>2. /\ t = Parent => run'[w].pc = "begin" /\ run'[w].state = saved
        /\ t # Parent => run'[w].pc = "child"
    BY <2>1 DEF Idle
  <2>3. CASE t # Parent
    BY <2>2, <2>3 DEF OrderLocal, AtParent
  <2>4. CASE t = Parent
    <3>1. ASSUME NEW n \in Chapters, NEW c \in Kids', WriteKid(c, n)'
          PROVE  n <= Len(saved.completed) + 1
      <4>1. n \in Known'.started
        BY <3>1 DEF Known
      <4> QED
        BY <1>4, <4>1 DEF OrderInv
    <3>2. (\A n \in Chapters : run[w].child \in Kids /\ WriteKid(run[w].child, n)
              => n <= Len(run[w].state.completed) + 1)'
      <4> SUFFICES ASSUME NEW n \in Chapters, NEW c \in Kids', c = run'[w].child,
                          task'[c].kind = "write", child'[c].window = ChapterOf(n)
                   PROVE  n <= Len(saved.completed) + 1
        BY <2>2, <2>4 DEF WriteKid
      <4> QED
        BY <3>1 DEF WriteKid
    <3>3. Len(saved.completed) \in Nat
      BY <1>2 DEF SaveOK
    <3> QED
      BY <1>2, <2>2, <2>4, <3>2, <3>3 DEF OrderLocal, OrderInv
  <2> QED
    BY <2>3, <2>4
<1>8. \A v \in Workers : v # w => run'[v] = run[v]
  BY <1>1, GoesLocal
<1> QED
  BY <1>2, <1>4, <1>6, <1>7, <1>8, OrderContinue DEF OrderInv

\* The next chapter of an ordered list.
LEMMA NextInOrder ==
    ASSUME NEW completed \in Seq(Chapters), Len(completed) < Count, InOrder(completed)
    PROVE  NextChapter(completed) = Len(completed) + 1
<1> DEFINE n == NextChapter(completed)
<1>1. /\ n \in Chapters /\ ~InSeq(n, completed) /\ \A m \in 1..n - 1 : InSeq(m, completed)
  BY NextChapterFirst
<1> HIDE DEF n
<1>2. Len(completed) \in Nat /\ n \in Nat \ {0}
  BY <1>1, SessionAssumption DEF Chapters
<1>3. n > Len(completed)
  <2>1. SUFFICES ASSUME n \in 1..Len(completed) PROVE FALSE
    BY <1>2
  <2> QED
    BY <1>1, <2>1 DEF InOrder, InSeq, Indices
<1>4. ~(n > Len(completed) + 1)
  <2>1. SUFFICES ASSUME Len(completed) + 1 \in 1..n - 1 PROVE FALSE
    BY <1>2
  <2>2. PICK i \in Indices(completed) : completed[i] = Len(completed) + 1
    BY <1>1, <2>1 DEF InSeq
  <2> QED
    BY <1>2, <2>2 DEF InOrder, Indices
<1>5. n = Len(completed) + 1
  BY <1>2, <1>3, <1>4
<1> QED
  BY <1>5 DEF n

\* A spawned child is about a chapter that has one, or about the next.
LEMMA SpawnOrder ==
    ASSUME NEW calm \in BOOLEAN, SInv, OrderInv(calm), saved' = saved, Exists(Parent), UNCHANGED <<version, overrode>>,
           NEW c \in Tasks, NEW key, Wanted(key), Spawn(c, key),
           \A n \in Chapters : key[1] = "write" /\ key[2] = ChapterOf(n) =>
               n \in Known.started \/ n <= Len(saved.completed) + 1,
           \A v \in Workers : run'[v] = run[v] \/ OrderLocal(calm, v, run[v])'
    PROVE  OrderInv(calm)'
<1>1. /\ task'[Parent] = task[Parent]
      /\ \A u \in Kids : \A n : WriteKid(u, n)' <=> WriteKid(u, n)
      /\ \A n \in Known'.started : \/ n \in Known.started
                                   \/ n \in Chapters /\ key[1] = "write" /\ key[2] = ChapterOf(n)
  BY SpawnStarts
<1>2. \A n \in Known'.started : n <= Len(saved.completed) + 1
  BY <1>1 DEF OrderInv
<1>3. \A v \in Workers : Holds(v)' => Holds(v)
  BY <1>1 DEF Holds
<1> QED
  BY <1>1, <1>2, <1>3, OrderContinue

LEMMA OrderPlan ==
    ASSUME NEW calm \in BOOLEAN, SInv, SInv', OrderInv(calm), NEW w \in Workers, Plan(w)
    PROVE  OrderInv(calm)'
<1> DEFINE s == run[w].state
           window == DueWindow(s.completed, s.reviews)
           n == NextChapter(s.completed)
<1>0. /\ run[w].pc = "plan" /\ run[w].pc \in AtParent \ {"save", "write"}
      /\ Advancing(Known, run[w]) /\ SaveOK(Known, s) /\ SaveOK(Known, saved)
      /\ UNCHANGED <<version, overrode>> /\ Exists(Parent) /\ saved' = saved
  <2>1. run[w].pc = "plan" /\ run[w].pc \in AtParent \ {"save", "write"}
        /\ UNCHANGED <<version, overrode, saved>>
    BY DEF Plan, At, AtParent, world
  <2>2. Advancing(Known, run[w])
    BY <2>1, Have
  <2> QED
    BY <2>1, <2>2, Have DEF Advancing
<1>1. /\ s.completed \in Seq(Chapters) /\ Len(s.completed) \in Nat /\ Count \in Nat
      /\ Len(saved.completed) \in Nat
  BY <1>0, SessionAssumption DEF SaveOK
<1>2. window = NoWindow \/ window \in Chapters \X Chapters
  BY <1>1, DueWindowFirst
<1>3. /\ InOrder(s.completed) /\ Len(s.completed) <= Len(saved.completed)
      /\ calm /\ Holds(w) => Len(saved.completed) <= Len(s.completed)
  BY <1>0 DEF OrderInv, OrderLocal
<1>4. ASSUME NEW c \in Tasks, NEW key, Wanted(key), Spawn(c, key),
             \A m \in Chapters : key[1] = "write" /\ key[2] = ChapterOf(m) =>
                 m <= Len(saved.completed) + 1,
             NEW current,
             Goes(w, [run[w] EXCEPT !.pc = "save", !.next = "defer", !.child = c,
                            !.state = [s EXCEPT !.waiting = c, !.current = current,
                                                !.pending = NoPending]])
      PROVE  OrderInv(calm)'
  <2> DEFINE q == [completed |-> s.completed, reviews |-> s.reviews, waiting |-> c,
                   current |-> current, pending |-> NoPending]
             l == [pc |-> "save", job |-> Parent, data |-> run[w].data, state |-> q,
                   child |-> c, fence |-> run[w].fence, next |-> "defer"]
  <2>1. [s EXCEPT !.waiting = c, !.current = current, !.pending = NoPending] = q
    BY <1>0, WaitingShape, Zenon
  <2>2. q.completed = s.completed
    OBVIOUS
  <2> HIDE DEF q
  <2>3. Goes(w, l)
    <3>1. [run[w] EXCEPT !.pc = "save", !.next = "defer", !.child = c, !.state = q] = l
      BY <1>0, WaitsShape, Zenon
    <3> QED
      BY <1>4, <2>1, <3>1, Zenon
  <2>4. run'[w] = l /\ \A v \in Workers : v # w => run'[v] = run[v]
    BY <2>3, GoesLocal
  <2>5. Holds(w)' => Holds(w)
    BY <1>0, <1>4, SpawnStarts DEF Holds
  <2>6. OrderLocal(calm, w, run[w])'
    BY <1>0, <1>1, <1>3, <2>2, <2>4, <2>5 DEF OrderLocal
  <2> QED
    BY <1>0, <1>4, <2>4, <2>6, SpawnOrder
<1>5. CASE window # NoWindow
  <2>1. PICK c \in Tasks : /\ Spawn(c, <<"review", window, NoTask, "none">>)
                           /\ Goes(w, [run[w] EXCEPT !.pc = "save", !.next = "defer", !.child = c,
                                 !.state = [s EXCEPT !.waiting = c, !.current = window[2] + 1,
                                                     !.pending = NoPending]])
    BY <1>5 DEF Plan
  <2>2. Wanted(<<"review", window, NoTask, "none">>)
    <3>1. window \in ReviewRuns /\ window \in Windows
      BY <1>2, <1>5, WindowsFit
    <3>2. NoTask \in 0..MaxVersion
      BY SessionAssumption
    <3> HIDE DEF window
    <3> QED
      BY <3>1, <3>2 DEF Wanted, SessionKeys
  <2> HIDE DEF window
  <2>3. \A m \in Chapters : <<"review", window, NoTask, "none">>[1] # "write"
    OBVIOUS
  <2> QED
    BY <1>4, <2>1, <2>2, <2>3
<1>6. CASE window = NoWindow /\ Len(s.completed) < Count
  <2>1. PICK c \in Tasks : /\ Spawn(c, <<"write", ChapterOf(n), NoTask, "none">>)
                           /\ Goes(w, [run[w] EXCEPT !.pc = "save", !.next = "defer", !.child = c,
                                 !.state = [s EXCEPT !.waiting = c, !.current = n,
                                                     !.pending = NoPending]])
    BY <1>6 DEF Plan
  <2>2. n \in Chapters /\ n <= Len(saved.completed) + 1
    <3>1. n \in Chapters /\ n = Len(s.completed) + 1
      BY <1>1, <1>3, <1>6, NextChapterFirst, NextInOrder
    <3> QED
      BY <1>1, <1>3, <3>1
  <2> HIDE DEF n
  <2>3. Wanted(<<"write", ChapterOf(n), NoTask, "none">>)
    <3>1. ChapterOf(n) \in ChapterRuns /\ ChapterOf(n) \in Windows
      BY <2>2, WindowsFit DEF ChapterRuns
    <3>2. NoTask \in 0..MaxVersion
      BY SessionAssumption
    <3> QED
      BY <3>1, <3>2 DEF Wanted, SessionKeys
  <2>4. \A m \in Chapters : ChapterOf(n) = ChapterOf(m) => m = n
    BY <2>2, WindowsFit
  <2>5. \A m \in Chapters : <<"write", ChapterOf(n), NoTask, "none">>[2] = ChapterOf(m) =>
            m <= Len(saved.completed) + 1
    BY <2>2, <2>4
  <2> QED
    BY <1>4, <2>1, <2>3, <2>5
<1>7. CASE Moves(w, "returned") /\ UNCHANGED task
  BY <1>0, <1>7, MovesOrder
<1> QED
  BY <1>5, <1>6, <1>7 DEF Plan

LEMMA OrderAuthor ==
    ASSUME NEW calm \in BOOLEAN, SInv, SInv', OrderInv(calm),
           \/ \E t \in Tasks : Command(t) \/ LeaseRunsOut(t)
           \/ \E r \in Requests : Decides(r)
    PROVE  OrderInv(calm)'
<1>0. run' = run /\ saved' = saved /\ Parent \in Tasks
  BY ParentFirst
  DEF Command, LeaseRunsOut, Decides, DecisionReads, DecisionQueues, DecisionLinks,
      DecisionRetries, session
<1>1. CASE \E t \in Tasks : Command(t) \/ LeaseRunsOut(t)
  <2>1. Plain
    BY <1>1 DEF Command, LeaseRunsOut, Plain
  <2> QED
    BY <1>0, <2>1, PlainOrder
<1>2. ASSUME NEW r \in Requests, DecisionReads(r) \/ DecisionLinks(r) \/ DecisionRetries(r)
      PROVE  OrderInv(calm)'
  <2>1. (IF ask[r].key = NoKey THEN NoTask ELSE ask[r].data.resume) \in Tasks \cup {NoTask}
    BY Have DEF AskOK, Ask
  <2>2. Plain \/ UNCHANGED task
    BY <1>0, <1>2, <2>1 DEF DecisionReads, DecisionLinks, DecisionRetries, Plain
  <2> QED
    BY <1>0, <2>2, PlainOrder
<1>3. ASSUME NEW r \in Requests, DecisionQueues(r) PROVE OrderInv(calm)'
  <2>1. AskOK(Known, ask[r]) /\ ask[r].pc = "queuing"
    BY <1>3, Have DEF DecisionQueues
  <2>2. PICK c \in Tasks : Spawn(c, ask[r].key)
    BY <1>3 DEF DecisionQueues
  <2>3. Wanted(ask[r].key) /\ Exists(Parent) /\ KeyOK(Known, ask[r].key)
    BY <2>1, Have DEF AskOK, KeyOK, Wanted, Known, ChapterRuns
  <2>4. UNCHANGED <<version, overrode>>
    BY <1>3 DEF DecisionQueues, world
  <2>5. \A m, n \in Chapters : ChapterOf(n) = ChapterOf(m) => m = n
    BY WindowsFit
  <2>6. \A m \in Chapters : ask[r].key[1] = "write" /\ ask[r].key[2] = ChapterOf(m) =>
            m \in Known.started
    <3>1. Known.started \subseteq Chapters
      BY DEF Known
    <3> QED
      BY <2>3, <2>5, <3>1 DEF KeyOK
  <2> QED
    BY <1>0, <2>2, <2>3, <2>4, <2>6, SpawnOrder
<1> QED
  BY <1>1, <1>2, <1>3 DEF Decides

LEMMA OrderStart ==
    ASSUME NEW calm \in BOOLEAN, SInv, SInv', OrderInv(calm), StartSession
    PROVE  OrderInv(calm)'
<1>0. /\ UNCHANGED <<child, run, saved>>
      /\ task' = [task EXCEPT ![Parent] = NewRow("continuous", NoKey, "queued", FALSE)]
      /\ Parent \in Tasks /\ task \in [Tasks -> Row]
  BY Have, ParentFirst DEF StartSession, EnqueueContinuous, session, IInv, TypeOK
<1>1. /\ task'[Parent].status = "queued"
      /\ \A t \in Tasks \ {Parent} : task'[t] = task[t]
  BY <1>0 DEF NewRow
<1>2. Kids' = Kids /\ \A c \in Kids : \A n : WriteKid(c, n)' <=> WriteKid(c, n)
  BY <1>0, <1>1 DEF Kids, Exists, WriteKid
<1>3. Known'.started = Known.started
  BY <1>2 DEF Known
<1>4. \A v \in Workers : ~Holds(v)'
  BY <1>1 DEF Holds
<1> QED
  BY <1>0, <1>2, <1>3, <1>4, OrderContinue DEF OrderInv

LEMMA OrderCrash ==
    ASSUME NEW calm \in BOOLEAN, SInv, SInv', OrderInv(calm), Crash
    PROVE  OrderInv(calm)'
<1>1. CASE \E w \in Workers : Goes(w, Down)
  BY <1>1, FreeOrder DEF Crash, Down, Idle, AtParent, session
<1>2. CASE run' = run
  BY <1>2, PlainOrder DEF Crash, session
<1> QED
  BY <1>1, <1>2 DEF Crash

LEMMA StepOrder ==
    ASSUME NEW calm \in BOOLEAN
    PROVE  SInv /\ SInv' /\ OrderInv(calm) /\ Steady(calm) /\ [CNext]_cvars => OrderInv(calm)'
<1> SUFFICES ASSUME SInv, SInv', OrderInv(calm), Steady(calm), [CNext]_cvars
             PROVE  OrderInv(calm)'
  OBVIOUS
<1>1. CASE UNCHANGED cvars
  BY <1>1, PlainOrder DEF cvars, session
<1>2. CASE \E w \in Workers : Advances(w) \/ Restart(w)
  BY <1>2, OrderTake, OrderLook, OrderSaves, OrderOverride, OrderPlan, OrderSettles, OrderSettle,
     OrderChild
  DEF Advances
<1>3. CASE \/ \E t \in Tasks : Command(t) \/ LeaseRunsOut(t)
           \/ \E r \in Requests : Decides(r)
  BY <1>3, OrderAuthor
<1> QED
  BY <1>1, <1>2, <1>3, OrderStart, OrderCrash DEF CNext

LEMMA InitOrder == ASSUME NEW calm \in BOOLEAN PROVE CInit => OrderInv(calm)
<1> SUFFICES ASSUME CInit PROVE OrderInv(calm)
  OBVIOUS
<1>1. \A t \in Tasks : task[t].status = "absent"
  BY DEF CInit, Init, EmptyRow, NewRow
<1>2. Known.started = {}
  BY <1>1 DEF Known, Kids, Exists
<1>3. \A w \in Workers : run[w].pc = "idle"
  BY DEF CInit, Idle
<1>4. saved.completed = <<>>
  BY DEF CInit, NothingSaved
<1> QED
  BY <1>2, <1>3, <1>4 DEF OrderInv, OrderLocal, AtParent, InOrder, Indices

-----------------------------------------------------------------------------
(* Theorems about sessions that forget nothing.                            *)

LEMMA ForgotStays == forgot /\ [CNext]_cvars => forgot'
  BY DEF CNext, cvars, world, Advances, Take, Override, Look, Check, SaveReads, SaveWrites, Stores, Pop,
         Plan, Stop, Stopping, Defer, Settle, SettleCancelled, Failing, ChildSettles, StartSession,
         Command, Decides, DecisionReads, DecisionQueues, DecisionLinks, DecisionRetries, Crash,
         Restart, LeaseRunsOut

LEMMA Straightens == SInv /\ OrderInv(FALSE) => Straight(saved.completed)
  BY InOrderStraight, Have DEF SaveOK, InOrder, OrderInv

\* Until a checkpoint forgets a chapter, chapters are counted in order and the gates hold.
THEOREM RememberingInvariant == CSpec => [](~forgot => OrderInv(FALSE) /\ GateInv)
<1>1. CInit => OrderInv(FALSE) /\ GateInv
  BY InitOrder, InitGate
<1>2. /\ SInv /\ SInv' /\ (~forgot => OrderInv(FALSE) /\ GateInv) /\ [CNext]_cvars
      => (~forgot => OrderInv(FALSE) /\ GateInv)'
  <2> SUFFICES ASSUME SInv, SInv', ~forgot => OrderInv(FALSE) /\ GateInv, [CNext]_cvars, ~forgot'
               PROVE  OrderInv(FALSE)' /\ GateInv'
    OBVIOUS
  <2>1. OrderInv(FALSE) /\ GateInv
    BY ForgotStays
  <2>2. OrderInv(FALSE)'
    BY <2>1, StepOrder DEF Steady
  <2>3. Straight(saved.completed)
    BY <2>1, Straightens
  <2>4. (SInv /\ OrderInv(FALSE) => Straight(saved.completed))'
    BY Straightens, PTL
  <2> QED
    BY <2>1, <2>2, <2>3, <2>4, StepGate
<1> QED
  BY <1>1, <1>2, SessionInvariant, PTL DEF CSpec

\* Whatever the interval and the number of chapters: until the checkpoint of the session
\* forgets a counted chapter, no chapter after a window is queued before a review of the
\* window passed or the author overrode it.
THEOREM GateHolds == CSpec => []GateIsHard
<1>1. SInv /\ (~forgot => OrderInv(FALSE) /\ GateInv) => GateIsHard
  BY HardIfGate DEF GateIsHard
<1> QED
  BY <1>1, SessionInvariant, RememberingInvariant, PTL

\* Under the same condition a completed session has all its chapters and all its reviews.
THEOREM FinishedWhole == CSpec => []FinishedIsWhole
<1>1. (~forgot => OrderInv(FALSE) /\ GateInv) => FinishedIsWhole
  BY WholeIfGate DEF FinishedIsWhole
<1> QED
  BY <1>1, RememberingInvariant, PTL

\* The condition is the author's to keep: as long as the session was not paused nor was
\* being cancelled, its chapters are counted in order.  Only the save that names no lease
\* owner, and the one that empties the checkpoint, forget a chapter.
THEOREM UndisturbedInOrder == CSpec /\ []Undisturbed => []InOrder(saved.completed)
<1>1. SInv /\ SInv' /\ OrderInv(TRUE) /\ Undisturbed /\ [CNext]_cvars => OrderInv(TRUE)'
  BY StepOrder DEF Steady
<1>2. OrderInv(TRUE) => InOrder(saved.completed)
  BY DEF OrderInv
<1>3. CInit => OrderInv(TRUE)
  BY InitOrder
<1> QED
  BY <1>1, <1>2, <1>3, SessionInvariant, PTL DEF CSpec

\* Then, whatever the interval, the gate is hard and a finished session is whole: leases
\* that run out, workers that go on without theirs, crashes, retries, overrides and the
\* author's requests, in any order, let no chapter past a review.
THEOREM UndisturbedGates ==
    CSpec /\ []Undisturbed => [](WindowsGate /\ (task[Parent].status = "completed" => Whole))
<1>1. SInv /\ InOrder(saved.completed) => Straight(saved.completed)
  BY InOrderStraight, Have DEF SaveOK, InOrder
<1> QED
  BY <1>1, SessionInvariant, UndisturbedInOrder, StraightGates, PTL
=============================================================================
