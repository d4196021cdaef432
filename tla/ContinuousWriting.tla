------------------------- MODULE ContinuousWriting -------------------------
(***************************************************************************)
(* One continuous-writing session of                                       *)
(* src/src/creation/continuous_service.py: the parent task that `advance'  *)
(* moves one child at a time, its chapter and joint-review children, and   *)
(* the author's decisions at its stops.                                    *)
(*                                                                         *)
(* `advance' is not one transaction.  It works on the payload and the      *)
(* checkpoint it was handed with its claim, and every update_data,         *)
(* enqueue, checkpoint, transition and defer_until_child in it is a        *)
(* transaction of TaskRuntime of its own; author_decision is three of      *)
(* them.  Between any two, other workers, the author and crashes move.     *)
(*                                                                         *)
(* Abstractions: the session starts at chapter 1 and is task 1; a child's  *)
(* own handler is one step that settles it (TaskWorker has the steps       *)
(* inside); a reason text is not part of a key, so the author repeats a    *)
(* reason; execute_batch, which the registered handler never calls, is     *)
(* left out.                                                               *)
(***************************************************************************)
EXTENDS TaskRuntime, Sequences

CONSTANTS
    Count,          \* chapters the session was asked for
    Interval,       \* joint_review_interval
    MaxVersion,     \* bound on the versions of one chapter
    Requests,       \* author-decision requests that may be open at once
    MaxDecisions,   \* bound on the author's decisions and plain commands
    Commands,       \* the author's plain commands
    MaxCrashes      \* bound on crashes of workers and of the web process

Parent == 1
Chapters == 1..Count

\* A run of chapters <<first, last>>; chapter n alone is <<n, n>>.
Windows == (1..Count + Interval) \X (1..Count + 2 * Interval)
NoWindow == <<0, 0>>
ChapterOf(n) == <<n, n>>

\* The idempotency keys of the session's children: what, which run of chapters,
\* the review or the chapter version it answers, and the author's decision.
SessionKeys ==
    {"write", "review"} \X Windows \X (Tasks \cup 0..MaxVersion) \X {"none", "retry", "override"}

ASSUME SessionAssumption ==
    /\ Parent \in Tasks
    /\ NoTask = 0
    /\ SessionKeys \subseteq Keys
    /\ Count \in Nat \ {0} /\ Interval \in Nat \ {0} /\ MaxVersion \in Nat
    /\ MaxDecisions \in Nat /\ MaxCrashes \in Nat
    /\ Commands \subseteq {"pause", "resume", "retry", "cancel"}

VARIABLES
    child,      \* what each child is about and what came of it
    version,    \* latest version of each chapter
    data,       \* payload of the parent: the author's instructions for its next claim
    saved,      \* latest checkpoint of the parent
    run,        \* local state of each worker
    ask,        \* local state of each author-decision request
    overrode,   \* history: the windows whose review the author has overridden
    forgot,     \* history: a checkpoint was written over one that had counted more chapters
    crashes,
    decisions

session == <<child, version, data, saved>>
world == <<overrode, forgot, crashes, decisions>>
cvars == <<task, session, run, ask, world>>

-----------------------------------------------------------------------------
(* Checkpoints and the reviews in them.                                    *)

NoPending == [kind |-> "none", child |-> NoTask, window |-> NoWindow, id |-> NoTask]
NoData == [resume |-> NoTask, override |-> NoWindow]
NothingSaved == [completed |-> <<>>, reviews |-> <<>>, waiting |-> NoTask, current |-> 1,
                 pending |-> NoPending]

Indices(s) == 1..Len(s)
InSeq(x, s) == \E i \in Indices(s) : s[i] = x

\* The latest review of the window passed, or the author overrode it.
Cleared(reviews, window) ==
    \E i \in Indices(reviews) :
        /\ reviews[i].window = window
        /\ reviews[i].gate \in {"passed", "overridden"}
        /\ \A j \in Indices(reviews) : j > i => reviews[j].window # window

\* Mutant of Boundaries: the last completed chapter closes no window.
BoundariesBeforeLast(completed) == {i \in 1..Len(completed) - 1 : i % Interval = 0}
Boundaries(completed) == {i \in Indices(completed) : i % Interval = 0}
WindowAt(completed, b) == <<completed[b - Interval + 1], completed[b]>>

\* _next_joint_review_range: the first full window in the order of the list that is
\* not cleared.
DueWindow(completed, reviews) ==
    LET due == {b \in Boundaries(completed) : ~Cleared(reviews, WindowAt(completed, b))}
    IN  IF due = {} THEN NoWindow
        ELSE WindowAt(completed, CHOOSE b \in due : \A other \in due : b <= other)

\* Mutant of Overridden: a gate the rest of the code does not know.
OverriddenMisspelt(reviews, window) ==
    [i \in Indices(reviews) |-> IF reviews[i].window = window
                               THEN [reviews[i] EXCEPT !.gate = "override"] ELSE reviews[i]]

\* The author's override of the latest review of the window.
Overridden(reviews, window) ==
    [i \in Indices(reviews) |->
        IF /\ reviews[i].window = window
           /\ \A j \in Indices(reviews) : j > i => reviews[j].window # window
        THEN [reviews[i] EXCEPT !.gate = "overridden"] ELSE reviews[i]]

\* The next chapter: the first that is not completed.
NextChapter(completed) ==
    CHOOSE n \in Chapters : ~InSeq(n, completed) /\ \A m \in 1..n - 1 : InSeq(m, completed)

-----------------------------------------------------------------------------
(* Workers.                                                                *)

(***************************************************************************)
(* pc of a worker: idle; child (runs a child); begin, look, check, plan    *)
(* (places of advance); save, write (the two halves of _checkpoint_parent, *)
(* after which it goes on at `next'); pop (clears the resume instruction); *)
(* stop, stopping (the two halves of _needs_author_decision); defer;       *)
(* returned (advance is over); cancelling; failing; down (the process or   *)
(* its loop is gone).                                                      *)
(***************************************************************************)
Idle == [pc |-> "idle", job |-> NoTask, data |-> NoData, state |-> NothingSaved,
         child |-> NoTask, fence |-> NoWorker, next |-> "idle"]
Down == [Idle EXCEPT !.pc = "down"]

At(w, p) == run[w].pc = p
Goes(w, local) == run' = [run EXCEPT ![w] = local]
Moves(w, p) == Goes(w, [run[w] EXCEPT !.pc = p])
Refused(w, possible) ==
    ~possible /\ Goes(w, [Idle EXCEPT !.pc = "failing", !.job = run[w].job]) /\ UNCHANGED task

\* Saves the given checkpoint, then goes on at p.
Saves(w, state, p) == Goes(w, [run[w] EXCEPT !.pc = "save", !.state = state, !.next = p])

NoChild == [window |-> NoWindow, outcome |-> "none", draft |-> 0]

\* enqueue: the row that already has the key, whatever its status, or a new one.
\* The child of a chapter decision starts from the version it answers.
Spawn(c, key) ==
    \/ task[c].key = key /\ UNCHANGED <<task, child>>
    \/ /\ Enqueue(c, key[1], key, "queued", FALSE)
       /\ child' = [child EXCEPT ![c] = [NoChild EXCEPT !.window = key[2],
                                             !.draft = IF key[1] = "write" THEN key[3] ELSE 0]]

Take(w) ==
    /\ At(w, "idle")
    /\ \E t \in Tasks :
        /\ Claim(w, t)
        /\ Goes(w, IF t = Parent
                   THEN [Idle EXCEPT !.pc = "begin", !.job = t, !.data = data, !.state = saved,
                                     !.child = IF data.resume # NoTask THEN data.resume
                                               ELSE saved.waiting]
                   ELSE [Idle EXCEPT !.pc = "child", !.job = t])
    /\ UNCHANGED <<session, ask, world>>

-----------------------------------------------------------------------------
(* advance, on the parent.                                                 *)

\* The author's override: mark the review, forget the child to look at, write the
\* payload back without the override and save.
Override(w) ==
    /\ At(w, "begin")
    /\ run[w].data.override # NoWindow
    /\ LET window == run[w].data.override
           state == [run[w].state EXCEPT !.reviews = Overridden(@, window),
                                         !.waiting = NoTask, !.pending = NoPending]
           rest == [run[w].data EXCEPT !.override = NoWindow]
       IN  \/ /\ UpdateData(Parent, NoTask, w)
              /\ data' = rest
              /\ Goes(w, [run[w] EXCEPT !.pc = "save", !.next = "look", !.state = state,
                                        !.data = rest, !.child = NoTask])
           \/ Refused(w, CanUpdateData(Parent, w)) /\ UNCHANGED data
    /\ UNCHANGED <<child, version, saved, ask, world>>

\* A paused or cancelled session stops here.
Look(w) ==
    /\ At(w, "look") \/ (At(w, "begin") /\ run[w].data.override = NoWindow)
    /\ Moves(w, CASE task[Parent].status \in {"paused", "cancelling"} -> "returned"
                  [] run[w].child # NoTask -> "check"
                  [] OTHER -> "plan")
    /\ UNCHANGED <<task, session, ask, world>>

\* A review without a result is pending for the window that starts at the current
\* chapter of the checkpoint the parent was handed.
Unreviewed(c, state) ==
    [kind |-> "review", child |-> c, id |-> NoTask,
     window |-> <<state.current, state.current + Interval - 1>>]

\* Mutant of Done: a child that waits for the author counts as done.
DoneOrAsked(c) == task[c].status \in {"completed", "needs_author_decision"}
Done(c) == task[c].status = "completed"

\* _reconcile_async_child: the checkpoint to save for a settled child.
Reconciled(c, state) ==
    LET window == child[c].window
        gate == IF child[c].outcome = "pass" THEN "passed" ELSE "failed"
        base == [state EXCEPT !.waiting = NoTask, !.pending = NoPending]
    IN  CASE task[c].kind = "review" /\ Done(c) ->
                [base EXCEPT !.reviews = Append(@, [window |-> window, gate |-> gate, id |-> c]),
                             !.current = window[2] + 1,
                             !.pending = IF gate = "passed" THEN NoPending
                                         ELSE [kind |-> "review", child |-> c, id |-> c,
                                               window |-> window]]
          [] task[c].kind = "review" /\ ~Done(c) ->
                [base EXCEPT !.pending = Unreviewed(c, state)]
          [] task[c].kind = "write" /\ Done(c) ->
                [base EXCEPT !.completed = IF InSeq(window[1], @) THEN @ ELSE Append(@, window[1]),
                             !.current = window[1] + 1]
          [] OTHER ->
                [base EXCEPT !.current = window[1],
                             !.pending = [kind |-> "chapter", child |-> c, id |-> NoTask,
                                          window |-> window]]

Check(w) ==
    /\ At(w, "check")
    /\ LET c == run[w].child
           state == Reconciled(c, run[w].state)
       IN  IF task[c].status \notin ChildDone THEN Moves(w, "defer")
           ELSE Saves(w, state, CASE state.pending # NoPending -> "stop"
                                  [] run[w].data.resume # NoTask -> "pop"
                                  [] OTHER -> "plan")
    /\ UNCHANGED <<task, session, ask, world>>

\* _checkpoint_parent, first half: a pause has released the lease, so a paused
\* parent is saved without naming it.
SaveReads(w) ==
    /\ At(w, "save")
    /\ Goes(w, [run[w] EXCEPT !.pc = "write",
                              !.fence = IF task[Parent].status = "paused" THEN NoWorker ELSE w])
    /\ UNCHANGED <<task, session, ask, world>>

\* The checkpoint becomes the given one, whatever it was.
Stores(state) ==
    /\ saved' = state
    /\ forgot' = (forgot \/ \E i \in Indices(saved.completed) :
                              ~InSeq(saved.completed[i], state.completed))
    /\ UNCHANGED <<overrode, crashes, decisions>>

SaveWrites(w) ==
    /\ At(w, "write")
    /\ \/ /\ Checkpoint(Parent, run[w].fence)
          /\ Stores(run[w].state)
          /\ Moves(w, run[w].next)
       \/ Refused(w, CanCheckpoint(Parent, run[w].fence)) /\ UNCHANGED <<saved, world>>
    /\ UNCHANGED <<child, version, data, ask>>

\* Mutant of Popped: the instruction stays in the payload.
PoppedNever(d) == d
Popped(d) == [d EXCEPT !.resume = NoTask]

Pop(w) ==
    /\ At(w, "pop")
    /\ \/ /\ UpdateData(Parent, NoTask, w)
          /\ data' = Popped(run[w].data)
          /\ Moves(w, "plan")
       \/ Refused(w, CanUpdateData(Parent, w)) /\ UNCHANGED data
    /\ UNCHANGED <<child, version, saved, ask, world>>

\* The next child: a due joint review before anything else, then the next chapter.
Plan(w) ==
    /\ At(w, "plan")
    /\ LET state == run[w].state
           window == DueWindow(state.completed, state.reviews)
           Waits(c, current) ==
               Goes(w, [run[w] EXCEPT !.pc = "save", !.next = "defer", !.child = c,
                            !.state = [state EXCEPT !.waiting = c, !.current = current,
                                                    !.pending = NoPending]])
       IN  CASE window # NoWindow ->
                  \E c \in Tasks : /\ Spawn(c, <<"review", window, NoTask, "none">>)
                                   /\ Waits(c, window[2] + 1)
             [] window = NoWindow /\ Len(state.completed) < Count ->
                  LET n == NextChapter(state.completed) IN
                  \E c \in Tasks : /\ Spawn(c, <<"write", ChapterOf(n), NoTask, "none">>)
                                   /\ Waits(c, n)
             [] OTHER -> Moves(w, "returned") /\ UNCHANGED <<task, child>>
    /\ UNCHANGED <<version, data, saved, ask, world>>

\* Mutant of Stop: the handler returns without asking the author.
StopSilently(w) == At(w, "stop") /\ Moves(w, "returned") /\ UNCHANGED <<task, session, ask, world>>

\* _needs_author_decision, in two halves.
Stop(w) ==
    /\ At(w, "stop")
    /\ Moves(w, IF task[Parent].status \in Active THEN "stopping" ELSE "returned")
    /\ UNCHANGED <<task, session, ask, world>>

Stopping(w) ==
    /\ At(w, "stopping")
    /\ \/ Transition(Parent, "needs_author_decision", w) /\ Moves(w, "returned")
       \/ Refused(w, CanTransition(Parent, "needs_author_decision", w))
    /\ UNCHANGED <<session, ask, world>>

-----------------------------------------------------------------------------
(* The worker around a handler (TaskWorker has its finer steps).           *)

Defer(w) ==
    /\ At(w, "defer")
    /\ \/ DeferUntilChild(Parent, run[w].child, w) /\ Goes(w, Idle)
       \/ Refused(w, CanDefer(Parent, run[w].child, w))
    /\ UNCHANGED <<session, ask, world>>

\* After advance: a cancelled session first saves an empty checkpoint.
Settle(w) ==
    /\ At(w, "returned")
    /\ CASE task[Parent].status = "cancelling" ->
               \/ Checkpoint(Parent, w) /\ Stores(NothingSaved) /\ Moves(w, "cancelling")
               \/ Refused(w, CanCheckpoint(Parent, w)) /\ UNCHANGED <<saved, world>>
         [] task[Parent].status = "running" ->
               /\ \/ Transition(Parent, "completed", w) /\ Goes(w, Idle)
                  \/ Refused(w, CanTransition(Parent, "completed", w))
               /\ UNCHANGED <<saved, world>>
         [] OTHER -> Goes(w, Idle) /\ UNCHANGED <<task, saved, world>>
    /\ UNCHANGED <<child, version, data, ask>>

SettleCancelled(w) ==
    /\ At(w, "cancelling")
    /\ \/ Transition(Parent, "cancelled", w) /\ Goes(w, Idle)
       \/ Refused(w, CanTransition(Parent, "cancelled", w))
    /\ UNCHANGED <<session, ask, world>>

\* fail() may refuse as well, and then the loop is over.
Failing(w) ==
    /\ At(w, "failing")
    /\ \/ Fail(run[w].job, w, FALSE) /\ Goes(w, Idle)
       \/ ~CanFail(run[w].job, w) /\ Goes(w, Down) /\ UNCHANGED task
    /\ UNCHANGED <<session, ask, world>>

\* A chapter's handler may write a version of the chapter before it settles; it
\* completes only on an accepted commit.  A review of a window without a chapter
\* raises.
Result(c, outcome, drafted) ==
    LET n == child[c].window[1]
        v == version[n] + 1
    IN  IF drafted
        THEN /\ task[c].kind = "write" /\ v <= MaxVersion
             /\ version' = [version EXCEPT ![n] = v]
             /\ child' = [child EXCEPT ![c].outcome = outcome, ![c].draft = v]
        ELSE /\ child' = [child EXCEPT ![c].outcome = outcome]
             /\ UNCHANGED version

ChildSettles(w) ==
    /\ At(w, "child")
    /\ LET c == run[w].job IN
        \/ /\ \E outcome \in IF task[c].kind = "write" THEN {"accepted"} ELSE {"pass", "fail"},
                 drafted \in BOOLEAN : Result(c, outcome, drafted)
           /\ task[c].kind = "write" => child'[c].draft > 0
           /\ task[c].kind = "review" =>
                \E n \in Chapters : /\ child[c].window[1] <= n /\ n <= child[c].window[2]
                                   /\ version[n] > 0
           /\ task[c].status = "running" /\ Transition(c, "completed", w)
        \/ /\ task[c].kind = "write"
           /\ \E drafted \in BOOLEAN : Result(c, "none", drafted)
           /\ Transition(c, "needs_author_decision", w)
        \/ Fail(c, w, FALSE) /\ UNCHANGED <<child, version>>
        \/ Transition(c, "cancelled", w) /\ UNCHANGED <<child, version>>
        \/ ~CanFail(c, w) /\ UNCHANGED <<task, child, version>>
    /\ Goes(w, Idle)
    /\ UNCHANGED <<data, saved, ask, world>>

Advances(w) ==
    \/ Take(w) \/ Override(w) \/ Look(w) \/ Check(w) \/ SaveReads(w) \/ SaveWrites(w)
    \/ Pop(w) \/ Plan(w) \/ Stop(w) \/ Stopping(w) \/ Defer(w) \/ Settle(w)
    \/ SettleCancelled(w) \/ Failing(w) \/ ChildSettles(w)

-----------------------------------------------------------------------------
(* The author.                                                             *)

StartSession ==
    /\ EnqueueContinuous(Parent, NoKey)
    /\ UNCHANGED <<session, run, ask, world>>

Command(t) ==
    /\ decisions < MaxDecisions
    /\ \/ "pause" \in Commands /\ Pause(t)
       \/ "resume" \in Commands /\ task[t].status = "paused" /\ Resume(t)
       \/ "retry" \in Commands /\ Retry(t)
       \/ "cancel" \in Commands /\ Cancel(t)
    /\ decisions' = decisions + 1
    /\ UNCHANGED <<session, run, ask, overrode, forgot, crashes>>

NoAsk == [pc |-> "idle", data |-> NoData, key |-> NoKey]
Asks(r, local) == ask' = [ask EXCEPT ![r] = local]

\* The key of the child a pending decision asks for.
DecisionKey(pending, decision) ==
    IF pending.kind = "review" THEN <<"review", pending.window, pending.id, decision>>
    ELSE <<"write", pending.window, version[pending.window[1]], decision>>

\* author_decision, retry or override: everything it reads before it writes.  A
\* chapter whose version has moved on is refused.
DecisionReads(r) ==
    /\ ask[r].pc = "idle"
    /\ decisions < MaxDecisions
    /\ task[Parent].status = "needs_author_decision"
    /\ LET pending == saved.pending IN
        \E decision \in {"retry", "override"} :
           /\ pending.kind = "chapter" =>
                child[pending.child].draft \in {0, version[pending.window[1]]}
           /\ CASE pending.kind = "none" ->
                      Asks(r, [NoAsk EXCEPT !.pc = "retrying"]) /\ UNCHANGED overrode
                [] pending.kind = "review" /\ decision = "override" ->
                      /\ Asks(r, [NoAsk EXCEPT !.pc = "linking", 
                                              !.data = [data EXCEPT !.override = pending.window]])
                      /\ overrode' = overrode \cup {pending.window}
                [] OTHER ->
                      /\ Asks(r, [pc |-> "queuing", data |-> [data EXCEPT !.override = NoWindow],
                                  key |-> DecisionKey(pending, decision)])
                      /\ UNCHANGED overrode
    /\ decisions' = decisions + 1
    /\ UNCHANGED <<task, session, run, forgot, crashes>>

DecisionQueues(r) ==
    /\ ask[r].pc = "queuing"
    /\ \E c \in Tasks :
        /\ Spawn(c, ask[r].key)
        /\ Asks(r, [ask[r] EXCEPT !.pc = "linking", !.data.resume = c])
    /\ UNCHANGED <<version, data, saved, run, world>>

DecisionLinks(r) ==
    /\ ask[r].pc = "linking"
    /\ \/ /\ UpdateData(Parent, IF ask[r].key = NoKey THEN NoTask ELSE ask[r].data.resume, NoWorker)
          /\ data' = ask[r].data
          /\ Asks(r, [NoAsk EXCEPT !.pc = "retrying"])
       \/ ~CanUpdateData(Parent, NoWorker) /\ Asks(r, NoAsk) /\ UNCHANGED <<task, data>>
    /\ UNCHANGED <<child, version, saved, run, world>>

DecisionRetries(r) ==
    /\ ask[r].pc = "retrying"
    /\ Retry(Parent) \/ ("queued" \notin TRANSITIONS[task[Parent].status] /\ UNCHANGED task)
    /\ Asks(r, NoAsk)
    /\ UNCHANGED <<session, run, world>>

Decides(r) == DecisionReads(r) \/ DecisionQueues(r) \/ DecisionLinks(r) \/ DecisionRetries(r)

-----------------------------------------------------------------------------
(* Time and crashes.                                                       *)

Crash ==
    /\ crashes < MaxCrashes
    /\ crashes' = crashes + 1
    /\ \/ \E w \in Workers : ~At(w, "down") /\ Goes(w, Down) /\ UNCHANGED ask
       \/ \E r \in Requests : ask[r] # NoAsk /\ Asks(r, NoAsk) /\ UNCHANGED run
    /\ UNCHANGED <<task, session, overrode, forgot, decisions>>

\* A worker recovers expired leases before its first claim.
Restart(w) ==
    /\ At(w, "down")
    /\ RecoverLeases(FALSE)
    /\ Goes(w, Idle)
    /\ UNCHANGED <<session, ask, world>>

\* A heartbeat on time keeps the lease of a running task.
LeaseRunsOut(t) ==
    /\ \A w \in Workers :
        ~(run[w].job = t /\ task[t].owner = w /\ task[t].status = "running")
    /\ LeaseExpires(t)
    /\ UNCHANGED <<session, run, ask, world>>

CInit ==
    /\ Init
    /\ child = [t \in Tasks |-> NoChild] /\ version = [n \in Chapters |-> 0]
    /\ data = NoData /\ saved = NothingSaved
    /\ run = [w \in Workers |-> Idle] /\ ask = [r \in Requests |-> NoAsk]
    /\ overrode = {} /\ forgot = FALSE /\ crashes = 0 /\ decisions = 0

CNext ==
    \/ StartSession \/ Crash
    \/ \E w \in Workers : Advances(w) \/ Restart(w)
    \/ \E t \in Tasks : Command(t) \/ LeaseRunsOut(t)
    \/ \E r \in Requests : Decides(r)

CSpec == CInit /\ [][CNext]_cvars

-----------------------------------------------------------------------------
(* Properties.                                                             *)

Gates == {"passed", "failed", "overridden"}
CheckpointOK(s) ==
    /\ \A i \in Indices(s.completed) : s.completed[i] \in Chapters
    /\ \A i \in Indices(s.reviews) :
        s.reviews[i] \in [window: Windows, gate: Gates, id: Tasks]
    /\ s.waiting \in Tasks \cup {NoTask} /\ s.current \in 1..Count + Interval + 1
    /\ s.pending \in [kind: {"none", "review", "chapter"}, child: Tasks \cup {NoTask},
                      window: Windows \cup {NoWindow}, id: Tasks \cup {NoTask}]

\* Rows, children, payload and checkpoint are well formed, and so is the checkpoint
\* every worker carries between its transactions.
STypeOK ==
    /\ task \in [Tasks -> Row]
    /\ child \in [Tasks -> [window: Windows \cup {NoWindow}, draft: 0..MaxVersion,
                            outcome: {"none", "accepted", "pass", "fail"}]]
    /\ data \in [resume: Tasks \cup {NoTask}, override: Windows \cup {NoWindow}]
    /\ CheckpointOK(saved)
    /\ \A w \in Workers : CheckpointOK(run[w].state)

Written(n) ==
    \E c \in Tasks : child[c].window = ChapterOf(n) /\ child[c].outcome = "accepted"
Reviewed(window) ==
    \/ window \in overrode
    \/ \E c \in Tasks : child[c].window = window /\ child[c].outcome = "pass"
ReviewWindows == {win \in Windows : win[2] <= Count /\ win[2] = win[1] + Interval - 1
                                     /\ win[2] % Interval = 0}

\* A chapter is counted only after its commit was accepted, and it is counted once:
\* no retried, overridden, cancelled or stale child puts a chapter into the
\* checkpoint whose task did not complete.
CountedIsAccepted ==
    /\ \A i \in Indices(saved.completed) : Written(saved.completed[i])
    /\ \A i, j \in Indices(saved.completed) : saved.completed[i] = saved.completed[j] => i = j

\* No chapter after a joint-review window is even queued unless a review of that window
\* passed or the author overrode it.
WindowsGate ==
    \A c \in Tasks, win \in ReviewWindows :
        task[c].kind = "write" /\ child[c].window[1] > win[2] => Reviewed(win)

\* All chapters are written and all windows reviewed.
Whole ==
    /\ \A n \in Chapters : Written(n)
    /\ \A win \in ReviewWindows : Reviewed(win)

\* Every joint-review window is a hard gate, whatever retries, overrides, pauses,
\* cancellations, lost leases and crashes come between the transactions, until the
\* checkpoint of the session forgets a chapter it has counted: the late save of a
\* paused session and the save of a cancelled one may do that, and then chapters are
\* counted out of order and reviews are due over other windows.
GateIsHard == ~forgot => WindowsGate

\* A completed session has all its chapters and all its reviews, under the same
\* condition.
FinishedIsWhole == ~forgot => (task[Parent].status = "completed" => Whole)

\* Apply one terminal child exactly once at the parent checkpoint (docstring of
\* _reconcile_async_child): no review stands in the checkpoint twice.
AppliedOnce ==
    \A i, j \in Indices(saved.reviews) : saved.reviews[i].id = saved.reviews[j].id => i = j

(***************************************************************************)
(* Fairness: a live worker takes its next step, and a request that has     *)
(* been read is served to its end.  Nothing forces the author, a crash or  *)
(* the clock.                                                              *)
(***************************************************************************)
Serves(r) == DecisionQueues(r) \/ DecisionLinks(r) \/ DecisionRetries(r)
CFair ==
    /\ \A w \in Workers : WF_cvars(Advances(w))
    /\ \A r \in Requests : WF_cvars(Serves(r))
CFairSpec == CSpec /\ CFair

\* A session comes to rest: once it is queued, running or waiting for a child, it
\* ends or the author has the next move; no order of its transactions, its
\* children's and the author's leaves it waiting for good or scheduling children
\* for ever.
Moving == task[Parent].status \in {"queued", "running", "cancelling", "waiting_on_child"}
ChildPaused == \E c \in Tasks : task[Parent].waitingFor = c /\ task[c].status = "paused"
SessionRests == Moving ~> ~Moving \/ ChildPaused
=============================================================================
