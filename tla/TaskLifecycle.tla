--------------------------- MODULE TaskLifecycle ---------------------------
(***************************************************************************)
(* What the durable queue promises its users about every task, whoever     *)
(* calls it: the state machine of docs/architecture/09-task-system.md with *)
(* the moves the code adds, and the rule that work is done under a lease.  *)
(*                                                                         *)
(* A task is open to one holder at a time.  Only taking the task gives a   *)
(* lease, a lease lasts exactly as long as the task is running or          *)
(* cancelling, a cancelled or completed task never changes again, and a    *)
(* task that is being cancelled can only end cancelled or at the author.   *)
(***************************************************************************)
EXTENDS Naturals

CONSTANTS Tasks, Workers, NoWorker

VARIABLES status, holder

TaskStatus == {"absent", "queued", "running", "paused", "cancelling", "completed", "failed",
               "cancelled", "waiting_on_child", "needs_author_decision"}

Held == {"running", "cancelling"}

Stay(t) == status'[t] = status[t] /\ holder'[t] = holder[t]

Create(t) ==
    /\ status[t] = "absent"
    /\ status'[t] \in {"queued", "needs_author_decision"}
    /\ holder'[t] = NoWorker

Take(t) ==
    /\ status[t] \in {"queued", "waiting_on_child"}
    /\ status'[t] = "running"
    /\ holder'[t] \in Workers

AskToCancel(t) ==
    /\ status[t] = "running"
    /\ status'[t] = "cancelling"
    /\ holder'[t] = holder[t]

\* Where a task may go when its lease ends.
AfterRunning == {"queued", "paused", "completed", "failed", "waiting_on_child",
                 "needs_author_decision"}
AfterCancelling == {"cancelled", "needs_author_decision"}

GiveUp(t) ==
    /\ \/ status[t] = "running" /\ status'[t] \in AfterRunning
       \/ status[t] = "cancelling" /\ status'[t] \in AfterCancelling
    /\ holder'[t] = NoWorker

\* Moves of a task nobody holds.
Rest(t) ==
    /\ \/ /\ status[t] \in {"paused", "failed", "waiting_on_child", "needs_author_decision"}
          /\ status'[t] = "queued"
       \/ /\ status[t] \in {"queued", "paused", "waiting_on_child", "needs_author_decision"}
          /\ status'[t] = "cancelled"
       \/ status[t] = "needs_author_decision" /\ status'[t] = "completed"
    /\ holder'[t] = NoWorker

Move(t) == Stay(t) \/ Create(t) \/ Take(t) \/ AskToCancel(t) \/ GiveUp(t) \/ Rest(t)

LInit == status = [t \in Tasks |-> "absent"] /\ holder = [t \in Tasks |-> NoWorker]

\* One step may move several tasks (a cascade, a recovery), never take two.
LNext ==
    /\ status' \in [Tasks -> TaskStatus]
    /\ holder' \in [Tasks -> Workers \cup {NoWorker}]
    /\ \A t \in Tasks : Move(t)
    /\ \A t, u \in Tasks : Take(t) /\ Take(u) => t = u

lvars == <<status, holder>>
LSpec == LInit /\ [][LNext]_lvars
=============================================================================
