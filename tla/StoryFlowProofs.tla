---------------------------- MODULE StoryFlowProofs ----------------------------
(* Proofs about the two sides of StoryFlow: the runs of the sandbox         *)
(* (SimulationRuns) and the planning canvas (PlanCanvas).                   *)
(*                                                                          *)
(* A deleted run stays as it is because each write of a handler is behind   *)
(* _assert_run_mutable in its transaction, and the one write that is not,   *)
(* the binding of a task, is of a run that its own request has found        *)
(* RUNNING.                                                                 *)
(*                                                                          *)
(* Recovery is replay because what a process holds of a world, for a        *)
(* checkpoint or a fork, is its beginning, and a world only grows at its    *)
(* end.  A task acts once because its handler, as long as no other has the  *)
(* task, comes to append only when it has nothing in the ledger.            *)
(*                                                                          *)
(* A revision of the canvas is confirmed away once because the confirmation *)
(* compares, in its transaction, the revision that the proposal names.  The *)
(* lifecycle of the nodes rests on what a process has checked of the row    *)
(* that it read, and on what can come between its reading and its write.    *)
EXTENDS SimulationRuns, PlanCanvas, TLAPS, FiniteSetTheorems, SequenceTheorems, WellFoundedInduction

Processes == Executors \cup {Studio}

\* The tables have a row for each run, and each process has its record.
Tables ==
    /\ DOMAIN simRun = SimRuns /\ DOMAIN ledger = SimRuns /\ DOMAIN ckpt = SimRuns
    /\ \A r \in SimRuns : DOMAIN simRun[r] = DOMAIN Absent
    /\ DOMAIN exec = Processes
    /\ \A e \in Processes : DOMAIN exec[e] = DOMAIN NoWork

\* A run is stopped when it is deleted, and nothing starts it again.
DeletedRests ==
    \A r \in SimRuns : simRun[r].history = "DELETE" => simRun[r].status \notin {"RUNNING", "absent"}

\* The request that binds a task has found its run RUNNING, and no other request
\* comes between.
BindsMutable ==
    exec[Studio].pc \in {"enqueuing", "binding"} => RunOf(Studio) \in SimRuns /\ Mutable(RunOf(Studio))

TombInv == Tables /\ DeletedRests /\ BindsMutable

\* The sandbox starts with no run deleted and no request under way.
LEMMA TombInit == SimInit => TombInv
  BY SMT DEF SimInit, TombInv, Tables, DeletedRests, BindsMutable, Processes, ExecAt, NoWork, Absent, Preview

-----------------------------------------------------------------------------
(* The steps of a handler.                                                  *)

\* Process e goes on with something, the others do not move.
Works(e) ==
    /\ DOMAIN exec' = DOMAIN exec
    /\ DOMAIN exec'[e] = DOMAIN exec[e] /\ exec'[e].pc \notin {"enqueuing", "binding"}
    /\ \A f \in Processes \ {e} : exec'[f] = exec[f]

\* The write goes to runs that are not deleted, and deletes or removes none.
Writes ==
    /\ DOMAIN simRun' = SimRuns /\ DOMAIN ledger' = SimRuns /\ DOMAIN ckpt' = SimRuns
    /\ \A r \in SimRuns :
          /\ DOMAIN simRun'[r] = DOMAIN simRun[r]
          /\ simRun'[r].history = simRun[r].history
          /\ simRun'[r].status = "absent" => simRun[r].status = "absent"
          /\ simRun[r].history = "DELETE" =>
                simRun'[r] = simRun[r] /\ ledger'[r] = ledger[r] /\ ckpt'[r] = ckpt[r]

\* Such a step keeps the invariant and the deleted runs.
LEMMA WorkRests ==
  ASSUME TombInv, NEW e \in Processes, Works(e), Writes
  PROVE  TombInv' /\ Tombstone
<1>1. Tables'
  BY SMT DEF TombInv, Tables, Works, Writes
<1>2. DeletedRests'
  BY SMT DEF TombInv, DeletedRests, Writes
<1>3. BindsMutable'
  <2>1. SUFFICES ASSUME (exec[Studio].pc \in {"enqueuing", "binding"})'
                 PROVE  (RunOf(Studio) \in SimRuns /\ Mutable(RunOf(Studio)))'
    BY DEF BindsMutable
  <2>2. exec'[Studio] = exec[Studio]
    BY <2>1, SMT DEF Works, Processes, ExecAt
  <2> QED
    BY <2>1, <2>2, SMT DEF TombInv, BindsMutable, ExecAt, RunOf, Mutable, RunExists, Writes
<1>4. Tombstone
  BY SMT DEF Tombstone, Writes
<1> QED
  BY <1>1, <1>2, <1>3, <1>4 DEF TombInv

\* A step that leaves the tables alone writes nothing.
LEMMA NothingWritten ==
  ASSUME TombInv, UNCHANGED <<simRun, ledger, ckpt>>
  PROVE  Writes
  BY SMT DEF TombInv, Tables, Writes

\* The ends of a handler, and a step within it.
LEMMA IdleWorks ==
  ASSUME TombInv, NEW e \in Processes, exec' = [exec EXCEPT ![e] = NoWork]
  PROVE  Works(e)
<1>1. DOMAIN exec = Processes /\ DOMAIN exec[e] = DOMAIN NoWork
  BY DEF TombInv, Tables
<1>2. exec'[e] = NoWork /\ \A f \in Processes \ {e} : exec'[f] = exec[f]
  BY <1>1
<1>3. NoWork.pc \notin {"enqueuing", "binding"}
  BY DEF NoWork
<1> QED
  BY <1>1, <1>2, <1>3 DEF Works

LEMMA EndWorks ==
  ASSUME TombInv, NEW e \in Processes, NEW status, HandlerEnds(e, status)
  PROVE  Works(e)
  BY SMT DEF TombInv, Tables, HandlerEnds, Works, NoWork

LEMMA RaiseRests ==
  ASSUME TombInv, NEW e \in Processes, Raises(e)
  PROVE  TombInv' /\ Tombstone
<1>1. Works(e)
  BY EndWorks DEF Raises
<1>2. Writes
  BY NothingWritten DEF Raises
<1> QED
  BY <1>1, <1>2, WorkRests

LEMMA ReturnRests ==
  ASSUME TombInv, NEW e \in Processes, Returns(e)
  PROVE  TombInv' /\ Tombstone
<1>1. Works(e)
  BY EndWorks DEF Returns
<1>2. Writes
  BY NothingWritten DEF Returns
<1> QED
  BY <1>1, <1>2, WorkRests

LEMMA SetWorks ==
  ASSUME TombInv, NEW e \in Processes, NEW pc, pc \notin {"enqueuing", "binding"}, Set(e, pc)
  PROVE  Works(e)
  BY SMT DEF TombInv, Tables, Set, Works, NoWork

LEMMA MoveRests ==
  ASSUME TombInv, NEW e \in Processes, NEW pc, pc \notin {"enqueuing", "binding"}, MovesOn(e, pc)
  PROVE  TombInv' /\ Tombstone
<1>1. Works(e)
  BY SetWorks DEF MovesOn
<1>2. Writes
  BY NothingWritten DEF MovesOn
<1> QED
  BY <1>1, <1>2, WorkRests

\* The engine starts or refuses.
LEMMA EnterRoundRests ==
  ASSUME TombInv, NEW e \in Processes, EnterRound(e)
  PROVE  TombInv' /\ Tombstone
  BY RaiseRests, MoveRests, ReturnRests DEF EnterRound

\* The engine reads the ledger.
LEMMA ReadRoundRests ==
  ASSUME TombInv, NEW e \in Processes, ReadRound(e)
  PROVE  TombInv' /\ Tombstone
<1>1. Works(e)
  BY SMT DEF ReadRound, TombInv, Tables, Works, ExecAt, NoWork
<1>2. Writes
  BY NothingWritten DEF ReadRound
<1> QED
  BY <1>1, <1>2, WorkRests

\* The agents decide.
LEMMA DecideRoundRests ==
  ASSUME TombInv, NEW e \in Processes, DecideRound(e)
  PROVE  TombInv' /\ Tombstone
<1>1. Works(e)
  BY SMT DEF DecideRound, TombInv, Tables, Works, ExecAt, NoWork
<1>2. Writes
  BY NothingWritten DEF DecideRound
<1> QED
  BY <1>1, <1>2, WorkRests

\* An accepted batch goes to a run that is not deleted.
LEMMA AppendWrites ==
  ASSUME TombInv, NEW r, NEW events, Mutable(r), Appended(r, events), UNCHANGED ckpt
  PROVE  Writes
<1> DEFINE n == IF simRun[r].round < events[1].round THEN events[1].round ELSE simRun[r].round
<1>1. /\ simRun' = [simRun EXCEPT ![r].round = n]
      /\ ledger' = [ledger EXCEPT ![r] = ledger[r] \o events]
  BY DEF Appended
<1> HIDE DEF n
<1>2. \A x \in SimRuns \ {r} : simRun'[x] = simRun[x] /\ ledger'[x] = ledger[x]
  BY <1>1 DEF TombInv, Tables
<1>3. r \in SimRuns => simRun'[r] = [simRun[r] EXCEPT !.round = n]
  BY <1>1 DEF TombInv, Tables
<1> QED
  BY <1>1, <1>2, <1>3, SMT DEF TombInv, Tables, Writes, Mutable, RunExists, Absent

\* A batch is refused once the run is deleted.
LEMMA AppendRoundRests ==
  ASSUME TombInv, NEW e \in Processes, AppendRound(e)
  PROVE  TombInv' /\ Tombstone
<1>1. CASE Raises(e)
  BY <1>1, RaiseRests
<1>2. CASE ~Raises(e)
  <2>1. PICK todo : exec' = [exec EXCEPT ![e].pc = "remembering", ![e].batch = <<>>, ![e].todo = todo]
    BY <1>2 DEF AppendRound
  <2>2. Works(e)
    BY <2>1, SMT DEF TombInv, Tables, Works, NoWork
  <2>3. /\ Mutable(RunOf(e)) /\ Appended(RunOf(e), exec[e].batch)
        /\ UNCHANGED ckpt
    BY <1>2 DEF AppendRound, Accepts
  <2>4. Writes
    BY <2>3, AppendWrites
  <2> QED
    BY <2>2, <2>4, WorkRests
<1> QED
  BY <1>1, <1>2

\* A memory is refused once the run is deleted.
LEMMA RememberEventRests ==
  ASSUME TombInv, NEW e \in Processes, RememberEvent(e)
  PROVE  TombInv' /\ Tombstone
<1>1. CASE Raises(e)
  BY <1>1, RaiseRests
<1>2. CASE ~Raises(e)
  <2>1. Works(e)
    BY <1>2, SMT DEF RememberEvent, TombInv, Tables, Works, ExecAt, NoWork
  <2>2. Writes
    BY NothingWritten, <1>2 DEF RememberEvent
  <2> QED
    BY <2>1, <2>2, WorkRests
<1> QED
  BY <1>1, <1>2

\* The round advances, unless the run is deleted.
LEMMA AdvanceRoundRests ==
  ASSUME TombInv, NEW e \in Processes, AdvanceRound(e)
  PROVE  TombInv' /\ Tombstone
<1>1. CASE Raises(e)
  BY <1>1, RaiseRests
<1>2. CASE ~Raises(e)
  <2>1. Works(e)
    BY <1>2, SMT DEF AdvanceRound, TombInv, Tables, Works, ExecAt, NoWork, Set
  <2>2. Writes
    BY <1>2, SMT DEF AdvanceRound, TombInv, Tables, Writes, Mutable, RunExists, RunOf, Absent
  <2> QED
    BY <2>1, <2>2, WorkRests
<1> QED
  BY <1>1, <1>2

\* The world is replayed.
LEMMA ReplayWorldRests ==
  ASSUME TombInv, NEW e \in Processes, ReplayWorld(e)
  PROVE  TombInv' /\ Tombstone
<1>1. CASE Raises(e)
  BY <1>1, RaiseRests
<1>2. CASE ~Raises(e)
  <2>1. Works(e)
    BY <1>2, SMT DEF ReplayWorld, TombInv, Tables, Works, ExecAt, NoWork
  <2>2. Writes
    BY NothingWritten, <1>2 DEF ReplayWorld
  <2> QED
    BY <2>1, <2>2, WorkRests
<1> QED
  BY <1>1, <1>2

\* A checkpoint is refused once the run is deleted.
LEMMA WriteCheckpointRests ==
  ASSUME TombInv, NEW e \in Processes, WriteCheckpoint(e)
  PROVE  TombInv' /\ Tombstone
<1>1. CASE Raises(e)
  BY <1>1, RaiseRests
<1>2. CASE ~Raises(e)
  <2>1. Works(e)
    BY <1>2, SMT DEF WriteCheckpoint, TombInv, Tables, Works, ExecAt, NoWork
  <2>2. Writes
    BY <1>2, SMT DEF WriteCheckpoint, TombInv, Tables, Writes, Mutable, RunExists, RunOf, Absent
  <2> QED
    BY <2>1, <2>2, WorkRests
<1> QED
  BY <1>1, <1>2

\* The round is closed.
LEMMA CloseRoundRests ==
  ASSUME TombInv, NEW e \in Processes, CloseRound(e)
  PROVE  TombInv' /\ Tombstone
  BY RaiseRests, MoveRests, ReturnRests DEF CloseRound

\* A deleted run is not completed.
LEMMA CompleteRunRests ==
  ASSUME TombInv, NEW e \in Processes, CompleteRun(e)
  PROVE  TombInv' /\ Tombstone
<1>1. CASE Raises(e)
  BY <1>1, RaiseRests
<1>2. CASE ~Raises(e)
  <2>1. Works(e)
    BY <1>2, SMT DEF CompleteRun, TombInv, Tables, Works, ExecAt, NoWork, Set
  <2>2. Writes
    BY <1>2, SMT DEF CompleteRun, TombInv, Tables, Writes, Mutable, RunExists, RunOf, Absent, MayTurn, Turned
  <2> QED
    BY <2>1, <2>2, WorkRests
<1> QED
  BY <1>1, <1>2

\* The task is settled.
LEMMA SettleRoundRests ==
  ASSUME TombInv, NEW e \in Processes, SettleRound(e)
  PROVE  TombInv' /\ Tombstone
  BY RaiseRests, MoveRests, ReturnRests DEF SettleRound

\* A process dies.
LEMMA FallRests ==
  ASSUME TombInv, NEW e \in Processes, Fall(e)
  PROVE  TombInv' /\ Tombstone
<1>1. exec' = [exec EXCEPT ![e] = NoWork]
  BY DEF Fall
<1>2. Works(e)
  BY <1>1, IdleWorks
<1>3. Writes
  BY NothingWritten DEF Fall
<1> QED
  BY <1>2, <1>3, WorkRests

\* The reconciliation starts.
LEMMA ReconcileRoundRests ==
  ASSUME TombInv, NEW e \in Processes, ReconcileRound(e)
  PROVE  TombInv' /\ Tombstone
<1>1. Works(e)
  BY SMT DEF ReconcileRound, TombInv, Tables, Works, ExecAt, NoWork
<1>2. Writes
  BY NothingWritten DEF ReconcileRound
<1> QED
  BY <1>1, <1>2, WorkRests

\* The round is scheduled or refused.
LEMMA ScheduleRoundRests ==
  ASSUME TombInv, NEW e \in Processes, ScheduleRound(e)
  PROVE  TombInv' /\ Tombstone
  BY RaiseRests, MoveRests, ReturnRests DEF ScheduleRound

\* The budget stops the round,
LEMMA BudgetStopsRests ==
  ASSUME TombInv, NEW e \in Processes, BudgetStops(e)
  PROVE  TombInv' /\ Tombstone
  BY RaiseRests, MoveRests, ReturnRests DEF BudgetStops

\* ... or the reconciliation,
LEMMA BudgetBreaksRests ==
  ASSUME TombInv, NEW e \in Processes, BudgetBreaks(e)
  PROVE  TombInv' /\ Tombstone
  BY RaiseRests, MoveRests, ReturnRests DEF BudgetBreaks

\* ... and the handler looks at the run.
LEMMA PauseForBudgetRests ==
  ASSUME TombInv, NEW e \in Processes, PauseForBudget(e)
  PROVE  TombInv' /\ Tombstone
  BY RaiseRests, MoveRests, ReturnRests DEF PauseForBudget

\* A deleted run is not paused.
LEMMA HaltRunRests ==
  ASSUME TombInv, NEW e \in Processes, HaltRun(e)
  PROVE  TombInv' /\ Tombstone
<1>1. CASE Raises(e)
  BY <1>1, RaiseRests
<1>2. CASE ~Raises(e)
  <2>1. Works(e)
    BY <1>2, EndWorks DEF HaltRun
  <2>2. Writes
    BY <1>2, SMT DEF HaltRun, TombInv, Tables, Writes, MayTurn, Turned, Mutable, RunExists, RunOf, Absent
  <2> QED
    BY <2>1, <2>2, WorkRests
<1> QED
  BY <1>1, <1>2

\* A provider fails.
LEMMA ProviderFailsRests ==
  ASSUME TombInv, NEW e \in Processes, NEW status, ProviderFails(e, status)
  PROVE  TombInv' /\ Tombstone
<1>1. Works(e)
  BY EndWorks DEF ProviderFails
<1>2. Writes
  BY NothingWritten DEF ProviderFails
<1> QED
  BY <1>1, <1>2, WorkRests

\* A worker claims a round task.
LEMMA ClaimRoundRests ==
  ASSUME TombInv, NEW e \in Processes, NEW k, ClaimRound(e, k)
  PROVE  TombInv' /\ Tombstone
<1>1. Works(e)
  BY SMT DEF ClaimRound, TombInv, Tables, Works, ExecAt, NoWork
<1>2. Writes
  BY NothingWritten DEF ClaimRound
<1> QED
  BY <1>1, <1>2, WorkRests

-----------------------------------------------------------------------------
(* The requests.                                                            *)

\* A deleted run is not moved,
LEMMA TransitionRunRests ==
  ASSUME TombInv, NEW r \in SimRuns, NEW status \in RunStatuses, TransitionRun(r, status)
  PROVE  TombInv' /\ Tombstone
  BY SMT DEF TransitionRun, Request, TombInv, Tables, DeletedRests, BindsMutable, Tombstone, Processes, ExecAt,
             RunOf, KeyOf, Mutable, RunExists, Absent, NoWork, Preview, MayTurn, Turned, RunStatuses

\* ... and cannot be asked for a round: it does not run.
LEMMA AskRoundRests ==
  ASSUME TombInv, NEW r \in SimRuns, NEW n, NEW p, AskRound(r, n, p)
  PROVE  TombInv' /\ Tombstone
  BY SMT DEF AskRound, Request, TombInv, Tables, DeletedRests, BindsMutable, Tombstone, Processes, ExecAt,
             RunOf, KeyOf, Mutable, RunExists, Absent, NoWork, Preview

\* The task is queued, or the request refused.
LEMMA EnqueueRoundRests ==
  ASSUME TombInv, EnqueueRound
  PROVE  TombInv' /\ Tombstone
<1>1. UNCHANGED <<simRun, ledger, ckpt>> /\ Studio \in Processes /\ exec[Studio].pc = "enqueuing"
  BY DEF EnqueueRound, ExecAt, Processes
<1>2. exec' = [exec EXCEPT ![Studio] = NoWork] \/ exec' = [exec EXCEPT ![Studio].pc = "binding"]
  BY DEF EnqueueRound, Set
<1>3. CASE exec' = [exec EXCEPT ![Studio] = NoWork]
  BY <1>1, <1>3, IdleWorks, NothingWritten, WorkRests
<1>4. CASE exec' = [exec EXCEPT ![Studio].pc = "binding"]
  <2>1. Tables' /\ DeletedRests'
    BY <1>1, <1>4, SMT DEF TombInv, Tables, DeletedRests, NoWork
  <2>2. RunOf(Studio)' = RunOf(Studio) /\ exec'[Studio].pc = "binding"
    BY <1>1, <1>4, SMT DEF TombInv, Tables, RunOf, NoWork
  <2>3. BindsMutable'
    BY <1>1, <2>2, SMT DEF TombInv, BindsMutable, Mutable, RunExists
  <2> QED
    BY <1>1, <2>1, <2>3 DEF TombInv, Tombstone
<1> QED
  BY <1>2, <1>3, <1>4

\* The bound run is the one found RUNNING.
LEMMA BindRoundRests ==
  ASSUME TombInv, BindRound
  PROVE  TombInv' /\ Tombstone
  BY SMT DEF BindRound, Request, TombInv, Tables, DeletedRests, BindsMutable, Tombstone, Processes, ExecAt,
             RunOf, KeyOf, Mutable, RunExists, Absent, NoWork, Preview

\* A retry touches the task only.
LEMMA RetryRoundRests ==
  ASSUME TombInv, NEW k, RetryRound(k)
  PROVE  TombInv' /\ Tombstone
  BY SMT DEF RetryRound, Request, TombInv, Tables, DeletedRests, BindsMutable, Tombstone, Processes, ExecAt,
             RunOf, KeyOf, Mutable, RunExists, Absent, NoWork, Preview

\* A preview starts.
LEMMA PreviewRoundRests ==
  ASSUME TombInv, NEW r \in SimRuns, NEW n, PreviewRound(r, n)
  PROVE  TombInv' /\ Tombstone
  BY SMT DEF PreviewRound, Request, TombInv, Tables, DeletedRests, BindsMutable, Tombstone, Processes, ExecAt,
             RunOf, KeyOf, Mutable, RunExists, Absent, NoWork, Preview

\* An intervention is prepared,
LEMMA AskInterventionRests ==
  ASSUME TombInv, NEW r \in SimRuns, NEW n, AskIntervention(r, n)
  PROVE  TombInv' /\ Tombstone
  BY SMT DEF AskIntervention, Request, TombInv, Tables, DeletedRests, BindsMutable, Tombstone, Processes, ExecAt,
             RunOf, KeyOf, Mutable, RunExists, Absent, NoWork, Preview

\* ... and refused once the run is deleted.
LEMMA InterveneRests ==
  ASSUME TombInv, Intervene
  PROVE  TombInv' /\ Tombstone
<1>1. Works(Studio)
  <2>1. exec' = [exec EXCEPT ![Studio] = NoWork]
    BY DEF Intervene
  <2>2. Studio \in Processes
    BY DEF Processes
  <2> QED
    BY <2>1, <2>2, IdleWorks
<1>2. CASE Accepts(RunOf(Studio), exec[Studio].batch)
  <2>1. /\ Mutable(RunOf(Studio)) /\ Appended(RunOf(Studio), exec[Studio].batch)
        /\ UNCHANGED ckpt
    BY <1>2 DEF Intervene, Accepts
  <2> QED
    BY <1>1, <2>1, AppendWrites, WorkRests DEF Processes
<1>3. CASE ~Accepts(RunOf(Studio), exec[Studio].batch)
  <2>1. UNCHANGED <<simRun, ledger, ckpt>>
    BY <1>3 DEF Intervene
  <2> QED
    BY <1>1, <2>1, NothingWritten, WorkRests DEF Processes
<1> QED
  BY <1>2, <1>3

\* A branch is a new run.
LEMMA CreateBranchRests ==
  ASSUME TombInv, NEW r \in SimRuns, NEW child \in SimRuns, NEW fork, CreateBranch(r, child, fork)
  PROVE  TombInv' /\ Tombstone
  BY SMT DEF CreateBranch, Request, TombInv, Tables, DeletedRests, BindsMutable, Tombstone, Processes, ExecAt,
             RunOf, KeyOf, Mutable, RunExists, Absent, NoWork, Preview

\* The history of a deleted run is closed.
LEMMA ArchiveRunRests ==
  ASSUME TombInv, NEW r \in SimRuns, ArchiveRun(r)
  PROVE  TombInv' /\ Tombstone
  BY SMT DEF ArchiveRun, Request, TombInv, Tables, DeletedRests, BindsMutable, Tombstone, Processes, ExecAt,
             RunOf, KeyOf, Mutable, RunExists, Absent, NoWork, Preview

\* Nothing brings it back.
LEMMA UnarchiveRunRests ==
  ASSUME TombInv, NEW r \in SimRuns, UnarchiveRun(r)
  PROVE  TombInv' /\ Tombstone
  BY SMT DEF UnarchiveRun, Request, TombInv, Tables, DeletedRests, BindsMutable, Tombstone, Processes, ExecAt,
             RunOf, KeyOf, Mutable, RunExists, Absent, NoWork, Preview

\* Only a stopped run is deleted.
LEMMA DeleteRunRests ==
  ASSUME TombInv, NEW r \in SimRuns, DeleteRun(r)
  PROVE  TombInv' /\ Tombstone
  BY SMT DEF DeleteRun, Request, TombInv, Tables, DeletedRests, BindsMutable, Tombstone, Processes, ExecAt,
             RunOf, KeyOf, Mutable, RunExists, Absent, NoWork, Preview

-----------------------------------------------------------------------------

\* Every step keeps the invariant and the deleted runs.
LEMMA SimStep ==
  ASSUME TombInv, SimNext
  PROVE  TombInv' /\ Tombstone
<1>1. ASSUME NEW e \in Processes, RoundStep(e) PROVE TombInv' /\ Tombstone
  BY <1>1, EnterRoundRests, ReadRoundRests, DecideRoundRests, AppendRoundRests, RememberEventRests,
     AdvanceRoundRests, ReplayWorldRests, WriteCheckpointRests, CloseRoundRests, CompleteRunRests,
     SettleRoundRests, FallRests DEF RoundStep
<1>2. ASSUME NEW e \in Executors, WorkerStep(e) PROVE TombInv' /\ Tombstone
  BY <1>2, ClaimRoundRests, ReconcileRoundRests, ScheduleRoundRests, ProviderFailsRests, BudgetStopsRests,
     BudgetBreaksRests, PauseForBudgetRests, HaltRunRests DEF WorkerStep, Processes
<1>3. ASSUME NEW r \in SimRuns, StudioStep(r) PROVE TombInv' /\ Tombstone
  BY <1>3, TransitionRunRests, AskRoundRests, PreviewRoundRests, AskInterventionRests, CreateBranchRests,
     ArchiveRunRests, UnarchiveRunRests, DeleteRunRests DEF StudioStep
<1> QED
  BY <1>1, <1>2, <1>3, EnqueueRoundRests, BindRoundRests, InterveneRests, RetryRoundRests DEF SimNext, Processes

\* The invariant holds for any runs, agents, rounds, workers and events.
THEOREM TombInvariant == SimSpec => []TombInv
<1>1. TombInv /\ [SimNext]_simVars => TombInv'
  <2>1. CASE SimNext
    BY <2>1, SimStep
  <2>2. CASE UNCHANGED simVars
    BY <2>2, SMT DEF simVars, TombInv, Tables, DeletedRests, BindsMutable, Processes, ExecAt, RunOf, Mutable, RunExists
  <2> QED
    BY <2>1, <2>2
<1> QED
  BY TombInit, <1>1, PTL DEF SimSpec

\* No step of a handler, a worker or a request moves the row, the ledger or the
\* checkpoints of a deleted run.
THEOREM DeletedStays == SimSpec => TombstoneHolds
<1>1. TombInv /\ [SimNext]_simVars => [Tombstone]_simVars
  BY SimStep
<1> QED
  BY TombInvariant, <1>1, PTL DEF SimSpec, TombstoneHolds

-----------------------------------------------------------------------------
(* The worlds of the sandbox.  EventsOf is recursive over the parents of a  *)
(* branch, which are older; Solves says of a function that it satisfies the *)
(* recursive equation.                                                      *)

\* s is where t begins.
StartOf(s, t) == Len(s) <= Len(t) /\ \A i \in 1..Len(s) : s[i] = t[i]

\* A branch has an older parent and forks within what the parent has seen.
Descends ==
    \A r \in SimRuns :
        /\ simRun[r].parent = 0 => simRun[r].fork = 0
        /\ simRun[r].parent # 0 =>
              /\ simRun[r].parent < r /\ RunExists(simRun[r].parent)
              /\ simRun[r].fork <= Len(EventsOf[simRun[r].parent])
        /\ ~RunExists(r) => simRun[r].parent = 0 /\ ledger[r] = <<>>

\* The events of a run are numbered without a gap, the inherited ones first.
Worlds ==
    /\ EventsOf \in [SimRuns -> Seq(Event)]
    /\ \A r \in SimRuns : /\ Replays(EventsOf[r])
                          /\ Len(EventsOf[r]) = simRun[r].fork + Len(ledger[r])

\* A checkpoint is a world of the past.
Checkpoints ==
    /\ DOMAIN ckpt = SimRuns
    /\ \A r \in SimRuns : \A c \in ckpt[r] : c.seq = Len(c.world) /\ StartOf(c.world, EventsOf[r])

\* Numbered one after the other.
Consecutive(batch) ==
    Len(batch) >= 1 /\ \A i \in DOMAIN batch : batch[i].seq + 1 = batch[1].seq + i

\* What process e has in hand: a round task of its own, or a request; a batch; a world
\* of the past.
InHand(e, l) ==
    /\ e \in Executors => l.pc \notin {"enqueuing", "binding", "intervening"} /\ (l.pc # "idle" => l.key \in Key)
    /\ e = Studio => /\ l.pc \in {"enqueuing", "binding"} => l.key \in Key
                     /\ l.pc \notin {"idle", "enqueuing", "binding"} => l.key.print = 0
    /\ l.pc \in {"appending", "intervening"} => Consecutive(l.batch)
    /\ l.pc = "checkpointing" => StartOf(l.world, EventsOf[l.key.run])

SimInv == SimTypeOK /\ Descends /\ Worlds /\ Checkpoints /\ \A e \in Processes : InHand(e, exec[e])

-----------------------------------------------------------------------------
(* Acting once.                                                             *)

\* The actions in a ledger are of tasks and previews of that run, and the run has
\* come to their round.
Past ==
    \A r \in SimRuns : \A i \in DOMAIN ledger[r] :
        ledger[r][i].kind = "action" =>
            ledger[r][i].by.run = r /\ ledger[r][i].by.round <= simRun[r].round

\* A batch holds the actions of its own task, one of each agent.
BatchOwn(l) ==
    /\ l.batch[1].round = l.key.round
    /\ \A i \in DOMAIN l.batch :
          l.batch[i].kind = "action" =>
              /\ l.batch[i].by = l.key
              /\ \A j \in DOMAIN l.batch :
                    l.batch[j].kind = "action" /\ l.batch[j].agent = l.batch[i].agent => i = j

\* An author's batch holds no action.
Authored(l) == \A i \in DOMAIN l.batch : l.batch[i].kind # "action"

\* Every action of task k that is in the ledger is remembered.
Recalled(k) == \A i \in OwnActions(k) : <<k.run, i>> \in remembered

\* Where a handler has nothing of its task in the ledger yet, and where what there is
\* has been remembered.
Early == {"entering", "reading", "deciding", "appending"}
Late == {"consolidating", "checkpointing", "closing", "completing", "settling", "pausing", "halting"}

Ready(k, pc) ==
    /\ pc \in Early => OwnActions(k) = {}
    /\ pc \in Late => Recalled(k)

\* A handler whose task is its own has nothing of it in the ledger until it appends,
\* and goes on when its actions are remembered.
Acting(e, l) ==
    /\ roundTask[l.key].owner = e
    /\ Ready(l.key, l.pc)
    /\ l.pc = "remembering" =>
          \A i \in OwnActions(l.key) : i \in l.todo \/ <<l.key.run, i>> \in remembered

Alone ==
    ~fate.takenOver =>
        /\ \A e \in Executors : exec[e].pc # "idle" => Acting(e, exec[e])
        /\ \A k \in Key : roundTask[k].status = "completed" => Recalled(k)

ActInv ==
    /\ Past
    /\ \A e \in Processes : /\ exec[e].pc = "appending" => BatchOwn(exec[e])
                            /\ exec[e].pc = "intervening" => Authored(exec[e])
    /\ Alone
    /\ ActsOnce

\* Every set of numbers has a least one.
LEMMA LeastNumber ==
    ASSUME NEW S, S \subseteq Nat, S # {}
    PROVE  \E n \in S : \A m \in S : n <= m
<1> DEFINE Less == {ss \in Nat \X Nat : ss[1] < ss[2]}
<1>1. Less = OpToRel(<, Nat)
  BY DEF OpToRel
<1>2. IsWellFoundedOn(Less, Nat)
  BY <1>1, NatLessThanWellFounded, Zenon
<1>3. \A m, n \in Nat : <<m, n>> \notin Less => n <= m
  OBVIOUS
<1> HIDE DEF Less
<1>4. PICK n \in S : \A m \in S : <<m, n>> \notin Less
  BY <1>2, WFMin, Zenon
<1> QED
  BY <1>3, <1>4

\* The equation of EventsOf, for any rows and ledgers.
Value(f, rows, led, r) ==
    IF rows[r].parent = 0
    THEN led[r]
    ELSE SubSeq(f[rows[r].parent], 1, UpTo(f[rows[r].parent], rows[r].fork)) \o led[r]
Solves(f, rows, led) == f = [r \in SimRuns |-> Value(f, rows, led, r)]

Older(rows) ==
    \A r \in SimRuns : rows[r].parent # 0 => rows[r].parent \in SimRuns /\ rows[r].parent < r

\* It has at most one solution, ...
LEMMA SolutionUnique ==
    ASSUME NEW rows, NEW led, Older(rows), NEW f, NEW g, Solves(f, rows, led), Solves(g, rows, led)
    PROVE  f = g
<1> DEFINE Apart == {r \in SimRuns : f[r] # g[r]}
<1>1. Apart \subseteq Nat
  BY SimAssumption
<1>2. SUFFICES ASSUME Apart # {} PROVE FALSE
  BY DEF Solves
<1>3. PICK r \in Apart : \A x \in Apart : r <= x
  <2> HIDE DEF Apart
  <2> QED
    BY <1>1, <1>2, LeastNumber
<1>4. f[r] = Value(f, rows, led, r) /\ g[r] = Value(g, rows, led, r)
  BY DEF Solves
<1>5. rows[r].parent # 0 => f[rows[r].parent] = g[rows[r].parent]
  <2>1. rows[r].parent # 0 => rows[r].parent \in SimRuns /\ rows[r].parent \notin Apart
    BY <1>1, <1>3, SimAssumption DEF Older
  <2> QED
    BY <2>1
<1>6. Value(f, rows, led, r) = Value(g, rows, led, r)
  BY <1>5 DEF Value
<1> QED
  BY <1>3, <1>4, <1>6

\* ... and one: it is built run by run.
SolvesTo(f, rows, led, n) ==
    /\ DOMAIN f = SimRuns
    /\ \A r \in SimRuns : r <= n => f[r] = Value(f, rows, led, r)

LEMMA SolutionGrows ==
    ASSUME NEW rows, NEW led, Older(rows), NEW n \in Nat
    PROVE  \E f : SolvesTo(f, rows, led, n)
<1> DEFINE Without == {m \in Nat : ~ \E f : SolvesTo(f, rows, led, m)}
<1>1. SUFFICES ASSUME Without # {} PROVE FALSE
  OBVIOUS
<1>2. PICK m \in Without : \A x \in Without : m <= x
  <2>1. Without \subseteq Nat
    OBVIOUS
  <2> HIDE DEF Without
  <2> QED
    BY <1>1, <2>1, LeastNumber
<1>3. CASE m = 0
  <2>1. SolvesTo([r \in SimRuns |-> <<>>], rows, led, 0)
    BY SimAssumption DEF SolvesTo
  <2> QED
    BY <1>2, <1>3, <2>1
<1>4. CASE m # 0
  <2>1. m - 1 \in Nat /\ m - 1 \notin Without
    <3>1. m \in Nat /\ m - 1 \in Nat /\ ~(m <= m - 1)
      BY <1>2, <1>4
    <3> HIDE DEF Without
    <3> QED
      BY <1>2, <3>1
  <2>2. PICK f : SolvesTo(f, rows, led, m - 1)
    BY <2>1
  <2> DEFINE g == [r \in SimRuns |-> IF r = m THEN Value(f, rows, led, m) ELSE f[r]]
  <2>3. ASSUME NEW r \in SimRuns, r <= m PROVE g[r] = Value(g, rows, led, r)
    <3>1. rows[r].parent # 0 => g[rows[r].parent] = f[rows[r].parent]
      BY <2>3, <1>2, SimAssumption DEF Older
    <3>2. Value(g, rows, led, r) = Value(f, rows, led, r)
      <4> HIDE DEF g
      <4> QED
        BY <3>1 DEF Value
    <3>3. r # m => r <= m - 1
      BY <1>2, <2>3, SimAssumption
    <3> QED
      BY <2>2, <3>2, <3>3 DEF SolvesTo
  <2>4. SolvesTo(g, rows, led, m)
    <3>1. DOMAIN g = SimRuns
      OBVIOUS
    <3> HIDE DEF g
    <3> QED
      BY <2>3, <3>1 DEF SolvesTo
  <2> QED
    BY <1>2, <2>4
<1> QED
  BY <1>3, <1>4

LEMMA SolutionsAgree ==
    ASSUME NEW rows, NEW led, Older(rows), NEW m \in Nat, NEW n \in Nat, m <= n,
           NEW f, NEW g, SolvesTo(f, rows, led, m), SolvesTo(g, rows, led, n),
           NEW r \in SimRuns, r <= m
    PROVE  f[r] = g[r]
<1> DEFINE Apart == {x \in SimRuns : x <= m /\ f[x] # g[x]}
<1>1. Apart \subseteq Nat
  BY SimAssumption
<1>2. SUFFICES ASSUME Apart # {} PROVE FALSE
  OBVIOUS
<1>3. PICK x \in Apart : \A y \in Apart : x <= y
  <2> HIDE DEF Apart
  <2> QED
    BY <1>1, <1>2, LeastNumber
<1>4. f[x] = Value(f, rows, led, x) /\ g[x] = Value(g, rows, led, x)
  BY <1>3, SimAssumption DEF SolvesTo
<1>5. rows[x].parent # 0 => f[rows[x].parent] = g[rows[x].parent]
  <2>1. rows[x].parent # 0 => /\ rows[x].parent \in SimRuns /\ rows[x].parent <= m
                              /\ rows[x].parent \notin Apart
    <3>1. SUFFICES ASSUME rows[x].parent # 0
                   PROVE  /\ rows[x].parent \in SimRuns /\ rows[x].parent <= m
                          /\ rows[x].parent \notin Apart
      OBVIOUS
    <3>2. x \in Nat /\ x <= m /\ rows[x].parent \in SimRuns /\ rows[x].parent < x
      BY <1>1, <1>3, <3>1 DEF Older
    <3>3. rows[x].parent \in Nat
      BY <3>2, SimAssumption
    <3>4. rows[x].parent <= m /\ ~(x <= rows[x].parent)
      BY <3>2, <3>3
    <3> HIDE DEF Apart
    <3> QED
      BY <1>3, <3>2, <3>4
  <2> QED
    BY <2>1
<1>6. Value(f, rows, led, x) = Value(g, rows, led, x)
  BY <1>5 DEF Value
<1> QED
  BY <1>3, <1>4, <1>6

LEMMA SolutionExists ==
    ASSUME NEW rows, NEW led, Older(rows)
    PROVE  \E f : Solves(f, rows, led)
<1> DEFINE upTo(r) == CHOOSE f : SolvesTo(f, rows, led, r)
           h == [r \in SimRuns |-> upTo(r)[r]]
<1>1. ASSUME NEW r \in SimRuns PROVE r \in Nat /\ SolvesTo(upTo(r), rows, led, r)
  <2>1. r \in Nat
    BY SimAssumption
  <2> QED
    BY <2>1, SolutionGrows
<1>2. ASSUME NEW r \in SimRuns PROVE h[r] = Value(h, rows, led, r)
  <2>1. upTo(r)[r] = Value(upTo(r), rows, led, r)
    <3>1. r <= r
      BY <1>1
    <3> HIDE DEF upTo
    <3> QED
      BY <1>1, <3>1 DEF SolvesTo
  <2>2. ASSUME rows[r].parent # 0 PROVE h[rows[r].parent] = upTo(r)[rows[r].parent]
    <3>1. rows[r].parent \in SimRuns /\ rows[r].parent < r
      BY <2>2 DEF Older
    <3>2. /\ rows[r].parent \in Nat /\ r \in Nat /\ rows[r].parent <= r
          /\ SolvesTo(upTo(rows[r].parent), rows, led, rows[r].parent)
          /\ SolvesTo(upTo(r), rows, led, r) /\ rows[r].parent <= rows[r].parent
      <4>1. rows[r].parent \in Nat /\ r \in Nat
        BY <1>1, <3>1
      <4>2. rows[r].parent <= r /\ rows[r].parent <= rows[r].parent
        BY <3>1, <4>1
      <4> HIDE DEF upTo
      <4> QED
        BY <1>1, <3>1, <4>1, <4>2
    <3>3. upTo(rows[r].parent)[rows[r].parent] = upTo(r)[rows[r].parent]
      <4> HIDE DEF upTo
      <4> QED
        BY <3>1, <3>2, SolutionsAgree
    <3> QED
      BY <3>1, <3>3
  <2>3. Value(h, rows, led, r) = Value(upTo(r), rows, led, r)
    <3> HIDE DEF h, upTo
    <3> QED
      BY <2>2 DEF Value
  <2>4. h[r] = upTo(r)[r]
    OBVIOUS
  <2> HIDE DEF h, upTo
  <2> QED
    BY <2>1, <2>3, <2>4
<1>3. DOMAIN h = SimRuns /\ h = [r \in SimRuns |-> h[r]]
  OBVIOUS
<1>4. Solves(h, rows, led)
  <2> HIDE DEF h
  <2> QED
    BY <1>2, <1>3 DEF Solves
<1> QED
  BY <1>4

\* EventsOf solves it.
LEMMA EventsSolve == Older(simRun) => Solves(EventsOf, simRun, ledger)
<1> SUFFICES ASSUME Older(simRun) PROVE Solves(EventsOf, simRun, ledger)
  OBVIOUS
<1>1. \E f : Solves(f, simRun, ledger)
  BY SolutionExists
<1> QED
  BY <1>1, Zenon DEF EventsOf, Solves, Value

\* In a world without gaps a number is a place.
LEMMA UpToIs ==
    ASSUME NEW s \in Seq(Event), Replays(s), NEW n \in 0..Len(s)
    PROVE  UpTo(s, n) = n
<1>1. Len(s) \in Nat /\ DOMAIN s = 1..Len(s)
  OBVIOUS
<1>2. \A i \in DOMAIN s : s[i].seq <= n <=> i <= n
  BY <1>1 DEF Replays
<1>3. ASSUME NEW k \in 0..Len(s), \A i \in DOMAIN s : s[i].seq <= n <=> i <= k PROVE k = n
  <2>1. \A i \in 1..Len(s) : i <= n <=> i <= k
    BY <1>1, <1>2, <1>3
  <2>2. ~(k < n)
    BY <1>1, <2>1
  <2>3. ~(n < k)
    BY <1>1, <2>1
  <2> QED
    BY <1>1, <2>2, <2>3
<1> QED
  BY <1>2, <1>3, Zenon DEF UpTo

-----------------------------------------------------------------------------
(* How the worlds change.                                                   *)

Parents == SimTypeOK /\ Descends /\ Worlds

LEMMA ParentsOlder == Parents => Older(simRun)
  BY DEF Parents, SimTypeOK, RunRow, Descends, Older

LEMMA RowFacts ==
    ASSUME Parents, NEW r \in SimRuns
    PROVE  /\ simRun[r] \in RunRow /\ simRun[r].fork \in Nat /\ simRun[r].round \in Nat
           /\ simRun[r].parent \in SimRuns \cup {0} /\ 0 \notin SimRuns
           /\ ledger[r] \in Seq(Event) /\ Len(ledger[r]) \in Nat
           /\ EventsOf[r] \in Seq(Event) /\ Len(EventsOf[r]) \in Nat
           /\ Replays(EventsOf[r]) /\ Len(EventsOf[r]) = simRun[r].fork + Len(ledger[r])
           /\ simRun[r].parent # 0 =>
                simRun[r].parent < r /\ simRun[r].fork \in 0..Len(EventsOf[simRun[r].parent])
<1>1. simRun[r] \in RunRow /\ ledger[r] \in Seq(Event) /\ EventsOf[r] \in Seq(Event)
  BY DEF Parents, SimTypeOK, Worlds
<1>2. Len(ledger[r]) \in Nat /\ Len(EventsOf[r]) \in Nat
  BY <1>1
<1>3. simRun[r].fork \in Nat /\ simRun[r].round \in Nat /\ simRun[r].parent \in SimRuns \cup {0}
  BY <1>1 DEF RunRow
<1>4. Replays(EventsOf[r]) /\ Len(EventsOf[r]) = simRun[r].fork + Len(ledger[r])
  BY DEF Parents, Worlds
<1>5. 0 \notin SimRuns
  BY SimAssumption
<1>6. simRun[r].parent # 0 => simRun[r].parent < r /\ simRun[r].fork \in 0..Len(EventsOf[simRun[r].parent])
  <2>1. SUFFICES ASSUME simRun[r].parent # 0
                 PROVE simRun[r].parent < r /\ simRun[r].fork \in 0..Len(EventsOf[simRun[r].parent])
    OBVIOUS
  <2>2. simRun[r].parent < r /\ simRun[r].fork <= Len(EventsOf[simRun[r].parent])
    BY <2>1 DEF Parents, Descends
  <2>3. EventsOf[simRun[r].parent] \in Seq(Event)
    BY <1>3, <2>1 DEF Parents, Worlds
  <2> QED
    BY <1>3, <2>2, <2>3
<1> QED
  BY <1>1, <1>2, <1>3, <1>4, <1>5, <1>6

\* The beginning of a world.
LEMMA FirstPart ==
    ASSUME NEW s \in Seq(Event), NEW n \in 0..Len(s)
    PROVE  /\ SubSeq(s, 1, n) \in Seq(Event) /\ Len(SubSeq(s, 1, n)) = n
           /\ \A i \in 1..n : SubSeq(s, 1, n)[i] = s[i]
<1>1. n \in Nat /\ n <= Len(s) /\ \A i \in 1..n : s[i] \in Event
  OBVIOUS
<1>2. /\ SubSeq(s, 1, n) \in Seq(Event) /\ Len(SubSeq(s, 1, n)) = IF 1 <= n THEN n - 1 + 1 ELSE 0
      /\ \A i \in 1..n - 1 + 1 : SubSeq(s, 1, n)[i] = s[1 + i - 1]
  BY <1>1, SubSeqProperties
<1> QED
  BY <1>1, <1>2

LEMMA SameFirstPart ==
    ASSUME NEW s \in Seq(Event), NEW t \in Seq(Event), StartOf(s, t), NEW n \in 0..Len(s)
    PROVE  SubSeq(s, 1, n) = SubSeq(t, 1, n)
<1>1. n \in 0..Len(t)
  BY DEF StartOf
<1>2. /\ SubSeq(s, 1, n) \in Seq(Event) /\ Len(SubSeq(s, 1, n)) = n
      /\ \A i \in 1..n : SubSeq(s, 1, n)[i] = s[i]
  BY FirstPart
<1>3. /\ SubSeq(t, 1, n) \in Seq(Event) /\ Len(SubSeq(t, 1, n)) = n
      /\ \A i \in 1..n : SubSeq(t, 1, n)[i] = t[i]
  BY <1>1, FirstPart
<1>4. \A i \in 1..n : s[i] = t[i]
  BY DEF StartOf
<1> QED
  BY <1>2, <1>3, <1>4, SeqEqual

\* A world as its run has it: the fork counts the events of the parent.
WorldOf(f, rows, led, r) ==
    IF rows[r].parent = 0 THEN led[r] ELSE SubSeq(f[rows[r].parent], 1, rows[r].fork) \o led[r]

LEMMA WorldIs ==
    ASSUME Parents, NEW r \in SimRuns
    PROVE  EventsOf[r] = WorldOf(EventsOf, simRun, ledger, r)
<1>1. EventsOf[r] = Value(EventsOf, simRun, ledger, r)
  BY ParentsOlder, EventsSolve DEF Solves
<1>2. simRun[r].parent # 0 => UpTo(EventsOf[simRun[r].parent], simRun[r].fork) = simRun[r].fork
  <2>1. SUFFICES ASSUME simRun[r].parent # 0
                 PROVE UpTo(EventsOf[simRun[r].parent], simRun[r].fork) = simRun[r].fork
    OBVIOUS
  <2>2. simRun[r].parent \in SimRuns /\ simRun[r].fork \in 0..Len(EventsOf[simRun[r].parent])
    BY <2>1, RowFacts
  <2>3. EventsOf[simRun[r].parent] \in Seq(Event) /\ Replays(EventsOf[simRun[r].parent])
    BY <2>2, RowFacts
  <2> QED
    BY <2>2, <2>3, UpToIs
<1> QED
  BY <1>1, <1>2 DEF Value, WorldOf

\* The worlds after a step are those that solve the equation.
LEMMA NextWorlds ==
    ASSUME Older(simRun)', NEW g, DOMAIN g = SimRuns,
           \A r \in SimRuns : /\ g[r] \in Seq(Event) /\ Replays(g[r])
                              /\ g[r] = WorldOf(g, simRun', ledger', r)
                              /\ simRun'[r].parent # 0 => simRun'[r].fork \in 0..Len(g[simRun'[r].parent]),
           g = [r \in SimRuns |-> g[r]]
    PROVE  EventsOf' = g
<1>1. (Older(simRun) => Solves(EventsOf, simRun, ledger))'
  BY EventsSolve, PTL
<1>2. Older(simRun') /\ Solves(EventsOf', simRun', ledger')
  BY <1>1 DEF Older, Solves, Value
<1>3. Solves(g, simRun', ledger')
  <2>1. ASSUME NEW r \in SimRuns PROVE g[r] = Value(g, simRun', ledger', r)
    <3>1. simRun'[r].parent # 0 => UpTo(g[simRun'[r].parent], simRun'[r].fork) = simRun'[r].fork
      <4>1. SUFFICES ASSUME simRun'[r].parent # 0
                     PROVE UpTo(g[simRun'[r].parent], simRun'[r].fork) = simRun'[r].fork
        OBVIOUS
      <4>2. simRun'[r].parent \in SimRuns
        BY <1>2, <4>1 DEF Older
      <4> QED
        BY <4>1, <4>2, UpToIs
    <3> QED
      BY <3>1 DEF Value, WorldOf
  <2> QED
    BY <2>1 DEF Solves
<1> QED
  BY <1>2, <1>3, SolutionUnique

\* No world shrinks, and the rows are in order: what a step does to them.
Extends ==
    /\ Descends' /\ Worlds'
    /\ \A r \in SimRuns : StartOf(EventsOf[r], EventsOf'[r])

\* No event and no branch: the worlds stay.
RowsKept ==
    /\ ledger' = ledger
    /\ \A r \in SimRuns :
          /\ simRun'[r].parent = simRun[r].parent /\ simRun'[r].fork = simRun[r].fork
          /\ RunExists(r) => simRun'[r].status # "absent"

LEMMA KeptWorlds ==
    ASSUME Parents, RowsKept
    PROVE  EventsOf' = EventsOf
<1>1. Older(simRun)'
  BY ParentsOlder DEF RowsKept, Older
<1>2. ASSUME NEW r \in SimRuns
      PROVE /\ EventsOf[r] \in Seq(Event) /\ Replays(EventsOf[r])
            /\ EventsOf[r] = WorldOf(EventsOf, simRun', ledger', r)
            /\ simRun'[r].parent # 0 => simRun'[r].fork \in 0..Len(EventsOf[simRun'[r].parent])
  <2>1. EventsOf[r] = WorldOf(EventsOf, simRun, ledger, r)
    BY WorldIs
  <2>2. WorldOf(EventsOf, simRun, ledger, r) = WorldOf(EventsOf, simRun', ledger', r)
    BY DEF WorldOf, RowsKept
  <2> QED
    BY <2>1, <2>2, RowFacts DEF RowsKept
<1>3. DOMAIN EventsOf = SimRuns /\ EventsOf = [r \in SimRuns |-> EventsOf[r]]
  BY DEF Parents, Worlds
<1> QED
  BY <1>1, <1>2, <1>3, NextWorlds

LEMMA KeptExtends ==
    ASSUME Parents, RowsKept
    PROVE  Extends
<1>1. EventsOf' = EventsOf
  BY KeptWorlds
<1>2. Worlds'
  BY <1>1 DEF Parents, Worlds, RowsKept, Replays
<1>3. Descends'
  <2>1. SUFFICES ASSUME NEW r \in SimRuns
                 PROVE /\ simRun'[r].parent = 0 => simRun'[r].fork = 0
                       /\ simRun'[r].parent # 0 =>
                             /\ simRun'[r].parent < r /\ simRun'[simRun'[r].parent].status # "absent"
                             /\ simRun'[r].fork <= Len(EventsOf[simRun'[r].parent])
                       /\ simRun'[r].status = "absent" => simRun'[r].parent = 0 /\ ledger'[r] = <<>>
    BY <1>1 DEF Descends, RunExists
  <2>2. simRun[r].parent \in SimRuns \cup {0}
    BY RowFacts
  <2> QED
    BY <2>2 DEF Parents, Descends, RowsKept, RunExists
<1>4. \A r \in SimRuns : StartOf(EventsOf[r], EventsOf'[r])
  BY <1>1, RowFacts DEF StartOf
<1> QED
  BY <1>2, <1>3, <1>4 DEF Extends

\* A batch in sequence is appended to the world of its run.
Grows(r, b) ==
    /\ ledger' = [ledger EXCEPT ![r] = @ \o b]
    /\ \A x \in SimRuns :
          /\ simRun'[x].parent = simRun[x].parent /\ simRun'[x].fork = simRun[x].fork
          /\ simRun'[x].status = simRun[x].status

LEMMA Reassociated ==
    ASSUME NEW s \in Seq(Event), NEW t \in Seq(Event), NEW u \in Seq(Event)
    PROVE  s \o (t \o u) = (s \o t) \o u
  BY ConcatAssociative

LEMMA StartOfConcat ==
    ASSUME NEW s \in Seq(Event), NEW t \in Seq(Event)
    PROVE  StartOf(s, s \o t)
<1>1. Len(s) \in Nat /\ Len(t) \in Nat
  OBVIOUS
<1> QED
  BY <1>1, ConcatProperties DEF StartOf

LEMMA GrownReplays ==
    ASSUME NEW s \in Seq(Event), NEW b \in Seq(Event), Replays(s), \A i \in DOMAIN b : b[i].seq = Len(s) + i
    PROVE  s \o b \in Seq(Event) /\ Replays(s \o b) /\ Len(s \o b) = Len(s) + Len(b)
<1>1. Len(s) \in Nat /\ Len(b) \in Nat /\ DOMAIN s = 1..Len(s) /\ DOMAIN b = 1..Len(b)
  OBVIOUS
<1>2. /\ s \o b \in Seq(Event) /\ Len(s \o b) = Len(s) + Len(b)
      /\ \A i \in 1..Len(s) + Len(b) : (s \o b)[i] = IF i <= Len(s) THEN s[i] ELSE b[i - Len(s)]
  BY ConcatProperties
<1>3. ASSUME NEW i \in DOMAIN (s \o b) PROVE (s \o b)[i].seq = i
  <2>1. i \in 1..Len(s) + Len(b)
    BY <1>2
  <2>2. CASE i <= Len(s)
    BY <1>1, <1>2, <2>1, <2>2 DEF Replays
  <2>3. CASE ~(i <= Len(s))
    <3>1. i - Len(s) \in 1..Len(b) /\ Len(s) + (i - Len(s)) = i
      BY <1>1, <2>1, <2>3
    <3> QED
      BY <1>1, <1>2, <2>1, <2>3, <3>1
  <2> QED
    BY <2>2, <2>3
<1> QED
  BY <1>2, <1>3 DEF Replays

LEMMA GrownWorlds ==
    ASSUME Parents, NEW r \in SimRuns, NEW b \in Seq(Event), Grows(r, b),
           \A i \in DOMAIN b : b[i].seq = Len(EventsOf[r]) + i
    PROVE  EventsOf' = [EventsOf EXCEPT ![r] = EventsOf[r] \o b]
<1> DEFINE g == [EventsOf EXCEPT ![r] = EventsOf[r] \o b]
<1>1. Older(simRun)'
  BY ParentsOlder DEF Grows, Older
<1>2. DOMAIN EventsOf = SimRuns /\ DOMAIN ledger = SimRuns
  BY DEF Parents, Worlds, SimTypeOK
<1>3. g[r] = EventsOf[r] \o b /\ \A x \in SimRuns \ {r} : g[x] = EventsOf[x]
  BY <1>2
<1>4. ledger'[r] = ledger[r] \o b /\ \A x \in SimRuns \ {r} : ledger'[x] = ledger[x]
  BY <1>2 DEF Grows
<1>5. DOMAIN g = SimRuns /\ g = [x \in SimRuns |-> g[x]]
  BY <1>2
<1> HIDE DEF g
<1>6. ASSUME NEW x \in SimRuns
      PROVE  g[x] \in Seq(Event) /\ Replays(g[x]) /\ StartOf(EventsOf[x], g[x])
  <2>1. CASE x = r
    <3>1. EventsOf[r] \in Seq(Event) /\ Replays(EventsOf[r])
      BY RowFacts
    <3>2. EventsOf[r] \o b \in Seq(Event) /\ Replays(EventsOf[r] \o b)
      BY <3>1, GrownReplays
    <3>3. StartOf(EventsOf[r], EventsOf[r] \o b)
      BY <3>1, StartOfConcat
    <3> QED
      BY <1>3, <2>1, <3>2, <3>3
  <2>2. CASE x # r
    BY <1>3, <2>2, RowFacts DEF StartOf
  <2> QED
    BY <2>1, <2>2
<1>7. ASSUME NEW x \in SimRuns
      PROVE  /\ g[x] = WorldOf(g, simRun', ledger', x)
             /\ simRun'[x].parent # 0 => simRun'[x].fork \in 0..Len(g[simRun'[x].parent])
  <2> DEFINE p == simRun[x].parent
             n == simRun[x].fork
  <2>1. simRun'[x].parent = p /\ simRun'[x].fork = n
    BY DEF Grows
  <2>2. p \in SimRuns \cup {0} /\ 0 \notin SimRuns /\ ledger[x] \in Seq(Event)
    BY RowFacts
  <2>3. EventsOf[x] = WorldOf(EventsOf, simRun, ledger, x)
    BY WorldIs
  <2>4. CASE p = 0
    <3>1. EventsOf[x] = ledger[x] /\ WorldOf(g, simRun', ledger', x) = ledger'[x]
      BY <2>1, <2>3, <2>4 DEF WorldOf
    <3> QED
      BY <1>3, <1>4, <2>1, <2>4, <3>1
  <2>5. CASE p # 0
    <3>1. p \in SimRuns /\ n \in 0..Len(EventsOf[p]) /\ EventsOf[p] \in Seq(Event)
      BY <2>2, <2>5, RowFacts
    <3>2. SubSeq(EventsOf[p], 1, n) = SubSeq(g[p], 1, n) /\ SubSeq(EventsOf[p], 1, n) \in Seq(Event)
      BY <1>6, <3>1, SameFirstPart, FirstPart
    <3>3. n \in 0..Len(g[p])
      <4>1. Len(g[p]) \in Nat /\ Len(EventsOf[p]) <= Len(g[p]) /\ Len(EventsOf[p]) \in Nat
        BY <1>6, <3>1 DEF StartOf
      <4> QED
        BY <3>1, <4>1
    <3>4. EventsOf[x] = SubSeq(EventsOf[p], 1, n) \o ledger[x]
      BY <2>3, <2>5 DEF WorldOf
    <3>5. WorldOf(g, simRun', ledger', x) = SubSeq(EventsOf[p], 1, n) \o ledger'[x]
      BY <2>1, <2>5, <3>2 DEF WorldOf
    <3>6. CASE x # r
      BY <1>3, <1>4, <2>1, <3>3, <3>4, <3>5, <3>6
    <3>7. CASE x = r
      <4>1. SubSeq(EventsOf[p], 1, n) \o (ledger[x] \o b) = (SubSeq(EventsOf[p], 1, n) \o ledger[x]) \o b
        BY <2>2, <3>2, Reassociated
      <4> QED
        BY <1>3, <1>4, <2>1, <3>3, <3>4, <3>5, <3>7, <4>1
    <3> QED
      BY <3>6, <3>7
  <2> QED
    BY <2>4, <2>5
<1>8. EventsOf' = g
  BY <1>1, <1>5, <1>6, <1>7, NextWorlds
<1> QED
  BY <1>8 DEF g

LEMMA GrownExtends ==
    ASSUME Parents, NEW r \in SimRuns, NEW b \in Seq(Event), Grows(r, b), RunExists(r),
           \A i \in DOMAIN b : b[i].seq = Len(EventsOf[r]) + i
    PROVE  Extends
<1>1. EventsOf' = [EventsOf EXCEPT ![r] = EventsOf[r] \o b]
  BY GrownWorlds
<1>2. DOMAIN EventsOf = SimRuns /\ DOMAIN ledger = SimRuns
  BY DEF Parents, Worlds, SimTypeOK
<1>3. EventsOf'[r] = EventsOf[r] \o b /\ \A x \in SimRuns \ {r} : EventsOf'[x] = EventsOf[x]
  BY <1>1, <1>2
<1>4. ledger'[r] = ledger[r] \o b /\ \A x \in SimRuns \ {r} : ledger'[x] = ledger[x]
  BY <1>2 DEF Grows
<1>5. ASSUME NEW x \in SimRuns
      PROVE  /\ EventsOf'[x] \in Seq(Event) /\ Replays(EventsOf'[x]) /\ StartOf(EventsOf[x], EventsOf'[x])
             /\ Len(EventsOf'[x]) = simRun'[x].fork + Len(ledger'[x])
  <2>1. CASE x = r
    <3>1. Len(ledger[x] \o b) = Len(ledger[x]) + Len(b) /\ Len(b) \in Nat
      BY RowFacts, ConcatProperties
    <3>2. EventsOf[x] \o b \in Seq(Event) /\ Replays(EventsOf[x] \o b) /\ StartOf(EventsOf[x], EventsOf[x] \o b)
      BY <2>1, GrownReplays, StartOfConcat, RowFacts
    <3>3. Len(EventsOf[x] \o b) = Len(EventsOf[x]) + Len(b)
      BY <2>1, GrownReplays, RowFacts
    <3>4. simRun'[x].fork = simRun[x].fork
      BY DEF Grows
    <3>5. Len(EventsOf[x] \o b) = simRun'[x].fork + Len(ledger'[x])
      <4>1. Len(EventsOf[x]) = simRun[x].fork + Len(ledger[x]) /\ simRun[x].fork \in Nat /\ Len(ledger[x]) \in Nat
        BY RowFacts
      <4>2. Len(ledger'[x]) = Len(ledger[x]) + Len(b) /\ Len(EventsOf[x] \o b) = Len(EventsOf[x]) + Len(b)
        BY <1>4, <2>1, <3>1, <3>3
      <4> QED
        BY <3>1, <3>4, <4>1, <4>2
    <3> QED
      BY <1>3, <2>1, <3>2, <3>5
  <2>2. CASE x # r
    BY <1>3, <1>4, <2>2, RowFacts DEF StartOf, Grows
  <2> QED
    BY <2>1, <2>2
<1>6. Worlds'
  <2>1. DOMAIN EventsOf' = SimRuns /\ EventsOf' = [x \in SimRuns |-> EventsOf'[x]]
    BY <1>1, <1>2
  <2>2. EventsOf' \in [SimRuns -> Seq(Event)]
    BY <1>5, <2>1
  <2>3. \A x \in SimRuns : Replays(EventsOf[x])'
    BY <1>5 DEF Replays
  <2> QED
    BY <1>5, <2>2, <2>3 DEF Worlds
<1>7. Descends'
  <2>1. SUFFICES ASSUME NEW x \in SimRuns
                 PROVE /\ simRun'[x].parent = 0 => simRun'[x].fork = 0
                       /\ simRun'[x].parent # 0 =>
                             /\ simRun'[x].parent < x /\ simRun'[simRun'[x].parent].status # "absent"
                             /\ simRun'[x].fork <= Len(EventsOf'[simRun'[x].parent])
                       /\ simRun'[x].status = "absent" => simRun'[x].parent = 0 /\ ledger'[x] = <<>>
    BY DEF Descends, RunExists
  <2>2. simRun[x].parent \in SimRuns \cup {0} /\ simRun[x].fork \in Nat
    BY RowFacts
  <2>3. simRun[x].parent # 0 => Len(EventsOf[simRun[x].parent]) <= Len(EventsOf'[simRun[x].parent])
    BY <1>5, <2>2 DEF StartOf
  <2>4. simRun[x].parent # 0 => simRun[x].fork <= Len(EventsOf'[simRun[x].parent])
    <3>1. simRun[x].parent # 0 => /\ Len(EventsOf[simRun[x].parent]) \in Nat
                                  /\ Len(EventsOf'[simRun[x].parent]) \in Nat
      BY <1>5, <2>2, RowFacts
    <3>2. simRun[x].parent # 0 => simRun[x].fork <= Len(EventsOf[simRun[x].parent])
      BY DEF Parents, Descends
    <3> QED
      BY <2>2, <2>3, <3>1, <3>2
  <2>5. simRun[x].status = "absent" => ledger'[x] = <<>> /\ simRun[x].parent = 0
    BY <1>4 DEF Parents, Descends, RunExists
  <2> QED
    BY <2>2, <2>4, <2>5 DEF Parents, Descends, Grows, RunExists
<1> QED
  BY <1>5, <1>6, <1>7 DEF Extends

\* A branch starts with the events up to its fork.
Forks(r, child, fork) ==
    /\ ledger' = ledger
    /\ simRun'[child].parent = r /\ simRun'[child].fork = fork /\ simRun'[child].status # "absent"
    /\ \A x \in SimRuns \ {child} : simRun'[x] = simRun[x]

LEMMA BranchedWorlds ==
    ASSUME Parents, NEW r \in SimRuns, NEW child \in SimRuns, NEW fork \in 0..Len(EventsOf[r]),
           Forks(r, child, fork), r < child, ~RunExists(child)
    PROVE  EventsOf' = [EventsOf EXCEPT ![child] = SubSeq(EventsOf[r], 1, fork)]
<1> DEFINE g == [EventsOf EXCEPT ![child] = SubSeq(EventsOf[r], 1, fork)]
<1>1. Older(simRun)'
  BY ParentsOlder DEF Forks, Older
<1>2. DOMAIN EventsOf = SimRuns /\ r # child /\ 0 \notin SimRuns
  BY SimAssumption DEF Parents, Worlds
<1>3. g[child] = SubSeq(EventsOf[r], 1, fork) /\ \A x \in SimRuns \ {child} : g[x] = EventsOf[x]
  BY <1>2
<1>4. DOMAIN g = SimRuns /\ g = [x \in SimRuns |-> g[x]]
  BY <1>2
<1> HIDE DEF g
<1>5. g[child] \in Seq(Event) /\ Replays(g[child])
  <2>1. EventsOf[r] \in Seq(Event) /\ Replays(EventsOf[r])
    BY RowFacts
  <2>2. /\ SubSeq(EventsOf[r], 1, fork) \in Seq(Event) /\ Len(SubSeq(EventsOf[r], 1, fork)) = fork
        /\ \A i \in 1..fork : SubSeq(EventsOf[r], 1, fork)[i] = EventsOf[r][i]
    BY <2>1, FirstPart
  <2> QED
    BY <1>3, <2>1, <2>2 DEF Replays
<1>6. ASSUME NEW x \in SimRuns
      PROVE  /\ g[x] \in Seq(Event) /\ Replays(g[x])
             /\ g[x] = WorldOf(g, simRun', ledger', x)
             /\ simRun'[x].parent # 0 => simRun'[x].fork \in 0..Len(g[simRun'[x].parent])
  <2>1. CASE x = child
    <3>1. ledger'[child] = <<>> /\ simRun'[child].parent = r /\ simRun'[child].fork = fork
      BY DEF Forks, Parents, Descends
    <3>2. WorldOf(g, simRun', ledger', child) = SubSeq(g[r], 1, fork) \o <<>>
      BY <1>2, <3>1 DEF WorldOf
    <3>3. SubSeq(g[r], 1, fork) = g[child]
      BY <1>2, <1>3
    <3>4. g[child] \o <<>> = g[child]
      BY <1>5, ConcatEmptySeq
    <3> QED
      BY <1>2, <1>3, <1>5, <2>1, <3>1, <3>2, <3>3, <3>4
  <2>2. CASE x # child
    <3>1. simRun'[x] = simRun[x] /\ ledger'[x] = ledger[x]
      BY <2>2 DEF Forks
    <3>2. simRun[x].parent # 0 => simRun[x].parent \in SimRuns \ {child}
      BY RowFacts DEF Parents, Descends
    <3>3. WorldOf(g, simRun', ledger', x) = WorldOf(EventsOf, simRun, ledger, x)
      BY <1>3, <3>1, <3>2 DEF WorldOf
    <3> QED
      BY <1>3, <2>2, <3>1, <3>2, <3>3, WorldIs, RowFacts
  <2> QED
    BY <2>1, <2>2
<1>7. EventsOf' = g
  BY <1>1, <1>4, <1>6, NextWorlds
<1> QED
  BY <1>7 DEF g

LEMMA BranchedExtends ==
    ASSUME Parents, NEW r \in SimRuns, NEW child \in SimRuns, NEW fork \in 0..Len(EventsOf[r]),
           Forks(r, child, fork), r < child, ~RunExists(child), RunExists(r)
    PROVE  Extends
<1>1. EventsOf' = [EventsOf EXCEPT ![child] = SubSeq(EventsOf[r], 1, fork)]
  BY BranchedWorlds
<1>2. DOMAIN EventsOf = SimRuns /\ r # child /\ 0 \notin SimRuns
  BY SimAssumption DEF Parents, Worlds
<1>3. EventsOf'[child] = SubSeq(EventsOf[r], 1, fork) /\ \A x \in SimRuns \ {child} : EventsOf'[x] = EventsOf[x]
  BY <1>1, <1>2
<1>4. EventsOf[r] \in Seq(Event) /\ Replays(EventsOf[r])
  BY RowFacts
<1>5. /\ SubSeq(EventsOf[r], 1, fork) \in Seq(Event) /\ Len(SubSeq(EventsOf[r], 1, fork)) = fork
      /\ \A i \in 1..fork : SubSeq(EventsOf[r], 1, fork)[i] = EventsOf[r][i]
  BY <1>4, FirstPart
<1>6. ledger'[child] = <<>> /\ simRun'[child].fork = fork /\ ledger[child] = <<>> /\ simRun[child].parent = 0
  BY DEF Forks, Parents, Descends
<1>7. EventsOf[child] = <<>>
  BY <1>6, WorldIs DEF WorldOf
<1>8. ASSUME NEW x \in SimRuns
      PROVE  /\ EventsOf'[x] \in Seq(Event) /\ Replays(EventsOf'[x]) /\ StartOf(EventsOf[x], EventsOf'[x])
             /\ Len(EventsOf'[x]) = simRun'[x].fork + Len(ledger'[x])
  <2>1. CASE x = child
    BY <1>3, <1>4, <1>5, <1>6, <1>7, <2>1 DEF StartOf, Replays
  <2>2. CASE x # child
    BY <1>3, <2>2, RowFacts DEF StartOf, Forks
  <2> QED
    BY <2>1, <2>2
<1>9. Worlds'
  <2>1. DOMAIN EventsOf' = SimRuns /\ EventsOf' = [x \in SimRuns |-> EventsOf'[x]]
    BY <1>1, <1>2
  <2>2. EventsOf' \in [SimRuns -> Seq(Event)]
    BY <1>8, <2>1
  <2>3. \A x \in SimRuns : Replays(EventsOf[x])'
    BY <1>8 DEF Replays
  <2> QED
    BY <1>8, <2>2, <2>3 DEF Worlds
<1>10. Descends'
  <2>1. SUFFICES ASSUME NEW x \in SimRuns
                 PROVE /\ simRun'[x].parent = 0 => simRun'[x].fork = 0
                       /\ simRun'[x].parent # 0 =>
                             /\ simRun'[x].parent < x /\ simRun'[simRun'[x].parent].status # "absent"
                             /\ simRun'[x].fork <= Len(EventsOf'[simRun'[x].parent])
                       /\ simRun'[x].status = "absent" => simRun'[x].parent = 0 /\ ledger'[x] = <<>>
    BY DEF Descends, RunExists
  <2>2. CASE x = child
    <3>1. simRun'[child].parent = r /\ simRun'[child].status # "absent" /\ simRun'[r] = simRun[r]
      BY <1>2 DEF Forks
    <3>2. EventsOf'[r] = EventsOf[r] /\ fork <= Len(EventsOf[r])
      BY <1>2, <1>3
    <3> QED
      BY <1>2, <1>6, <2>2, <3>1, <3>2 DEF RunExists
  <2>3. CASE x # child
    <3>1. simRun'[x] = simRun[x] /\ ledger'[x] = ledger[x]
      BY <2>3 DEF Forks
    <3>2. simRun[x].parent # 0 => simRun[x].parent \in SimRuns \ {child}
      BY RowFacts DEF Parents, Descends
    <3>3. simRun[x].parent # 0 => /\ simRun'[simRun[x].parent] = simRun[simRun[x].parent]
                                  /\ EventsOf'[simRun[x].parent] = EventsOf[simRun[x].parent]
      BY <1>3, <3>2 DEF Forks
    <3> QED
      BY <3>1, <3>2, <3>3 DEF Parents, Descends, RunExists
  <2> QED
    BY <2>2, <2>3
<1> QED
  BY <1>8, <1>9, <1>10 DEF Extends

-----------------------------------------------------------------------------
(* The invariant of the sandbox, step by step.                              *)

LEMMA StartOfTransitive ==
    ASSUME NEW s \in Seq(Event), NEW t \in Seq(Event), NEW u \in Seq(Event), StartOf(s, t), StartOf(t, u)
    PROVE  StartOf(s, u)
<1>1. Len(s) \in Nat /\ Len(t) \in Nat /\ Len(u) \in Nat
  OBVIOUS
<1> QED
  BY <1>1 DEF StartOf

RoundTasksOK ==
    /\ roundTask \in [Key -> RoundTaskRow]
    /\ \A k \in Key : roundTask[k].owner = NoExecutor \/ roundTask[k].status = "running"

\* Checkpoints of before, and new ones that are worlds of the past.
CheckpointsKept ==
    /\ DOMAIN ckpt' = SimRuns
    /\ \A r \in SimRuns : \A c \in ckpt'[r] :
          \/ c \in ckpt[r]
          \/ c.world \in Seq(Event) /\ c.seq = Len(c.world) /\ StartOf(c.world, EventsOf[r])

LEMMA Stepped ==
    ASSUME SimInv, NEW e \in Processes, NEW l \in ExecRow, exec' = [exec EXCEPT ![e] = l], InHand(e, l),
           Extends, CheckpointsKept, RoundTasksOK',
           simRun' \in [SimRuns -> RunRow], ledger' \in [SimRuns -> Seq(Event)], remembered' \subseteq SimRuns \X Nat,
           fate' \in [trouble: 0..MaxTrouble, takenOver: BOOLEAN]
    PROVE  SimInv'
<1>1. Parents
  BY DEF SimInv, Parents
<1>2. exec \in [Processes -> ExecRow]
  BY DEF SimInv, SimTypeOK, Processes
<1>3. exec'[e] = l /\ \A f \in Processes \ {e} : exec'[f] = exec[f]
  BY <1>2
<1>4. exec' \in [Processes -> ExecRow]
  BY <1>2
<1>5. ASSUME NEW r \in SimRuns, NEW c \in ckpt'[r]
      PROVE  /\ c.seq \in Nat /\ c.world \in Seq(Event)
             /\ c.seq = Len(c.world) /\ StartOf(c.world, EventsOf'[r])
  <2>1. c.world \in Seq(Event) /\ c.seq = Len(c.world) /\ StartOf(c.world, EventsOf[r])
    BY DEF CheckpointsKept, SimInv, SimTypeOK, Checkpoints
  <2>2. StartOf(EventsOf[r], EventsOf'[r]) /\ EventsOf[r] \in Seq(Event) /\ EventsOf'[r] \in Seq(Event)
    BY <1>1, RowFacts DEF Extends, Worlds
  <2>3. Len(c.world) \in Nat
    BY <2>1
  <2> QED
    BY <2>1, <2>2, <2>3, StartOfTransitive
<1>6. SimTypeOK'
  <2>1. \A r \in SimRuns : \A c \in ckpt'[r] : c.seq \in Nat /\ c.world \in Seq(Event)
    BY <1>5
  <2> QED
    BY <1>4, <2>1 DEF SimTypeOK, RoundTasksOK, Processes
<1>7. Checkpoints'
  BY <1>5 DEF Checkpoints, CheckpointsKept, StartOf
<1>8. ASSUME NEW f \in Processes PROVE InHand(f, exec[f])'
  <2>1. InHand(f, exec'[f])
    BY <1>3 DEF SimInv
  <2>2. exec'[f].pc = "checkpointing" => StartOf(exec'[f].world, EventsOf'[exec'[f].key.run])
    <3>1. SUFFICES ASSUME exec'[f].pc = "checkpointing" PROVE StartOf(exec'[f].world, EventsOf'[exec'[f].key.run])
      OBVIOUS
    <3>2. exec'[f].world \in Seq(Event) /\ exec'[f].key.run \in SimRuns
      <4>1. exec'[f] \in ExecRow
        BY <1>4
      <4> QED
        BY <4>1 DEF ExecRow
    <3>3. StartOf(exec'[f].world, EventsOf[exec'[f].key.run])
      BY <2>1, <3>1 DEF InHand
    <3>4. /\ StartOf(EventsOf[exec'[f].key.run], EventsOf'[exec'[f].key.run])
          /\ EventsOf[exec'[f].key.run] \in Seq(Event) /\ EventsOf'[exec'[f].key.run] \in Seq(Event)
      BY <1>1, <3>2, RowFacts DEF Extends, Worlds
    <3> QED
      BY <3>2, <3>3, <3>4, StartOfTransitive
  <2> QED
    BY <2>1, <2>2 DEF InHand, Consecutive, StartOf
<1> QED
  BY <1>6, <1>7, <1>8 DEF SimInv, Extends, Processes

\* Rows may change, but nothing is appended, branched or checkpointed.
LEMMA SteppedRows ==
    ASSUME SimInv, NEW e \in Processes, NEW l \in ExecRow, exec' = [exec EXCEPT ![e] = l], InHand(e, l),
           RowsKept, simRun' \in [SimRuns -> RunRow], ckpt' = ckpt, RoundTasksOK',
           remembered' \subseteq SimRuns \X Nat, fate' \in [trouble: 0..MaxTrouble, takenOver: BOOLEAN]
    PROVE  SimInv'
<1>1. Extends
  BY KeptExtends DEF SimInv, Parents
<1>2. CheckpointsKept
  BY DEF CheckpointsKept, SimInv, Checkpoints
<1>3. ledger' \in [SimRuns -> Seq(Event)]
  BY DEF SimInv, SimTypeOK, RowsKept
<1> QED
  BY <1>1, <1>2, <1>3, Stepped

\* Only the process and its task move.
LEMMA SteppedAlone ==
    ASSUME SimInv, NEW e \in Processes, NEW l \in ExecRow, exec' = [exec EXCEPT ![e] = l], InHand(e, l),
           UNCHANGED <<simRun, ledger, ckpt>>, RoundTasksOK',
           remembered' \subseteq SimRuns \X Nat, fate' \in [trouble: 0..MaxTrouble, takenOver: BOOLEAN]
    PROVE  SimInv'
<1>1. RowsKept
  BY DEF RowsKept, RunExists
<1>2. simRun' \in [SimRuns -> RunRow]
  BY DEF SimInv, SimTypeOK
<1> QED
  BY <1>1, <1>2, SteppedRows

LEMMA SimFacts ==
    ASSUME SimInv
    PROVE  /\ Parents /\ RoundTasksOK /\ exec \in [Processes -> ExecRow]
           /\ simRun \in [SimRuns -> RunRow] /\ ledger \in [SimRuns -> Seq(Event)]
           /\ remembered \subseteq SimRuns \X Nat
           /\ fate \in [trouble: 0..MaxTrouble, takenOver: BOOLEAN]
           /\ \A e \in Processes : exec[e] \in ExecRow /\ InHand(e, exec[e])
           /\ DOMAIN ckpt = SimRuns
  BY DEF SimInv, SimTypeOK, Parents, RoundTasksOK, Processes, Checkpoints

LEMMA IdleInHand ==
    ASSUME NEW e \in Processes
    PROVE  NoWork \in ExecRow /\ InHand(e, NoWork)
<1>1. NoWork \in ExecRow
  <2>1. <<>> \in Seq(Event)
    OBVIOUS
  <2>2. Preview(1, 0) \in [run: SimRuns, round: Nat, print: Prints \cup {0}]
    BY SimAssumption DEF Preview
  <2> QED
    BY <2>1, <2>2 DEF NoWork, ExecRow
<1>2. InHand(e, NoWork)
  BY DEF NoWork, InHand
<1> QED
  BY <1>1, <1>2

\* Only the owner settles its task, and gives it up.
LEMMA SettledOK ==
    ASSUME SimInv, NEW e \in Processes, NEW status \in {"queued", "failed", "completed"},
           roundTask' = TaskSettled(e, status)
    PROVE  RoundTasksOK'
  BY SimFacts DEF TaskSettled, RoundTasksOK, RoundTaskRow

LEMMA EndKeeps ==
    ASSUME SimInv, NEW e \in Processes, NEW status \in {"queued", "failed", "completed"}, HandlerEnds(e, status),
           UNCHANGED <<simRun, ledger, remembered, ckpt, fate>>
    PROVE  SimInv'
<1>1. RoundTasksOK'
  BY SettledOK DEF HandlerEnds
<1>2. exec' = [exec EXCEPT ![e] = NoWork] /\ NoWork \in ExecRow /\ InHand(e, NoWork)
  BY IdleInHand DEF HandlerEnds
<1> QED
  BY <1>1, <1>2, SteppedAlone, SimFacts

LEMMA RaiseKeeps == ASSUME SimInv, NEW e \in Processes, Raises(e) PROVE SimInv'
  BY EndKeeps DEF Raises

LEMMA ReturnKeeps == ASSUME SimInv, NEW e \in Processes, Returns(e) PROVE SimInv'
  BY EndKeeps DEF Returns

\* A process that is busy goes on.
Further == {"entering", "reading", "deciding", "remembering", "consolidating", "closing", "completing",
            "settling", "pausing", "halting"}

LEMMA FurtherInHand ==
    ASSUME SimInv, NEW e \in Processes, exec[e].pc \notin {"idle", "enqueuing", "binding"}, NEW l,
           l.key = exec[e].key, l.pc \in Further
    PROVE  InHand(e, l)
<1>1. InHand(e, exec[e])
  BY SimFacts
<1> QED
  BY <1>1 DEF InHand, Further

LEMMA RowFields ==
    ASSUME SimInv, NEW e \in Processes
    PROVE  LET x == exec[e]
           IN  /\ x \in ExecRow /\ x.path \in {"round", "reconcile"} /\ x.world \in Seq(Event) /\ x.batch \in Seq(Event)
               /\ x.todo \in SUBSET Nat /\ x.key \in [run: SimRuns, round: Nat, print: Prints \cup {0}]
               /\ x.key.run \in SimRuns /\ x.key.round \in Nat /\ x.key.print \in Prints \cup {0}
               /\ RunOf(e) = x.key.run /\ RoundOf(e) = x.key.round /\ KeyOf(e) = x.key
<1>1. exec[e] \in ExecRow
  BY SimFacts
<1> QED
  BY <1>1 DEF ExecRow, RunOf, RoundOf, KeyOf

\* A step within the handler that takes something in hand.
LEMMA TakesKeeps ==
    ASSUME SimInv, NEW e \in Processes, exec[e].pc \notin {"idle", "enqueuing", "binding"}, NEW l \in ExecRow,
           l.key = exec[e].key, l.pc \in Further, exec' = [exec EXCEPT ![e] = l],
           UNCHANGED <<simRun, ledger, ckpt, roundTask, fate>>, remembered' \subseteq SimRuns \X Nat
    PROVE  SimInv'
  BY FurtherInHand, SteppedAlone, SimFacts DEF RoundTasksOK

LEMMA MoveKeeps ==
    ASSUME SimInv, NEW e \in Processes, exec[e].pc \notin {"idle", "enqueuing", "binding"}, NEW pc \in Further, MovesOn(e, pc)
    PROVE  SimInv'
<1> DEFINE l == [exec[e] EXCEPT !.pc = pc]
<1>1. exec' = [exec EXCEPT ![e] = l]
  BY DEF MovesOn, Set
<1>2. l \in ExecRow /\ l.pc = pc /\ l.key = exec[e].key
  <2>1. exec[e] \in ExecRow
    BY SimFacts
  <2> QED
    BY <2>1 DEF ExecRow, Further
<1>3. remembered' \subseteq SimRuns \X Nat
  BY SimFacts DEF MovesOn
<1> HIDE DEF l
<1> QED
  BY <1>1, <1>2, <1>3, TakesKeeps DEF MovesOn

LEMMA EnterRoundKeeps == ASSUME SimInv, NEW e \in Processes, EnterRound(e) PROVE SimInv'
<1>1. exec[e].pc \notin {"idle", "enqueuing", "binding"} /\ "reading" \in Further
  BY DEF EnterRound, ExecAt, Further
<1> QED
  BY <1>1, RaiseKeeps, MoveKeeps DEF EnterRound

LEMMA ScheduleRoundKeeps == ASSUME SimInv, NEW e \in Processes, ScheduleRound(e) PROVE SimInv'
<1>1. exec[e].pc \notin {"idle", "enqueuing", "binding"} /\ "entering" \in Further
  BY DEF ScheduleRound, ExecAt, Further
<1> QED
  BY <1>1, RaiseKeeps, MoveKeeps DEF ScheduleRound

LEMMA BudgetStopsKeeps == ASSUME SimInv, NEW e \in Processes, BudgetStops(e) PROVE SimInv'
<1>1. exec[e].pc \notin {"idle", "enqueuing", "binding"} /\ "pausing" \in Further
  BY DEF BudgetStops, Further
<1> QED
  BY <1>1, MoveKeeps DEF BudgetStops

LEMMA BudgetBreaksKeeps == ASSUME SimInv, NEW e \in Processes, BudgetBreaks(e) PROVE SimInv'
  BY RaiseKeeps DEF BudgetBreaks

LEMMA PauseForBudgetKeeps == ASSUME SimInv, NEW e \in Processes, PauseForBudget(e) PROVE SimInv'
<1>1. exec[e].pc \notin {"idle", "enqueuing", "binding"} /\ "halting" \in Further
  BY DEF PauseForBudget, ExecAt, Further
<1> QED
  BY <1>1, ReturnKeeps, MoveKeeps DEF PauseForBudget

LEMMA ProviderFailsKeeps ==
    ASSUME SimInv, NEW e \in Processes, NEW status \in {"queued", "failed"}, ProviderFails(e, status)
    PROVE  SimInv'
<1>1. status \in {"queued", "failed", "completed"}
  OBVIOUS
<1> QED
  BY <1>1, EndKeeps DEF ProviderFails

LEMMA CloseRoundKeeps == ASSUME SimInv, NEW e \in Processes, CloseRound(e) PROVE SimInv'
<1>1. exec[e].pc \notin {"idle", "enqueuing", "binding"} /\ "completing" \in Further /\ "settling" \in Further
  BY DEF CloseRound, ExecAt, Further
<1> QED
  BY <1>1, MoveKeeps DEF CloseRound

LEMMA SettleRoundKeeps == ASSUME SimInv, NEW e \in Processes, SettleRound(e) PROVE SimInv'
  BY ReturnKeeps DEF SettleRound

LEMMA OwnActionsType ==
    ASSUME SimInv, NEW k, k.run \in SimRuns
    PROVE  OwnActions(k) \in SUBSET Nat
<1>1. ledger[k.run] \in Seq(Event)
  BY SimFacts
<1> QED
  BY <1>1 DEF OwnActions

LEMMA ReconcileRoundKeeps == ASSUME SimInv, NEW e \in Processes, ReconcileRound(e) PROVE SimInv'
<1>1. PICK own \in SUBSET Nat : /\ own = OwnActions(KeyOf(e))
        /\ exec' = [exec EXCEPT ![e].pc = "remembering", ![e].path = "reconcile", ![e].todo = own]
  BY RowFields, OwnActionsType DEF ReconcileRound
<1> DEFINE l == [exec[e] EXCEPT !.pc = "remembering", !.path = "reconcile", !.todo = own]
<1>2. exec' = [exec EXCEPT ![e] = l]
  BY <1>1
<1>3. exec[e] \in ExecRow
  BY SimFacts
<1>4. l \in ExecRow /\ l.pc = "remembering" /\ l.key = exec[e].key
  BY <1>3 DEF ExecRow
<1>5. exec[e].pc \notin {"idle", "enqueuing", "binding"} /\ "remembering" \in Further
  BY DEF ReconcileRound, ExecAt, Further
<1>6. remembered' \subseteq SimRuns \X Nat
  BY SimFacts DEF ReconcileRound
<1> HIDE DEF l
<1> QED
  BY <1>2, <1>4, <1>5, <1>6, TakesKeeps DEF ReconcileRound

LEMMA ReadRoundKeeps == ASSUME SimInv, NEW e \in Processes, ReadRound(e) PROVE SimInv'
<1>1. PICK own \in SUBSET Nat, all \in Seq(Event) :
        exec' = [exec EXCEPT ![e].pc = "deciding", ![e].world = all, ![e].todo = own]
  <2>1. (IF e = Studio THEN {} ELSE OwnActions(KeyOf(e))) \in SUBSET Nat
    BY RowFields, OwnActionsType
  <2>2. EventsOf[RunOf(e)] \in Seq(Event)
    BY RowFields, SimFacts, RowFacts
  <2> QED
    BY <2>1, <2>2 DEF ReadRound
<1> DEFINE l == [exec[e] EXCEPT !.pc = "deciding", !.world = all, !.todo = own]
<1>2. exec' = [exec EXCEPT ![e] = l]
  BY <1>1
<1>3. exec[e] \in ExecRow
  BY SimFacts
<1>4. l \in ExecRow /\ l.pc = "deciding" /\ l.key = exec[e].key
  BY <1>3 DEF ExecRow
<1>5. exec[e].pc \notin {"idle", "enqueuing", "binding"} /\ "deciding" \in Further
  BY DEF ReadRound, ExecAt, Further
<1>6. remembered' \subseteq SimRuns \X Nat
  BY SimFacts DEF ReadRound
<1> HIDE DEF l
<1> QED
  BY <1>2, <1>4, <1>5, <1>6, TakesKeeps DEF ReadRound

LEMMA RememberEventKeeps == ASSUME SimInv, NEW e \in Processes, RememberEvent(e) PROVE SimInv'
<1>1. CASE Raises(e)
  BY <1>1, RaiseKeeps
<1>2. CASE ~Raises(e)
  <2>1. PICK i \in exec[e].todo : /\ remembered' = remembered \cup {<<RunOf(e), i>>}
                                  /\ exec' = [exec EXCEPT ![e].todo = exec[e].todo \ {i}]
                                  /\ UNCHANGED <<simRun, ledger, ckpt, roundTask, fate>>
    <3>1. exec[e].todo \subseteq Nat /\ exec[e].todo # {}
      BY RowFields DEF RememberEvent
    <3>2. \E i \in exec[e].todo : \A j \in exec[e].todo : i <= j
      BY <3>1, LeastNumber
    <3> QED
      BY <1>2, <3>2 DEF RememberEvent
  <2> DEFINE l == [exec[e] EXCEPT !.todo = exec[e].todo \ {i}]
  <2>2. exec' = [exec EXCEPT ![e] = l]
    BY <2>1
  <2>3. exec[e] \in ExecRow /\ exec[e].todo \in SUBSET Nat
    BY RowFields
  <2>4. l \in ExecRow /\ l.pc = exec[e].pc /\ l.key = exec[e].key
    BY <2>3 DEF ExecRow
  <2>5. exec[e].pc \notin {"idle", "enqueuing", "binding"} /\ exec[e].pc \in Further
    BY DEF RememberEvent, Further
  <2>6. remembered' \subseteq SimRuns \X Nat
    BY <2>1, <2>3, RowFields, SimFacts
  <2> HIDE DEF l
  <2> QED
    BY <2>1, <2>2, <2>4, <2>5, <2>6, TakesKeeps
<1> QED
  BY <1>1, <1>2

-----------------------------------------------------------------------------
(* What is appended.                                                        *)

\* SetToSeq lists a finite set, each member once.
LEMMA ListedOnce ==
    ASSUME NEW S, IsFiniteSet(S)
    PROVE  /\ Cardinality(S) \in Nat /\ (S # {} => Cardinality(S) >= 1)
           /\ SetToSeq(S) \in [1..Cardinality(S) -> S]
           /\ \A i, j \in 1..Cardinality(S) : SetToSeq(S)[i] = SetToSeq(S)[j] => i = j
<1>1. Cardinality(S) \in Nat /\ ExistsBijection(1..Cardinality(S), S)
  BY FS_CardinalityType
<1>2. PICK f \in [1..Cardinality(S) -> S] : IsInjective(f)
  BY <1>1, Zenon DEF ExistsBijection, Bijection, Injection
<1>3. SetToSeq(S) \in [1..Cardinality(S) -> S] /\ IsInjective(SetToSeq(S))
  BY <1>2, Zenon DEF SetToSeq
<1>4. \A i, j \in 1..Cardinality(S) : SetToSeq(S)[i] = SetToSeq(S)[j] => i = j
  BY <1>3 DEF IsInjective
<1>5. S # {} => Cardinality(S) >= 1
  BY <1>1, FS_EmptySet
<1> QED
  BY <1>1, <1>3, <1>4, <1>5

BatchOf(n, order, base, round, key) ==
    [i \in 1..n |-> [seq |-> base + i, kind |-> "action", round |-> round, by |-> key, agent |-> order[i]]]

\* n agents in some order, and the round task that they act in.
Listing(n, order, base, round, key) ==
    /\ n \in Nat /\ n >= 1 /\ order \in [1..n -> Agents] /\ base \in Nat /\ round \in Nat
    /\ key \in [run: SimRuns, round: Nat, print: Prints \cup {0}]

Lists(b, n, order, base, round, key) ==
    /\ b \in Seq(Event) /\ Len(b) = n /\ DOMAIN b = 1..n /\ Consecutive(b)
    /\ \A i \in 1..n : b[i].seq = base + i /\ b[i].round = round /\ b[i].by = key /\ b[i].agent = order[i]

LEMMA Batched ==
    ASSUME NEW n, NEW order, NEW base, NEW round, NEW key, Listing(n, order, base, round, key),
           NEW b, b = BatchOf(n, order, base, round, key)
    PROVE  Lists(b, n, order, base, round, key)
<1> n \in Nat /\ n >= 1 /\ order \in [1..n -> Agents] /\ base \in Nat /\ round \in Nat
    /\ key \in [run: SimRuns, round: Nat, print: Prints \cup {0}]
  BY DEF Listing
<1>1. ASSUME NEW i \in 1..n
      PROVE  /\ b[i] \in Event /\ b[i].seq = base + i /\ b[i].round = round
             /\ b[i].by = key /\ b[i].agent = order[i]
  <2>1. b[i] = [seq |-> base + i, kind |-> "action", round |-> round, by |-> key, agent |-> order[i]]
    BY DEF BatchOf
  <2>2. base + i \in Nat /\ order[i] \in Agents
    OBVIOUS
  <2> QED
    BY <2>1, <2>2 DEF Event
<1>2. b \in [1..n -> Event]
  <2>1. \A i \in 1..n : b[i] \in Event
    BY <1>1
  <2> QED
    BY <2>1 DEF BatchOf
<1>3. Len(b) = n /\ DOMAIN b = 1..n
  BY <1>2
<1>4. \A i \in DOMAIN b : b[i].seq + 1 = b[1].seq + i
  <2>1. ASSUME NEW i \in 1..n PROVE b[i].seq + 1 = b[1].seq + i
    <3>1. b[i].seq = base + i /\ b[1].seq = base + 1
      BY <1>1
    <3> QED
      BY <3>1
  <2> QED
    BY <1>3, <2>1
<1> QED
  BY <1>1, <1>2, <1>3, <1>4 DEF Consecutive, Lists

LEMMA ActionBatch ==
    ASSUME SimInv, NEW e \in Processes, NEW actors \in SUBSET Agents, actors # {}, NEW base \in Nat,
           NEW b, b = ActionEvents(e, actors, base)
    PROVE  /\ b \in Seq(Event) /\ Consecutive(b) /\ b[1].round = RoundOf(e)
           /\ \A i \in DOMAIN b : b[i].by = KeyOf(e) /\ \A j \in DOMAIN b : b[j].agent = b[i].agent => i = j
<1> DEFINE n == Cardinality(actors)
           order == SetToSeq(actors)
           round == RoundOf(e)
           key == KeyOf(e)
<1>1. IsFiniteSet(actors)
  BY SimAssumption, FS_Subset
<1>2. n \in Nat /\ n >= 1 /\ order \in [1..n -> actors] /\ \A i, j \in 1..n : order[i] = order[j] => i = j
  BY <1>1, ListedOnce
<1>3. b = [i \in DOMAIN order |-> [seq |-> base + i, kind |-> "action", round |-> round,
                                   by |-> key, agent |-> order[i]]]
  BY DEF ActionEvents
<1>4. round \in Nat /\ key \in [run: SimRuns, round: Nat, print: Prints \cup {0}]
  BY RowFields
<1> HIDE DEF n, order, round, key
<1>5. DOMAIN order = 1..n /\ order \in [1..n -> Agents]
  BY <1>2
<1>6. b = BatchOf(n, order, base, round, key)
  BY <1>3, <1>5 DEF BatchOf
<1>7. /\ b \in Seq(Event) /\ Len(b) = n /\ DOMAIN b = 1..n /\ Consecutive(b)
      /\ \A i \in 1..n : b[i].seq = base + i /\ b[i].round = round /\ b[i].by = key /\ b[i].agent = order[i]
  <2>1. Listing(n, order, base, round, key)
    BY <1>2, <1>4, <1>5 DEF Listing
  <2>2. Lists(b, n, order, base, round, key)
    BY <1>6, <2>1, Batched
  <2> QED
    BY <1>6, <2>1, <2>2 DEF Lists
<1>8. b[1].round = round
  <2>1. 1 \in 1..n
    BY <1>2
  <2> QED
    BY <1>7, <2>1
<1>9. \A i \in DOMAIN b : b[i].by = key /\ \A j \in DOMAIN b : b[j].agent = b[i].agent => i = j
  BY <1>2, <1>7
<1> QED
  BY <1>7, <1>8, <1>9 DEF round, key

LEMMA ClockBatch ==
    ASSUME SimInv, NEW e \in Processes, NEW base \in Nat, NEW b, b = <<ClockEvent(e, base)>>
    PROVE  /\ b \in Seq(Event) /\ Consecutive(b) /\ b[1].round = RoundOf(e)
           /\ \A i \in DOMAIN b : b[i].kind = "clock"
<1>1. ClockEvent(e, base) \in Event /\ ClockEvent(e, base).kind = "clock" /\ ClockEvent(e, base).round = RoundOf(e)
  BY RowFields DEF ClockEvent, Event
<1>2. b \in Seq(Event) /\ Len(b) = 1 /\ DOMAIN b = 1..1 /\ b[1] = ClockEvent(e, base)
  BY <1>1
<1> QED
  BY <1>1, <1>2 DEF Consecutive

LEMMA DecideRoundKeeps == ASSUME SimInv, NEW e \in Processes, DecideRound(e) PROVE SimInv'
<1>1. PICK batch \in Seq(Event) : /\ Consecutive(batch)
                                  /\ exec' = [exec EXCEPT ![e].pc = "appending", ![e].world = <<>>, ![e].batch = batch]
  <2>1. PICK actors \in SUBSET Agents :
          exec' = [exec EXCEPT ![e].pc = "appending", ![e].world = <<>>,
                     ![e].batch = IF actors = {}
                                  THEN <<ClockEvent(e, Len(exec[e].world))>>
                                  ELSE ActionEvents(e, actors, Len(EventsOf[RunOf(e)]))]
    BY DEF DecideRound
  <2>2. Len(exec[e].world) \in Nat /\ Len(EventsOf[RunOf(e)]) \in Nat
    BY RowFields, SimFacts, RowFacts
  <2> DEFINE none == <<ClockEvent(e, Len(exec[e].world))>>
             some == ActionEvents(e, actors, Len(EventsOf[RunOf(e)]))
  <2>3. none \in Seq(Event) /\ Consecutive(none)
    BY <2>2, ClockBatch
  <2>4. actors # {} => some \in Seq(Event) /\ Consecutive(some)
    <3> HIDE DEF none
    <3>1. SUFFICES ASSUME actors # {} PROVE some \in Seq(Event) /\ Consecutive(some)
      OBVIOUS
    <3> QED
      BY <2>2, <3>1, ActionBatch
  <2>5. exec' = [exec EXCEPT ![e].pc = "appending", ![e].world = <<>>, ![e].batch = IF actors = {} THEN none ELSE some]
    BY <2>1
  <2> HIDE DEF none, some
  <2>6. CASE actors = {}
    BY <2>3, <2>5, <2>6
  <2>7. CASE actors # {}
    BY <2>4, <2>5, <2>7
  <2> QED
    BY <2>6, <2>7
<1> DEFINE l == [exec[e] EXCEPT !.pc = "appending", !.world = <<>>, !.batch = batch]
<1>2. exec' = [exec EXCEPT ![e] = l]
  BY <1>1
<1>3. exec[e] \in ExecRow /\ InHand(e, exec[e]) /\ <<>> \in Seq(Event) /\ exec[e].pc = "deciding"
  BY SimFacts DEF DecideRound, ExecAt
<1>4. l \in ExecRow /\ l.pc = "appending" /\ l.key = exec[e].key /\ l.batch = batch
  BY <1>3 DEF ExecRow
<1>5. remembered' \subseteq SimRuns \X Nat
  BY SimFacts DEF DecideRound
<1> HIDE DEF l
<1>6. InHand(e, l)
  BY <1>1, <1>3, <1>4 DEF InHand
<1> QED
  BY <1>2, <1>4, <1>5, <1>6, SteppedAlone, SimFacts DEF DecideRound, RoundTasksOK

\* The row of a run is written, but not its parent.
LEMMA RowWritten ==
    ASSUME SimInv, NEW r \in SimRuns, NEW row \in RunRow, simRun' = [simRun EXCEPT ![r] = row],
           row.parent = simRun[r].parent, row.fork = simRun[r].fork, RunExists(r) => row.status # "absent"
    PROVE  /\ simRun' \in [SimRuns -> RunRow] /\ (ledger' = ledger => RowsKept)
           /\ \A x \in SimRuns : simRun'[x].parent = simRun[x].parent /\ simRun'[x].fork = simRun[x].fork
           /\ \A x \in SimRuns \ {r} : simRun'[x] = simRun[x]
           /\ simRun'[r] = row
<1>1. simRun \in [SimRuns -> RunRow]
  BY SimFacts
<1>2. simRun'[r] = row /\ \A x \in SimRuns \ {r} : simRun'[x] = simRun[x]
  BY <1>1
<1>3. simRun' \in [SimRuns -> RunRow]
  BY <1>1
<1>4. ledger' = ledger => RowsKept
  BY <1>2 DEF RowsKept, RunExists
<1> QED
  BY <1>2, <1>3, <1>4

\* An accepted batch continues the world of its run.
LEMMA AcceptedBatch ==
    ASSUME SimInv, NEW r \in SimRuns, NEW b \in Seq(Event), Consecutive(b), Accepts(r, b)
    PROVE  RunExists(r) /\ \A i \in DOMAIN b : b[i].seq = Len(EventsOf[r]) + i
<1>1. RunExists(r) /\ b[1].seq = simRun[r].fork + Len(ledger[r]) + 1
  BY DEF Accepts, Mutable, ExpectedSequence
<1>2. /\ Len(EventsOf[r]) = simRun[r].fork + Len(ledger[r])
      /\ simRun[r].fork \in Nat /\ Len(ledger[r]) \in Nat
  BY SimFacts, RowFacts
<1>3. \A i \in DOMAIN b : b[i].seq \in Nat /\ i \in Nat /\ b[i].seq + 1 = b[1].seq + i
  <2>1. ASSUME NEW i \in DOMAIN b PROVE b[i] \in Event /\ i \in Nat
    OBVIOUS
  <2> QED
    BY <2>1 DEF Consecutive, Event
<1>4. ASSUME NEW i \in DOMAIN b PROVE b[i].seq = Len(EventsOf[r]) + i
  <2> DEFINE x == b[i].seq
             n == Len(EventsOf[r])
  <2>1. x \in Nat /\ i \in Nat /\ x + 1 = (n + 1) + i
    BY <1>1, <1>2, <1>3
  <2>2. n \in Nat
    BY <1>2
  <2> HIDE DEF x, n
  <2>3. x = n + i
    BY <2>1, <2>2
  <2> QED
    BY <2>3 DEF x, n
<1> QED
  BY <1>1, <1>4

LEMMA AppendedRow ==
    ASSUME SimInv, NEW r \in SimRuns, NEW b \in Seq(Event), Consecutive(b), Appended(r, b)
    PROVE  \E n \in Nat : /\ n >= b[1].round /\ n >= simRun[r].round /\ b[1].round \in Nat
                          /\ simRun' = [simRun EXCEPT ![r].round = n]
<1>1. b[1] \in Event
  BY DEF Consecutive
<1>2. b[1].round \in Nat /\ simRun[r].round \in Nat
  BY <1>1, SimFacts, RowFacts DEF Event
<1> DEFINE n == IF simRun[r].round < b[1].round THEN b[1].round ELSE simRun[r].round
<1>3. simRun' = [simRun EXCEPT ![r].round = n]
  BY DEF Appended
<1>4. n \in Nat /\ n >= b[1].round /\ n >= simRun[r].round
  BY <1>2
<1> HIDE DEF n
<1> QED
  BY <1>2, <1>3, <1>4

LEMMA AppendedGrows ==
    ASSUME SimInv, NEW r \in SimRuns, NEW b \in Seq(Event), Consecutive(b), Accepts(r, b), Appended(r, b)
    PROVE  Grows(r, b) /\ Extends /\ simRun' \in [SimRuns -> RunRow] /\ ledger' \in [SimRuns -> Seq(Event)]
<1>1. PICK n \in Nat : simRun' = [simRun EXCEPT ![r].round = n]
  BY AppendedRow
<1> DEFINE row == [simRun[r] EXCEPT !.round = n]
<1>2. simRun[r] \in RunRow
  BY SimFacts
<1>3. /\ row \in RunRow /\ row.parent = simRun[r].parent /\ row.fork = simRun[r].fork
      /\ row.status = simRun[r].status
  BY <1>2 DEF RunRow
<1>4. simRun' = [simRun EXCEPT ![r] = row]
  BY <1>1
<1> HIDE DEF row
<1>5. /\ simRun' \in [SimRuns -> RunRow]
      /\ \A x \in SimRuns : simRun'[x].parent = simRun[x].parent /\ simRun'[x].fork = simRun[x].fork
      /\ \A x \in SimRuns \ {r} : simRun'[x] = simRun[x]
      /\ simRun'[r] = row
  BY <1>3, <1>4, RowWritten DEF RunExists
<1>6. Grows(r, b)
  BY <1>3, <1>5 DEF Grows, Appended
<1>7. Extends
  BY <1>6, AcceptedBatch, GrownExtends, SimFacts
<1>8. ledger' \in [SimRuns -> Seq(Event)]
  <2>1. ledger \in [SimRuns -> Seq(Event)] /\ ledger[r] \in Seq(Event)
    BY SimFacts
  <2>2. ledger[r] \o b \in Seq(Event)
    BY <2>1, ConcatProperties
  <2> QED
    BY <2>1, <2>2 DEF Appended
<1> QED
  BY <1>5, <1>6, <1>7, <1>8

LEMMA AppendRoundKeeps == ASSUME SimInv, NEW e \in Processes, AppendRound(e) PROVE SimInv'
<1>1. CASE Raises(e)
  BY <1>1, RaiseKeeps
<1>2. CASE ~Raises(e)
  <2>1. /\ Accepts(RunOf(e), exec[e].batch) /\ Appended(RunOf(e), exec[e].batch)
        /\ UNCHANGED <<remembered, ckpt, roundTask, fate>>
    BY <1>2 DEF AppendRound
  <2>2. /\ RunOf(e) \in SimRuns /\ exec[e].batch \in Seq(Event) /\ Consecutive(exec[e].batch)
        /\ exec[e] \in ExecRow /\ InHand(e, exec[e]) /\ exec[e].pc = "appending"
    BY RowFields, SimFacts DEF InHand, AppendRound, ExecAt
  <2>3. /\ Extends /\ simRun' \in [SimRuns -> RunRow] /\ ledger' \in [SimRuns -> Seq(Event)]
    BY <2>1, <2>2, AppendedGrows
  <2>4. PICK todo \in SUBSET Nat : exec' = [exec EXCEPT ![e].pc = "remembering", ![e].batch = <<>>, ![e].todo = todo]
    <3>1. {i \in DOMAIN ledger'[RunOf(e)] : /\ i > Len(ledger[RunOf(e)])
                                            /\ ledger'[RunOf(e)][i].kind = "action"} \in SUBSET Nat
      BY <2>2, <2>3
    <3> QED
      BY <1>2, <3>1 DEF AppendRound
  <2> DEFINE l == [exec[e] EXCEPT !.pc = "remembering", !.batch = <<>>, !.todo = todo]
  <2>5. exec' = [exec EXCEPT ![e] = l]
    BY <2>4
  <2>6. l \in ExecRow /\ l.pc = "remembering" /\ l.key = exec[e].key
    <3>1. <<>> \in Seq(Event)
      OBVIOUS
    <3> QED
      BY <2>2, <3>1 DEF ExecRow
  <2> HIDE DEF l
  <2>7. InHand(e, l)
    BY <2>2, <2>6, FurtherInHand DEF Further
  <2>8. CheckpointsKept
    BY <2>1, SimFacts DEF CheckpointsKept
  <2> QED
    BY <2>1, <2>3, <2>5, <2>6, <2>7, <2>8, Stepped, SimFacts DEF RoundTasksOK
<1> QED
  BY <1>1, <1>2

-----------------------------------------------------------------------------
(* The rest of the handler.                                                 *)

\* A handler that writes the row of its run goes on or ends.
LEMMA RowStep ==
    ASSUME SimInv, NEW e \in Processes, NEW r \in SimRuns, NEW row \in RunRow, simRun' = [simRun EXCEPT ![r] = row],
           row.parent = simRun[r].parent, row.fork = simRun[r].fork, row.status # "absent",
           NEW l \in ExecRow, exec' = [exec EXCEPT ![e] = l], InHand(e, l),
           UNCHANGED <<ledger, remembered, ckpt>>, RoundTasksOK',
           fate' \in [trouble: 0..MaxTrouble, takenOver: BOOLEAN]
    PROVE  SimInv'
<1>1. RowsKept /\ simRun' \in [SimRuns -> RunRow]
  BY RowWritten
<1> QED
  BY <1>1, SteppedRows, SimFacts

LEMMA RowType ==
    ASSUME SimInv, NEW r \in SimRuns
    PROVE  /\ \A n \in Nat : [simRun[r] EXCEPT !.round = n] \in RunRow
           /\ \A status \in RunStatuses : [simRun[r] EXCEPT !.status = status] \in RunRow
           /\ \A h \in {"ARCHIVE", "UNARCHIVE", "DELETE"} : [simRun[r] EXCEPT !.history = h] \in RunRow
           /\ \A k \in Key : [simRun[r] EXCEPT !.task = {k}] \in RunRow
           /\ DOMAIN simRun[r] = {"status", "round", "task", "history", "parent", "fork"}
<1>1. simRun[r] \in RunRow
  BY SimFacts
<1> QED
  BY <1>1 DEF RunRow

LEMMA SetRow ==
    ASSUME SimInv, NEW e \in Processes, exec[e].pc \notin {"idle", "enqueuing", "binding"}, NEW pc \in Further, Set(e, pc)
    PROVE  \E l \in ExecRow : l.pc = pc /\ l.key = exec[e].key /\ exec' = [exec EXCEPT ![e] = l] /\ InHand(e, l)
<1> DEFINE l == [exec[e] EXCEPT !.pc = pc]
<1>1. exec' = [exec EXCEPT ![e] = l]
  BY DEF Set
<1>2. l \in ExecRow /\ l.pc = pc /\ l.key = exec[e].key
  <2>1. exec[e] \in ExecRow
    BY SimFacts
  <2> QED
    BY <2>1 DEF ExecRow, Further
<1> HIDE DEF l
<1>3. InHand(e, l)
  BY <1>2, FurtherInHand
<1> QED
  BY <1>1, <1>2, <1>3

LEMMA AdvanceRoundKeeps == ASSUME SimInv, NEW e \in Processes, AdvanceRound(e) PROVE SimInv'
<1>1. CASE Raises(e)
  BY <1>1, RaiseKeeps
<1>2. CASE ~Raises(e)
  <2> DEFINE r == RunOf(e)
             row == [simRun[r] EXCEPT !.round = RoundOf(e)]
  <2>1. r \in SimRuns /\ RoundOf(e) \in Nat
    BY RowFields
  <2>2. /\ Mutable(r) /\ simRun' = [simRun EXCEPT ![r] = row] /\ Set(e, "consolidating")
        /\ UNCHANGED <<ledger, remembered, ckpt, roundTask, fate>>
    BY <1>2 DEF AdvanceRound
  <2>3. row \in RunRow /\ row.parent = simRun[r].parent /\ row.fork = simRun[r].fork /\ row.status = simRun[r].status
    BY <2>1, RowType
  <2>4. simRun[r].status # "absent"
    BY <2>2 DEF Mutable, RunExists
  <2>5. exec[e].pc \notin {"idle", "enqueuing", "binding"} /\ "consolidating" \in Further
    BY DEF AdvanceRound, ExecAt, Further
  <2>6. PICK l \in ExecRow : exec' = [exec EXCEPT ![e] = l] /\ InHand(e, l)
    BY <2>2, <2>5, SetRow
  <2> HIDE DEF r, row
  <2> QED
    BY <2>1, <2>2, <2>3, <2>4, <2>6, RowStep, SimFacts DEF RoundTasksOK
<1> QED
  BY <1>1, <1>2

LEMMA CompleteRunKeeps == ASSUME SimInv, NEW e \in Processes, CompleteRun(e) PROVE SimInv'
<1>1. CASE Raises(e)
  BY <1>1, RaiseKeeps
<1>2. CASE ~Raises(e)
  <2> DEFINE r == RunOf(e)
             row == [simRun[r] EXCEPT !.status = "COMPLETED"]
  <2>1. r \in SimRuns
    BY RowFields
  <2>2. /\ simRun' = [simRun EXCEPT ![r] = row] /\ Set(e, "settling")
        /\ UNCHANGED <<ledger, remembered, ckpt, roundTask, fate>>
    BY <1>2 DEF CompleteRun, Turned
  <2>3. row \in RunRow /\ row.parent = simRun[r].parent /\ row.fork = simRun[r].fork /\ row.status # "absent"
    BY <2>1, RowType DEF RunStatuses
  <2>4. exec[e].pc \notin {"idle", "enqueuing", "binding"} /\ "settling" \in Further
    BY DEF CompleteRun, ExecAt, Further
  <2>5. PICK l \in ExecRow : exec' = [exec EXCEPT ![e] = l] /\ InHand(e, l)
    BY <2>2, <2>4, SetRow
  <2> HIDE DEF r, row
  <2> QED
    BY <2>1, <2>2, <2>3, <2>5, RowStep, SimFacts DEF RoundTasksOK
<1> QED
  BY <1>1, <1>2

LEMMA HaltRunKeeps == ASSUME SimInv, NEW e \in Processes, HaltRun(e) PROVE SimInv'
<1>1. CASE Raises(e)
  BY <1>1, RaiseKeeps
<1>2. CASE ~Raises(e)
  <2> DEFINE r == RunOf(e)
             row == [simRun[r] EXCEPT !.status = "PAUSED_BUDGET"]
  <2>1. r \in SimRuns
    BY RowFields
  <2>2. /\ simRun' = [simRun EXCEPT ![r] = row] /\ HandlerEnds(e, "completed")
        /\ UNCHANGED <<ledger, remembered, ckpt, fate>>
    BY <1>2 DEF HaltRun, Turned
  <2>3. row \in RunRow /\ row.parent = simRun[r].parent /\ row.fork = simRun[r].fork /\ row.status # "absent"
    BY <2>1, RowType DEF RunStatuses
  <2>4. exec' = [exec EXCEPT ![e] = NoWork] /\ NoWork \in ExecRow /\ InHand(e, NoWork)
    BY <2>2, IdleInHand DEF HandlerEnds
  <2>5. RoundTasksOK'
    BY <2>2, SettledOK DEF HandlerEnds
  <2> HIDE DEF r, row
  <2> QED
    BY <2>1, <2>2, <2>3, <2>4, <2>5, RowStep, SimFacts
<1> QED
  BY <1>1, <1>2

LEMMA ReplayWorldKeeps == ASSUME SimInv, NEW e \in Processes, ReplayWorld(e) PROVE SimInv'
<1>1. CASE Raises(e)
  BY <1>1, RaiseKeeps
<1>2. CASE ~Raises(e)
  <2> DEFINE all == EventsOf[RunOf(e)]
             l == [exec[e] EXCEPT !.pc = "checkpointing", !.world = all]
  <2>1. all \in Seq(Event) /\ Len(all) \in Nat /\ RunOf(e) = exec[e].key.run
    BY RowFields, SimFacts, RowFacts
  <2>2. exec' = [exec EXCEPT ![e].pc = "checkpointing", ![e].world = all]
        /\ UNCHANGED <<simRun, ledger, remembered, ckpt, roundTask, fate>>
    BY <1>2 DEF ReplayWorld
  <2> HIDE DEF all
  <2>3. exec' = [exec EXCEPT ![e] = l]
    BY <2>2
  <2>4. exec[e] \in ExecRow /\ InHand(e, exec[e]) /\ exec[e].pc = "consolidating"
    BY SimFacts DEF ReplayWorld, ExecAt
  <2>5. l \in ExecRow /\ l.pc = "checkpointing" /\ l.key = exec[e].key /\ l.world = all
    BY <2>1, <2>4 DEF ExecRow
  <2> HIDE DEF l
  <2>6. InHand(e, l)
    <3>1. StartOf(l.world, EventsOf[l.key.run])
      BY <2>1, <2>5 DEF StartOf, all
    <3> QED
      BY <2>4, <2>5, <3>1 DEF InHand
  <2> QED
    BY <2>2, <2>3, <2>5, <2>6, SteppedAlone, SimFacts DEF RoundTasksOK
<1> QED
  BY <1>1, <1>2

LEMMA WriteCheckpointKeeps == ASSUME SimInv, NEW e \in Processes, WriteCheckpoint(e) PROVE SimInv'
<1>1. CASE Raises(e)
  BY <1>1, RaiseKeeps
<1>2. CASE ~Raises(e)
  <2> DEFINE r == RunOf(e)
             l == [exec[e] EXCEPT !.pc = "closing", !.world = <<>>]
  <2>1. /\ ckpt' = ckpt \/ ckpt' = [ckpt EXCEPT ![r] = @ \cup {CheckpointOf(e)}]
        /\ exec' = [exec EXCEPT ![e].pc = "closing", ![e].world = <<>>]
        /\ UNCHANGED <<simRun, ledger, remembered, roundTask, fate>>
    BY <1>2 DEF WriteCheckpoint
  <2>2. exec[e] \in ExecRow /\ InHand(e, exec[e]) /\ exec[e].pc = "checkpointing" /\ <<>> \in Seq(Event)
    BY SimFacts DEF WriteCheckpoint, ExecAt
  <2>3. exec' = [exec EXCEPT ![e] = l]
    BY <2>1
  <2>4. l \in ExecRow /\ l.pc = "closing" /\ l.key = exec[e].key
    BY <2>2 DEF ExecRow
  <2> HIDE DEF l
  <2>5. InHand(e, l)
    BY <2>2, <2>4, FurtherInHand DEF Further
  <2>6. exec[e].world \in Seq(Event) /\ StartOf(exec[e].world, EventsOf[r]) /\ r \in SimRuns
    BY <2>2, RowFields DEF InHand
  <2>7. CheckpointsKept
    <3> DOMAIN ckpt = SimRuns /\ DOMAIN ckpt' = SimRuns
      BY <2>1, SimFacts
    <3>1. SUFFICES ASSUME NEW x \in SimRuns, NEW c \in ckpt'[x]
                   PROVE  \/ c \in ckpt[x]
                          \/ c.world \in Seq(Event) /\ c.seq = Len(c.world) /\ StartOf(c.world, EventsOf[x])
      BY DEF CheckpointsKept
    <3>2. c \in ckpt[x] \/ (x = r /\ c = CheckpointOf(e))
      BY <2>1
    <3> QED
      BY <2>6, <3>2 DEF CheckpointOf
  <2>8. RowsKept
    BY <2>1 DEF RowsKept, RunExists
  <2>9. Extends
    BY <2>8, KeptExtends, SimFacts
  <2> QED
    BY <2>1, <2>3, <2>4, <2>5, <2>7, <2>9, Stepped, SimFacts DEF RoundTasksOK
<1> QED
  BY <1>1, <1>2

LEMMA TroubleGrows ==
    ASSUME SimInv, fate.trouble < MaxTrouble, NEW taken \in BOOLEAN
    PROVE  /\ [fate EXCEPT !.trouble = @ + 1] \in [trouble: 0..MaxTrouble, takenOver: BOOLEAN]
           /\ [trouble |-> fate.trouble + 1, takenOver |-> taken] \in [trouble: 0..MaxTrouble, takenOver: BOOLEAN]
<1>1. fate \in [trouble: 0..MaxTrouble, takenOver: BOOLEAN] /\ MaxTrouble \in Nat
  BY SimFacts, SimAssumption
<1>2. fate.trouble + 1 \in 0..MaxTrouble
  BY <1>1
<1> QED
  BY <1>1, <1>2

LEMMA FallKeeps == ASSUME SimInv, NEW e \in Processes, Fall(e) PROVE SimInv'
<1>1. RoundTasksOK'
  <2>1. roundTask' = [k \in Key |-> IF roundTask[k].owner = e THEN [roundTask[k] EXCEPT !.owner = NoExecutor]
                                                             ELSE roundTask[k]]
    BY DEF Fall
  <2> QED
    BY <2>1, SimFacts DEF RoundTasksOK, RoundTaskRow
<1>2. fate' \in [trouble: 0..MaxTrouble, takenOver: BOOLEAN]
  BY TroubleGrows DEF Fall
<1>3. exec' = [exec EXCEPT ![e] = NoWork] /\ NoWork \in ExecRow /\ InHand(e, NoWork)
  BY IdleInHand DEF Fall
<1> QED
  BY <1>1, <1>2, <1>3, SteppedAlone, SimFacts DEF Fall

LEMMA ClaimRoundKeeps == ASSUME SimInv, NEW e \in Executors, NEW k \in Key, ClaimRound(e, k) PROVE SimInv'
<1> DEFINE l == [NoWork EXCEPT !.pc = "claimed", !.key = k]
<1>1. e \in Processes /\ e # Studio
  BY SimAssumption DEF Processes
<1>2. k \in [run: SimRuns, round: Nat, print: Prints \cup {0}]
  BY DEF Key
<1>3. NoWork \in ExecRow
  BY <1>1, IdleInHand
<1>4. l \in ExecRow /\ l.pc = "claimed" /\ l.key = k
  BY <1>2, <1>3 DEF ExecRow
<1>5. exec' = [exec EXCEPT ![e] = l]
  BY DEF ClaimRound
<1> HIDE DEF l
<1>6. InHand(e, l)
  BY <1>1, <1>4 DEF InHand
<1>7. RoundTasksOK'
  BY SimFacts DEF ClaimRound, RoundTasksOK, RoundTaskRow
<1>8. fate' \in [trouble: 0..MaxTrouble, takenOver: BOOLEAN]
  BY SimFacts, TroubleGrows DEF ClaimRound, Claims
<1>9. remembered' \subseteq SimRuns \X Nat
  BY SimFacts DEF ClaimRound
<1> QED
  BY <1>1, <1>4, <1>5, <1>6, <1>7, <1>8, <1>9, SteppedAlone DEF ClaimRound

-----------------------------------------------------------------------------
(* The studio's requests.                                                   *)

LEMMA RequestFate ==
    ASSUME SimInv, Request
    PROVE  /\ fate' \in [trouble: 0..MaxTrouble, takenOver: BOOLEAN]
           /\ Studio \in Processes /\ exec[Studio].pc = "idle"
  BY TroubleGrows DEF Request, ExecAt, Processes

\* A request that only writes a row.
LEMMA RequestRow ==
    ASSUME SimInv, Request, NEW r \in SimRuns, NEW row \in RunRow, simRun' = [simRun EXCEPT ![r] = row],
           row.parent = simRun[r].parent, row.fork = simRun[r].fork, row.status # "absent",
           UNCHANGED <<ledger, remembered, ckpt, roundTask, exec>>
    PROVE  SimInv'
<1>1. Studio \in Processes /\ fate' \in [trouble: 0..MaxTrouble, takenOver: BOOLEAN]
  BY RequestFate
<1>2. exec[Studio] \in ExecRow /\ InHand(Studio, exec[Studio]) /\ exec' = [exec EXCEPT ![Studio] = exec[Studio]]
  BY <1>1, SimFacts
<1> QED
  BY <1>1, <1>2, RowStep, SimFacts DEF RoundTasksOK

LEMMA TransitionRunKeeps ==
    ASSUME SimInv, NEW r \in SimRuns, NEW status \in RunStatuses, TransitionRun(r, status)
    PROVE  SimInv'
<1> DEFINE row == [simRun[r] EXCEPT !.status = status]
<1>1. simRun' = [simRun EXCEPT ![r] = row]
  BY DEF TransitionRun, Turned
<1>2. row \in RunRow /\ row.parent = simRun[r].parent /\ row.fork = simRun[r].fork /\ row.status # "absent"
  BY RowType DEF RunStatuses
<1> HIDE DEF row
<1> QED
  BY <1>1, <1>2, RequestRow DEF TransitionRun

LEMMA HistoryKeeps ==
    ASSUME SimInv, Request, NEW r \in SimRuns, Mutable(r), NEW h \in {"ARCHIVE", "UNARCHIVE", "DELETE"},
           simRun' = [simRun EXCEPT ![r].history = h], UNCHANGED <<ledger, remembered, ckpt, roundTask, exec>>
    PROVE  SimInv'
<1> DEFINE row == [simRun[r] EXCEPT !.history = h]
<1>1. simRun' = [simRun EXCEPT ![r] = row]
  OBVIOUS
<1>2. row \in RunRow /\ row.parent = simRun[r].parent /\ row.fork = simRun[r].fork /\ row.status # "absent"
  BY RowType DEF Mutable, RunExists
<1> HIDE DEF row
<1> QED
  BY <1>1, <1>2, RequestRow

\* A request that takes something in hand.
LEMMA RequestWork ==
    ASSUME SimInv, Request, NEW l \in ExecRow, InHand(Studio, l), exec' = [exec EXCEPT ![Studio] = l],
           UNCHANGED <<simRun, ledger, remembered, ckpt, roundTask>>
    PROVE  SimInv'
  BY RequestFate, SteppedAlone, SimFacts DEF RoundTasksOK

LEMMA AskRoundKeeps ==
    ASSUME SimInv, NEW r \in SimRuns, NEW n \in 1..MaxRounds, NEW p \in Prints, AskRound(r, n, p)
    PROVE  SimInv'
<1> DEFINE k == [run |-> r, round |-> n, print |-> p]
           l == [NoWork EXCEPT !.pc = "enqueuing", !.key = k]
<1>1. k \in Key /\ k \in [run: SimRuns, round: Nat, print: Prints \cup {0}]
  BY DEF Key
<1>2. exec' = [exec EXCEPT ![Studio] = l]
  BY DEF AskRound
<1> HIDE DEF k
<1>3. NoWork \in ExecRow /\ Studio \notin Executors /\ Studio \in Processes
  BY IdleInHand, SimAssumption DEF Processes
<1>4. l \in ExecRow /\ l.pc = "enqueuing" /\ l.key = k
  BY <1>1, <1>3 DEF ExecRow
<1> HIDE DEF l
<1>5. InHand(Studio, l)
  BY <1>1, <1>3, <1>4 DEF InHand
<1> QED
  BY <1>2, <1>4, <1>5, RequestWork DEF AskRound

LEMMA PreviewRoundKeeps ==
    ASSUME SimInv, NEW r \in SimRuns, NEW n \in 1..MaxRounds, PreviewRound(r, n)
    PROVE  SimInv'
<1> DEFINE k == Preview(r, n)
           l == [NoWork EXCEPT !.pc = "entering", !.key = k]
<1>1. k.print = 0 /\ k \in [run: SimRuns, round: Nat, print: Prints \cup {0}]
  BY DEF Preview
<1>2. exec' = [exec EXCEPT ![Studio] = l]
  BY DEF PreviewRound
<1> HIDE DEF k
<1>3. NoWork \in ExecRow /\ Studio \notin Executors /\ Studio \in Processes
  BY IdleInHand, SimAssumption DEF Processes
<1>4. l \in ExecRow /\ l.pc = "entering" /\ l.key = k
  BY <1>1, <1>3 DEF ExecRow
<1> HIDE DEF l
<1>5. InHand(Studio, l)
  BY <1>1, <1>3, <1>4 DEF InHand
<1> QED
  BY <1>2, <1>4, <1>5, RequestWork DEF PreviewRound

LEMMA AskInterventionKeeps ==
    ASSUME SimInv, NEW r \in SimRuns, NEW n \in 0..MaxRounds + 1, AskIntervention(r, n)
    PROVE  SimInv'
<1> DEFINE k == Preview(r, n)
           ev == [seq |-> Len(EventsOf[r]) + 1, kind |-> "author", round |-> n, by |-> k, agent |-> 0]
           l == [NoWork EXCEPT !.pc = "intervening", !.key = k, !.batch = <<ev>>]
<1>1. k.print = 0 /\ k \in [run: SimRuns, round: Nat, print: Prints \cup {0}]
  BY SimAssumption DEF Preview
<1>2. exec' = [exec EXCEPT ![Studio] = l]
  BY DEF AskIntervention
<1> HIDE DEF k
<1>3. NoWork \in ExecRow /\ Studio \notin Executors /\ Studio \in Processes
  BY IdleInHand, SimAssumption DEF Processes
<1>4. ev \in Event
  <2>1. Len(EventsOf[r]) \in Nat /\ n \in Nat
    BY SimFacts, RowFacts, SimAssumption
  <2> QED
    BY <1>1, <2>1 DEF Event
<1> HIDE DEF ev
<1>5. <<ev>> \in Seq(Event) /\ Consecutive(<<ev>>)
  BY <1>4 DEF Consecutive
<1>6. l \in ExecRow /\ l.pc = "intervening" /\ l.key = k /\ l.batch = <<ev>>
  BY <1>1, <1>3, <1>5 DEF ExecRow
<1> HIDE DEF l
<1>7. InHand(Studio, l)
  BY <1>1, <1>3, <1>5, <1>6 DEF InHand
<1> QED
  BY <1>2, <1>6, <1>7, RequestWork DEF AskIntervention

LEMMA RetryRoundKeeps == ASSUME SimInv, NEW k \in Key, RetryRound(k) PROVE SimInv'
<1>1. Studio \in Processes /\ fate' \in [trouble: 0..MaxTrouble, takenOver: BOOLEAN]
  BY RequestFate DEF RetryRound
<1>2. exec[Studio] \in ExecRow /\ InHand(Studio, exec[Studio]) /\ exec' = [exec EXCEPT ![Studio] = exec[Studio]]
  BY <1>1, SimFacts DEF RetryRound
<1>3. RoundTasksOK'
  BY SimFacts DEF RetryRound, RoundTasksOK, RoundTaskRow
<1> QED
  BY <1>1, <1>2, <1>3, SteppedAlone, SimFacts DEF RetryRound

LEMMA EnqueueRoundKeeps == ASSUME SimInv, EnqueueRound PROVE SimInv'
<1> DEFINE k == KeyOf(Studio)
           l == [exec[Studio] EXCEPT !.pc = "binding"]
<1>1. /\ Studio \in Processes /\ exec[Studio].pc = "enqueuing" /\ UNCHANGED <<simRun, ledger, remembered, ckpt, fate>>
  BY DEF EnqueueRound, ExecAt, Processes
<1>2. NoWork \in ExecRow /\ InHand(Studio, NoWork)
  BY <1>1, IdleInHand
<1>3. exec[Studio] \in ExecRow /\ k \in Key /\ k = exec[Studio].key
  BY <1>1, SimFacts DEF InHand, KeyOf
<1>4. l \in ExecRow /\ l.pc = "binding" /\ l.key = k
  BY <1>3 DEF ExecRow
<1>5. \/ exec' = [exec EXCEPT ![Studio] = NoWork] /\ UNCHANGED roundTask
      \/ /\ exec' = [exec EXCEPT ![Studio] = l]
         /\ roundTask' = [roundTask EXCEPT ![k].status = IF @ = "absent" THEN "queued" ELSE @]
  BY DEF EnqueueRound, Set
<1> HIDE DEF k, l
<1>6. InHand(Studio, l)
  BY <1>3, <1>4, SimAssumption DEF InHand
<1>7. RoundTasksOK'
  BY <1>3, <1>5, SimFacts DEF RoundTasksOK, RoundTaskRow
<1> QED
  BY <1>1, <1>2, <1>4, <1>5, <1>6, <1>7, SteppedAlone, SimFacts

LEMMA BindRoundKeeps == ASSUME SimInv, BindRound PROVE SimInv'
<1>1. /\ Studio \in Processes /\ exec[Studio].pc = "binding" /\ exec' = [exec EXCEPT ![Studio] = NoWork]
      /\ UNCHANGED <<ledger, remembered, ckpt, roundTask, fate>>
  BY DEF BindRound, ExecAt, Processes
<1>2. NoWork \in ExecRow /\ InHand(Studio, NoWork)
  BY <1>1, IdleInHand
<1> DEFINE k == KeyOf(Studio)
           r == RunOf(Studio)
           row == [simRun[r] EXCEPT !.task = {k}]
<1>3. k \in Key /\ r \in SimRuns
  BY <1>1, SimFacts, RowFields DEF InHand
<1>4. simRun' = [simRun EXCEPT ![r] = row]
  BY DEF BindRound
<1>5. row \in RunRow /\ row.parent = simRun[r].parent /\ row.fork = simRun[r].fork /\ row.status = simRun[r].status
  BY <1>3, RowType
<1> HIDE DEF k, r, row
<1>6. RoundTasksOK'
  BY <1>1, SimFacts DEF RoundTasksOK
<1>7. RowsKept /\ simRun' \in [SimRuns -> RunRow]
  BY <1>1, <1>3, <1>4, <1>5, RowWritten DEF RunExists
<1> QED
  BY <1>1, <1>2, <1>6, <1>7, SteppedRows, SimFacts

LEMMA InterveneKeeps == ASSUME SimInv, Intervene PROVE SimInv'
<1>1. /\ Studio \in Processes /\ exec[Studio].pc = "intervening" /\ exec' = [exec EXCEPT ![Studio] = NoWork]
      /\ UNCHANGED <<remembered, ckpt, roundTask, fate>>
  BY DEF Intervene, ExecAt, Processes
<1>2. NoWork \in ExecRow /\ InHand(Studio, NoWork)
  BY <1>1, IdleInHand
<1>3. CASE Accepts(RunOf(Studio), exec[Studio].batch)
  <2>1. Appended(RunOf(Studio), exec[Studio].batch)
    BY <1>3 DEF Intervene
  <2>2. RunOf(Studio) \in SimRuns /\ exec[Studio].batch \in Seq(Event) /\ Consecutive(exec[Studio].batch)
    BY <1>1, RowFields, SimFacts DEF InHand
  <2>3. /\ Extends /\ simRun' \in [SimRuns -> RunRow] /\ ledger' \in [SimRuns -> Seq(Event)]
    BY <1>3, <2>1, <2>2, AppendedGrows
  <2>4. CheckpointsKept
    BY <1>1, SimFacts DEF CheckpointsKept
  <2> QED
    BY <1>1, <1>2, <2>3, <2>4, Stepped, SimFacts DEF RoundTasksOK
<1>4. CASE ~Accepts(RunOf(Studio), exec[Studio].batch)
  <2>1. UNCHANGED <<simRun, ledger>>
    BY <1>4 DEF Intervene
  <2> QED
    BY <1>1, <1>2, <2>1, SteppedAlone, SimFacts DEF RoundTasksOK
<1> QED
  BY <1>3, <1>4

LEMMA CreateBranchKeeps ==
    ASSUME SimInv, NEW r \in SimRuns, NEW child \in SimRuns, NEW fork \in 0..MaxEvents, CreateBranch(r, child, fork)
    PROVE  SimInv'
<1> DEFINE n == IF fork = 0 THEN 0 ELSE EventsOf[r][fork].round
           row == [Absent EXCEPT !.status = "READY", !.parent = r, !.fork = fork, !.round = n]
<1>1. /\ simRun' = [simRun EXCEPT ![child] = row]
      /\ RunExists(r) /\ ~RunExists(child) /\ r < child /\ fork <= Len(EventsOf[r])
      /\ UNCHANGED <<ledger, remembered, ckpt, roundTask, exec>>
  BY DEF CreateBranch, Mutable
<1>2. EventsOf[r] \in Seq(Event) /\ Len(EventsOf[r]) \in Nat
  BY SimFacts, RowFacts
<1>3. fork \in Nat /\ fork \in 0..Len(EventsOf[r])
  BY <1>1, <1>2, SimAssumption
<1>4. n \in Nat
  <2>1. SUFFICES ASSUME fork # 0 PROVE EventsOf[r][fork].round \in Nat
    OBVIOUS
  <2>2. EventsOf[r][fork] \in Event
    BY <1>2, <1>3, <2>1
  <2> QED
    BY <2>2 DEF Event
<1> HIDE DEF n
<1>5. Absent \in [status: RunStatuses \cup {"absent"}, round: Nat, task: SUBSET Key,
                  history: {"ARCHIVE", "UNARCHIVE", "DELETE"}, parent: SimRuns \cup {0}, fork: Nat]
  BY DEF Absent
<1>6. row \in RunRow /\ row.parent = r /\ row.fork = fork /\ row.status = "READY"
  BY <1>3, <1>4, <1>5 DEF RunRow, RunStatuses
<1> HIDE DEF row
<1>7. simRun' \in [SimRuns -> RunRow] /\ simRun'[child] = row /\ \A x \in SimRuns \ {child} : simRun'[x] = simRun[x]
  BY <1>1, <1>6, SimFacts
<1>8. Forks(r, child, fork)
  BY <1>1, <1>6, <1>7 DEF Forks
<1>9. Extends
  BY <1>1, <1>3, <1>8, BranchedExtends, SimFacts
<1>10. Studio \in Processes /\ fate' \in [trouble: 0..MaxTrouble, takenOver: BOOLEAN]
  BY RequestFate DEF CreateBranch
<1>11. exec[Studio] \in ExecRow /\ InHand(Studio, exec[Studio]) /\ exec' = [exec EXCEPT ![Studio] = exec[Studio]]
  BY <1>1, <1>10, SimFacts
<1>12. CheckpointsKept
  BY <1>1, SimFacts DEF CheckpointsKept
<1> QED
  BY <1>1, <1>7, <1>9, <1>10, <1>11, <1>12, Stepped, SimFacts DEF RoundTasksOK

-----------------------------------------------------------------------------
(* Recovery.                                                                *)

LEMMA SimInvStart == SimInit => SimInv
<1> SUFFICES ASSUME SimInit PROVE SimInv
  OBVIOUS
<1>1. /\ \A r \in SimRuns : /\ ledger[r] = <<>> /\ ckpt[r] = {}
                            /\ simRun[r].parent = 0 /\ simRun[r].fork = 0
      /\ ledger = [r \in SimRuns |-> <<>>] /\ DOMAIN ckpt = SimRuns
  BY DEF SimInit, Absent
<1>2. Solves(EventsOf, simRun, ledger)
  BY <1>1, EventsSolve DEF Older
<1>3. EventsOf = [r \in SimRuns |-> <<>>]
  BY <1>1, <1>2 DEF Solves, Value
<1>4. <<>> \in Seq(Event) /\ Len(<<>>) = 0 /\ DOMAIN <<>> = {}
  OBVIOUS
<1>5. SimTypeOK
  <2>1. simRun \in [SimRuns -> RunRow]
    <3>1. Absent \in RunRow /\ [Absent EXCEPT !.status = "RUNNING"] \in RunRow
      BY DEF Absent, RunRow, RunStatuses
    <3> QED
      BY <3>1 DEF SimInit
  <2>2. roundTask \in [Key -> RoundTaskRow] /\ \A k \in Key : roundTask[k].owner = NoExecutor
    BY DEF SimInit, RoundTaskRow
  <2>3. exec \in [Executors \cup {Studio} -> ExecRow]
    <3>1. NoWork \in ExecRow
      BY IdleInHand DEF Processes
    <3> QED
      BY <3>1 DEF SimInit
  <2>4. fate \in [trouble: 0..MaxTrouble, takenOver: BOOLEAN]
    BY SimAssumption DEF SimInit
  <2>5. ledger \in [SimRuns -> Seq(Event)]
    BY <1>1, <1>4
  <2> QED
    BY <1>1, <2>1, <2>2, <2>3, <2>4, <2>5 DEF SimTypeOK, SimInit
<1>6. Descends
  BY <1>1 DEF Descends
<1>7. Worlds
  BY <1>1, <1>3, <1>4 DEF Worlds, Replays
<1>8. Checkpoints
  BY <1>1 DEF Checkpoints
<1>9. \A e \in Processes : InHand(e, exec[e])
  <2>1. \A e \in Processes : exec[e] = NoWork
    BY DEF SimInit, Processes
  <2> QED
    BY <2>1, IdleInHand
<1> QED
  BY <1>5, <1>6, <1>7, <1>8, <1>9 DEF SimInv

LEMMA SimInvStep == SimInv /\ [SimNext]_simVars => SimInv'
<1> SUFFICES ASSUME SimInv, [SimNext]_simVars PROVE SimInv'
  OBVIOUS
<1>1. CASE UNCHANGED simVars
  <2>1. Studio \in Processes
    BY DEF Processes
  <2>2. exec[Studio] \in ExecRow /\ InHand(Studio, exec[Studio]) /\ exec' = [exec EXCEPT ![Studio] = exec[Studio]]
    BY <1>1, <2>1, SimFacts DEF simVars
  <2> QED
    BY <1>1, <2>1, <2>2, SteppedAlone, SimFacts DEF simVars, RoundTasksOK
<1>2. ASSUME NEW e \in Processes, RoundStep(e) PROVE SimInv'
  BY <1>2, EnterRoundKeeps, ReadRoundKeeps, DecideRoundKeeps, AppendRoundKeeps, RememberEventKeeps, AdvanceRoundKeeps,
     ReplayWorldKeeps, WriteCheckpointKeeps, CloseRoundKeeps, CompleteRunKeeps, SettleRoundKeeps, FallKeeps
     DEF RoundStep
<1>3. ASSUME NEW e \in Executors, WorkerStep(e) PROVE SimInv'
  <2>1. e \in Processes
    BY DEF Processes
  <2> QED
    BY <1>3, <2>1, ClaimRoundKeeps, ReconcileRoundKeeps, ScheduleRoundKeeps, ProviderFailsKeeps, BudgetStopsKeeps,
       BudgetBreaksKeeps, PauseForBudgetKeeps, HaltRunKeeps DEF WorkerStep
<1>4. ASSUME NEW r \in SimRuns, StudioStep(r) PROVE SimInv'
  <2>1. ArchiveRun(r) \/ UnarchiveRun(r) \/ DeleteRun(r) => SimInv'
    BY HistoryKeeps DEF ArchiveRun, UnarchiveRun, DeleteRun
  <2> QED
    BY <1>4, <2>1, TransitionRunKeeps, AskRoundKeeps, PreviewRoundKeeps, AskInterventionKeeps, CreateBranchKeeps
       DEF StudioStep
<1> QED
  BY <1>1, <1>2, <1>3, <1>4, EnqueueRoundKeeps, BindRoundKeeps, InterveneKeeps, RetryRoundKeeps DEF SimNext, Processes

\* SimInv holds throughout: the tables are well formed, a branch forks within what its
\* older parent has seen, worlds have no gap, and checkpoints are worlds of the past.
THEOREM SimInvariant == SimSpec => []SimInv
<1>1. SimInit => SimInv
  BY SimInvStart
<1>2. SimInv /\ [SimNext]_simVars => SimInv'
  BY SimInvStep
<1> QED
  BY <1>1, <1>2, PTL DEF SimSpec

\* The tables and the processes of the sandbox are well formed, and only a running
\* task has an owner.
THEOREM SimTypes == SimSpec => []SimTypeOK
<1>1. SimInv => SimTypeOK
  BY DEF SimInv
<1> QED
  BY <1>1, SimInvariant, PTL

\* There is a latest checkpoint.
LEMMA LatestCheckpoint ==
    ASSUME SimInv, NEW r \in SimRuns, ckpt[r] # {}
    PROVE  LastCheckpoint(r) \in ckpt[r]
<1> DEFINE left == {Len(EventsOf[r]) - c.seq : c \in ckpt[r]}
<1>1. Len(EventsOf[r]) \in Nat /\ \A c \in ckpt[r] : c.seq \in Nat /\ c.seq <= Len(EventsOf[r])
  BY SimFacts, RowFacts DEF SimInv, SimTypeOK, Checkpoints, StartOf
<1>2. left \subseteq Nat /\ left # {}
  BY <1>1
<1>3. \E n \in left : \A m \in left : n <= m
  <2> HIDE DEF left
  <2> QED
    BY <1>2, LeastNumber
<1>4. \E c \in ckpt[r] : \A d \in ckpt[r] : Len(EventsOf[r]) - c.seq <= Len(EventsOf[r]) - d.seq
  BY <1>3
<1>5. \E c \in ckpt[r] : \A d \in ckpt[r] : d.seq <= c.seq
  <2>1. PICK c \in ckpt[r] : \A d \in ckpt[r] : Len(EventsOf[r]) - c.seq <= Len(EventsOf[r]) - d.seq
    BY <1>4
  <2>2. ASSUME NEW d \in ckpt[r] PROVE d.seq <= c.seq
    <3> DEFINE n == Len(EventsOf[r])
               x == c.seq
               y == d.seq
    <3>1. n \in Nat /\ x \in Nat /\ y \in Nat /\ n - x <= n - y
      BY <1>1, <2>1
    <3> HIDE DEF n, x, y
    <3>2. y <= x
      BY <3>1
    <3> QED
      BY <3>2 DEF x, y
  <2> QED
    BY <2>2
<1> QED
  BY <1>5, Zenon DEF LastCheckpoint

\* A world of the past and the events since then are the world.
LEMMA PastAndSince ==
    ASSUME NEW s \in Seq(Event), NEW t \in Seq(Event), StartOf(s, t)
    PROVE  s \o SubSeq(t, Len(s) + 1, Len(t)) = t
<1>1. Len(s) \in Nat /\ Len(t) \in Nat /\ Len(s) \in 0..Len(t)
  BY DEF StartOf
<1>2. s = SubSeq(t, 1, Len(s))
  <2>1. SubSeq(s, 1, Len(s)) = SubSeq(t, 1, Len(s))
    BY <1>1, SameFirstPart
  <2>2. SubSeq(s, 1, Len(s)) = s
    BY SubSeqFull
  <2> QED
    BY <2>1, <2>2
<1>3. SubSeq(t, 1, Len(s)) \o SubSeq(t, Len(s) + 1, Len(t)) = SubSeq(t, 1, Len(t))
  <2>1. 1 \in 1..Len(t) + 1 /\ Len(s) \in 1 - 1..Len(t) /\ Len(t) \in Len(s)..Len(t)
    BY <1>1
  <2> QED
    BY <2>1, ConcatAdjacentSubSeq
<1>4. SubSeq(t, 1, Len(t)) = t
  BY SubSeqFull
<1> QED
  BY <1>2, <1>3, <1>4

LEMMA RecoveredIsWorld ==
    ASSUME SimInv, NEW r \in SimRuns
    PROVE  RecoveredWorld(r) = EventsOf[r]
<1>1. CASE ckpt[r] = {}
  BY <1>1 DEF RecoveredWorld
<1>2. CASE ckpt[r] # {}
  <2> DEFINE c == LastCheckpoint(r)
             all == EventsOf[r]
  <2>1. c \in ckpt[r]
    BY <1>2, LatestCheckpoint
  <2>2. c.world \in Seq(Event) /\ c.seq = Len(c.world) /\ StartOf(c.world, all)
    BY <2>1 DEF SimInv, SimTypeOK, Checkpoints
  <2>3. all \in Seq(Event) /\ Replays(all)
    BY SimFacts, RowFacts
  <2>4. RecoveredWorld(r) = c.world \o SubSeq(all, UpTo(all, c.seq) + 1, Len(all))
    BY <1>2 DEF RecoveredWorld
  <2> HIDE DEF c, all
  <2>5. c.seq \in 0..Len(all)
    BY <2>2, <2>3 DEF StartOf
  <2>6. UpTo(all, c.seq) = c.seq
    BY <2>3, <2>5, UpToIs
  <2>7. c.world \o SubSeq(all, Len(c.world) + 1, Len(all)) = all
    BY <2>2, <2>3, PastAndSince
  <2> QED
    BY <2>2, <2>4, <2>6, <2>7 DEF all
<1> QED
  BY <1>1, <1>2

\* Recovery from the last checkpoint and the replay of the whole ledger give the same
\* world, without a gap, whoever appends to the run or its parent in between.
THEOREM RecoveryIsReplay == SimSpec => []RecoverIsReplay
<1>1. SimInv => RecoverIsReplay
  BY RecoveredIsWorld, SimFacts, RowFacts DEF RecoverIsReplay
<1> QED
  BY <1>1, SimInvariant, PTL

-----------------------------------------------------------------------------
(* Acting once: what the steps of a process do to the others.               *)

Acts == SimInv /\ ActInv

\* Process f does something that appends nothing: memories stay, the rounds of a run
\* that has events do not go back, and a task that another owns stays with its owner.
Calm(f) ==
    /\ ledger' = ledger /\ remembered \subseteq remembered'
    /\ \A r \in SimRuns : simRun[r].round <= simRun'[r].round \/ ledger[r] = <<>>
    /\ \A e \in Processes \ {f} : exec'[e] = exec[e]
    /\ ~fate'.takenOver =>
          /\ ~fate.takenOver
          /\ \A k \in Key :
                /\ roundTask[k].owner \notin {f, NoExecutor} => roundTask'[k].owner = roundTask[k].owner
                /\ roundTask'[k].status = "completed" => roundTask[k].status = "completed" \/ Recalled(k)

\* ... and has this in hand then.
Holds(f) ==
    /\ exec'[f].pc = "appending" => BatchOwn(exec'[f])
    /\ exec'[f].pc = "intervening" => Authored(exec'[f])
    /\ ~fate'.takenOver /\ f \in Executors /\ exec'[f].pc # "idle" => Acting(f, exec[f])'

LEMMA OwnStays == ASSUME ledger' = ledger, NEW k PROVE OwnActions(k)' = OwnActions(k)
  BY DEF OwnActions

LEMMA RecalledStays ==
    ASSUME ledger' = ledger, remembered \subseteq remembered', NEW k, Recalled(k)
    PROVE  Recalled(k)'
  BY DEF Recalled, OwnActions

LEMMA ActFacts ==
    ASSUME Acts
    PROVE  /\ SimInv /\ Past /\ ActsOnce
           /\ \A e \in Processes : /\ exec[e].pc = "appending" => BatchOwn(exec[e])
                                   /\ exec[e].pc = "intervening" => Authored(exec[e])
           /\ ~fate.takenOver => /\ \A e \in Executors : exec[e].pc # "idle" => Acting(e, exec[e])
                                 /\ \A k \in Key : roundTask[k].status = "completed" => Recalled(k)
<1>1. ActInv
  BY DEF Acts
<1>2. ~fate.takenOver => /\ \A e \in Executors : exec[e].pc # "idle" => Acting(e, exec[e])
                         /\ \A k \in Key : roundTask[k].status = "completed" => Recalled(k)
  BY <1>1 DEF ActInv, Alone
<1> QED
  BY <1>1, <1>2 DEF Acts, ActInv

LEMMA OtherActs ==
    ASSUME Acts, NEW f \in Processes, Calm(f), ~fate'.takenOver, NEW e \in Executors, e # f, exec[e].pc # "idle"
    PROVE  Acting(e, exec[e])'
<1>1. Acting(e, exec[e]) /\ exec'[e] = exec[e] /\ e \in Processes
  BY ActFacts DEF Calm, Processes
<1>2. exec[e].key \in Key /\ e # NoExecutor
  BY <1>1, SimFacts, SimAssumption DEF Acts, InHand
<1>3. roundTask'[exec[e].key].owner = e
  BY <1>1, <1>2 DEF Calm, Acting
<1>4. OwnActions(exec[e].key)' = OwnActions(exec[e].key)
  BY <1>1 DEF Calm, OwnActions
<1>5. Recalled(exec[e].key) => Recalled(exec[e].key)'
  BY <1>1 DEF Calm, Recalled, OwnActions
<1>6. remembered \subseteq remembered'
  BY DEF Calm
<1> QED
  BY <1>1, <1>3, <1>4, <1>5, <1>6 DEF Acting, Ready

LEMMA CalmActs ==
    ASSUME Acts, SimInv', NEW f \in Processes, Calm(f), Holds(f)
    PROVE  Acts'
<1>1. Past'
  <2>1. SUFFICES ASSUME NEW r \in SimRuns, NEW i \in DOMAIN ledger'[r], ledger'[r][i].kind = "action"
                 PROVE  ledger'[r][i].by.run = r /\ ledger'[r][i].by.round <= simRun'[r].round
    BY DEF Past
  <2>2. ledger' = ledger /\ simRun[r].round <= simRun'[r].round
    BY <2>1 DEF Calm
  <2>3. ledger[r][i].by.run = r /\ ledger[r][i].by.round <= simRun[r].round
    BY <2>1, <2>2, ActFacts DEF Past
  <2>4. ledger[r][i].by.round \in Nat /\ simRun[r].round \in Nat /\ simRun'[r].round \in Nat
    <3>1. ledger[r] \in Seq(Event) /\ i \in DOMAIN ledger[r]
      BY <2>1, <2>2, SimFacts DEF Acts
    <3>2. ledger[r][i] \in Event
      BY <3>1
    <3>3. simRun[r] \in RunRow /\ simRun'[r] \in RunRow
      BY DEF Acts, SimInv, SimTypeOK
    <3> QED
      BY <3>2, <3>3 DEF Event, RunRow
  <2> QED
    BY <2>2, <2>3, <2>4
<1>2. \A e \in Processes : /\ (exec[e].pc = "appending" => BatchOwn(exec[e]))'
                           /\ (exec[e].pc = "intervening" => Authored(exec[e]))'
  <2>1. ASSUME NEW e \in Processes PROVE /\ exec'[e].pc = "appending" => BatchOwn(exec'[e])
                                         /\ exec'[e].pc = "intervening" => Authored(exec'[e])
    BY ActFacts DEF Calm, Holds
  <2> QED
    BY <2>1 DEF BatchOwn, Authored
<1>3. Alone'
  <2>1. SUFFICES ASSUME ~fate'.takenOver
                 PROVE  /\ \A e \in Executors : (exec[e].pc # "idle" => Acting(e, exec[e]))'
                        /\ \A k \in Key : (roundTask[k].status = "completed" => Recalled(k))'
    BY DEF Alone
  <2>2. ASSUME NEW e \in Executors, exec'[e].pc # "idle" PROVE Acting(e, exec[e])'
    <3>1. CASE e = f
      BY <2>1, <2>2, <3>1 DEF Holds
    <3>2. CASE e # f
      <4>1. exec'[e] = exec[e]
        BY <3>2 DEF Calm, Processes
      <4> QED
        BY <2>1, <2>2, <3>2, <4>1, OtherActs
    <3> QED
      BY <3>1, <3>2
  <2>3. ASSUME NEW k \in Key, roundTask'[k].status = "completed" PROVE Recalled(k)'
    <3>1. Recalled(k)
      BY <2>1, <2>3, ActFacts DEF Calm
    <3> QED
      BY <3>1, RecalledStays DEF Calm
  <2> QED
    BY <2>2, <2>3
<1>4. ActsOnce'
  <2>1. ~fate'.takenOver => ~fate.takenOver
    BY DEF Calm
  <2>2. ledger' = ledger /\ ActsOnce
    BY ActFacts DEF Calm
  <2> QED
    BY <2>1, <2>2 DEF ActsOnce
<1> QED
  BY <1>1, <1>2, <1>3, <1>4 DEF Acts, ActInv, Processes

-----------------------------------------------------------------------------
(* Acting once: the steps that append nothing.                              *)

\* A step of f in which the tasks of the others do not move.
LEMMA CalmAlone ==
    ASSUME Acts, NEW f \in Processes, NEW l, exec' = [exec EXCEPT ![f] = l],
           UNCHANGED <<simRun, ledger, roundTask, fate>>, remembered \subseteq remembered'
    PROVE  Calm(f)
<1>1. \A r \in SimRuns : simRun[r].round \in Nat
  BY SimFacts, RowFacts DEF Acts
<1>2. \A e \in Processes \ {f} : exec'[e] = exec[e]
  BY SimFacts DEF Acts
<1> QED
  BY <1>1, <1>2 DEF Calm

\* The end of a handler: it settles its own task, and completes it when its actions
\* are remembered.
LEMMA CalmEnd ==
    ASSUME Acts, NEW f \in Processes, NEW status, HandlerEnds(f, status),
           \A r \in SimRuns : simRun[r].round <= simRun'[r].round, UNCHANGED <<ledger, remembered, fate>>,
           status = "completed" /\ ~fate.takenOver /\ f \in Executors => Recalled(KeyOf(f))
    PROVE  Calm(f) /\ Holds(f)
<1>1. exec' = [exec EXCEPT ![f] = NoWork] /\ exec \in [Processes -> ExecRow]
  BY SimFacts DEF HandlerEnds, Acts
<1>2. \A e \in Processes \ {f} : exec'[e] = exec[e]
  BY <1>1
<1>3. exec'[f].pc = "idle"
  BY <1>1 DEF NoWork
<1>4. Holds(f)
  BY <1>3 DEF Holds
<1>5. ASSUME ~fate'.takenOver, NEW k \in Key
      PROVE  /\ roundTask[k].owner \notin {f, NoExecutor} => roundTask'[k].owner = roundTask[k].owner
             /\ roundTask'[k].status = "completed" => roundTask[k].status = "completed" \/ Recalled(k)
  <2>1. roundTask' = TaskSettled(f, status) /\ roundTask \in [Key -> RoundTaskRow]
    BY SimFacts DEF HandlerEnds, Acts, RoundTasksOK
  <2>2. CASE f # Studio /\ roundTask[KeyOf(f)].owner = f
    <3>1. roundTask' = [roundTask EXCEPT ![KeyOf(f)] = [status |-> status, owner |-> NoExecutor]]
      BY <2>1, <2>2 DEF TaskSettled
    <3>2. k # KeyOf(f) => roundTask'[k] = roundTask[k]
      BY <2>1, <3>1
    <3>3. k = KeyOf(f) => roundTask'[k].status = status
      BY <2>1, <3>1
    <3> QED
      BY <1>5, <2>2, <3>2, <3>3 DEF Processes
  <2>3. CASE ~(f # Studio /\ roundTask[KeyOf(f)].owner = f)
    BY <2>1, <2>3 DEF TaskSettled
  <2> QED
    BY <2>2, <2>3
<1> QED
  BY <1>2, <1>4, <1>5 DEF Calm

LEMMA RoundsStay == ASSUME Acts, simRun' = simRun PROVE \A r \in SimRuns : simRun[r].round <= simRun'[r].round
<1>1. \A r \in SimRuns : simRun[r].round \in Nat
  BY SimFacts, RowFacts DEF Acts
<1> QED
  BY <1>1

LEMMA RaiseActs == ASSUME Acts, SimInv', NEW e \in Processes, Raises(e) PROVE Acts'
<1>1. \A r \in SimRuns : simRun[r].round <= simRun'[r].round
  BY RoundsStay DEF Raises
<1> QED
  BY <1>1, CalmEnd, CalmActs DEF Raises

LEMMA FailsActs ==
    ASSUME Acts, SimInv', NEW e \in Processes, NEW status \in {"queued", "failed"}, ProviderFails(e, status)
    PROVE  Acts'
<1>1. \A r \in SimRuns : simRun[r].round <= simRun'[r].round
  BY RoundsStay DEF ProviderFails
<1>2. status # "completed"
  OBVIOUS
<1> QED
  BY <1>1, <1>2, CalmEnd, CalmActs DEF ProviderFails

LEMMA LateRecalled ==
    ASSUME Acts, NEW e \in Executors, exec[e].pc \in Late, ~fate.takenOver
    PROVE  Recalled(KeyOf(e))
  BY ActFacts DEF Acting, Ready, Late, KeyOf

LEMMA ReturnActs == ASSUME Acts, SimInv', NEW e \in Processes, exec[e].pc \in Late, Returns(e) PROVE Acts'
<1>1. \A r \in SimRuns : simRun[r].round <= simRun'[r].round
  BY RoundsStay DEF Returns
<1> QED
  BY <1>1, LateRecalled, CalmEnd, CalmActs DEF Returns

\* A handler goes on, ready for what it goes on to.
LEMMA GoesActs ==
    ASSUME Acts, SimInv', NEW e \in Processes, NEW l, exec' = [exec EXCEPT ![e] = l], l.key = exec[e].key,
           exec[e].pc # "idle", l.pc \notin {"appending", "intervening", "remembering"},
           UNCHANGED <<simRun, ledger, remembered, roundTask, fate>>,
           ~fate.takenOver /\ e \in Executors => Ready(exec[e].key, l.pc)
    PROVE  Acts'
<1>1. exec'[e] = l
  BY SimFacts DEF Acts
<1>2. Calm(e)
  BY CalmAlone
<1>3. ASSUME ~fate'.takenOver, e \in Executors PROVE Acting(e, exec[e])'
  <2>1. ~fate.takenOver
    BY <1>3
  <2>2. roundTask[exec[e].key].owner = e /\ Ready(exec[e].key, l.pc)
    BY <1>3, <2>1, ActFacts DEF Acting
  <2>3. OwnActions(exec[e].key)' = OwnActions(exec[e].key)'
    OBVIOUS
  <2> QED
    BY <1>1, <2>2 DEF Acting, Ready, Recalled, OwnActions
<1>4. Holds(e)
  BY <1>1, <1>3 DEF Holds
<1> QED
  BY <1>2, <1>4, CalmActs

LEMMA MoveActs ==
    ASSUME Acts, SimInv', NEW e \in Processes, exec[e].pc # "idle", NEW pc \in Further \ {"remembering"}, MovesOn(e, pc),
           ~fate.takenOver /\ e \in Executors => Ready(exec[e].key, pc)
    PROVE  Acts'
<1> DEFINE l == [exec[e] EXCEPT !.pc = pc]
<1>1. exec' = [exec EXCEPT ![e] = l]
  BY DEF MovesOn, Set
<1>2. l.pc = pc /\ l.key = exec[e].key
  <2>1. exec[e] \in ExecRow
    BY SimFacts DEF Acts
  <2> QED
    BY <2>1 DEF ExecRow
<1>3. pc \notin {"appending", "intervening", "remembering"}
  BY DEF Further
<1> HIDE DEF l
<1> QED
  BY <1>1, <1>2, <1>3, GoesActs DEF MovesOn

LEMMA EarlyNothing ==
    ASSUME Acts, NEW e \in Executors, exec[e].pc \in Early, ~fate.takenOver
    PROVE  OwnActions(exec[e].key) = {} /\ Recalled(exec[e].key)
  BY ActFacts DEF Acting, Ready, Early, Recalled

LEMMA EnterRoundActs == ASSUME Acts, SimInv', NEW e \in Processes, EnterRound(e) PROVE Acts'
<1>1. CASE Raises(e)
  BY <1>1, RaiseActs
<1>2. CASE MovesOn(e, "reading")
  <2>1. exec[e].pc \in Early /\ exec[e].pc # "idle" /\ "reading" \in Further \ {"remembering"}
    BY DEF EnterRound, ExecAt, Early, Further
  <2>2. ~fate.takenOver /\ e \in Executors => Ready(exec[e].key, "reading")
    BY <2>1, EarlyNothing DEF Ready, Late
  <2> QED
    BY <1>2, <2>1, <2>2, MoveActs
<1> QED
  BY <1>1, <1>2 DEF EnterRound

\* A round that the run has not come to has no action in the ledger.
LEMMA ScheduleRoundActs == ASSUME Acts, SimInv', NEW e \in Processes, ScheduleRound(e) PROVE Acts'
<1>1. CASE Raises(e)
  BY <1>1, RaiseActs
<1>2. CASE MovesOn(e, "entering")
  <2>1. exec[e].pc # "idle" /\ "entering" \in Further \ {"remembering"}
    BY DEF ScheduleRound, ExecAt, Further
  <2>2. OwnActions(exec[e].key) = {}
    <3> DEFINE r == exec[e].key.run
               n == exec[e].key.round
    <3>1. r \in SimRuns /\ n \in Nat /\ simRun[r].round < n /\ simRun[r].round \in Nat
      BY RowFields, SimFacts, RowFacts DEF Acts, ScheduleRound
    <3>2. ASSUME NEW i \in OwnActions(exec[e].key) PROVE FALSE
      <4>1. i \in DOMAIN ledger[r] /\ ledger[r][i].kind = "action" /\ ledger[r][i].by = exec[e].key
        BY <3>2 DEF OwnActions
      <4>2. n <= simRun[r].round
        BY <3>1, <4>1, ActFacts DEF Past
      <4> HIDE DEF r, n
      <4> QED
        BY <3>1, <4>2
    <3> QED
      BY <3>2
  <2>3. Ready(exec[e].key, "entering")
    BY <2>2 DEF Ready, Late
  <2> QED
    BY <1>2, <2>1, <2>3, MoveActs
<1> QED
  BY <1>1, <1>2 DEF ScheduleRound

LEMMA BudgetStopsActs == ASSUME Acts, SimInv', NEW e \in Processes, BudgetStops(e) PROVE Acts'
<1>1. exec[e].pc \in Early \cup Late /\ exec[e].pc # "idle" /\ "pausing" \in Further \ {"remembering"}
  BY DEF BudgetStops, Early, Late, Further
<1>2. ~fate.takenOver /\ e \in Executors => Recalled(exec[e].key)
  BY <1>1, EarlyNothing, LateRecalled DEF KeyOf
<1>3. ~fate.takenOver /\ e \in Executors => Ready(exec[e].key, "pausing")
  BY <1>2 DEF Ready, Early
<1> QED
  BY <1>1, <1>3, MoveActs DEF BudgetStops

LEMMA BudgetBreaksActs == ASSUME Acts, SimInv', NEW e \in Processes, BudgetBreaks(e) PROVE Acts'
  BY RaiseActs DEF BudgetBreaks

LEMMA LateReady ==
    ASSUME Acts, NEW e \in Processes, exec[e].pc \in Late, NEW pc \in Late
    PROVE  ~fate.takenOver /\ e \in Executors => Ready(exec[e].key, pc)
<1>1. pc \notin Early
  BY DEF Early, Late
<1> QED
  BY <1>1, LateRecalled DEF Ready, KeyOf

LEMMA PauseForBudgetActs == ASSUME Acts, SimInv', NEW e \in Processes, PauseForBudget(e) PROVE Acts'
<1>1. exec[e].pc \in Late /\ exec[e].pc # "idle" /\ "halting" \in Further \ {"remembering"} /\ "halting" \in Late
  BY DEF PauseForBudget, ExecAt, Late, Further
<1> QED
  BY <1>1, LateReady, MoveActs, ReturnActs DEF PauseForBudget

LEMMA CloseRoundActs == ASSUME Acts, SimInv', NEW e \in Processes, CloseRound(e) PROVE Acts'
<1>1. /\ exec[e].pc \in Late /\ exec[e].pc # "idle"
      /\ {"completing", "settling"} \subseteq Further \ {"remembering"} /\ {"completing", "settling"} \subseteq Late
  BY DEF CloseRound, ExecAt, Late, Further
<1> QED
  BY <1>1, LateReady, MoveActs DEF CloseRound

LEMMA SettleRoundActs == ASSUME Acts, SimInv', NEW e \in Processes, SettleRound(e) PROVE Acts'
<1>1. exec[e].pc \in Late
  BY DEF SettleRound, ExecAt, Late
<1> QED
  BY <1>1, ReturnActs DEF SettleRound

LEMMA ReadRoundActs == ASSUME Acts, SimInv', NEW e \in Processes, ReadRound(e) PROVE Acts'
<1>1. PICK all, own : exec' = [exec EXCEPT ![e].pc = "deciding", ![e].world = all, ![e].todo = own]
  BY DEF ReadRound
<1> DEFINE l == [exec[e] EXCEPT !.pc = "deciding", !.world = all, !.todo = own]
<1>2. exec' = [exec EXCEPT ![e] = l]
  BY <1>1
<1>3. l.pc = "deciding" /\ l.key = exec[e].key
  <2>1. exec[e] \in ExecRow
    BY SimFacts DEF Acts
  <2> QED
    BY <2>1 DEF ExecRow
<1> HIDE DEF l
<1>4. exec[e].pc \in Early /\ exec[e].pc # "idle"
  BY DEF ReadRound, ExecAt, Early
<1>5. ~fate.takenOver /\ e \in Executors => Ready(exec[e].key, l.pc)
  BY <1>3, <1>4, EarlyNothing DEF Ready, Late
<1> QED
  BY <1>2, <1>3, <1>4, <1>5, GoesActs DEF ReadRound

LEMMA ReplayWorldActs == ASSUME Acts, SimInv', NEW e \in Processes, ReplayWorld(e) PROVE Acts'
<1>1. CASE Raises(e)
  BY <1>1, RaiseActs
<1>2. CASE ~Raises(e)
  <2>1. PICK all : /\ exec' = [exec EXCEPT ![e].pc = "checkpointing", ![e].world = all]
                   /\ UNCHANGED <<simRun, ledger, remembered, roundTask, fate>>
    BY <1>2 DEF ReplayWorld
  <2> DEFINE l == [exec[e] EXCEPT !.pc = "checkpointing", !.world = all]
  <2>2. exec' = [exec EXCEPT ![e] = l]
    BY <2>1
  <2>3. l.pc = "checkpointing" /\ l.key = exec[e].key
    <3>1. exec[e] \in ExecRow
      BY SimFacts DEF Acts
    <3> QED
      BY <3>1 DEF ExecRow
  <2> HIDE DEF l
  <2>4. exec[e].pc \in Late /\ exec[e].pc # "idle" /\ l.pc \in Late
    BY <2>3 DEF ReplayWorld, ExecAt, Late
  <2>5. ~fate.takenOver /\ e \in Executors => Ready(exec[e].key, l.pc)
    BY <2>4, LateReady
  <2> QED
    BY <2>1, <2>2, <2>3, <2>4, <2>5, GoesActs
<1> QED
  BY <1>1, <1>2

LEMMA WriteCheckpointActs == ASSUME Acts, SimInv', NEW e \in Processes, WriteCheckpoint(e) PROVE Acts'
<1>1. CASE Raises(e)
  BY <1>1, RaiseActs
<1>2. CASE ~Raises(e)
  <2>1. /\ exec' = [exec EXCEPT ![e].pc = "closing", ![e].world = <<>>]
        /\ UNCHANGED <<simRun, ledger, remembered, roundTask, fate>>
    BY <1>2 DEF WriteCheckpoint
  <2> DEFINE l == [exec[e] EXCEPT !.pc = "closing", !.world = <<>>]
  <2>2. exec' = [exec EXCEPT ![e] = l]
    BY <2>1
  <2>3. l.pc = "closing" /\ l.key = exec[e].key
    <3>1. exec[e] \in ExecRow
      BY SimFacts DEF Acts
    <3> QED
      BY <3>1 DEF ExecRow
  <2> HIDE DEF l
  <2>4. exec[e].pc \in Late /\ exec[e].pc # "idle" /\ l.pc \in Late
    BY <2>3 DEF WriteCheckpoint, ExecAt, Late
  <2>5. ~fate.takenOver /\ e \in Executors => Ready(exec[e].key, l.pc)
    BY <2>4, LateReady
  <2> QED
    BY <2>1, <2>2, <2>3, <2>4, <2>5, GoesActs
<1> QED
  BY <1>1, <1>2

\* What the task has in the ledger is to be remembered.
LEMMA ReconcileRoundActs == ASSUME Acts, SimInv', NEW e \in Processes, ReconcileRound(e) PROVE Acts'
<1> DEFINE own == OwnActions(exec[e].key)
           l == [exec[e] EXCEPT !.pc = "remembering", !.path = "reconcile", !.todo = own]
<1>1. exec' = [exec EXCEPT ![e].pc = "remembering", ![e].path = "reconcile", ![e].todo = own]
  BY DEF ReconcileRound, KeyOf
<1> HIDE DEF own
<1>2. exec' = [exec EXCEPT ![e] = l]
  BY <1>1
<1>3. l.pc = "remembering" /\ l.key = exec[e].key /\ l.todo = own
  <2>1. exec[e] \in ExecRow
    BY SimFacts DEF Acts
  <2> QED
    BY <2>1 DEF ExecRow
<1> HIDE DEF l
<1>4. exec'[e] = l
  BY <1>2, SimFacts DEF Acts
<1>5. UNCHANGED <<simRun, ledger, remembered, roundTask, fate>> /\ exec[e].pc # "idle"
  BY DEF ReconcileRound, ExecAt
<1>6. ASSUME ~fate'.takenOver, e \in Executors PROVE Acting(e, exec[e])'
  <2>1. roundTask[exec[e].key].owner = e
    BY <1>5, <1>6, ActFacts DEF Acting
  <2>2. Ready(exec[e].key, exec[e].pc)'
    BY <1>3, <1>4 DEF Ready, Early, Late
  <2>3. OwnActions(exec[e].key)' = own
    BY <1>3, <1>4, <1>5 DEF OwnActions, own
  <2> QED
    BY <1>3, <1>4, <1>5, <2>1, <2>2, <2>3 DEF Acting
<1>7. Holds(e)
  BY <1>3, <1>4, <1>6 DEF Holds
<1>8. Calm(e)
  BY <1>2, <1>5, CalmAlone
<1> QED
  BY <1>7, <1>8, CalmActs

\* The round decides what to append: actions of its own, one of each agent, or a
\* ROUND_CLOCK event.
LEMMA DecideRoundActs == ASSUME Acts, SimInv', NEW e \in Processes, DecideRound(e) PROVE Acts'
<1>1. PICK batch :
        /\ batch[1].round = RoundOf(e)
        /\ \A i \in DOMAIN batch :
              \/ batch[i].kind = "clock"
              \/ batch[i].by = KeyOf(e) /\ \A j \in DOMAIN batch : batch[j].agent = batch[i].agent => i = j
        /\ exec' = [exec EXCEPT ![e].pc = "appending", ![e].world = <<>>, ![e].batch = batch]
  <2>1. PICK actors \in SUBSET Agents :
          exec' = [exec EXCEPT ![e].pc = "appending", ![e].world = <<>>,
                     ![e].batch = IF actors = {}
                                  THEN <<ClockEvent(e, Len(exec[e].world))>>
                                  ELSE ActionEvents(e, actors, Len(EventsOf[RunOf(e)]))]
    BY DEF DecideRound
  <2>2. Len(exec[e].world) \in Nat /\ Len(EventsOf[RunOf(e)]) \in Nat
    BY RowFields, SimFacts, RowFacts DEF Acts
  <2> DEFINE none == <<ClockEvent(e, Len(exec[e].world))>>
             some == ActionEvents(e, actors, Len(EventsOf[RunOf(e)]))
  <2>3. none[1].round = RoundOf(e) /\ \A i \in DOMAIN none : none[i].kind = "clock"
    BY <2>2, ClockBatch DEF Acts
  <2>4. actors # {} => /\ some[1].round = RoundOf(e)
                       /\ \A i \in DOMAIN some : /\ some[i].by = KeyOf(e)
                                                 /\ \A j \in DOMAIN some : some[j].agent = some[i].agent => i = j
    <3> HIDE DEF none
    <3>1. SUFFICES ASSUME actors # {}
                   PROVE  /\ some[1].round = RoundOf(e)
                          /\ \A i \in DOMAIN some : /\ some[i].by = KeyOf(e)
                                                    /\ \A j \in DOMAIN some : some[j].agent = some[i].agent => i = j
      OBVIOUS
    <3> QED
      BY <2>2, <3>1, ActionBatch DEF Acts
  <2>5. exec' = [exec EXCEPT ![e].pc = "appending", ![e].world = <<>>, ![e].batch = IF actors = {} THEN none ELSE some]
    BY <2>1
  <2> HIDE DEF none, some
  <2>6. CASE actors = {}
    BY <2>3, <2>5, <2>6
  <2>7. CASE actors # {}
    BY <2>4, <2>5, <2>7
  <2> QED
    BY <2>6, <2>7
<1> DEFINE l == [exec[e] EXCEPT !.pc = "appending", !.world = <<>>, !.batch = batch]
<1>2. exec' = [exec EXCEPT ![e] = l]
  BY <1>1
<1>3. l.pc = "appending" /\ l.key = exec[e].key /\ l.batch = batch
  <2>1. exec[e] \in ExecRow
    BY SimFacts DEF Acts
  <2> QED
    BY <2>1 DEF ExecRow
<1> HIDE DEF l
<1>4. exec'[e] = l
  BY <1>2, SimFacts DEF Acts
<1>5. UNCHANGED <<simRun, ledger, remembered, roundTask, fate>> /\ exec[e].pc \in Early /\ exec[e].pc # "idle"
  BY DEF DecideRound, ExecAt, Early
<1>6. BatchOwn(l)
  BY <1>1, <1>3, RowFields DEF BatchOwn, Acts
<1>7. ASSUME ~fate'.takenOver, e \in Executors PROVE Acting(e, exec[e])'
  <2>1. roundTask[exec[e].key].owner = e /\ OwnActions(exec[e].key) = {}
    BY <1>5, <1>7, ActFacts, EarlyNothing DEF Acting
  <2>2. OwnActions(exec[e].key)' = {}
    BY <1>3, <1>4, <1>5, <2>1 DEF OwnActions
  <2> QED
    BY <1>3, <1>4, <1>5, <2>1, <2>2 DEF Acting, Ready, Late
<1>8. Holds(e)
  BY <1>3, <1>4, <1>6, <1>7 DEF Holds
<1>9. Calm(e)
  BY <1>2, <1>5, CalmAlone
<1> QED
  BY <1>8, <1>9, CalmActs

\* An event is remembered, and taken from what is to be remembered.
LEMMA RememberEventActs == ASSUME Acts, SimInv', NEW e \in Processes, RememberEvent(e) PROVE Acts'
<1>1. CASE Raises(e)
  BY <1>1, RaiseActs
<1>2. CASE ~Raises(e)
  <2>1. PICK i : /\ remembered' = remembered \cup {<<exec[e].key.run, i>>}
                 /\ exec' = [exec EXCEPT ![e].todo = exec[e].todo \ {i}]
                 /\ UNCHANGED <<simRun, ledger, roundTask, fate>>
    BY <1>2 DEF RememberEvent, RunOf
  <2> DEFINE l == [exec[e] EXCEPT !.todo = exec[e].todo \ {i}]
  <2>2. exec' = [exec EXCEPT ![e] = l]
    BY <2>1
  <2>3. l.pc = exec[e].pc /\ l.key = exec[e].key /\ l.todo = exec[e].todo \ {i}
    <3>1. exec[e] \in ExecRow
      BY SimFacts DEF Acts
    <3> QED
      BY <3>1 DEF ExecRow
  <2> HIDE DEF l
  <2>4. exec'[e] = l
    BY <2>2, SimFacts DEF Acts
  <2>5. exec[e].pc \in {"deciding", "remembering"}
    BY DEF RememberEvent
  <2>6. ASSUME ~fate'.takenOver, e \in Executors PROVE Acting(e, exec[e])'
    <3>1. Acting(e, exec[e])
      BY <2>1, <2>5, <2>6, ActFacts
    <3>2. OwnActions(exec[e].key)' = OwnActions(exec[e].key)
      BY <2>1, <2>3, <2>4 DEF OwnActions
    <3>3. \A j \in OwnActions(exec[e].key) :
            exec[e].pc = "remembering" => j \in exec[e].todo \ {i} \/ <<exec[e].key.run, j>> \in remembered'
      BY <2>1, <3>1 DEF Acting
    <3> QED
      BY <2>1, <2>3, <2>4, <2>5, <3>1, <3>2, <3>3 DEF Acting, Ready, Late
  <2>7. Holds(e)
    BY <2>3, <2>4, <2>5, <2>6 DEF Holds
  <2>8. Calm(e)
    BY <2>1, <2>2, CalmAlone
  <2> QED
    BY <2>7, <2>8, CalmActs
<1> QED
  BY <1>1, <1>2

\* A handler that writes the row of its run goes on.
LEMMA RowGoesActs ==
    ASSUME Acts, SimInv', NEW e \in Processes, exec[e].pc \notin {"idle", "enqueuing", "binding"}, NEW pc \in Late, Set(e, pc),
           UNCHANGED <<ledger, remembered, roundTask, fate>>,
           \A r \in SimRuns : simRun[r].round <= simRun'[r].round,
           ~fate.takenOver /\ e \in Executors => Recalled(exec[e].key)
    PROVE  Acts'
<1> DEFINE l == [exec[e] EXCEPT !.pc = pc]
<1>1. exec' = [exec EXCEPT ![e] = l]
  BY DEF Set
<1>2. l.pc = pc /\ l.key = exec[e].key
  <2>1. exec[e] \in ExecRow
    BY SimFacts DEF Acts
  <2> QED
    BY <2>1 DEF ExecRow
<1> HIDE DEF l
<1>3. exec'[e] = l /\ \A f \in Processes \ {e} : exec'[f] = exec[f]
  BY <1>1, SimFacts DEF Acts
<1>4. Calm(e)
  BY <1>3 DEF Calm
<1>5. ASSUME ~fate'.takenOver, e \in Executors PROVE Acting(e, exec[e])'
  <2>1. roundTask[exec[e].key].owner = e /\ Recalled(exec[e].key)
    BY <1>5, ActFacts DEF Acting
  <2>2. Recalled(exec[e].key)'
    BY <1>2, <1>3, <2>1 DEF Recalled, OwnActions
  <2> QED
    BY <1>2, <1>3, <2>1, <2>2 DEF Acting, Ready, Late, Early
<1>6. Holds(e)
  BY <1>2, <1>3, <1>5 DEF Holds, Late
<1> QED
  BY <1>4, <1>6, CalmActs

LEMMA AdvanceRoundActs == ASSUME Acts, SimInv', NEW e \in Processes, AdvanceRound(e) PROVE Acts'
<1>1. CASE Raises(e)
  BY <1>1, RaiseActs
<1>2. CASE ~Raises(e)
  <2> DEFINE r == RunOf(e)
             n == RoundOf(e)
  <2>1. /\ simRun[r].round <= n /\ simRun' = [simRun EXCEPT ![r].round = n] /\ Set(e, "consolidating")
        /\ UNCHANGED <<ledger, remembered, roundTask, fate>>
    BY <1>2 DEF AdvanceRound
  <2>2. /\ \A x \in SimRuns : simRun[x].round \in Nat
        /\ simRun \in [SimRuns -> RunRow]
    BY SimFacts, RowFacts DEF Acts
  <2>3. \A x \in SimRuns : simRun[x].round <= simRun'[x].round
    <3> HIDE DEF r, n
    <3> QED
      BY <2>1, <2>2 DEF RunRow
  <2>4. exec[e].pc = "remembering" /\ exec[e].todo = {} /\ "consolidating" \in Late
    BY DEF AdvanceRound, ExecAt, Late
  <2>5. ~fate.takenOver /\ e \in Executors => Recalled(exec[e].key)
    BY <2>4, ActFacts DEF Acting, Recalled
  <2> QED
    BY <2>1, <2>3, <2>4, <2>5, RowGoesActs
<1> QED
  BY <1>1, <1>2

\* Writing the status of a run leaves the rounds alone.
LEMMA StatusRounds ==
    ASSUME Acts, NEW r, NEW status, Turned(r, status)
    PROVE  \A x \in SimRuns : simRun[x].round <= simRun'[x].round
<1>1. /\ \A x \in SimRuns : simRun[x].round \in Nat
      /\ simRun \in [SimRuns -> RunRow]
  BY SimFacts, RowFacts DEF Acts
<1> QED
  BY <1>1 DEF Turned, RunRow

LEMMA CompleteRunActs == ASSUME Acts, SimInv', NEW e \in Processes, CompleteRun(e) PROVE Acts'
<1>1. CASE Raises(e)
  BY <1>1, RaiseActs
<1>2. CASE ~Raises(e)
  <2>1. /\ Turned(RunOf(e), "COMPLETED") /\ Set(e, "settling")
        /\ UNCHANGED <<ledger, remembered, roundTask, fate>>
    BY <1>2 DEF CompleteRun
  <2>2. exec[e].pc \notin {"idle", "enqueuing", "binding"} /\ exec[e].pc \in Late /\ "settling" \in Late
    BY DEF CompleteRun, ExecAt, Late
  <2>3. ~fate.takenOver /\ e \in Executors => Recalled(exec[e].key)
    BY <2>2, LateRecalled DEF KeyOf
  <2> QED
    BY <2>1, <2>2, <2>3, StatusRounds, RowGoesActs
<1> QED
  BY <1>1, <1>2

LEMMA HaltRunActs == ASSUME Acts, SimInv', NEW e \in Processes, HaltRun(e) PROVE Acts'
<1>1. CASE Raises(e)
  BY <1>1, RaiseActs
<1>2. CASE ~Raises(e)
  <2>1. /\ Turned(RunOf(e), "PAUSED_BUDGET") /\ HandlerEnds(e, "completed")
        /\ UNCHANGED <<ledger, remembered, fate>>
    BY <1>2 DEF HaltRun
  <2>2. exec[e].pc \in Late
    BY DEF HaltRun, ExecAt, Late
  <2> QED
    BY <2>1, <2>2, LateRecalled, StatusRounds, CalmEnd, CalmActs
<1> QED
  BY <1>1, <1>2

\* A process dies with its work; its task stays as it is, but without an owner.
LEMMA FallActs == ASSUME Acts, SimInv', NEW e \in Processes, Fall(e) PROVE Acts'
<1>1. exec'[e] = NoWork /\ \A f \in Processes \ {e} : exec'[f] = exec[f]
  BY SimFacts DEF Acts, Fall
<1>2. Holds(e)
  BY <1>1 DEF Holds, NoWork
<1>3. fate'.takenOver = fate.takenOver
  BY SimFacts DEF Acts, Fall
<1>4. \A k \in Key : /\ roundTask[k].owner # e => roundTask'[k].owner = roundTask[k].owner
                     /\ roundTask'[k].status = roundTask[k].status
  BY SimFacts DEF Acts, Fall, RoundTasksOK, RoundTaskRow
<1>5. Calm(e)
  BY <1>1, <1>3, <1>4, RoundsStay DEF Calm, Fall
<1> QED
  BY <1>2, <1>5, CalmActs

\* A worker claims a task that nobody has, or takes it over.
LEMMA ClaimRoundActs == ASSUME Acts, SimInv', NEW e \in Executors, NEW k \in Key, ClaimRound(e, k) PROVE Acts'
<1> DEFINE l == [NoWork EXCEPT !.pc = "claimed", !.key = k]
<1>1. e \in Processes /\ roundTask \in [Key -> RoundTaskRow]
  BY SimFacts DEF Processes, Acts, RoundTasksOK
<1>2. l.pc = "claimed" /\ l.key = k
  <2>1. NoWork \in ExecRow
    BY <1>1, IdleInHand
  <2> QED
    BY <2>1 DEF ExecRow
<1>3. exec' = [exec EXCEPT ![e] = l] /\ roundTask' = [roundTask EXCEPT ![k] = [status |-> "running", owner |-> e]]
  BY DEF ClaimRound
<1> HIDE DEF l
<1>4. exec'[e] = l /\ \A f \in Processes \ {e} : exec'[f] = exec[f]
  BY <1>1, <1>3, SimFacts DEF Acts
<1>5. roundTask'[k] = [status |-> "running", owner |-> e] /\ \A x \in Key \ {k} : roundTask'[x] = roundTask[x]
  BY <1>1, <1>3
<1>6. Holds(e)
  <2>1. roundTask'[exec'[e].key].owner = e
    BY <1>2, <1>4, <1>5
  <2>2. Acting(e, exec[e])'
    BY <1>2, <1>4, <2>1 DEF Acting, Ready, Early, Late
  <2> QED
    BY <1>2, <1>4, <2>2 DEF Holds
<1>7. ~fate'.takenOver => ~fate.takenOver /\ roundTask[k].owner = NoExecutor
  <2>1. roundTask[k].owner = NoExecutor \/ roundTask[k].status = "running"
    BY SimFacts DEF Acts, RoundTasksOK
  <2> QED
    BY <2>1 DEF ClaimRound, Claims
<1>8. Calm(e)
  BY <1>1, <1>4, <1>5, <1>7, RoundsStay DEF Calm, ClaimRound
<1> QED
  BY <1>1, <1>6, <1>8, CalmActs

-----------------------------------------------------------------------------
(* Acting once: the requests.                                               *)

\* A request that leaves the studio idle, or at work.
LEMMA RequestActs ==
    ASSUME Acts, SimInv', Request, UNCHANGED <<ledger, remembered>>,
           \A r \in SimRuns : simRun[r].round <= simRun'[r].round \/ ledger[r] = <<>>,
           \A e \in Executors : exec'[e] = exec[e],
           exec'[Studio].pc # "appending", exec'[Studio].pc = "intervening" => Authored(exec'[Studio]),
           \A k \in Key : /\ roundTask'[k].owner = roundTask[k].owner
                          /\ roundTask'[k].status = "completed" => roundTask[k].status = "completed"
    PROVE  Acts'
<1>1. Studio \in Processes /\ Studio \notin Executors
  BY SimAssumption DEF Processes
<1>2. fate'.takenOver = fate.takenOver
  BY SimFacts DEF Request, Acts
<1>3. Calm(Studio)
  BY <1>2 DEF Calm, Processes
<1>4. Holds(Studio)
  BY <1>1 DEF Holds
<1> QED
  BY <1>1, <1>3, <1>4, CalmActs

LEMMA RequestRowActs ==
    ASSUME Acts, SimInv', Request, \A r \in SimRuns : simRun[r].round <= simRun'[r].round \/ ledger[r] = <<>>,
           UNCHANGED <<ledger, remembered, roundTask, exec>>
    PROVE  Acts'
<1>1. exec'[Studio].pc = "idle"
  BY DEF Request, ExecAt
<1> QED
  BY <1>1, RequestActs

LEMMA TransitionRunActs ==
    ASSUME Acts, SimInv', NEW r \in SimRuns, NEW status \in RunStatuses, TransitionRun(r, status)
    PROVE  Acts'
  BY StatusRounds, RequestRowActs DEF TransitionRun

LEMMA HistoryActs ==
    ASSUME Acts, SimInv', NEW r \in SimRuns, ArchiveRun(r) \/ UnarchiveRun(r) \/ DeleteRun(r)
    PROVE  Acts'
<1>1. /\ \A x \in SimRuns : simRun[x].round \in Nat
      /\ simRun \in [SimRuns -> RunRow]
  BY SimFacts, RowFacts DEF Acts
<1>2. PICK h : simRun' = [simRun EXCEPT ![r].history = h]
  BY DEF ArchiveRun, UnarchiveRun, DeleteRun
<1>3. \A x \in SimRuns : simRun[x].round <= simRun'[x].round
  BY <1>1, <1>2 DEF RunRow
<1> QED
  BY <1>3, RequestRowActs DEF ArchiveRun, UnarchiveRun, DeleteRun

\* A branch has no event of its own yet.
LEMMA CreateBranchActs ==
    ASSUME Acts, SimInv', NEW r \in SimRuns, NEW child \in SimRuns, NEW fork \in 0..MaxEvents, CreateBranch(r, child, fork)
    PROVE  Acts'
<1>1. /\ \A x \in SimRuns : simRun[x].round \in Nat
      /\ simRun \in [SimRuns -> RunRow]
  BY SimFacts, RowFacts DEF Acts
<1>2. PICK row : simRun' = [simRun EXCEPT ![child] = row]
  BY DEF CreateBranch
<1>3. ledger[child] = <<>>
  BY DEF CreateBranch, Acts, SimInv, Descends
<1>4. \A x \in SimRuns : simRun[x].round <= simRun'[x].round \/ ledger[x] = <<>>
  BY <1>1, <1>2, <1>3
<1> QED
  BY <1>4, RequestRowActs DEF CreateBranch

\* The studio takes something in hand.
LEMMA RequestWorkActs ==
    ASSUME Acts, SimInv', Request, NEW l, exec' = [exec EXCEPT ![Studio] = l],
           l.pc # "appending", l.pc = "intervening" => Authored(l),
           UNCHANGED <<simRun, ledger, remembered, roundTask>>
    PROVE  Acts'
<1>1. exec'[Studio] = l /\ \A e \in Executors : exec'[e] = exec[e]
  BY SimFacts, SimAssumption DEF Acts, Processes
<1> QED
  BY <1>1, RoundsStay, RequestActs

LEMMA AskRoundActs ==
    ASSUME Acts, SimInv', NEW r \in SimRuns, NEW n \in 1..MaxRounds, NEW p \in Prints, AskRound(r, n, p)
    PROVE  Acts'
<1> DEFINE k == [run |-> r, round |-> n, print |-> p]
           l == [NoWork EXCEPT !.pc = "enqueuing", !.key = k]
<1>1. exec' = [exec EXCEPT ![Studio] = l]
  BY DEF AskRound
<1> HIDE DEF k
<1>2. l.pc = "enqueuing"
  <2>1. NoWork \in ExecRow
    BY IdleInHand DEF Processes
  <2> QED
    BY <2>1 DEF ExecRow
<1> HIDE DEF l
<1> QED
  BY <1>1, <1>2, RequestWorkActs DEF AskRound

LEMMA PreviewRoundActs ==
    ASSUME Acts, SimInv', NEW r \in SimRuns, NEW n \in 1..MaxRounds, PreviewRound(r, n)
    PROVE  Acts'
<1> DEFINE k == Preview(r, n)
           l == [NoWork EXCEPT !.pc = "entering", !.key = k]
<1>1. exec' = [exec EXCEPT ![Studio] = l]
  BY DEF PreviewRound
<1> HIDE DEF k
<1>2. l.pc = "entering"
  <2>1. NoWork \in ExecRow
    BY IdleInHand DEF Processes
  <2> QED
    BY <2>1 DEF ExecRow
<1> HIDE DEF l
<1> QED
  BY <1>1, <1>2, RequestWorkActs DEF PreviewRound

LEMMA AskInterventionActs ==
    ASSUME Acts, SimInv', NEW r \in SimRuns, NEW n \in 0..MaxRounds + 1, AskIntervention(r, n)
    PROVE  Acts'
<1> DEFINE k == Preview(r, n)
           ev == [seq |-> Len(EventsOf[r]) + 1, kind |-> "author", round |-> n, by |-> k, agent |-> 0]
           l == [NoWork EXCEPT !.pc = "intervening", !.key = k, !.batch = <<ev>>]
<1>1. exec' = [exec EXCEPT ![Studio] = l]
  BY DEF AskIntervention
<1>2. ev.kind # "action"
  OBVIOUS
<1> HIDE DEF k, ev
<1>3. l.pc = "intervening" /\ l.batch = <<ev>>
  <2>1. NoWork \in ExecRow
    BY IdleInHand DEF Processes
  <2> QED
    BY <2>1 DEF ExecRow
<1> HIDE DEF l
<1>4. Authored(l)
  BY <1>2, <1>3 DEF Authored
<1> QED
  BY <1>1, <1>3, <1>4, RequestWorkActs DEF AskIntervention

LEMMA RetryRoundActs == ASSUME Acts, SimInv', NEW k \in Key, RetryRound(k) PROVE Acts'
<1>1. exec'[Studio].pc = "idle"
  BY DEF RetryRound, Request, ExecAt
<1>2. \A x \in Key : /\ roundTask'[x].owner = roundTask[x].owner
                     /\ roundTask'[x].status = "completed" => roundTask[x].status = "completed"
  BY SimFacts DEF RetryRound, Acts, RoundTasksOK, RoundTaskRow
<1> QED
  BY <1>1, <1>2, RoundsStay, RequestActs DEF RetryRound

LEMMA EnqueueRoundActs == ASSUME Acts, SimInv', EnqueueRound PROVE Acts'
<1>1. Studio \in Processes /\ Studio \notin Executors
  BY SimAssumption DEF Processes
<1>2. exec'[Studio].pc \in {"idle", "binding"} /\ \A e \in Executors : exec'[e] = exec[e]
  BY <1>1, SimFacts DEF EnqueueRound, Acts, Processes, Set, NoWork, ExecRow
<1>3. Holds(Studio)
  BY <1>1, <1>2 DEF Holds
<1>4. \A x \in Key : /\ roundTask'[x].owner = roundTask[x].owner
                     /\ roundTask'[x].status = "completed" => roundTask[x].status = "completed"
  <2>1. CASE UNCHANGED roundTask
    BY <2>1
  <2>2. CASE ~UNCHANGED roundTask
    BY <2>2, SimFacts DEF EnqueueRound, Acts, RoundTasksOK, RoundTaskRow
  <2> QED
    BY <2>1, <2>2
<1>5. simRun' = simRun
  BY DEF EnqueueRound
<1>6. \A r \in SimRuns : simRun[r].round <= simRun'[r].round
  BY <1>5, RoundsStay
<1>7. Calm(Studio)
  BY <1>2, <1>4, <1>6 DEF Calm, EnqueueRound, Processes
<1> QED
  BY <1>1, <1>3, <1>7, CalmActs

LEMMA BindRoundActs == ASSUME Acts, SimInv', BindRound PROVE Acts'
<1>1. Studio \in Processes /\ Studio \notin Executors
  BY SimAssumption DEF Processes
<1>2. exec'[Studio] = NoWork /\ \A e \in Executors : exec'[e] = exec[e]
  BY <1>1, SimFacts DEF BindRound, Acts, Processes
<1>3. Holds(Studio)
  BY <1>1, <1>2 DEF Holds, NoWork
<1>4. \A r \in SimRuns : simRun[r].round <= simRun'[r].round
  <2>1. PICK r, k : simRun' = [simRun EXCEPT ![r].task = {k}]
    BY DEF BindRound
  <2>2. /\ \A x \in SimRuns : simRun[x].round \in Nat
        /\ simRun \in [SimRuns -> RunRow]
    BY SimFacts, RowFacts DEF Acts
  <2> QED
    BY <2>1, <2>2 DEF RunRow
<1>5. Calm(Studio)
  BY <1>2, <1>4 DEF Calm, BindRound, Processes
<1> QED
  BY <1>1, <1>3, <1>5, CalmActs

-----------------------------------------------------------------------------
(* Acting once: the steps that append.                                      *)

\* Events come after those of run r; the actions among them are of task k, one of
\* each agent, and the run comes to their round.
Adds(r, k) ==
    /\ \A x \in SimRuns \ {r} : ledger'[x] = ledger[x]
    /\ \A i \in DOMAIN ledger[r] : i \in DOMAIN ledger'[r] /\ ledger'[r][i] = ledger[r][i]
    /\ \A i \in DOMAIN ledger'[r] \ DOMAIN ledger[r] :
          ledger'[r][i].kind = "action" =>
              /\ ledger'[r][i].by = k /\ k.round <= simRun'[r].round
              /\ \A j \in DOMAIN ledger'[r] \ DOMAIN ledger[r] :
                    ledger'[r][j].kind = "action" /\ ledger'[r][j].agent = ledger'[r][i].agent => i = j
    /\ \A x \in SimRuns : simRun[x].round <= simRun'[x].round

LEMMA AppendedAfter ==
    ASSUME NEW s \in Seq(Event), NEW b \in Seq(Event)
    PROVE  /\ \A i \in DOMAIN s : i \in DOMAIN (s \o b) /\ (s \o b)[i] = s[i]
           /\ \A i \in DOMAIN (s \o b) \ DOMAIN s : /\ i \in Nat /\ Len(s) < i /\ i - Len(s) \in DOMAIN b
                                                   /\ (s \o b)[i] = b[i - Len(s)]
<1>1. Len(s) \in Nat /\ Len(b) \in Nat /\ DOMAIN s = 1..Len(s) /\ DOMAIN b = 1..Len(b)
  OBVIOUS
<1>2. /\ s \o b \in Seq(Event) /\ Len(s \o b) = Len(s) + Len(b)
      /\ \A i \in 1..Len(s) + Len(b) : (s \o b)[i] = IF i <= Len(s) THEN s[i] ELSE b[i - Len(s)]
  BY ConcatProperties
<1>3. DOMAIN (s \o b) = 1..Len(s) + Len(b)
  BY <1>2
<1>4. ASSUME NEW i \in DOMAIN s PROVE i \in DOMAIN (s \o b) /\ (s \o b)[i] = s[i]
  BY <1>1, <1>2, <1>3, <1>4
<1>5. ASSUME NEW i \in DOMAIN (s \o b) \ DOMAIN s
      PROVE  /\ i \in Nat /\ Len(s) < i /\ i - Len(s) \in DOMAIN b
             /\ (s \o b)[i] = b[i - Len(s)]
  <2>1. i \in 1..Len(s) + Len(b) /\ ~(i <= Len(s))
    BY <1>1, <1>3, <1>5
  <2>2. (s \o b)[i] = b[i - Len(s)]
    BY <1>2, <2>1
  <2> QED
    BY <1>1, <2>1, <2>2
<1> QED
  BY <1>4, <1>5

LEMMA Added ==
    ASSUME SimInv, NEW e \in Processes, Appended(RunOf(e), exec[e].batch), Consecutive(exec[e].batch),
           BatchOwn(exec[e]) \/ Authored(exec[e])
    PROVE  Adds(exec[e].key.run, exec[e].key)
<1> DEFINE r == exec[e].key.run
           k == exec[e].key
           b == exec[e].batch
<1>1. /\ r \in SimRuns /\ RunOf(e) = r /\ b \in Seq(Event)
      /\ ledger \in [SimRuns -> Seq(Event)] /\ ledger[r] \in Seq(Event)
  BY RowFields, SimFacts
<1>2. PICK n \in Nat : /\ n >= b[1].round /\ n >= simRun[r].round
                       /\ simRun' = [simRun EXCEPT ![r].round = n]
  BY <1>1, AppendedRow
<1>3. /\ simRun \in [SimRuns -> RunRow] /\ \A x \in SimRuns : simRun[x].round \in Nat
  BY SimFacts, RowFacts
<1>4. simRun'[r].round = n /\ \A x \in SimRuns \ {r} : simRun'[x] = simRun[x]
  BY <1>1, <1>2, <1>3 DEF RunRow
<1>5. \A x \in SimRuns : simRun[x].round <= simRun'[x].round
  <2>1. ASSUME NEW x \in SimRuns PROVE simRun[x].round <= simRun'[x].round
    <3>1. CASE x = r
      BY <1>2, <1>3, <1>4, <3>1
    <3>2. CASE x # r
      BY <1>3, <1>4, <3>2
    <3> QED
      BY <3>1, <3>2
  <2> QED
    BY <2>1
<1>6. ledger'[r] = ledger[r] \o b /\ \A x \in SimRuns \ {r} : ledger'[x] = ledger[x]
  BY <1>1 DEF Appended
<1>7. ~Authored(exec[e]) => b[1].round = k.round /\ k.round <= simRun'[r].round
  <2>1. SUFFICES ASSUME ~Authored(exec[e]) PROVE b[1].round = k.round /\ k.round <= simRun'[r].round
    OBVIOUS
  <2>2. b[1].round = k.round
    BY <2>1 DEF BatchOwn
  <2>3. k.round \in Nat
    BY RowFields
  <2> QED
    BY <1>2, <1>4, <2>2, <2>3
<1>8. \A i \in DOMAIN b : b[i].kind = "action" =>
          /\ ~Authored(exec[e])
          /\ b[i].by = k
          /\ \A j \in DOMAIN b : b[j].kind = "action" /\ b[j].agent = b[i].agent => i = j
  BY DEF BatchOwn, Authored
<1> HIDE DEF r, k, b
<1>9. /\ \A i \in DOMAIN ledger[r] : i \in DOMAIN ledger'[r] /\ ledger'[r][i] = ledger[r][i]
      /\ \A i \in DOMAIN ledger'[r] \ DOMAIN ledger[r] :
            /\ i \in Nat /\ Len(ledger[r]) < i /\ i - Len(ledger[r]) \in DOMAIN b
            /\ ledger'[r][i] = b[i - Len(ledger[r])]
  BY <1>1, <1>6, AppendedAfter
<1>10. ASSUME NEW i \in DOMAIN ledger'[r] \ DOMAIN ledger[r], ledger'[r][i].kind = "action"
       PROVE  /\ ledger'[r][i].by = k /\ k.round <= simRun'[r].round
              /\ \A j \in DOMAIN ledger'[r] \ DOMAIN ledger[r] :
                    ledger'[r][j].kind = "action" /\ ledger'[r][j].agent = ledger'[r][i].agent => i = j
  <2> DEFINE m == Len(ledger[r])
  <2>1. m \in Nat
    BY <1>1
  <2>2. i \in Nat /\ i - m \in DOMAIN b /\ ledger'[r][i] = b[i - m]
    BY <1>9, <1>10
  <2>3. ledger'[r][i].by = k /\ k.round <= simRun'[r].round
    BY <1>7, <1>8, <1>10, <2>2
  <2>4. ASSUME NEW j \in DOMAIN ledger'[r] \ DOMAIN ledger[r],
               ledger'[r][j].kind = "action", ledger'[r][j].agent = ledger'[r][i].agent
        PROVE  i = j
    <3>1. j \in Nat /\ j - m \in DOMAIN b /\ ledger'[r][j] = b[j - m]
      BY <1>9
    <3> HIDE DEF m
    <3>2. i - m = j - m
      BY <1>8, <1>10, <2>2, <2>4, <3>1
    <3> QED
      BY <2>1, <2>2, <3>1, <3>2
  <2> QED
    BY <2>3, <2>4
<1>11. Adds(r, k)
  BY <1>5, <1>6, <1>9, <1>10 DEF Adds
<1> QED
  BY <1>11 DEF r, k

\* Nothing is added for a task but k.
LEMMA OthersOwn ==
    ASSUME NEW k, Adds(k.run, k), NEW x \in Key, x # k
    PROVE  OwnActions(x)' = OwnActions(x)
<1>1. x.run \in SimRuns
  BY DEF Key
<1>2. CASE x.run # k.run
  <2>1. ledger'[x.run] = ledger[x.run]
    BY <1>1, <1>2 DEF Adds
  <2> QED
    BY <2>1 DEF OwnActions
<1>3. CASE x.run = k.run
  <2> DEFINE r == k.run
  <2>1. ASSUME NEW i \in DOMAIN ledger'[r], ledger'[r][i].kind = "action", ledger'[r][i].by = x
        PROVE  i \in DOMAIN ledger[r]
    BY <1>3, <2>1 DEF Adds
  <2>2. \A i \in DOMAIN ledger[r] : i \in DOMAIN ledger'[r] /\ ledger'[r][i] = ledger[r][i]
    BY DEF Adds
  <2> QED
    BY <1>3, <2>1, <2>2 DEF OwnActions
<1> QED
  BY <1>2, <1>3

\* What was added for k.
LEMMA NewOwn ==
    ASSUME NEW k, Adds(k.run, k), OwnActions(k) = {}
    PROVE  OwnActions(k)' = {i \in DOMAIN ledger'[k.run] \ DOMAIN ledger[k.run] :
                                ledger'[k.run][i].kind = "action" /\ ledger'[k.run][i].by = k}
<1>1. ASSUME NEW i \in DOMAIN ledger[k.run], ledger'[k.run][i].kind = "action", ledger'[k.run][i].by = k
      PROVE  FALSE
  <2>1. ledger'[k.run][i] = ledger[k.run][i]
    BY DEF Adds
  <2> QED
    BY <1>1, <2>1 DEF OwnActions
<1> QED
  BY <1>1 DEF OwnActions

LEMMA PastAdded ==
    ASSUME Acts, SimInv', NEW e \in Processes, Adds(exec[e].key.run, exec[e].key)
    PROVE  Past'
<1> DEFINE k == exec[e].key
<1>1. SUFFICES ASSUME NEW r \in SimRuns, NEW i \in DOMAIN ledger'[r], ledger'[r][i].kind = "action"
               PROVE  ledger'[r][i].by.run = r /\ ledger'[r][i].by.round <= simRun'[r].round
  BY DEF Past
<1>2. CASE i \in DOMAIN ledger[r]
  <2>1. ledger'[r][i] = ledger[r][i] /\ simRun[r].round <= simRun'[r].round
    BY <1>2 DEF Adds
  <2>2. ledger[r][i].by.run = r /\ ledger[r][i].by.round <= simRun[r].round
    BY <1>1, <1>2, <2>1, ActFacts DEF Past
  <2>3. ledger[r][i].by.round \in Nat /\ simRun[r].round \in Nat /\ simRun'[r].round \in Nat
    <3>1. ledger[r] \in Seq(Event)
      BY SimFacts DEF Acts
    <3>2. ledger[r][i] \in Event
      BY <1>2, <3>1
    <3>3. simRun[r] \in RunRow /\ simRun'[r] \in RunRow
      BY DEF Acts, SimInv, SimTypeOK
    <3> QED
      BY <3>2, <3>3 DEF Event, RunRow
  <2> QED
    BY <2>1, <2>2, <2>3
<1>3. CASE i \notin DOMAIN ledger[r]
  <2> HIDE DEF k
  <2>1. r = k.run /\ Adds(k.run, k)
    BY <1>1, <1>3 DEF Adds, k
  <2> QED
    BY <1>1, <1>3, <2>1 DEF Adds
<1> QED
  BY <1>2, <1>3

LEMMA OnceAdded ==
    ASSUME Acts, NEW k, Adds(k.run, k), fate' = fate, ~fate.takenOver /\ k.print # 0 => OwnActions(k) = {}
    PROVE  ActsOnce'
<1>1. SUFFICES ASSUME ~fate.takenOver, NEW r \in SimRuns, NEW i \in DOMAIN ledger'[r], NEW j \in DOMAIN ledger'[r],
                      ledger'[r][i].kind = "action", ledger'[r][i].by.print # 0,
                      ledger'[r][j].kind = "action", ledger'[r][j].by = ledger'[r][i].by,
                      ledger'[r][i].agent = ledger'[r][j].agent
               PROVE  i = j
  BY DEF ActsOnce
<1>2. CASE i \in DOMAIN ledger[r] /\ j \in DOMAIN ledger[r]
  <2>1. ledger'[r][i] = ledger[r][i] /\ ledger'[r][j] = ledger[r][j]
    BY <1>2 DEF Adds
  <2> QED
    BY <1>1, <1>2, <2>1, ActFacts DEF ActsOnce
<1>3. CASE ~(i \in DOMAIN ledger[r] /\ j \in DOMAIN ledger[r])
  <2>1. r = k.run
    BY <1>3 DEF Adds
  <2>2. ledger'[r][i].by = k
    BY <1>1, <1>3, <2>1 DEF Adds
  <2>3. OwnActions(k) = {}
    BY <1>1, <2>2
  <2>4. ASSUME NEW x \in DOMAIN ledger[r], ledger'[r][x].kind = "action", ledger'[r][x].by = k PROVE FALSE
    <3>1. ledger'[r][x] = ledger[r][x]
      BY <2>1 DEF Adds
    <3> QED
      BY <2>1, <2>3, <2>4, <3>1 DEF OwnActions
  <2>5. i \notin DOMAIN ledger[r] /\ j \notin DOMAIN ledger[r]
    BY <1>1, <2>2, <2>4
  <2> QED
    BY <1>1, <2>1, <2>5 DEF Adds
<1> QED
  BY <1>2, <1>3

\* e appends what is its own, and the others stay as they are.
LEMMA AddsActs ==
    ASSUME Acts, SimInv', NEW e \in Processes, Adds(exec[e].key.run, exec[e].key),
           UNCHANGED <<remembered, roundTask, fate>>, \A f \in Processes \ {e} : exec'[f] = exec[f],
           exec'[e].pc \notin {"appending", "intervening"}, exec[e].pc \in {"appending", "intervening"},
           ~fate.takenOver /\ e \in Executors /\ exec'[e].pc # "idle" => Acting(e, exec[e])'
    PROVE  Acts'
<1> DEFINE k == exec[e].key
<1>1. Past'
  BY PastAdded
<1>2. e \in Executors => k \in Key /\ (~fate.takenOver => OwnActions(k) = {} /\ roundTask[k].owner = e)
  <2>1. SUFFICES ASSUME e \in Executors
                 PROVE  k \in Key /\ (~fate.takenOver => OwnActions(k) = {} /\ roundTask[k].owner = e)
    OBVIOUS
  <2>2. InHand(e, exec[e])
    BY SimFacts DEF Acts
  <2>3. k \in Key /\ exec[e].pc = "appending"
    BY <2>1, <2>2 DEF InHand
  <2>4. exec[e].pc \in Early /\ exec[e].pc # "idle"
    BY <2>3 DEF Early
  <2>5. ~fate.takenOver => OwnActions(k) = {} /\ roundTask[k].owner = e
    BY <2>1, <2>4, EarlyNothing, ActFacts DEF Acting
  <2> QED
    BY <2>3, <2>5
<1>3. e \notin Executors => k.print = 0
  <2>1. e \notin Executors => e = Studio /\ InHand(e, exec[e])
    BY SimFacts DEF Processes, Acts
  <2> QED
    BY <2>1 DEF InHand
<1>4. \A x \in Key : x.print # 0
  BY SimAssumption DEF Key
<1>5. ActsOnce'
  <2>1. ~fate.takenOver /\ k.print # 0 => OwnActions(k) = {}
    BY <1>2, <1>3
  <2> QED
    BY <2>1, OnceAdded
<1>6. \A f \in Processes : /\ (exec[f].pc = "appending" => BatchOwn(exec[f]))'
                           /\ (exec[f].pc = "intervening" => Authored(exec[f]))'
  <2>1. ASSUME NEW f \in Processes PROVE /\ exec'[f].pc = "appending" => BatchOwn(exec'[f])
                                         /\ exec'[f].pc = "intervening" => Authored(exec'[f])
    BY ActFacts
  <2> QED
    BY <2>1 DEF BatchOwn, Authored
<1>7. ASSUME NEW x \in Key, x # k PROVE OwnActions(x)' = OwnActions(x)
  BY <1>7, OthersOwn
<1>8. ASSUME ~fate.takenOver, NEW f \in Executors, exec'[f].pc # "idle" PROVE Acting(f, exec[f])'
  <2>1. CASE f = e
    BY <1>8, <2>1
  <2>2. CASE f # e
    <3> PICK x : x = exec[f].key
      OBVIOUS
    <3>1. f \in Processes /\ exec'[f] = exec[f]
      BY <2>2 DEF Processes
    <3>2. Acting(f, exec[f])
      BY <1>8, <3>1, ActFacts
    <3>3. x \in Key
      BY <1>8, <3>1, SimFacts DEF Acts, InHand
    <3>4. x # k
      BY <1>2, <1>3, <1>4, <1>8, <2>2, <3>2, <3>3 DEF Acting
    <3>5. OwnActions(x)' = OwnActions(x)
      BY <1>7, <3>3, <3>4
    <3>6. Recalled(x) => Recalled(x)'
      BY <3>1, <3>5 DEF Recalled
    <3> QED
      BY <3>1, <3>2, <3>5, <3>6 DEF Acting, Ready
  <2> QED
    BY <2>1, <2>2
<1>9. ASSUME ~fate.takenOver, NEW x \in Key, roundTask[x].status = "completed" PROVE Recalled(x)'
  <2>1. Recalled(x)
    BY <1>9, ActFacts
  <2>2. x # k
    <3>1. roundTask[x].owner = NoExecutor
      BY <1>9, SimFacts DEF Acts, RoundTasksOK
    <3> QED
      BY <1>2, <1>3, <1>4, <1>9, <3>1, SimAssumption DEF Processes
  <2>3. OwnActions(x)' = OwnActions(x)
    BY <1>7, <2>2
  <2> QED
    BY <2>1, <2>3 DEF Recalled
<1>10. Alone'
  BY <1>8, <1>9 DEF Alone
<1> QED
  BY <1>1, <1>5, <1>6, <1>10 DEF Acts, ActInv, Processes

LEMMA AppendRoundActs == ASSUME Acts, SimInv', NEW e \in Processes, AppendRound(e) PROVE Acts'
<1>1. CASE Raises(e)
  BY <1>1, RaiseActs
<1>2. CASE ~Raises(e)
  <2> PICK k : k = exec[e].key
    OBVIOUS
  <2> DEFINE new == {i \in DOMAIN ledger'[k.run] : i > Len(ledger[k.run]) /\ ledger'[k.run][i].kind = "action"}
  <2>1. /\ Appended(RunOf(e), exec[e].batch) /\ exec[e].pc = "appending"
        /\ exec' = [exec EXCEPT ![e].pc = "remembering", ![e].batch = <<>>, ![e].todo = new]
        /\ UNCHANGED <<remembered, ckpt, roundTask, fate>>
    BY <1>2 DEF AppendRound, ExecAt, RunOf
  <2>2. Adds(k.run, k)
    <3>1. Consecutive(exec[e].batch) /\ BatchOwn(exec[e])
      BY <2>1, SimFacts, ActFacts DEF Acts, InHand
    <3> QED
      BY <2>1, <3>1, Added DEF Acts
  <2>3. \A i \in DOMAIN ledger'[k.run] \ DOMAIN ledger[k.run] : ledger'[k.run][i].kind = "action" => i \in new
    <3>1. /\ k.run \in SimRuns /\ exec[e].batch \in Seq(Event) /\ RunOf(e) = k.run
          /\ ledger \in [SimRuns -> Seq(Event)] /\ ledger[k.run] \in Seq(Event)
      BY RowFields, SimFacts DEF Acts
    <3>2. ledger'[k.run] = ledger[k.run] \o exec[e].batch
      BY <2>1, <3>1 DEF Appended
    <3>3. \A i \in DOMAIN ledger'[k.run] \ DOMAIN ledger[k.run] : i \in Nat /\ Len(ledger[k.run]) < i
      BY <3>1, <3>2, AppendedAfter
    <3>4. Len(ledger[k.run]) \in Nat
      BY <3>1
    <3> QED
      BY <3>3, <3>4
  <2> HIDE DEF new
  <2> DEFINE l == [exec[e] EXCEPT !.pc = "remembering", !.batch = <<>>, !.todo = new]
  <2>4. exec' = [exec EXCEPT ![e] = l]
    BY <2>1
  <2>5. l.pc = "remembering" /\ l.key = k /\ l.todo = new
    <3>1. exec[e] \in ExecRow
      BY SimFacts DEF Acts
    <3> QED
      BY <3>1 DEF ExecRow
  <2> HIDE DEF l
  <2>6. exec'[e] = l /\ \A f \in Processes \ {e} : exec'[f] = exec[f]
    BY <2>4, SimFacts DEF Acts
  <2>7. ASSUME ~fate.takenOver, e \in Executors PROVE Acting(e, exec[e])'
    <3>1. exec[e].pc \in Early /\ exec[e].pc # "idle"
      BY <2>1 DEF Early
    <3>2. OwnActions(k) = {} /\ roundTask[k].owner = e
      BY <2>7, <3>1, EarlyNothing, ActFacts DEF Acting
    <3>3. \A i \in OwnActions(k)' : i \in new
      BY <2>2, <2>3, <3>2, NewOwn
    <3>4. OwnActions(exec[e].key)' = OwnActions(k)'
      BY <2>5, <2>6 DEF OwnActions
    <3> QED
      BY <2>1, <2>5, <2>6, <3>2, <3>3, <3>4 DEF Acting, Ready, Early, Late
  <2>8. exec'[e].pc = "remembering"
    BY <2>5, <2>6
  <2> QED
    BY <2>1, <2>2, <2>6, <2>7, <2>8, AddsActs
<1> QED
  BY <1>1, <1>2

\* An author's event is no action of anybody.
LEMMA InterveneActs == ASSUME Acts, SimInv', Intervene PROVE Acts'
<1>1. /\ Studio \in Processes /\ Studio \notin Executors /\ exec[Studio].pc = "intervening"
      /\ exec' = [exec EXCEPT ![Studio] = NoWork] /\ UNCHANGED <<remembered, ckpt, roundTask, fate>>
  BY SimAssumption DEF Intervene, ExecAt, Processes
<1>2. exec'[Studio] = NoWork /\ \A f \in Processes \ {Studio} : exec'[f] = exec[f]
  BY <1>1, SimFacts DEF Acts
<1>3. exec'[Studio].pc = "idle"
  BY <1>2 DEF NoWork
<1>4. CASE Accepts(RunOf(Studio), exec[Studio].batch)
  <2>1. Appended(RunOf(Studio), exec[Studio].batch)
    BY <1>4 DEF Intervene
  <2>2. Consecutive(exec[Studio].batch) /\ Authored(exec[Studio])
    BY <1>1, SimFacts, ActFacts DEF Acts, InHand
  <2>3. Adds(exec[Studio].key.run, exec[Studio].key)
    BY <1>1, <2>1, <2>2, Added DEF Acts
  <2> QED
    BY <1>1, <1>2, <1>3, <2>3, AddsActs
<1>5. CASE ~Accepts(RunOf(Studio), exec[Studio].batch)
  <2>1. UNCHANGED <<simRun, ledger>>
    BY <1>5 DEF Intervene
  <2>2. Calm(Studio)
    BY <1>1, <2>1, CalmAlone
  <2>3. Holds(Studio)
    BY <1>1, <1>3 DEF Holds
  <2> QED
    BY <1>1, <2>2, <2>3, CalmActs
<1> QED
  BY <1>4, <1>5

LEMMA ActInvStart == SimInit => ActInv
<1> SUFFICES ASSUME SimInit PROVE ActInv
  OBVIOUS
<1>1. \A r \in SimRuns : ledger[r] = <<>> /\ DOMAIN ledger[r] = {}
  BY DEF SimInit
<1>2. \A e \in Processes : exec[e] = NoWork /\ exec[e].pc = "idle"
  BY DEF SimInit, Processes, NoWork
<1>3. \A k \in Key : roundTask[k].status = "absent"
  BY DEF SimInit
<1>4. Past /\ ActsOnce
  BY <1>1 DEF Past, ActsOnce
<1>5. Alone
  BY <1>2, <1>3 DEF Alone, Processes
<1> QED
  BY <1>2, <1>4, <1>5 DEF ActInv

LEMMA ActsStep == Acts /\ [SimNext]_simVars => Acts'
<1> SUFFICES ASSUME Acts, [SimNext]_simVars PROVE Acts'
  OBVIOUS
<1>1. SimInv'
  BY SimInvStep DEF Acts
<1>2. CASE UNCHANGED simVars
  <2>1. Studio \in Processes /\ Studio \notin Executors
    BY SimAssumption DEF Processes
  <2>2. exec' = [exec EXCEPT ![Studio] = exec[Studio]]
    BY <1>2, <2>1, SimFacts DEF simVars, Acts
  <2>3. Calm(Studio)
    BY <1>2, <2>1, <2>2, CalmAlone DEF simVars
  <2>4. Holds(Studio)
    BY <1>2, <2>1, ActFacts DEF simVars, Holds
  <2> QED
    BY <1>1, <2>1, <2>3, <2>4, CalmActs
<1>3. ASSUME NEW e \in Processes, RoundStep(e) PROVE Acts'
  BY <1>1, <1>3, EnterRoundActs, ReadRoundActs, DecideRoundActs, AppendRoundActs, RememberEventActs, AdvanceRoundActs,
     ReplayWorldActs, WriteCheckpointActs, CloseRoundActs, CompleteRunActs, SettleRoundActs, FallActs
     DEF RoundStep
<1>4. ASSUME NEW e \in Executors, WorkerStep(e) PROVE Acts'
  <2>1. e \in Processes
    BY DEF Processes
  <2> QED
    BY <1>1, <1>4, <2>1, ClaimRoundActs, ReconcileRoundActs, ScheduleRoundActs, FailsActs, BudgetStopsActs,
       BudgetBreaksActs, PauseForBudgetActs, HaltRunActs DEF WorkerStep
<1>5. ASSUME NEW r \in SimRuns, StudioStep(r) PROVE Acts'
  <2>1. ArchiveRun(r) \/ UnarchiveRun(r) \/ DeleteRun(r) => Acts'
    BY <1>1, HistoryActs DEF ArchiveRun, UnarchiveRun, DeleteRun
  <2> QED
    BY <1>1, <1>5, <2>1, TransitionRunActs, AskRoundActs, PreviewRoundActs, AskInterventionActs, CreateBranchActs
       DEF StudioStep
<1> QED
  BY <1>1, <1>2, <1>3, <1>4, <1>5, EnqueueRoundActs, BindRoundActs, InterveneActs, RetryRoundActs DEF SimNext, Processes

\* Acts holds throughout: what is in a ledger is of a task of that run whose round has
\* come, and unless a task was taken over from a living worker, the handler that owns a
\* task has nothing of it in the ledger before it appends, and remembers it after.
THEOREM ActsInvariant == SimSpec => []Acts
<1>1. SimInit => Acts
  BY SimInvStart, ActInvStart DEF Acts
<1>2. Acts /\ [SimNext]_simVars => Acts'
  BY ActsStep
<1> QED
  BY <1>1, <1>2, PTL DEF SimSpec

\* Unless a lease was taken over from a living worker, a round task acts once, however
\* often its handlers die or fail and are retried.
THEOREM ActOnce == SimSpec => []ActsOnce
<1>1. Acts => ActsOnce
  BY DEF Acts, ActInv
<1> QED
  BY <1>1, ActsInvariant, PTL

\* ... and when it has completed, each of its actions is in its agent's memory.
THEOREM ActionsRemembered == SimSpec => []ActsAreRemembered
<1>1. Acts => ActsAreRemembered
  BY DEF Acts, ActInv, Alone, ActsAreRemembered, Recalled, OwnActions
<1> QED
  BY <1>1, ActsInvariant, PTL

-----------------------------------------------------------------------------
(* The canvas: confirmed once.                                              *)

\* The row of the canvas has its fields and a revision.
RowOK == DOMAIN canvas = DOMAIN NoCanvas /\ canvas.revision \in Nat

\* Every proposal names a revision of the canvas.
RevisionsNamed == \A id \in DOMAIN proposal : id.revision \in Nat \ {0}

\* A confirmed proposal is ACCEPTED, and the canvas has left its revision, which no
\* other confirmed proposal has.
ConfirmedInv ==
    \A id \in Done :
        /\ id \in DOMAIN proposal /\ proposal[id] = "ACCEPTED" /\ id.revision < canvas.revision
        /\ \A other \in Done : other.revision = id.revision => other = id

\* What the studio's request holds: a preview has a proposal that is new, and a
\* confirmation passes on the revision of its proposal.
HeldOK(me) ==
    /\ DOMAIN me = DOMAIN AtRest
    /\ me.op = "preview" => \A id \in me.about : id.revision \in Nat \ {0} /\ id \notin DOMAIN proposal
    /\ me.op = "confirm" => \A id \in me.about : me.expect = id.revision /\ id.revision \in Nat \ {0}
HostHolds == Host \in DOMAIN planner => HeldOK(planner[Host])

CanvasInv == RowOK /\ RevisionsNamed /\ ConfirmedInv /\ HostHolds

LEMMA CanvasInit == PlanInit => CanvasInv
<1> SUFFICES ASSUME PlanInit PROVE CanvasInv
  OBVIOUS
<1>1. RowOK
  BY DEF PlanInit, RowOK, NoCanvas, FirstRow
<1>2. PICK asked : Previewed(asked)
  BY DEF PlanInit
<1>3. RevisionsNamed
  BY <1>1, <1>2 DEF RevisionsNamed, RowOK, Previewed
<1>4. Done = {}
  BY <1>2 DEF Done, Previewed
<1>5. HostHolds
  BY DEF PlanInit, HostHolds
<1> QED
  BY <1>1, <1>3, <1>4, <1>5 DEF CanvasInv, ConfirmedInv

\* The canvas is the same or has moved on.
RowMoves == RowOK' /\ canvas'.revision >= canvas.revision

\* The studio's request is the same in all that matters, or a new one that neither
\* previews nor confirms, or at rest.
HostKeeps ==
    Host \in DOMAIN planner' =>
        /\ DOMAIN planner'[Host] = DOMAIN AtRest
        /\ \/ planner'[Host].op \notin {"preview", "confirm"}
           \/ /\ Host \in DOMAIN planner
              /\ planner'[Host].op = planner[Host].op
              /\ planner'[Host].about = planner[Host].about
              /\ planner'[Host].expect = planner[Host].expect

LEMMA Quiet ==
    ASSUME CanvasInv, RowMoves, HostKeeps, UNCHANGED <<proposal, decision>>
    PROVE  CanvasInv'
<1>1. RevisionsNamed' /\ Done' = Done
  BY DEF CanvasInv, RevisionsNamed, Done
<1>2. \A id \in Done : id.revision \in Nat
  BY DEF CanvasInv, ConfirmedInv, RevisionsNamed
<1>3. ConfirmedInv'
  BY <1>1, <1>2 DEF CanvasInv, ConfirmedInv, RowMoves, RowOK
<1>4. HostHolds'
  BY DEF CanvasInv, HostHolds, HeldOK, HostKeeps
<1> QED
  BY <1>1, <1>3, <1>4 DEF CanvasInv, RowMoves

\* What Becomes does, without the operators of TLC.
LEMMA BecomesIs ==
    ASSUME NEW p, NEW me, Becomes(p, me)
    PROVE  /\ \A q : q # p => (q \in DOMAIN planner' <=> q \in DOMAIN planner)
                               /\ (q \in DOMAIN planner => planner'[q] = planner[q])
           /\ p \in DOMAIN planner' => planner'[p] = me
  BY DEF Becomes, Stops

LEMMA AfterLoadKeeps ==
    ASSUME NEW p, NEW plan, DOMAIN planner[p] = DOMAIN AtRest
    PROVE  \/ AfterLoad(p, plan) = AtRest
           \/ /\ DOMAIN AfterLoad(p, plan) = DOMAIN AtRest
              /\ AfterLoad(p, plan).op = planner[p].op
              /\ AfterLoad(p, plan).about = planner[p].about
              /\ AfterLoad(p, plan).expect = planner[p].expect
  BY DEF AfterLoad, AtRest

-----------------------------------------------------------------------------
(* Confirmed once: the steps.                                               *)

\* A request begins with a call that neither previews nor confirms.
LEMMA BeginsQuiet ==
    ASSUME CanvasInv, NEW p, NEW me, Begins(p, me),
           DOMAIN me = DOMAIN AtRest, me.op \notin {"preview", "confirm"}
    PROVE  CanvasInv'
<1>1. RowMoves
  BY DEF CanvasInv, RowMoves, RowOK, Begins
<1>2. HostKeeps
  BY BecomesIs DEF CanvasInv, HostHolds, HeldOK, HostKeeps, Begins
<1> QED
  BY <1>1, <1>2, Quiet DEF Begins

\* A process ends its call.
LEMMA StopsKeeps ==
    ASSUME CanvasInv, NEW p, Stops(p) PROVE HostKeeps
  BY DEF CanvasInv, HostHolds, HeldOK, HostKeeps, Stops

LEMMA LookStep == ASSUME CanvasInv, NEW p, Look(p) PROVE CanvasInv'
  BY BeginsQuiet DEF Look, Call, AtRest

LEMMA LoadRowStep == ASSUME CanvasInv, NEW p, LoadRow(p) PROVE CanvasInv'
<1>1. RowMoves
  BY DEF CanvasInv, RowMoves, RowOK, LoadRow
<1>2. HostKeeps
  BY DEF CanvasInv, HostHolds, HeldOK, HostKeeps, LoadRow, AtRest
<1> QED
  BY <1>1, <1>2, Quiet DEF LoadRow

\* load() leaves the revision alone, or inserts the first one.
LEMMA LoadRestStep == ASSUME CanvasInv, NEW p, LoadRest(p) PROVE CanvasInv'
<1> DEFINE row == planner[p].row
           clash == row.revision = 0 /\ canvas.revision # 0
           next == IF clash THEN AtRest ELSE AfterLoad(p, row.plan)
<1>1. RowMoves
  BY DEF CanvasInv, RowMoves, RowOK, LoadRest, MergedRow, NoCanvas
<1>2. Becomes(p, next) /\ p \in DOMAIN planner
  BY DEF LoadRest, AtPoint, Rests
<1>3. ASSUME p = Host PROVE HostKeeps
  <2>1. DOMAIN planner[p] = DOMAIN AtRest
    BY <1>2, <1>3 DEF CanvasInv, HostHolds, HeldOK
  <2>2. \/ next = AtRest
        \/ /\ DOMAIN next = DOMAIN AtRest
           /\ next.op = planner[p].op /\ next.about = planner[p].about
           /\ next.expect = planner[p].expect
    BY <2>1, AfterLoadKeeps
  <2>3. next = AtRest => HostKeeps
    BY <1>2, StopsKeeps DEF Becomes
  <2> HIDE DEF next
  <2> QED
    BY <1>2, <1>3, <2>2, <2>3, BecomesIs DEF HostKeeps
<1>4. ASSUME p # Host PROVE HostKeeps
  <2> HIDE DEF next
  <2> QED
    BY <1>2, <1>4, BecomesIs DEF HostKeeps, CanvasInv, HostHolds, HeldOK
<1> QED
  BY <1>1, <1>3, <1>4, Quiet DEF LoadRest

LEMMA StoryStep == ASSUME CanvasInv, StoryMoves PROVE CanvasInv'
<1>1. RowMoves
  BY DEF CanvasInv, RowMoves, RowOK, StoryMoves
<1>2. HostKeeps
  BY DEF CanvasInv, HostHolds, HeldOK, HostKeeps, StoryMoves
<1> QED
  BY <1>1, <1>2, Quiet DEF StoryMoves

\* The next row is a revision of its own.
LEMMA NextRowMoves ==
    ASSUME CanvasInv, NEW plan, canvas' = NextRow(plan)
    PROVE  RowMoves /\ canvas'.revision = canvas.revision + 1
  BY DEF CanvasInv, RowOK, RowMoves, NextRow, NoCanvas

\* The calls that write a plan without a proposal.
LEMMA PlainWriteStep ==
    ASSUME CanvasInv, NEW p, Stops(p), UNCHANGED <<proposal, decision>>,
           canvas' = canvas \/ \E plan : canvas' = NextRow(plan)
    PROVE  CanvasInv'
<1>1. RowMoves
  BY NextRowMoves DEF CanvasInv, RowMoves, RowOK
<1> QED
  BY <1>1, StopsKeeps, Quiet

LEMMA ImportStep == ASSUME CanvasInv, NEW p, ImportBranch(p) PROVE CanvasInv'
  BY PlainWriteStep DEF ImportBranch

LEMMA DecideStep == ASSUME CanvasInv, DecideCandidate PROVE CanvasInv'
  BY PlainWriteStep DEF DecideCandidate

LEMMA FulfilStep == ASSUME CanvasInv, NEW p, Fulfil(p) PROVE CanvasInv'
  BY PlainWriteStep DEF Fulfil

LEMMA DiesStep == ASSUME CanvasInv, NEW p, PlannerDies(p) PROVE CanvasInv'
  BY PlainWriteStep DEF PlannerDies

LEMMA MarkStep == ASSUME CanvasInv, MarkAdopted PROVE CanvasInv'
  BY PlainWriteStep DEF MarkAdopted

LEMMA AdoptNodeStep == ASSUME CanvasInv, AdoptNode PROVE CanvasInv'
<1> DEFINE me == planner[Host]
<1>1. canvas' = canvas \/ \E plan : canvas' = NextRow(plan)
  BY DEF AdoptNode
<1>2. RowMoves
  BY <1>1, NextRowMoves DEF CanvasInv, RowMoves, RowOK
<1>3. /\ Host \in DOMAIN planner /\ me.op = "adopt"
      /\ DOMAIN me = DOMAIN AtRest
  BY DEF AdoptNode, PlannerAt, AtPoint, Rests, CanvasInv, HostHolds, HeldOK
<1>4. \/ Stops(Host)
      \/ Becomes(Host, [me EXCEPT !.pc = "mark"])
      \/ Becomes(Host, [me EXCEPT !.op = "recover", !.pc = "load", !.loads = 1])
  BY DEF AdoptNode, Becomes
<1>5. HostKeeps
  <2>1. CASE Stops(Host)
    BY <2>1, StopsKeeps
  <2>2. ASSUME NEW next, Becomes(Host, next), DOMAIN next = DOMAIN AtRest,
               next.op \notin {"preview", "confirm"}
        PROVE  HostKeeps
    BY <2>2, BecomesIs DEF HostKeeps
  <2>3. /\ DOMAIN [me EXCEPT !.pc = "mark"] = DOMAIN AtRest
        /\ [me EXCEPT !.pc = "mark"].op = "adopt"
        /\ DOMAIN [me EXCEPT !.op = "recover", !.pc = "load", !.loads = 1] = DOMAIN AtRest
        /\ [me EXCEPT !.op = "recover", !.pc = "load", !.loads = 1].op = "recover"
    BY <1>3 DEF AtRest
  <2> QED
    BY <1>4, <2>1, <2>2, <2>3
<1> QED
  BY <1>2, <1>5, Quiet DEF AdoptNode

LEMMA RejectStep == ASSUME CanvasInv, NEW a, RejectAdoption(a) PROVE CanvasInv'
<1>1. RowMoves
  BY DEF CanvasInv, RowMoves, RowOK, RejectAdoption
<1>2. HostKeeps
  BY DEF CanvasInv, HostHolds, HeldOK, HostKeeps, RejectAdoption
<1> QED
  BY <1>1, <1>2, Quiet DEF RejectAdoption

LEMMA AskStep ==
    ASSUME CanvasInv, NEW p, NEW n, NEW c, NEW to, NEW expected,
           \/ AskImport(p, n, expected) \/ AskFulfil(p, n, c, expected)
           \/ AskDecide(n, to, expected) \/ AskAdopt(n, expected)
    PROVE  CanvasInv'
<1>1. CASE AskImport(p, n, expected)
  BY <1>1, BeginsQuiet DEF AskImport, Call, AtRest
<1>2. CASE AskFulfil(p, n, c, expected)
  BY <1>2, BeginsQuiet DEF AskFulfil, Call, AtRest
<1>3. CASE AskDecide(n, to, expected)
  BY <1>3, BeginsQuiet DEF AskDecide, Call, AtRest
<1>4. CASE AskAdopt(n, expected)
  BY <1>4, BeginsQuiet DEF AskAdopt, Call, AtRest
<1> QED
  BY <1>1, <1>2, <1>3, <1>4

\* A preview takes an id that no proposal has.
LEMMA PreviewStep == ASSUME CanvasInv, NEW d, AskPreview(d) PROVE CanvasInv'
<1> DEFINE id == [revision |-> ReadRevision, delta |-> d]
           me == [AtRest EXCEPT !.op = "preview", !.pc = "enqueue", !.about = {id}]
<1>1. Begins(Host, me) /\ id \notin DOMAIN proposal /\ id.revision \in Nat \ {0}
  BY DEF AskPreview, ReadRevision, CanvasInv, RowOK
<1>2. HeldOK(me)
  BY <1>1 DEF HeldOK, AtRest
<1> HIDE DEF me
<1>3. HostHolds'
  BY <1>1, <1>2, BecomesIs DEF HostHolds, HeldOK, Begins
<1> QED
  BY <1>1, <1>3 DEF CanvasInv, RowOK, RevisionsNamed, ConfirmedInv, Done, Begins

\* A task that is there stays as it is, a new one is not done.
LEMMA EnqueueStep == ASSUME CanvasInv, EnqueueDecision PROVE CanvasInv'
<1>1. Done' = Done
  BY DEF Done, EnqueueDecision
<1>2. HostHolds'
  BY DEF CanvasInv, HostHolds, HeldOK, EnqueueDecision, PlannerAt, AtPoint, Rests, AtRest
<1> QED
  BY <1>1, <1>2 DEF CanvasInv, RowOK, RevisionsNamed, ConfirmedInv, EnqueueDecision

\* The proposal that is recorded was not there, so that it is not a confirmed one.
LEMMA RecordStep == ASSUME CanvasInv, RecordProposal PROVE CanvasInv'
<1>1. \A id \in planner[Host].about : id.revision \in Nat \ {0} /\ id \notin DOMAIN proposal
  BY DEF CanvasInv, HostHolds, HeldOK, RecordProposal, PlannerAt, AtPoint, Rests
<1>2. RevisionsNamed' /\ Done' = Done
  BY <1>1 DEF CanvasInv, RevisionsNamed, Done, RecordProposal
<1>3. ConfirmedInv'
  BY <1>1, <1>2 DEF CanvasInv, ConfirmedInv, RecordProposal
<1>4. HostHolds'
  BY DEF HostHolds, RecordProposal, Stops
<1> QED
  BY <1>2, <1>3, <1>4 DEF CanvasInv, RowOK, RecordProposal

\* The request to confirm keeps the revision of the proposal.
LEMMA AskConfirmStep ==
    ASSUME CanvasInv, NEW id \in DOMAIN proposal, AskConfirm(id) PROVE CanvasInv'
<1> DEFINE me == [Call(Host, "confirm", IF canvas.revision = 0 THEN 2 ELSE 1) EXCEPT
                     !.about = {id}, !.expect = id.revision]
<1>1. CASE Begins(Host, Call(Host, "look", 1))
  BY <1>1, BeginsQuiet DEF Call, AtRest
<1>2. CASE Begins(Host, me)
  <2>1. HeldOK(me)
    BY DEF HeldOK, Call, AtRest, CanvasInv, RevisionsNamed
  <2> HIDE DEF me
  <2>2. HostHolds'
    BY <1>2, <2>1, BecomesIs DEF HostHolds, HeldOK, Begins
  <2> QED
    BY <1>2, <2>2 DEF CanvasInv, RowOK, RevisionsNamed, ConfirmedInv, Done, Begins
<1> QED
  BY <1>1, <1>2 DEF AskConfirm

\* A confirmation takes the revision of its proposal, which no confirmed proposal has,
\* since the canvas has left the revisions of those.
LEMMA ConfirmStep ==
    ASSUME CanvasInv, NEW id \in DOMAIN proposal, Confirm(id) PROVE CanvasInv'
<1> DEFINE holds == /\ proposal[id] = "PROPOSED" /\ decision[id] = "needs_author_decision"
                    /\ Fresh(planner[Host].expect) /\ Applicable(canvas.plan, id.delta)
<1>1. CASE ~holds
  BY <1>1, PlainWriteStep DEF Confirm
<1>2. CASE holds
  <2>1. planner[Host].expect = id.revision /\ id.revision \in Nat \ {0}
    BY DEF CanvasInv, HostHolds, HeldOK, Confirm, PlannerAt, AtPoint, Rests
  <2>2. canvas.revision = id.revision
    BY <1>2, <2>1 DEF Fresh
  <2>3. RowOK' /\ canvas'.revision = canvas.revision + 1
    BY <1>2, NextRowMoves DEF Confirm, RowMoves
  <2>4. /\ DOMAIN proposal' = DOMAIN proposal /\ proposal'[id] = "ACCEPTED"
        /\ \A other \in DOMAIN proposal : other # id => proposal'[other] = proposal[other]
    BY <1>2 DEF Confirm
  <2>5. Done' \subseteq Done \cup {id}
    BY <1>2 DEF Confirm, Done
  <2>6. RevisionsNamed'
    BY <2>4 DEF CanvasInv, RevisionsNamed
  <2>7. \A done \in Done : done \in DOMAIN proposal /\ done.revision \in Nat /\ done.revision < id.revision
    BY <2>2 DEF CanvasInv, ConfirmedInv, RevisionsNamed
  <2>8. ConfirmedInv'
    BY <2>1, <2>2, <2>3, <2>4, <2>5, <2>7 DEF CanvasInv, ConfirmedInv, RowOK
  <2>9. HostHolds'
    BY DEF HostHolds, Confirm, Stops
  <2> QED
    BY <2>3, <2>6, <2>8, <2>9 DEF CanvasInv
<1> QED
  BY <1>1, <1>2

\* The generic commands decide a proposal that is pending, and no confirmed one is.
LEMMA DecideProposalStep ==
    ASSUME CanvasInv, NEW id \in DOMAIN proposal, NEW status, DecideProposal(id, status)
    PROVE  CanvasInv'
<1>1. DOMAIN proposal' = DOMAIN proposal /\ Done' = Done
  BY DEF DecideProposal, Done
<1>2. \A done \in Done : proposal'[done] = proposal[done]
  BY DEF CanvasInv, ConfirmedInv, DecideProposal
<1>3. HostHolds'
  BY <1>1 DEF CanvasInv, HostHolds, HeldOK, DecideProposal
<1> QED
  BY <1>1, <1>2, <1>3 DEF CanvasInv, RowOK, RevisionsNamed, ConfirmedInv, DecideProposal

LEMMA LeaveStep ==
    ASSUME CanvasInv, NEW id \in DOMAIN decision, NEW status \in {"cancelled", "queued"},
           LeaveDecision(id, status)
    PROVE  CanvasInv'
<1>1. Done' = Done
  BY DEF LeaveDecision, Done
<1>2. HostHolds'
  BY DEF CanvasInv, HostHolds, HeldOK, LeaveDecision
<1> QED
  BY <1>1, <1>2 DEF CanvasInv, RowOK, RevisionsNamed, ConfirmedInv, LeaveDecision

LEMMA CanvasStutters == ASSUME CanvasInv, UNCHANGED planVars PROVE CanvasInv'
  BY DEF CanvasInv, RowOK, RevisionsNamed, ConfirmedInv, Done, HostHolds, HeldOK, planVars

LEMMA PlannerStepKeeps == ASSUME CanvasInv, NEW p, PlannerStep(p) PROVE CanvasInv'
  BY LookStep, LoadRowStep, LoadRestStep, DiesStep, AskStep, ImportStep, FulfilStep DEF PlannerStep

LEMMA AuthorStepKeeps == ASSUME CanvasInv, AuthorStep PROVE CanvasInv'
  BY PreviewStep, AskConfirmStep, ConfirmStep, AskStep, RejectStep, EnqueueStep, RecordStep,
     DecideStep, AdoptNodeStep, MarkStep DEF AuthorStep

LEMMA CanvasStep == ASSUME CanvasInv, [PlanNext]_planVars PROVE CanvasInv'
  BY PlannerStepKeeps, AuthorStepKeeps, DecideProposalStep, LeaveStep, StoryStep, CanvasStutters
     DEF PlanNext

\* The invariant holds for any nodes, changes, threads and bounds.
THEOREM CanvasInvariant == PlanSpec => []CanvasInv
  BY CanvasInit, CanvasStep, PTL DEF PlanSpec

\* Each proposal that was confirmed has consumed a revision of its own, for every
\* number of requests, changes, nodes and threads.
THEOREM ConfirmedOnceHolds == PlanSpec => []ConfirmedOnce
<1>1. CanvasInv => ConfirmedOnce
  BY DEF CanvasInv, ConfirmedInv, ConfirmedOnce
<1> QED
  BY <1>1, CanvasInvariant, PTL

-----------------------------------------------------------------------------
(* The lifecycle of the planning nodes.                                     *)

Nodes == {NoNode} \cup [status : PlanningStatuses, commit : StoryCommits \cup {0}]
PlanMaps == [PlanNodes -> Nodes]

CanvasOK ==
    /\ DOMAIN canvas = DOMAIN NoCanvas
    /\ canvas.revision \in Nat /\ canvas.plan \in PlanMaps
    /\ canvas.revision = 0 => canvas.plan = NoCanvas.plan

\* A proposal is made for a revision that there was.
WasMade(id, revision) ==
    /\ id.delta \in Deltas /\ id.revision \in Nat \ {0}
    /\ id.revision <= revision \/ id.revision = 1
ProposalsOK ==
    \A id \in DOMAIN proposal : WasMade(id, canvas.revision) /\ id \in DOMAIN decision

\* What a process holds fits the revision of the canvas and the tasks there are: the
\* revision it names is not newer than the row it has read, and at its write
\* it has checked that row.
Fields(me) ==
    /\ DOMAIN me = DOMAIN AtRest
    /\ me.row.revision \in Nat /\ me.row.plan \in PlanMaps /\ me.seen \in PlanMaps
    /\ me.loads \in Nat /\ me.expect \in Nat
    /\ me.op \in {"import", "fulfil", "decide", "adopt", "recover"} => me.node \in PlanNodes
Revisions(me, revision) ==
    /\ me.pc = "load" => me.expect <= revision \/ (me.loads > 1 /\ me.expect <= 1)
    /\ me.pc = "merge" =>
          /\ me.row.revision <= revision
          /\ me.expect <= me.row.revision \/ (me.loads > 1 /\ me.expect <= 1)
    /\ me.pc = "write" => me.expect <= me.row.revision /\ me.row.revision <= revision
Checked(me) ==
    /\ me.op = "import" \/ me.pc = "write" => me.loads < 2
    /\ me.op = "confirm" /\ me.pc = "write" => \A id \in me.about : Valid(me.row.plan, id.delta)
    /\ me.op = "decide" => /\ me.to \in {"planned", "superseded"}
                           /\ me.pc = "write" => MayBecome(me.row.plan, me.node, me.to)
    /\ me.op = "fulfil" => /\ me.about \subseteq StoryCommits
                           /\ me.loads < 2 => me.seen[me.node].status = "planned"
Previews(me, revision, tasks) ==
    me.op = "preview" => /\ me.pc \in {"enqueue", "record"}
                         /\ \A id \in me.about : WasMade(id, revision)
                         /\ me.pc = "record" => me.about \subseteq tasks
Fits(me, revision, tasks) ==
    Fields(me) /\ Revisions(me, revision) /\ Checked(me) /\ Previews(me, revision, tasks)

AllFit == \A p \in DOMAIN planner : Fits(planner[p], canvas.revision, DOMAIN decision)
KeptInv == CanvasOK /\ ProposalsOK /\ AllFit

LEMMA NoPlan == NoCanvas.plan \in PlanMaps /\ NoCanvas.revision = 0
  BY DEF NoCanvas, PlanMaps, Nodes

LEMMA DrawnOK == ASSUME NEW status \in PlanningStatuses PROVE Drawn(status) \in Nodes
  BY DEF Drawn, Nodes

LEMMA KeptInit == PlanInit => KeptInv
<1> SUFFICES ASSUME PlanInit PROVE KeptInv
  OBVIOUS
<1>1. CASE canvas = NoCanvas
  <2>1. CanvasOK
    BY <1>1, NoPlan DEF CanvasOK
  <2>2. DOMAIN proposal = {}
    <3>1. PICK asked : Previewed(asked)
      BY DEF PlanInit
    <3>2. {canvas.revision} \ {0} = {}
      BY <1>1, NoPlan
    <3>3. DOMAIN proposal = [revision : {}, delta : asked]
      BY <3>1, <3>2 DEF Previewed
    <3> QED
      BY <3>3
  <2> QED
    BY <2>1, <2>2 DEF PlanInit, KeptInv, ProposalsOK, AllFit
<1>2. CASE canvas # NoCanvas
  <2>1. PICK n \in Plans, st \in {"candidate", "planned"} : canvas = FirstRow(n, st)
    BY <1>2 DEF PlanInit
  <2>2. st \in PlanningStatuses /\ Drawn(st) \in Nodes
    BY DrawnOK DEF PlanningStatuses
  <2>3. CanvasOK /\ canvas.revision = 2
    <3>1. [NoCanvas.plan EXCEPT ![n] = Drawn(st)] \in PlanMaps
      BY <2>2, NoPlan DEF PlanMaps
    <3> QED
      BY <2>1, <3>1 DEF CanvasOK, FirstRow, NoCanvas
  <2>4. PICK asked \in SUBSET Deltas : Previewed(asked)
    BY DEF PlanInit
  <2>5. ProposalsOK
    BY <2>3, <2>4 DEF ProposalsOK, Previewed, WasMade
  <2> QED
    BY <2>3, <2>5 DEF PlanInit, KeptInv, AllFit
<1> QED
  BY <1>1, <1>2

\* Time is on the side of a process: what fits goes on fitting.
LEMMA FitsLater ==
    ASSUME NEW me, NEW r \in Nat, NEW s \in Nat, r <= s, NEW tasks, NEW more, tasks \subseteq more,
           Fits(me, r, tasks)
    PROVE  Fits(me, s, more)
<1>1. \A id : WasMade(id, r) => WasMade(id, s)
  BY DEF WasMade
<1>2. Previews(me, s, more)
  BY <1>1 DEF Fits, Previews
<1>3. Revisions(me, s)
  BY DEF Fits, Revisions, Fields
<1> QED
  BY <1>2, <1>3 DEF Fits

\* Process p goes on with something that fits, or rests.
LEMMA OneFits ==
    ASSUME KeptInv, NEW p, NEW next, Becomes(p, next),
           CanvasOK', canvas'.revision >= canvas.revision, DOMAIN decision \subseteq DOMAIN decision',
           next = AtRest \/ Fits(next, canvas'.revision, DOMAIN decision')
    PROVE  AllFit'
<1>1. \A q \in DOMAIN planner : Fits(planner[q], canvas'.revision, DOMAIN decision')
  BY FitsLater DEF KeptInv, AllFit, CanvasOK
<1>2. CASE next = AtRest
  BY <1>1, <1>2 DEF AllFit, Becomes, Stops
<1>3. CASE next # AtRest
  BY <1>1, <1>3 DEF AllFit, Becomes
<1> QED
  BY <1>2, <1>3

LEMMA RestFits ==
    ASSUME KeptInv, NEW p, Stops(p),
           CanvasOK', canvas'.revision >= canvas.revision, DOMAIN decision \subseteq DOMAIN decision'
    PROVE  AllFit'
  BY OneFits DEF Becomes

LEMMA ProposalsStay ==
    ASSUME KeptInv, CanvasOK', canvas'.revision >= canvas.revision,
           DOMAIN proposal' = DOMAIN proposal, DOMAIN decision' = DOMAIN decision
    PROVE  ProposalsOK'
  BY DEF KeptInv, ProposalsOK, WasMade, CanvasOK

\* A call of load() returns to its caller with the row that it read.
LEMMA AfterLoadFits ==
    ASSUME NEW p, NEW r \in Nat, NEW tasks, Fits(planner[p], r, tasks), planner[p].pc = "merge",
           NEW s \in Nat, r <= s, s > 0
    PROVE  LET next == AfterLoad(p, planner[p].row.plan)
           IN  next = AtRest \/ (Fits(next, s, tasks) /\ next.pc \in {"load", "write", "mark"})
<1> DEFINE me == planner[p]
           plan == me.row.plan
           again == [me EXCEPT !.pc = "load", !.loads = @ - 1, !.seen = plan]
           write == [me EXCEPT !.pc = "write", !.loads = 0]
           mark == [me EXCEPT !.pc = "mark", !.loads = 0]
           next == AfterLoad(p, plan)
<1>1. Fields(me) /\ Revisions(me, r) /\ Checked(me) /\ me.op # "preview" /\ me.pc = "merge"
  BY DEF Fits, Previews
<1>2. /\ me.row.revision \in Nat /\ me.loads \in Nat /\ me.expect \in Nat
      /\ me.row.revision <= r
      /\ me.expect <= me.row.revision \/ (me.loads > 1 /\ me.expect <= 1)
  BY <1>1 DEF Fields, Revisions
<1>3. /\ again.pc = "load" /\ again.loads = me.loads - 1 /\ again.seen = plan
      /\ again.op = me.op /\ again.row = me.row /\ again.expect = me.expect
      /\ again.node = me.node /\ again.to = me.to /\ again.about = me.about
      /\ DOMAIN again = DOMAIN AtRest
  BY <1>1 DEF Fields, AtRest
<1>4. /\ write.pc = "write" /\ write.loads = 0 /\ write.seen = me.seen
      /\ write.op = me.op /\ write.row = me.row /\ write.expect = me.expect
      /\ write.node = me.node /\ write.to = me.to /\ write.about = me.about
      /\ DOMAIN write = DOMAIN AtRest
  BY <1>1 DEF Fields, AtRest
<1>5. /\ mark.pc = "mark" /\ mark.loads = 0 /\ mark.seen = me.seen
      /\ mark.op = me.op /\ mark.row = me.row /\ mark.expect = me.expect
      /\ mark.node = me.node /\ mark.to = me.to /\ mark.about = me.about
      /\ DOMAIN mark = DOMAIN AtRest
  BY <1>1 DEF Fields, AtRest
<1> HIDE DEF again, write, mark
<1>6. ASSUME me.loads > 1, me.op = "fulfil" => plan[me.node].status = "planned"
      PROVE  Fits(again, s, tasks)
  <2>1. Fields(again)
    BY <1>1, <1>2, <1>3, <1>6 DEF Fields
  <2>2. Revisions(again, s)
    BY <1>2, <1>3 DEF Revisions
  <2>3. Checked(again)
    BY <1>1, <1>2, <1>3, <1>6 DEF Checked
  <2> QED
    BY <1>1, <1>3, <2>1, <2>2, <2>3 DEF Fits, Previews
<1>7. ASSUME ~(me.loads > 1),
             me.op = "confirm" => \A id \in me.about : Valid(plan, id.delta),
             me.op = "decide" => MayBecome(plan, me.node, me.to)
      PROVE  Fits(write, s, tasks)
  <2>1. Fields(write)
    BY <1>1, <1>4 DEF Fields
  <2>2. Revisions(write, s)
    BY <1>2, <1>4, <1>7 DEF Revisions
  <2>3. Checked(write)
    BY <1>1, <1>2, <1>4, <1>7 DEF Checked
  <2> QED
    BY <1>1, <1>4, <2>1, <2>2, <2>3 DEF Fits, Previews
<1>8. ASSUME me.op \notin {"confirm", "fulfil", "decide"}
      PROVE  Fits(mark, s, tasks)
  BY <1>1, <1>5, <1>8 DEF Fits, Fields, Revisions, Checked, Previews
<1>9. \/ next = AtRest
      \/ /\ next = again /\ me.loads > 1
         /\ me.op = "fulfil" => plan[me.node].status = "planned"
      \/ /\ next = write /\ ~(me.loads > 1)
         /\ me.op = "confirm" => \A id \in me.about : Valid(plan, id.delta)
         /\ me.op = "decide" => MayBecome(plan, me.node, me.to)
      \/ next = mark /\ me.op \notin {"confirm", "fulfil", "decide"}
  <2>1. CASE me.op = "look"
    BY <2>1 DEF AfterLoad
  <2>2. CASE me.op = "import"
    BY <1>1, <1>2, <2>2 DEF AfterLoad, Checked, write
  <2>3. CASE me.op = "confirm"
    BY <2>3 DEF AfterLoad, write, again
  <2>4. CASE me.op = "fulfil"
    BY <2>4 DEF AfterLoad, write, again
  <2>5. CASE me.op = "decide"
    BY <2>5 DEF AfterLoad, write, again
  <2>6. CASE me.op = "adopt"
    BY <2>6 DEF AfterLoad, write, again, mark
  <2>7. CASE me.op \notin {"look", "import", "confirm", "fulfil", "decide", "adopt"}
    BY <2>7 DEF AfterLoad, mark
  <2> QED
    BY <2>1, <2>2, <2>3, <2>4, <2>5, <2>6, <2>7
<1> HIDE DEF next
<1> QED
  BY <1>3, <1>4, <1>5, <1>6, <1>7, <1>8, <1>9 DEF next

LEMMA NextRowOK ==
    ASSUME KeptInv, NEW plan \in PlanMaps, canvas' = NextRow(plan)
    PROVE  CanvasOK' /\ canvas'.revision = canvas.revision + 1 /\ canvas'.plan = plan
  BY DEF KeptInv, CanvasOK, NextRow, NoCanvas

\* One node of the plan is drawn, changed or removed.
LEMMA ChangeRow ==
    ASSUME KeptInv, NEW n, NEW node \in Nodes, canvas' = NextRow([canvas.plan EXCEPT ![n] = node])
    PROVE  /\ CanvasOK' /\ canvas'.revision = canvas.revision + 1
           /\ \A m \in PlanNodes : canvas'.plan[m] = IF m = n THEN node ELSE canvas.plan[m]
<1> DEFINE plan == [canvas.plan EXCEPT ![n] = node]
<1>1. plan \in PlanMaps /\ \A m \in PlanNodes : plan[m] = IF m = n THEN node ELSE canvas.plan[m]
  BY DEF KeptInv, CanvasOK, PlanMaps
<1>2. canvas' = NextRow(plan)
  OBVIOUS
<1> HIDE DEF plan
<1> QED
  BY <1>1, <1>2, NextRowOK

-----------------------------------------------------------------------------
(* One lemma per action: the invariant stays, and the lifecycle is kept.     *)

\* What holds if the canvas stays as it is.
LEMMA SameCanvas ==
    ASSUME KeptInv, UNCHANGED canvas
    PROVE  CanvasOK' /\ canvas'.revision >= canvas.revision /\ LifecycleKept
  BY DEF KeptInv, CanvasOK, LifecycleKept, LawfulMove

Kept == KeptInv' /\ LifecycleKept

LEMMA BeginsKept ==
    ASSUME KeptInv, NEW p, NEW me, Begins(p, me), Fits(me, canvas.revision, DOMAIN decision)
    PROVE  Kept
<1>1. CanvasOK' /\ canvas'.revision >= canvas.revision /\ LifecycleKept
  BY SameCanvas DEF Begins
<1>2. AllFit'
  BY <1>1, OneFits DEF Begins
<1>3. ProposalsOK'
  BY <1>1, ProposalsStay DEF Begins
<1> QED
  BY <1>1, <1>2, <1>3 DEF Kept, KeptInv

LEMMA StopsKept ==
    ASSUME KeptInv, NEW p, Stops(p), UNCHANGED <<canvas, proposal, decision>>
    PROVE  Kept
<1>1. CanvasOK' /\ canvas'.revision >= canvas.revision /\ LifecycleKept
  BY SameCanvas
<1> QED
  BY <1>1, RestFits, ProposalsStay DEF Kept, KeptInv

LEMMA StillKept ==
    ASSUME KeptInv, UNCHANGED <<canvas, planner>>,
           DOMAIN proposal' = DOMAIN proposal, DOMAIN decision' = DOMAIN decision
    PROVE  Kept
<1>1. CanvasOK' /\ canvas'.revision >= canvas.revision /\ LifecycleKept
  BY SameCanvas
<1>2. AllFit'
  BY DEF KeptInv, AllFit
<1> QED
  BY <1>1, <1>2, ProposalsStay DEF Kept, KeptInv

LEMMA AtRestFields == Fields(AtRest)
  BY NoPlan DEF Fields, AtRest, NoCanvas

\* Every call that begins with load() and names no newer revision fits.
LEMMA CallFits ==
    ASSUME KeptInv, NEW me, DOMAIN me = DOMAIN AtRest, me.pc = "load", me.op # "preview",
           me.row = NoCanvas, me.seen = NoCanvas.plan, me.loads \in Nat, me.expect \in Nat,
           me.expect <= canvas.revision \/ (me.loads > 1 /\ me.expect <= 1),
           me.op \in {"import", "fulfil", "decide", "adopt", "recover"} => me.node \in PlanNodes,
           me.op = "import" => me.loads < 2,
           me.op = "decide" => me.to \in {"planned", "superseded"},
           me.op = "fulfil" => me.about \subseteq StoryCommits /\ ~(me.loads < 2)
    PROVE  Fits(me, canvas.revision, DOMAIN decision)
<1>1. Fields(me)
  BY NoPlan DEF Fields
<1>2. Revisions(me, canvas.revision) /\ Checked(me) /\ Previews(me, canvas.revision, DOMAIN decision)
  BY DEF Revisions, Checked, Previews
<1> QED
  BY <1>1, <1>2 DEF Fits

LEMMA LookKept == ASSUME KeptInv, NEW p, Look(p) PROVE Kept
<1> DEFINE me == Call(p, "look", 1)
<1>1. /\ DOMAIN me = DOMAIN AtRest /\ me.pc = "load" /\ me.op = "look" /\ me.loads = 1
      /\ me.row = NoCanvas /\ me.seen = NoCanvas.plan /\ me.expect = 0
  BY DEF Call, AtRest
<1>2. Begins(p, me)
  BY DEF Look
<1> HIDE DEF me
<1>3. 0 \in Nat /\ 0 <= canvas.revision
  BY DEF KeptInv, CanvasOK
<1>4. Fits(me, canvas.revision, DOMAIN decision)
  BY <1>1, <1>3, CallFits
<1> QED
  BY <1>2, <1>4, BeginsKept

LEMMA AskImportKept ==
    ASSUME KeptInv, NEW p, NEW n \in PlanNodes, NEW expected \in {0, canvas.revision},
           AskImport(p, n, expected)
    PROVE  Kept
<1>0. expected \in Nat /\ expected <= canvas.revision
  BY DEF KeptInv, CanvasOK
<1> DEFINE me == [Call(p, "import", 1) EXCEPT !.node = n, !.expect = expected]
<1>1. /\ DOMAIN me = DOMAIN AtRest /\ me.pc = "load" /\ me.op = "import" /\ me.loads = 1
      /\ me.row = NoCanvas /\ me.seen = NoCanvas.plan /\ me.expect = expected /\ me.node = n
  BY DEF Call, AtRest
<1>2. Begins(p, me)
  BY DEF AskImport
<1> HIDE DEF me
<1>3. Fits(me, canvas.revision, DOMAIN decision)
  BY <1>0, <1>1, CallFits
<1> QED
  BY <1>2, <1>3, BeginsKept

LEMMA AskFulfilKept ==
    ASSUME KeptInv, NEW p, NEW n \in PlanNodes, NEW c \in StoryCommits, NEW expected \in {0, canvas.revision},
           AskFulfil(p, n, c, expected)
    PROVE  Kept
<1>0. expected \in Nat /\ expected <= canvas.revision
  BY DEF KeptInv, CanvasOK
<1> DEFINE me == [Call(p, "fulfil", 2) EXCEPT !.node = n, !.expect = expected, !.about = {c}]
<1>1. /\ DOMAIN me = DOMAIN AtRest /\ me.pc = "load" /\ me.op = "fulfil" /\ me.loads = 2
      /\ me.row = NoCanvas /\ me.seen = NoCanvas.plan /\ me.expect = expected /\ me.node = n /\ me.about = {c}
  BY DEF Call, AtRest
<1>2. Begins(p, me)
  BY DEF AskFulfil
<1> HIDE DEF me
<1>3. Fits(me, canvas.revision, DOMAIN decision)
  BY <1>0, <1>1, CallFits
<1> QED
  BY <1>2, <1>3, BeginsKept

LEMMA AskDecideKept ==
    ASSUME KeptInv, NEW n \in PlanNodes, NEW to \in {"planned", "superseded"}, NEW expected \in {0, canvas.revision},
           AskDecide(n, to, expected)
    PROVE  Kept
<1>0. expected \in Nat /\ expected <= canvas.revision
  BY DEF KeptInv, CanvasOK
<1> DEFINE me == [Call(Host, "decide", 2) EXCEPT !.node = n, !.to = to, !.expect = expected]
<1>1. /\ DOMAIN me = DOMAIN AtRest /\ me.pc = "load" /\ me.op = "decide" /\ me.loads = 2
      /\ me.row = NoCanvas /\ me.seen = NoCanvas.plan /\ me.expect = expected /\ me.node = n /\ me.to = to
  BY DEF Call, AtRest
<1>2. Begins(Host, me)
  BY DEF AskDecide
<1> HIDE DEF me
<1>3. Fits(me, canvas.revision, DOMAIN decision)
  BY <1>0, <1>1, CallFits
<1> QED
  BY <1>2, <1>3, BeginsKept

LEMMA AskAdoptKept ==
    ASSUME KeptInv, NEW n \in PlanNodes, NEW expected \in {0, canvas.revision},
           AskAdopt(n, expected)
    PROVE  Kept
<1>0. expected \in Nat /\ expected <= canvas.revision
  BY DEF KeptInv, CanvasOK
<1> DEFINE me == [Call(Host, "adopt", 3) EXCEPT !.node = n, !.expect = expected]
<1>1. /\ DOMAIN me = DOMAIN AtRest /\ me.pc = "load" /\ me.op = "adopt" /\ me.loads = 3
      /\ me.row = NoCanvas /\ me.seen = NoCanvas.plan /\ me.expect = expected /\ me.node = n
  BY DEF Call, AtRest
<1>2. Begins(Host, me)
  BY DEF AskAdopt
<1> HIDE DEF me
<1>3. Fits(me, canvas.revision, DOMAIN decision)
  BY <1>0, <1>1, CallFits
<1> QED
  BY <1>2, <1>3, BeginsKept

LEMMA LoadRowKept == ASSUME KeptInv, NEW p, LoadRow(p) PROVE Kept
<1> DEFINE me == planner[p]
           next == [me EXCEPT !.pc = "merge", !.row = canvas]
<1>1. CanvasOK' /\ canvas'.revision >= canvas.revision /\ LifecycleKept
  BY SameCanvas DEF LoadRow
<1>2. Fits(me, canvas.revision, DOMAIN decision) /\ me.pc = "load" /\ p \in DOMAIN planner
  BY DEF KeptInv, AllFit, LoadRow, AtPoint, Rests
<1>3. /\ next.pc = "merge" /\ next.row = canvas /\ next.loads = me.loads /\ next.seen = me.seen
      /\ next.op = me.op /\ next.expect = me.expect /\ next.node = me.node /\ next.to = me.to
      /\ next.about = me.about /\ DOMAIN next = DOMAIN AtRest
  BY <1>2 DEF Fits, Fields, AtRest
<1>4. planner' = [planner EXCEPT ![p] = next]
  BY DEF LoadRow
<1> HIDE DEF next
<1>5. Fields(next)
  BY <1>2, <1>3 DEF Fits, Fields, KeptInv, CanvasOK
<1>6. Revisions(next, canvas.revision)
  BY <1>2, <1>3 DEF Fits, Revisions, KeptInv, CanvasOK
<1>7. Checked(next) /\ Previews(next, canvas.revision, DOMAIN decision)
  BY <1>2, <1>3 DEF Fits, Checked, Previews
<1>8. AllFit'
  BY <1>4, <1>5, <1>6, <1>7 DEF KeptInv, AllFit, Fits, LoadRow
<1> QED
  BY <1>1, <1>8, ProposalsStay DEF Kept, KeptInv, LoadRow

\* A merge that overwrites what was changed since has been overtaken.
LEMMA LoadRestKept == ASSUME KeptInv, NEW p, LoadRest(p) PROVE Kept
<1> DEFINE me == planner[p]
           row == me.row
           clash == row.revision = 0 /\ canvas.revision # 0
           next == IF clash THEN AtRest ELSE AfterLoad(p, row.plan)
<1>1. p \in DOMAIN planner /\ me.pc = "merge" /\ Fits(me, canvas.revision, DOMAIN decision)
  BY DEF LoadRest, AtPoint, Rests, KeptInv, AllFit
<1>2. row.revision \in Nat /\ row.plan \in PlanMaps /\ row.revision <= canvas.revision
  BY <1>1 DEF Fits, Fields, Revisions
<1>3. Becomes(p, next)
  BY DEF LoadRest
<1>4. /\ CanvasOK' /\ canvas'.revision >= canvas.revision /\ canvas'.revision > 0
      /\ canvas'.plan = canvas.plan \/ canvas'.plan = row.plan
  <2>1. CASE clash
    BY <2>1 DEF LoadRest, KeptInv, CanvasOK
  <2>2. CASE row.revision = 0 /\ canvas.revision = 0
    BY <2>2, NoPlan DEF LoadRest, KeptInv, CanvasOK, NoCanvas
  <2>3. CASE row.revision # 0 /\ canvas' = MergedRow(row)
    BY <1>2, <2>3 DEF MergedRow, KeptInv, CanvasOK, NoCanvas
  <2>4. CASE row.revision # 0 /\ canvas' = canvas
    BY <1>2, <2>4 DEF KeptInv, CanvasOK
  <2> QED
    BY <1>2, <2>1, <2>2, <2>3, <2>4 DEF LoadRest, KeptInv, CanvasOK
<1>5. next = AtRest \/ (Fits(next, canvas'.revision, DOMAIN decision) /\ next.pc \in {"load", "write", "mark"})
  <2>1. canvas.revision \in Nat /\ canvas'.revision \in Nat
    BY <1>4 DEF KeptInv, CanvasOK
  <2> QED
    BY <1>1, <1>4, <2>1, AfterLoadFits
<1> HIDE DEF next
<1>6. AllFit'
  BY <1>3, <1>4, <1>5, OneFits DEF LoadRest
<1>7. p \notin DOMAIN planner' \/ planner'[p] # me
  BY <1>1, <1>3, <1>5, BecomesIs DEF Becomes, Stops
<1>8. LifecycleKept
  <2> SUFFICES ASSUME NEW n \in PlanNodes PROVE LawfulMove(n) \/ OvertakenAt(p, n)
    BY <1>1 DEF LifecycleKept
  <2>1. CASE canvas'.plan[n] = canvas.plan[n]
    BY <2>1 DEF LawfulMove
  <2>2. CASE canvas.plan[n] # row.plan[n]
    BY <1>1, <1>7, <2>2 DEF OvertakenAt
  <2> QED
    BY <1>4, <2>1, <2>2
<1> QED
  BY <1>4, <1>6, <1>8, ProposalsStay DEF Kept, KeptInv, LoadRest

\* A write of one node by a process that then rests: lawful, or overtaken.
LEMMA WriteKept ==
    ASSUME KeptInv, NEW p \in DOMAIN planner, NEW n, NEW node \in Nodes, Stops(p),
           canvas' = NextRow([canvas.plan EXCEPT ![n] = node]),
           UNCHANGED DOMAIN proposal, UNCHANGED DOMAIN decision,
           n \in PlanNodes => LawfulMove(n) \/ OvertakenAt(p, n)
    PROVE  Kept
<1>1. /\ CanvasOK' /\ canvas'.revision = canvas.revision + 1
      /\ \A m \in PlanNodes : canvas'.plan[m] = IF m = n THEN node ELSE canvas.plan[m]
  BY ChangeRow
<1>2. canvas'.revision >= canvas.revision
  BY <1>1 DEF KeptInv, CanvasOK
<1>3. AllFit' /\ ProposalsOK'
  BY <1>1, <1>2, RestFits, ProposalsStay
<1>4. LifecycleKept
  <2> SUFFICES ASSUME NEW m \in PlanNodes PROVE LawfulMove(m) \/ OvertakenAt(p, m)
    BY DEF LifecycleKept
  <2>1. m # n => canvas'.plan[m] = canvas.plan[m]
    BY <1>1
  <2> QED
    BY <2>1 DEF LawfulMove
<1> QED
  BY <1>1, <1>3, <1>4 DEF Kept, KeptInv

\* A process that names its revision and writes has read the row at that revision.
LEMMA RevisionSeen ==
    ASSUME KeptInv, NEW p \in DOMAIN planner, planner[p].pc = "write", Fresh(planner[p].expect)
    PROVE  planner[p].expect = 0 \/ planner[p].row.revision = canvas.revision
  BY DEF KeptInv, AllFit, Fits, Fields, Revisions, Fresh, CanvasOK

\* What the process has read of a node is what there is, or it was overtaken.
LEMMA UpToDate ==
    ASSUME KeptInv, NEW p \in DOMAIN planner, planner[p].pc = "write", Fresh(planner[p].expect), Stops(p),
           NEW n, ~OvertakenAt(p, n)
    PROVE  /\ canvas.plan[n] = planner[p].row.plan[n]
           /\ planner[p].op = "fulfil" => canvas.plan[n] = planner[p].seen[n]
  BY RevisionSeen DEF OvertakenAt, Stops

LEMMA ImportKept == ASSUME KeptInv, NEW p, ImportBranch(p) PROVE Kept
<1> DEFINE b == planner[p].node
<1>1. CASE canvas' = canvas
  BY <1>1, StopsKept DEF ImportBranch
<1>2. CASE canvas' # canvas
  <2>1. /\ canvas' = NextRow([canvas.plan EXCEPT ![b] = Drawn("candidate")])
        /\ canvas.plan[b].status = "absent" /\ p \in DOMAIN planner /\ planner[p].op = "import"
    BY <1>2 DEF ImportBranch, PlannerAt, AtPoint, Rests
  <2>2. Drawn("candidate") \in Nodes
    BY DrawnOK DEF PlanningStatuses
  <2>3. b \in PlanNodes
    BY <2>1 DEF KeptInv, AllFit, Fits, Fields
  <2>4. canvas.plan[b] = NoNode
    BY <2>1, <2>3 DEF KeptInv, CanvasOK, PlanMaps, Nodes, PlanningStatuses
  <2>5. canvas'.plan[b] = Drawn("candidate")
    BY <2>1, <2>2, <2>3, ChangeRow
  <2>6. LawfulMove(b)
    BY <2>4, <2>5 DEF LawfulMove, Drawn
  <2> QED
    BY <2>1, <2>2, <2>6, WriteKept DEF ImportBranch
<1> QED
  BY <1>1, <1>2

LEMMA DecideKept == ASSUME KeptInv, DecideCandidate PROVE Kept
<1> DEFINE me == planner[Host]
           n == me.node
           node == [canvas.plan[n] EXCEPT !.status = me.to]
<1>1. CASE canvas' = canvas
  BY <1>1, StopsKept DEF DecideCandidate
<1>2. CASE canvas' # canvas
  <2>1. /\ canvas' = NextRow([canvas.plan EXCEPT ![n].status = me.to]) /\ Fresh(me.expect)
        /\ canvas.plan[n].status # "absent" /\ Host \in DOMAIN planner
        /\ me.op = "decide" /\ me.pc = "write" /\ Stops(Host)
    BY <1>2 DEF DecideCandidate, PlannerAt, AtPoint, Rests
  <2>2. n \in PlanNodes /\ me.to \in {"planned", "superseded"} /\ MayBecome(me.row.plan, n, me.to)
    BY <2>1 DEF KeptInv, AllFit, Fits, Fields, Checked
  <2>3. canvas.plan[n] \in [status : PlanningStatuses, commit : StoryCommits \cup {0}]
    BY <2>1, <2>2 DEF KeptInv, CanvasOK, PlanMaps, Nodes, NoNode
  <2>4. /\ node \in Nodes /\ node.status = me.to /\ node.commit = canvas.plan[n].commit
        /\ canvas' = NextRow([canvas.plan EXCEPT ![n] = node])
    BY <2>1, <2>2, <2>3 DEF Nodes, PlanningStatuses
  <2> HIDE DEF node
  <2>5. canvas'.plan[n] = node
    BY <2>2, <2>4, ChangeRow
  <2>6. ASSUME ~OvertakenAt(Host, n) PROVE LawfulMove(n)
    <3>1. canvas.plan[n] = me.row.plan[n]
      BY <2>1, <2>6, UpToDate
    <3>2. \/ canvas.plan[n].status = me.to
          \/ me.to \in PLANNING_TRANSITIONS[canvas.plan[n].status]
      BY <2>1, <2>2, <3>1 DEF MayBecome
    <3>3. me.to # "absent" /\ me.to # "accepted"
      BY <2>2
    <3>4. canvas.plan[n].status = me.to => node = canvas.plan[n]
      BY <2>3 DEF node
    <3> QED
      BY <2>1, <2>4, <2>5, <3>2, <3>3, <3>4 DEF LawfulMove
  <2> QED
    BY <2>1, <2>4, <2>6, WriteKept DEF DecideCandidate
<1> QED
  BY <1>1, <1>2

LEMMA FulfilKept == ASSUME KeptInv, NEW p, Fulfil(p) PROVE Kept
<1> DEFINE me == planner[p]
           n == me.node
<1>1. CASE canvas' = canvas
  BY <1>1, StopsKept DEF Fulfil
<1>2. CASE canvas' # canvas
  <2>1. PICK c \in me.about : canvas' = NextRow([canvas.plan EXCEPT ![n] = [status |-> "accepted", commit |-> c]])
    BY <1>2 DEF Fulfil
  <2>2. /\ Fresh(me.expect) /\ canvas.plan[n].status # "absent" /\ p \in DOMAIN planner
        /\ me.op = "fulfil" /\ me.pc = "write" /\ Stops(p)
    BY <1>2 DEF Fulfil, PlannerAt, AtPoint, Rests
  <2>3. n \in PlanNodes /\ c \in StoryCommits /\ (me.loads < 2 => me.seen[n].status = "planned")
    BY <2>2 DEF KeptInv, AllFit, Fits, Fields, Checked
  <2>4. [status |-> "accepted", commit |-> c] \in Nodes
    BY <2>3 DEF Nodes, PlanningStatuses
  <2>5. canvas'.plan[n] = [status |-> "accepted", commit |-> c]
    BY <2>1, <2>3, <2>4, ChangeRow
  <2>6. me.loads < 2
    BY <2>2 DEF KeptInv, AllFit, Fits, Checked
  <2>7. ASSUME ~OvertakenAt(p, n) PROVE LawfulMove(n)
    <3>1. canvas.plan[n].status = "planned"
      BY <2>2, <2>3, <2>6, <2>7, UpToDate
    <3>2. c # 0
      BY <2>3, CanvasAssumption
    <3> QED
      BY <2>5, <3>1, <3>2 DEF LawfulMove, PLANNING_TRANSITIONS
  <2> QED
    BY <2>1, <2>2, <2>4, <2>7, WriteKept DEF Fulfil
<1> QED
  BY <1>1, <1>2

LEMMA AdoptNodeKept == ASSUME KeptInv, AdoptNode PROVE Kept
<1> DEFINE me == planner[Host]
           a == me.node
           marked == [me EXCEPT !.pc = "mark"]
           looks == [me EXCEPT !.op = "recover", !.pc = "load", !.loads = 1]
<1>1. /\ Host \in DOMAIN planner /\ me.op = "adopt" /\ me.pc = "write"
      /\ Fits(me, canvas.revision, DOMAIN decision) /\ canvas.revision \in Nat
  BY DEF AdoptNode, PlannerAt, AtPoint, Rests, KeptInv, AllFit, CanvasOK
<1>2. /\ Fields(me) /\ a \in PlanNodes /\ Drawn("planned") \in Nodes
      /\ me.expect <= me.row.revision /\ me.row.revision <= canvas.revision
      /\ me.expect \in Nat /\ me.row.revision \in Nat
  BY <1>1, DrawnOK DEF Fits, Fields, Revisions, PlanningStatuses
<1>3. /\ CanvasOK' /\ canvas'.revision >= canvas.revision /\ LifecycleKept
  <2>1. CASE canvas' = canvas
    BY <2>1, SameCanvas
  <2>2. CASE canvas' # canvas
    <3>1. /\ canvas' = NextRow([canvas.plan EXCEPT ![a] = Drawn("planned")])
          /\ canvas.plan[a].status = "absent"
      BY <2>2 DEF AdoptNode
    <3>2. /\ CanvasOK' /\ canvas'.revision = canvas.revision + 1
          /\ \A m \in PlanNodes : canvas'.plan[m] = IF m = a THEN Drawn("planned") ELSE canvas.plan[m]
      BY <1>2, <3>1, ChangeRow
    <3>3. canvas.plan[a] = NoNode
      BY <1>2, <3>1 DEF KeptInv, CanvasOK, PlanMaps, Nodes, PlanningStatuses
    <3>4. LifecycleKept
      BY <1>2, <3>2, <3>3 DEF LifecycleKept, LawfulMove, Drawn
    <3> QED
      BY <1>1, <3>2, <3>4
  <2> QED
    BY <2>1, <2>2
<1>4. Stops(Host) \/ Becomes(Host, marked) \/ Becomes(Host, looks)
  BY DEF AdoptNode, Becomes
<1>5. /\ marked.pc = "mark" /\ marked.op = "adopt" /\ marked.row = me.row /\ marked.seen = me.seen
      /\ marked.loads = me.loads /\ marked.expect = me.expect /\ marked.node = a
      /\ DOMAIN marked = DOMAIN AtRest
  BY <1>1, <1>2 DEF Fields, AtRest
<1>6. /\ looks.pc = "load" /\ looks.op = "recover" /\ looks.row = me.row /\ looks.seen = me.seen
      /\ looks.loads = 1 /\ looks.expect = me.expect /\ looks.node = a
      /\ DOMAIN looks = DOMAIN AtRest
  BY <1>1, <1>2 DEF Fields, AtRest
<1> HIDE DEF marked, looks
<1>7. canvas'.revision \in Nat
  BY <1>3 DEF CanvasOK
<1>8. Fits(marked, canvas'.revision, DOMAIN decision')
  BY <1>2, <1>5 DEF Fits, Fields, Revisions, Checked, Previews
<1>9. Fits(looks, canvas'.revision, DOMAIN decision')
  <2>1. Fields(looks)
    BY <1>2, <1>6 DEF Fields
  <2>2. Revisions(looks, canvas'.revision)
    BY <1>1, <1>2, <1>3, <1>6, <1>7 DEF Revisions
  <2> QED
    BY <1>6, <2>1, <2>2 DEF Fits, Checked, Previews
<1>10. AllFit'
  BY <1>3, <1>4, <1>8, <1>9, OneFits, RestFits DEF AdoptNode
<1> QED
  BY <1>3, <1>10, ProposalsStay DEF Kept, KeptInv, AdoptNode

LEMMA PreviewKept == ASSUME KeptInv, NEW d \in Deltas, AskPreview(d) PROVE Kept
<1> DEFINE id == [revision |-> ReadRevision, delta |-> d]
           me == [AtRest EXCEPT !.op = "preview", !.pc = "enqueue", !.about = {id}]
<1>1. WasMade(id, canvas.revision)
  BY DEF WasMade, ReadRevision, KeptInv, CanvasOK
<1>2. Begins(Host, me)
  BY DEF AskPreview
<1> HIDE DEF id
<1>3. /\ me.op = "preview" /\ me.pc = "enqueue" /\ me.about = {id} /\ DOMAIN me = DOMAIN AtRest
      /\ me.row = NoCanvas /\ me.seen = NoCanvas.plan /\ me.loads = 0 /\ me.expect = 0
  BY DEF AtRest
<1> HIDE DEF me
<1>4. Fits(me, canvas.revision, DOMAIN decision)
  BY <1>1, <1>3, NoPlan DEF Fits, Fields, Revisions, Checked, Previews
<1> QED
  BY <1>2, <1>4, BeginsKept

LEMMA EnqueueKept == ASSUME KeptInv, EnqueueDecision PROVE Kept
<1> DEFINE me == planner[Host]
           next == [me EXCEPT !.pc = "record"]
<1>1. CanvasOK' /\ canvas'.revision >= canvas.revision /\ LifecycleKept
  BY SameCanvas DEF EnqueueDecision
<1>2. /\ Host \in DOMAIN planner /\ me.op = "preview" /\ Fits(me, canvas.revision, DOMAIN decision)
      /\ DOMAIN decision' = DOMAIN decision \cup me.about
  BY DEF EnqueueDecision, PlannerAt, AtPoint, Rests, KeptInv, AllFit
<1>3. /\ next.pc = "record" /\ next.op = "preview" /\ next.row = me.row /\ next.seen = me.seen
      /\ next.loads = me.loads /\ next.expect = me.expect /\ next.about = me.about
      /\ DOMAIN next = DOMAIN AtRest
  BY <1>2 DEF Fits, Fields, AtRest
<1>4. planner' = [planner EXCEPT ![Host] = next]
  BY DEF EnqueueDecision
<1> HIDE DEF next
<1>5. Fits(next, canvas'.revision, DOMAIN decision')
  BY <1>2, <1>3 DEF Fits, Fields, Revisions, Checked, Previews, EnqueueDecision
<1>6. \A q \in DOMAIN planner : Fits(planner[q], canvas'.revision, DOMAIN decision')
  BY <1>1, <1>2, FitsLater DEF KeptInv, AllFit, CanvasOK
<1>7. AllFit'
  BY <1>4, <1>5, <1>6 DEF AllFit
<1>8. ProposalsOK'
  BY <1>2 DEF KeptInv, ProposalsOK, EnqueueDecision
<1> QED
  BY <1>1, <1>7, <1>8 DEF Kept, KeptInv

LEMMA RecordKept == ASSUME KeptInv, RecordProposal PROVE Kept
<1> DEFINE me == planner[Host]
<1>1. CanvasOK' /\ canvas'.revision >= canvas.revision /\ LifecycleKept
  BY SameCanvas DEF RecordProposal
<1>2. /\ \A id \in me.about : WasMade(id, canvas.revision)
      /\ me.about \subseteq DOMAIN decision
  BY DEF RecordProposal, PlannerAt, AtPoint, Rests, KeptInv, AllFit, Fits, Previews
<1>3. ProposalsOK'
  BY <1>2 DEF KeptInv, ProposalsOK, RecordProposal
<1>4. AllFit'
  BY <1>1, RestFits DEF RecordProposal
<1> QED
  BY <1>1, <1>3, <1>4 DEF Kept, KeptInv

LEMMA AskConfirmKept ==
    ASSUME KeptInv, NEW id \in DOMAIN proposal, AskConfirm(id) PROVE Kept
<1> DEFINE loads == IF canvas.revision = 0 THEN 2 ELSE 1
           me == [Call(Host, "confirm", loads) EXCEPT !.about = {id}, !.expect = id.revision]
<1>1. CASE Begins(Host, Call(Host, "look", 1))
  BY <1>1, LookKept DEF Look
<1>2. CASE Begins(Host, me)
  <2>1. /\ DOMAIN me = DOMAIN AtRest /\ me.pc = "load" /\ me.op = "confirm" /\ me.loads = loads
        /\ me.row = NoCanvas /\ me.seen = NoCanvas.plan /\ me.expect = id.revision
    BY DEF Call, AtRest
  <2> HIDE DEF me
  <2>2. WasMade(id, canvas.revision) /\ canvas.revision \in Nat
    BY DEF KeptInv, ProposalsOK, CanvasOK
  <2>3. id.revision \in Nat /\ (id.revision <= canvas.revision \/ (loads > 1 /\ id.revision <= 1))
    BY <2>2 DEF WasMade
  <2>4. loads \in Nat
    OBVIOUS
  <2>5. Fits(me, canvas.revision, DOMAIN decision)
    BY <2>1, <2>3, <2>4, CallFits
  <2> QED
    BY <1>2, <2>5, BeginsKept
<1> QED
  BY <1>1, <1>2 DEF AskConfirm

\* The change was checked against the row that was read, at the revision of the
\* proposal: only a merge can have changed the node since.
LEMMA ConfirmKept ==
    ASSUME KeptInv, NEW id \in DOMAIN proposal, Confirm(id) PROVE Kept
<1> DEFINE me == planner[Host]
           d == id.delta
           n == d.node
           node == Applied(canvas.plan, d)[n]
<1>1. CASE canvas' = canvas /\ proposal' = proposal /\ decision' = decision
  BY <1>1, StopsKept DEF Confirm
<1>2. CASE ~(canvas' = canvas /\ proposal' = proposal /\ decision' = decision)
  <2>1. /\ Host \in DOMAIN planner /\ me.op = "confirm" /\ me.pc = "write" /\ me.about = {id}
        /\ Fresh(me.expect) /\ Applicable(canvas.plan, d) /\ Stops(Host)
        /\ decision[id] = "needs_author_decision" /\ decision' = [decision EXCEPT ![id] = "completed"]
        /\ proposal' = [proposal EXCEPT ![id] = "ACCEPTED"]
        /\ canvas' = NextRow(Applied(canvas.plan, d))
    BY <1>2 DEF Confirm, PlannerAt, AtPoint, Rests
  <2>2. id \in DOMAIN decision /\ d \in Deltas
    BY DEF KeptInv, ProposalsOK, WasMade
  <2>3. d \in [op : {"add", "set", "remove"}, node : PlanNodes, status : PlanningStatuses]
    BY <2>2, CanvasAssumption
  <2>4. n \in PlanNodes /\ d.status \in PlanningStatuses /\ d.op \in {"add", "set", "remove"}
    BY <2>3
  <2>5. Valid(me.row.plan, d)
    BY <2>1 DEF KeptInv, AllFit, Fits, Checked
  <2>6. canvas.plan \in PlanMaps /\ canvas.plan[n] \in Nodes
    BY <2>4 DEF KeptInv, CanvasOK, PlanMaps
  <2>7. /\ Applied(canvas.plan, d) = [canvas.plan EXCEPT ![n] = node]
        /\ d.op = "add" => node = Drawn(d.status)
        /\ d.op = "set" => node = [canvas.plan[n] EXCEPT !.status = d.status]
        /\ d.op = "remove" => node = NoNode
    BY <2>4, <2>6 DEF Applied, PlanMaps
  <2> HIDE DEF node
  <2>8. d.op = "set" => canvas.plan[n] \in [status : PlanningStatuses, commit : StoryCommits \cup {0}]
    BY <2>1, <2>6 DEF Applicable, Nodes, NoNode
  <2>9. node \in Nodes
    BY <2>4, <2>7, <2>8, DrawnOK DEF Nodes
  <2>10. canvas'.plan[n] = node
    BY <2>1, <2>4, <2>7, <2>9, ChangeRow
  <2>11. ASSUME ~OvertakenAt(Host, n) PROVE LawfulMove(n)
    <3>1. canvas.plan[n] = me.row.plan[n]
      BY <2>1, <2>11, UpToDate
    <3>2. CASE d.op = "add"
      <4>1. canvas.plan[n] = NoNode
        BY <2>1, <2>6, <3>2 DEF Applicable, Nodes, PlanningStatuses
      <4>2. node.status # "accepted" /\ node.commit = 0
        BY <2>5, <2>7, <3>2 DEF Valid, Drawn
      <4> QED
        BY <2>10, <4>1, <4>2 DEF LawfulMove
    <3>3. CASE d.op = "set"
      <4>1. /\ canvas.plan[n].status \in PlanningStatuses /\ canvas.plan[n].status # "absent"
            /\ node.status = d.status /\ node.commit = canvas.plan[n].commit
            /\ node.status = canvas.plan[n].status => node = canvas.plan[n]
        BY <2>4, <2>7, <2>8, <3>3 DEF PlanningStatuses
      <4>2. /\ MayBecome(canvas.plan, n, d.status)
            /\ d.status = "accepted" => canvas.plan[n].status \in {"absent", "accepted"}
        BY <2>5, <3>1, <3>3 DEF Valid, MayBecome
      <4>3. node.status = canvas.plan[n].status \/
            (node.status \in PLANNING_TRANSITIONS[canvas.plan[n].status] /\ node.status # "accepted")
        BY <4>1, <4>2 DEF MayBecome
      <4>4. node.status # "absent"
        BY <2>4, <4>1 DEF PlanningStatuses
      <4> QED
        BY <2>10, <4>1, <4>3, <4>4 DEF LawfulMove
    <3>4. CASE d.op = "remove"
      <4>1. id \in Done' \ Done
        BY <2>1, <2>2 DEF Done
      <4> QED
        BY <2>7, <2>10, <3>4, <4>1 DEF LawfulMove
    <3> QED
      BY <2>4, <3>2, <3>3, <3>4
  <2>12. DOMAIN proposal' = DOMAIN proposal /\ DOMAIN decision' = DOMAIN decision
    BY <2>1
  <2> QED
    BY <2>1, <2>7, <2>9, <2>11, <2>12, WriteKept
<1> QED
  BY <1>1, <1>2

LEMMA PlannerStepKept == ASSUME KeptInv, NEW p, PlannerStep(p) PROVE Kept
<1>1. CASE Look(p) \/ LoadRow(p) \/ LoadRest(p)
  BY <1>1, LookKept, LoadRowKept, LoadRestKept
<1>2. CASE PlannerDies(p)
  BY <1>2, StopsKept DEF PlannerDies
<1>3. CASE ImportBranch(p) \/ Fulfil(p)
  BY <1>3, ImportKept, FulfilKept
<1>4. ASSUME NEW b \in Branches, NEW expected \in Named(p), AskImport(p, b, expected) PROVE Kept
  <2>1. b \in PlanNodes /\ expected \in {0, canvas.revision}
    BY DEF PlanNodes, Named
  <2> QED
    BY <1>4, <2>1, AskImportKept
<1>5. ASSUME NEW n \in PlanNodes, NEW c \in StoryCommits, NEW expected \in Named(p), AskFulfil(p, n, c, expected)
      PROVE  Kept
  BY <1>5, AskFulfilKept DEF Named
<1> QED
  BY <1>1, <1>2, <1>3, <1>4, <1>5 DEF PlannerStep

LEMMA AuthorStepKept == ASSUME KeptInv, AuthorStep PROVE Kept
<1>1. ASSUME NEW d \in Deltas, AskPreview(d) PROVE Kept
  BY <1>1, PreviewKept
<1>2. ASSUME NEW id \in DOMAIN proposal, AskConfirm(id) \/ Confirm(id) PROVE Kept
  BY <1>2, AskConfirmKept, ConfirmKept
<1>3. ASSUME NEW n \in PlanNodes, NEW to \in {"planned", "superseded"}, NEW expected \in Named(Host),
             AskDecide(n, to, expected)
      PROVE  Kept
  BY <1>3, AskDecideKept DEF Named
<1>4. ASSUME NEW a \in Adoptions, RejectAdoption(a) PROVE Kept
  BY <1>4, StillKept DEF RejectAdoption
<1>5. ASSUME NEW a \in Adoptions, NEW expected \in Named(Host), AskAdopt(a, expected) PROVE Kept
  BY <1>5, AskAdoptKept DEF Named, PlanNodes
<1>6. CASE EnqueueDecision \/ RecordProposal \/ DecideCandidate \/ AdoptNode
  BY <1>6, EnqueueKept, RecordKept, DecideKept, AdoptNodeKept
<1>7. CASE MarkAdopted
  BY <1>7, StopsKept DEF MarkAdopted
<1> QED
  BY <1>1, <1>2, <1>3, <1>4, <1>5, <1>6, <1>7 DEF AuthorStep

LEMMA KeptStep == ASSUME KeptInv, PlanNext PROVE Kept
<1>1. ASSUME NEW p, PlannerStep(p) PROVE Kept
  BY <1>1, PlannerStepKept
<1>2. CASE AuthorStep
  BY <1>2, AuthorStepKept
<1>3. ASSUME NEW id, NEW status, DecideProposal(id, status) PROVE Kept
  <2>1. DOMAIN proposal' = DOMAIN proposal
    BY <1>3 DEF DecideProposal
  <2> QED
    BY <1>3, <2>1, StillKept DEF DecideProposal
<1>4. ASSUME NEW id, NEW status, LeaveDecision(id, status) PROVE Kept
  <2>1. DOMAIN decision' = DOMAIN decision
    BY <1>4 DEF LeaveDecision
  <2> QED
    BY <1>4, <2>1, StillKept DEF LeaveDecision
<1>5. CASE StoryMoves
  BY <1>5, StillKept DEF StoryMoves
<1> QED
  BY <1>1, <1>2, <1>3, <1>4, <1>5 DEF PlanNext

LEMMA KeptStutters == ASSUME KeptInv, UNCHANGED planVars PROVE Kept
  BY StillKept DEF planVars

\* What a process holds fits what there is, for any nodes, changes, threads and bounds.
THEOREM KeptInvariant == PlanSpec => []KeptInv
<1>1. KeptInv /\ [PlanNext]_planVars => KeptInv'
  BY KeptStep, KeptStutters DEF Kept
<1> QED
  BY <1>1, KeptInit, PTL DEF PlanSpec

\* A planning node leaves its lifecycle only under a write that was overtaken, and a
\* write that names its revision is overtaken by nothing but a merge in place.
THEOREM PlanIsKept == PlanSpec => PlanKept
<1>1. KeptInv /\ [PlanNext]_planVars => [LifecycleKept]_planVars
  BY KeptStep, KeptStutters DEF Kept
<1> QED
  BY <1>1, KeptInvariant, PTL DEF PlanSpec, PlanKept
=============================================================================
