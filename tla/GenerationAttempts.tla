------------------------- MODULE GenerationAttempts -------------------------
(***************************************************************************)
(* The "durable exactly-once boundary for provider generation requests":   *)
(* the store of src/src/core/generation_attempts.py and its one user,      *)
(* PersistentModelRuntime.invoke in src/src/llm/model_runtime.py, for one  *)
(* request, that is one task, stage and request hash.                      *)
(*                                                                         *)
(* invoke is a sequence of transactions around one call of the provider;   *)
(* an action is one transaction, or the answer of the provider.  A process *)
(* may die between any two of them, and the task is then executed again.   *)
(* Two invocations overlap when a handler that lost its lease is still in  *)
(* its call while the next owner of the task executes the same stage.      *)
(*                                                                         *)
(* Abstractions: every invocation of the request has the same hash, so an  *)
(* attempt is known by the suffix of its key, `:retry:n' (none for 1); the *)
(* answer itself, prompts, manifests and usage are left out, and so is the *)
(* AgentRun, which belongs to the router when one is attached.             *)
(***************************************************************************)
EXTENDS Naturals

CONSTANTS
    Callers,        \* handlers that may execute the stage
    MaxCalls,       \* bound: invocations that get as far as a run of their own
    MaxDeaths       \* bound: processes that die inside an invocation

ASSUME GenerationAssumption == MaxCalls \in Nat \ {0} /\ MaxDeaths \in Nat

Numbers == 1..MaxCalls

VARIABLES
    attempt,    \* generation_attempts of the request, by number
    run,        \* generation_runs.status, by order of creation
    call,       \* what each caller holds between two transactions
    deaths,
    overlap     \* history: two invocations have been in progress at once

genVars == <<attempt, run, call, deaths, overlap>>

-----------------------------------------------------------------------------
AttemptRow == [st: {"absent", "prepared", "requesting", "persisted", "consumed", "failed",
                    "abandoned"},
               run: Numbers \cup {0}]

Points == {"idle", "lookup", "list", "abandon", "close", "again", "create", "prepare", "reused",
           "configure", "mark", "calling", "persist", "finish", "recover", "consume", "fail",
           "failRun"}

\* n: number of the attempt in hand; run: the invocation's own run; late, first
\* (history): some attempt, the first one, held an answer when it began.
Call == [pc: Points, n: Numbers \cup {0}, run: Numbers \cup {0}, late: BOOLEAN, first: BOOLEAN]

NoCall == [pc |-> "idle", n |-> 0, run |-> 0, late |-> FALSE, first |-> FALSE]

Durable(st) == st \in {"persisted", "consumed"}
Open(st) == st \in {"prepared", "requesting"}

Count == IF \A n \in Numbers : attempt[n].st = "absent" THEN 0
         ELSE CHOOSE n \in Numbers : /\ attempt[n].st # "absent"
                                     /\ \A m \in Numbers : m > n => attempt[m].st = "absent"

At(c, pc) == call[c].pc = pc
To(c, pc) == call' = [call EXCEPT ![c].pc = pc]
Return(c) == call' = [call EXCEPT ![c] = NoCall]

Becomes(n, st) == attempt' = [attempt EXCEPT ![n].st = st]
KeepRest == UNCHANGED <<deaths, overlap>>

-----------------------------------------------------------------------------
(* The steps of invoke.                                                    *)

Begin(c) ==
    /\ At(c, "idle")
    /\ call' = [call EXCEPT ![c] = [NoCall EXCEPT
                    !.pc = "lookup",
                    !.late = \E n \in Numbers : Durable(attempt[n].st),
                    !.first = Durable(attempt[1].st)]]
    /\ overlap' = (overlap \/ \E d \in Callers : d # c /\ ~At(d, "idle"))
    /\ UNCHANGED <<attempt, run, deaths>>

\* Mutant of Reusable: a response that was consumed once is not reused.
ReusableOnce(st) == st = "persisted"

\* status IN RESPONSE_STATUSES
Reusable(st) == Durable(st)

\* by_idempotency of the key without suffix.
LookUp(c) ==
    /\ At(c, "lookup")
    /\ IF Reusable(attempt[1].st)
       THEN call' = [call EXCEPT ![c].pc = "recover", ![c].n = 1]
       ELSE To(c, "list")
    /\ UNCHANGED <<attempt, run>> /\ KeepRest

\* for_task: the latest attempt of the request decides the number of the next.
List(c) ==
    /\ At(c, "list")
    /\ Count < MaxCalls
    /\ call' = [call EXCEPT ![c].n = Count + 1,
                            ![c].pc = IF Count = 0 THEN "create"
                                      ELSE IF Open(attempt[Count].st) THEN "abandon"
                                      ELSE "again"]
    /\ UNCHANGED <<attempt, run>> /\ KeepRest

Abandon(c) ==
    /\ At(c, "abandon")
    /\ LET old == call[c].n - 1 IN
       IF Open(attempt[old].st) THEN Becomes(old, "abandoned") ELSE UNCHANGED attempt
    /\ To(c, "close")
    /\ UNCHANGED run /\ KeepRest

\* fail_run of the attempt given up, whatever has become of that run.
Close(c) ==
    /\ At(c, "close")
    /\ run' = [run EXCEPT ![attempt[call[c].n - 1].run] = "failed"]
    /\ To(c, "again")
    /\ UNCHANGED attempt /\ KeepRest

\* by_idempotency of the key about to be used.
LookAgain(c) ==
    /\ At(c, "again")
    /\ To(c, IF Reusable(attempt[call[c].n].st) THEN "recover" ELSE "create")
    /\ UNCHANGED <<attempt, run>> /\ KeepRest

CreateRun(c) ==
    /\ At(c, "create")
    /\ \E r \in Numbers :
          /\ run[r] = "absent" /\ \A q \in Numbers : q < r => run[q] # "absent"
          /\ run' = [run EXCEPT ![r] = "running"]
          /\ call' = [call EXCEPT ![c].run = r, ![c].pc = "prepare"]
    /\ UNCHANGED attempt /\ KeepRest

\* prepare: a key already in the table is shared with the invocation that
\* inserted it, answered or not.
Prepare(c) ==
    LET n == call[c].n IN
    /\ At(c, "prepare")
    /\ IF attempt[n].st = "absent"
       THEN attempt' = [attempt EXCEPT ![n] = [st |-> "prepared", run |-> call[c].run]]
       ELSE UNCHANGED attempt
    /\ To(c, IF Reusable(attempt[n].st) THEN "reused" ELSE "configure")
    /\ UNCHANGED run /\ KeepRest

Reused(c) ==
    /\ At(c, "reused")
    /\ run' = [run EXCEPT ![call[c].run] = "failed"]
    /\ To(c, "recover")
    /\ UNCHANGED attempt /\ KeepRest

\* The credential and the provider configuration.
Configure(c) ==
    /\ At(c, "configure")
    /\ To(c, "mark") \/ To(c, "fail")
    /\ UNCHANGED <<attempt, run>> /\ KeepRest

MarkRequesting(c) ==
    /\ At(c, "mark")
    /\ IF Open(attempt[call[c].n].st) THEN Becomes(call[c].n, "requesting") ELSE UNCHANGED attempt
    /\ To(c, "calling")
    /\ UNCHANGED run /\ KeepRest

\* Mutant of Answer: the run is finished before the response is persisted.
AnswerFinishFirst(c) ==
    /\ At(c, "calling")
    /\ To(c, "finish") \/ To(c, "fail")
    /\ UNCHANGED <<attempt, run>> /\ KeepRest

\* gateway.chat returns a text, or raises, or the text is empty.
Answer(c) ==
    /\ At(c, "calling")
    /\ To(c, "persist") \/ To(c, "fail")
    /\ UNCHANGED <<attempt, run>> /\ KeepRest

Persist(c) ==
    /\ At(c, "persist")
    /\ LET st == attempt[call[c].n].st IN
       IF Open(st) \/ st = "persisted" THEN Becomes(call[c].n, "persisted") ELSE UNCHANGED attempt
    /\ To(c, "finish")
    /\ UNCHANGED run /\ KeepRest

\* finish_run, unconditionally.
FinishRun(c) ==
    /\ At(c, "finish")
    /\ run' = [run EXCEPT ![call[c].run] = "succeeded"]
    /\ To(c, "consume")
    /\ UNCHANGED attempt /\ KeepRest

\* recover: the run of the attempt found is finished if it was not.
Recover(c) ==
    /\ At(c, "recover")
    /\ run' = [run EXCEPT ![attempt[call[c].n].run] = "succeeded"]
    /\ To(c, "consume")
    /\ UNCHANGED attempt /\ KeepRest

\* consume, and the answer is returned.
Consume(c) ==
    /\ At(c, "consume")
    /\ IF Durable(attempt[call[c].n].st) THEN Becomes(call[c].n, "consumed") ELSE UNCHANGED attempt
    /\ Return(c)
    /\ UNCHANGED run /\ KeepRest

\* Mutant of MayFail: fail() does not look at the status.
MayFailAlways(st) == st # "absent"

\* status NOT IN ('persisted', 'consumed')
MayFail(st) == ~Durable(st)

FailAttempt(c) ==
    /\ At(c, "fail")
    /\ IF MayFail(attempt[call[c].n].st) THEN Becomes(call[c].n, "failed") ELSE UNCHANGED attempt
    /\ To(c, "failRun")
    /\ UNCHANGED run /\ KeepRest

\* fail_run, and the error is raised.
FailRun(c) ==
    /\ At(c, "failRun")
    /\ run' = [run EXCEPT ![call[c].run] = "failed"]
    /\ Return(c)
    /\ UNCHANGED attempt /\ KeepRest

Die(c) ==
    /\ ~At(c, "idle")
    /\ deaths < MaxDeaths
    /\ deaths' = deaths + 1
    /\ Return(c)
    /\ UNCHANGED <<attempt, run, overlap>>

Invokes(c) ==
    \/ Begin(c) \/ LookUp(c) \/ List(c) \/ Abandon(c) \/ Close(c) \/ LookAgain(c)
    \/ CreateRun(c) \/ Prepare(c) \/ Reused(c) \/ Configure(c) \/ MarkRequesting(c)
    \/ Answer(c) \/ Persist(c) \/ FinishRun(c) \/ Recover(c) \/ Consume(c)
    \/ FailAttempt(c) \/ FailRun(c)

GenInit ==
    /\ attempt = [n \in Numbers |-> [st |-> "absent", run |-> 0]]
    /\ run = [r \in Numbers |-> "absent"]
    /\ call = [c \in Callers |-> NoCall]
    /\ deaths = 0
    /\ overlap = FALSE

GenNext == \E c \in Callers : Invokes(c) \/ Die(c)

GenSpec == GenInit /\ [][GenNext]_genVars

-----------------------------------------------------------------------------
(* Properties.                                                             *)

\* The rows and the callers have their shape.
GenTypeOK ==
    /\ attempt \in [Numbers -> AttemptRow]
    /\ run \in [Numbers -> {"absent", "running", "succeeded", "failed"}]
    /\ call \in [Callers -> Call]
    /\ deaths \in 0..MaxDeaths
    /\ overlap \in BOOLEAN

\* An answer that has been paid for and saved is never given up: neither the
\* error of another invocation that shares the attempt nor a retry that takes
\* it for interrupted makes the attempt failed or abandoned again.
AnswerIsKept ==
    [][\A n \in Numbers : Durable(attempt[n].st) => Durable(attempt'[n].st)]_genVars

\* As long as invocations of the request follow one another, whatever dies in
\* between, the two ledgers agree: a run has succeeded only after its answer was
\* saved, and an attempt is consumed only when its run has succeeded.
LedgersAgree ==
    ~overlap => \A n \in Numbers :
        attempt[n].st # "absent" =>
            /\ run[attempt[n].run] = "succeeded" => Durable(attempt[n].st)
            /\ attempt[n].st = "consumed" => run[attempt[n].run] = "succeeded"

\* Once the first attempt holds an answer, no later execution of the stage sends
\* the request again.
FirstAnswerSuffices == \A c \in Callers : call[c].first => ~At(c, "calling")

\* "... so a worker restart can consume a response without issuing a second
\* provider call" (generation_attempts.py): an execution that begins when an
\* answer has been persisted does not call the provider.
NoSecondCall == \A c \in Callers : call[c].late => ~At(c, "calling")
=============================================================================
