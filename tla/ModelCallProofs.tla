--------------------------- MODULE ModelCallProofs --------------------------
(***************************************************************************)
(* Theorems of the two modules behind a call of a model: GenerationAttempts*)
(* and ComputeBudget, for any number of handlers, calls, reservations and  *)
(* amounts.                                                                *)
(*                                                                         *)
(* Attempts.  What holds however invocations overlap follows from the      *)
(* status conditions of the single updates: an answered attempt stays      *)
(* answered (KeptStep), so an invocation that began with the first attempt *)
(* answered goes straight to it (FirstOK).  That the two ledgers agree     *)
(* holds while one invocation runs at a time (Solo): CallOK says what the  *)
(* one in progress knows at each of its points.                            *)
(*                                                                         *)
(* Reservations.  ReservationsReturn is not inductive: it must be known    *)
(* that a reservation whose execution has begun is in the hands of a call  *)
(* that will release it, since the plan stays stored, and calls that only  *)
(* select it or that fail to start come and go.  What a reservation        *)
(* amounts to plays no part in that argument.                              *)
(*                                                                         *)
(* The account.  Every transaction changes one row, so the sum over the    *)
(* table changes by what that row takes (SumChange); a release gives units *)
(* back because no row has used more than its amount.                      *)
(***************************************************************************)
EXTENDS GenerationAttempts, ComputeBudget, TLAPS, WellFoundedInduction

-----------------------------------------------------------------------------
(* GenerationAttempts.                                                     *)


\* The attempts are numbered without gaps, and no caller is ahead by more than one.
Dense ==
    \E k \in 0..MaxCalls :
       /\ \A n \in Numbers : attempt[n].st = "absent" <=> n > k
       /\ \A c \in Callers : call[c].n <= k + 1

\* Whoever works with an attempt has inserted or found it.
Placed ==
    \A c \in Callers :
       /\ call[c].pc \in {"abandon", "close", "again", "create", "prepare"} => call[c].n \in Numbers
       /\ call[c].pc \in {"reused", "configure", "mark", "calling", "persist", "finish", "recover",
                          "consume", "fail", "failRun"} =>
             call[c].n \in Numbers /\ attempt[call[c].n].st # "absent"

FirstOK ==
    \A c \in Callers : call[c].first =>
       Durable(attempt[1].st) /\ call[c].pc \in {"lookup", "recover", "consume"}

\* What the only invocation in progress knows.
CallOK(c) ==
    LET n == call[c].n  r == call[c].run IN
    /\ ~At(c, "reused")
    /\ At(c, "abandon") => n - 1 \in Numbers /\ Open(attempt[n-1].st)
    /\ At(c, "close") => n - 1 \in Numbers /\ attempt[n-1].st = "abandoned"
    /\ call[c].pc \in {"abandon", "close", "again", "create", "prepare"} =>
          n \in Numbers /\ attempt[n].st = "absent"
    /\ At(c, "prepare") =>
          /\ r \in Numbers /\ run[r] = "running"
          /\ \A m \in Numbers : attempt[m].st # "absent" => attempt[m].run # r
    /\ call[c].pc \in {"configure", "mark", "calling", "persist", "finish", "fail", "failRun"} =>
          n \in Numbers /\ r \in Numbers /\ attempt[n].run = r /\ run[r] = "running"
    /\ call[c].pc \in {"configure", "mark"} => attempt[n].st = "prepared"
    /\ call[c].pc \in {"calling", "persist"} => attempt[n].st = "requesting"
    /\ At(c, "finish") => attempt[n].st = "persisted"
    /\ At(c, "fail") => Open(attempt[n].st)
    /\ At(c, "failRun") => attempt[n].st = "failed"
    /\ At(c, "recover") => n \in Numbers /\ Durable(attempt[n].st)
    /\ At(c, "consume") =>
          n \in Numbers /\ Durable(attempt[n].st) /\ run[attempt[n].run] = "succeeded"

\* Every attempt has a run of its own.
RunsOK ==
    /\ \A n \in Numbers : attempt[n].st # "absent" =>
          attempt[n].run \in Numbers /\ run[attempt[n].run] # "absent"
    /\ \A m, n \in Numbers : attempt[m].st # "absent" /\ attempt[n].st # "absent"
                             /\ attempt[m].run = attempt[n].run => m = n

Agree ==
    \A n \in Numbers : attempt[n].st # "absent" =>
        /\ run[attempt[n].run] = "succeeded" => Durable(attempt[n].st)
        /\ attempt[n].st = "consumed" => run[attempt[n].run] = "succeeded"

OneAtATime == \A c, d \in Callers : c # d => At(c, "idle") \/ At(d, "idle")

Solo == OneAtATime /\ RunsOK /\ Agree /\ \A c \in Callers : CallOK(c)

\* The inductive invariant.
GInv ==
    /\ GenTypeOK
    /\ Dense
    /\ Placed
    /\ FirstOK
    /\ ~overlap => Solo

KeptStep == \A n \in Numbers : Durable(attempt[n].st) => Durable(attempt'[n].st)

-----------------------------------------------------------------------------
(* The number of the latest attempt.                                       *)

\* Count is what the absence of later numbers says it is.
LEMMA CountIs ==
    ASSUME NEW k \in 0..MaxCalls, \A n \in Numbers : attempt[n].st = "absent" <=> n > k
    PROVE  Count = k
<1>0. MaxCalls \in Nat
  BY GenerationAssumption
<1>1. CASE k = 0
  BY <1>0, <1>1 DEF Count, Numbers
<1>2. CASE k # 0
  <2> DEFINE Last(n) == attempt[n].st # "absent" /\ \A m \in Numbers : m > n => attempt[m].st = "absent"
  <2>1. k \in Numbers /\ Last(k)
    BY <1>0, <1>2 DEF Numbers
  <2>2. \A n \in Numbers : Last(n) => n = k
    BY <1>0, <2>1 DEF Numbers
  <2>3. Count = CHOOSE n \in Numbers : Last(n)
    BY <2>1 DEF Count
  <2> HIDE DEF Last
  <2> QED
    BY <2>1, <2>2, <2>3
<1> QED
  BY <1>1, <1>2

-----------------------------------------------------------------------------
(* What holds however invocations overlap.                                 *)

\* The row and the process a step leaves behind are well formed.
LEMMA TypeKeeps ==
    ASSUME GInv, NEW c \in Callers, Invokes(c) \/ Die(c)
    PROVE  GenTypeOK'
<1>0. /\ MaxCalls \in Nat \ {0} /\ MaxDeaths \in Nat
      /\ attempt \in [Numbers -> AttemptRow]
      /\ run \in [Numbers -> {"absent", "running", "succeeded", "failed"}]
      /\ call \in [Callers -> Call] /\ call[c] \in Call
      /\ deaths \in 0..MaxDeaths /\ overlap \in BOOLEAN
  BY GenerationAssumption DEF GInv, GenTypeOK
<1>1. ASSUME NEW pc \in Points PROVE [call EXCEPT ![c].pc = pc] \in [Callers -> Call]
  BY <1>0 DEF Call
<1>2. NoCall \in Call
  BY <1>0 DEF NoCall, Call, Points
<1>3. ASSUME NEW n, NEW st \in {"prepared", "requesting", "persisted", "consumed", "failed", "abandoned"}
      PROVE  [attempt EXCEPT ![n].st = st] \in [Numbers -> AttemptRow]
  <2>1. CASE n \in Numbers
    BY <1>0, <2>1 DEF AttemptRow
  <2>2. CASE n \notin Numbers
    BY <1>0, <2>2
  <2> QED
    BY <2>1, <2>2
<1>4. ASSUME NEW r, NEW st \in {"running", "succeeded", "failed"}
      PROVE  [run EXCEPT ![r] = st] \in [Numbers -> {"absent", "running", "succeeded", "failed"}]
  BY <1>0
<1>5. CASE Begin(c)
  <2> DEFINE late == \E n \in Numbers : Durable(attempt[n].st)
             first == Durable(attempt[1].st)
  <2>1. late \in BOOLEAN /\ first \in BOOLEAN
    BY DEF Durable
  <2>2. call' = [call EXCEPT ![c] = [NoCall EXCEPT !.pc = "lookup", !.late = late, !.first = first]]
        /\ UNCHANGED <<attempt, run, deaths>> /\ overlap' \in BOOLEAN
    BY <1>0, <1>5 DEF Begin
  <2> HIDE DEF late, first
  <2>3. [NoCall EXCEPT !.pc = "lookup", !.late = late, !.first = first] \in Call
    BY <1>2, <2>1 DEF Call, Points
  <2>4. call' \in [Callers -> Call]
    BY <1>0, <2>2, <2>3
  <2> QED
    BY <1>0, <2>2, <2>4 DEF GenTypeOK
<1>6. CASE LookUp(c)
  <2>1. 1 \in Numbers
    BY <1>0 DEF Numbers
  <2>2. [call[c] EXCEPT !.pc = "recover", !.n = 1] \in Call
    BY <1>0, <2>1 DEF Call, Points
  <2>3. call' \in [Callers -> Call]
    <3>1. CASE call' = [call EXCEPT ![c].pc = "recover", ![c].n = 1]
      BY <1>0, <2>2, <3>1
    <3>2. CASE To(c, "list")
      BY <1>1, <3>2 DEF To, Points
    <3> QED
      BY <1>6, <3>1, <3>2 DEF LookUp
  <2> QED
    BY <1>0, <1>6, <2>3 DEF LookUp, KeepRest, GenTypeOK
<1>7. CASE List(c)
  <2>1. PICK k \in 0..MaxCalls : \A n \in Numbers : attempt[n].st = "absent" <=> n > k
    BY DEF GInv, Dense
  <2>2. Count = k
    BY <2>1, CountIs
  <2>3. Count + 1 \in Numbers
    BY <1>0, <1>7, <2>2 DEF List, Numbers
  <2>4. call' \in [Callers -> Call]
    BY <1>0, <1>7, <2>3 DEF List, Call, Points
  <2> QED
    BY <1>0, <1>7, <2>4 DEF List, KeepRest, GenTypeOK
<1>8. CASE Abandon(c) \/ MarkRequesting(c) \/ Persist(c) \/ FailAttempt(c)
  <2>1. call' \in [Callers -> Call]
    BY <1>1, <1>8 DEF Abandon, MarkRequesting, Persist, FailAttempt, To, Points
  <2>2. attempt' = attempt \/ \E n : \E st \in {"requesting", "persisted", "failed", "abandoned"} :
                                  attempt' = [attempt EXCEPT ![n].st = st]
    BY <1>8 DEF Abandon, MarkRequesting, Persist, FailAttempt, Becomes
  <2>4. attempt' \in [Numbers -> AttemptRow]
    <3>1. CASE attempt' = attempt
      BY <1>0, <3>1
    <3>2. ASSUME NEW n, NEW st \in {"requesting", "persisted", "failed", "abandoned"},
                 attempt' = [attempt EXCEPT ![n].st = st]
          PROVE  attempt' \in [Numbers -> AttemptRow]
      BY <1>3, <3>2
    <3> QED
      BY <2>2, <3>1, <3>2
  <2> QED
    BY <1>0, <1>8, <2>1, <2>4 DEF Abandon, MarkRequesting, Persist, FailAttempt, KeepRest, GenTypeOK
<1>9. CASE Close(c) \/ Reused(c) \/ FinishRun(c) \/ Recover(c)
  <2>1. call' \in [Callers -> Call]
    BY <1>1, <1>9 DEF Close, Reused, FinishRun, Recover, To, Points
  <2>2. run' \in [Numbers -> {"absent", "running", "succeeded", "failed"}]
    BY <1>4, <1>9 DEF Close, Reused, FinishRun, Recover
  <2> QED
    BY <1>0, <1>9, <2>1, <2>2 DEF Close, Reused, FinishRun, Recover, KeepRest, GenTypeOK
<1>10. CASE LookAgain(c) \/ Configure(c) \/ Answer(c)
  <2>1. call' \in [Callers -> Call]
    BY <1>1, <1>10 DEF LookAgain, Configure, Answer, To, Points
  <2> QED
    BY <1>0, <1>10, <2>1 DEF LookAgain, Configure, Answer, KeepRest, GenTypeOK
<1>11. CASE CreateRun(c)
  <2>0. PICK r \in Numbers : /\ run' = [run EXCEPT ![r] = "running"]
                             /\ call' = [call EXCEPT ![c].run = r, ![c].pc = "prepare"]
    BY <1>11 DEF CreateRun
  <2>2. [call[c] EXCEPT !.run = r, !.pc = "prepare"] \in Call
    BY <1>0 DEF Call, Points
  <2>1. call' \in [Callers -> Call] /\ run' \in [Numbers -> {"absent", "running", "succeeded", "failed"}]
    BY <1>0, <1>4, <2>0, <2>2
  <2> QED
    BY <1>0, <1>11, <2>1 DEF CreateRun, KeepRest, GenTypeOK
<1>12. CASE Prepare(c)
  <2>1. call' \in [Callers -> Call]
    BY <1>1, <1>12 DEF Prepare, To, Points
  <2>2. [st |-> "prepared", run |-> call[c].run] \in AttemptRow
    BY <1>0 DEF AttemptRow, Call
  <2>3. attempt' \in [Numbers -> AttemptRow]
    BY <1>0, <1>12, <2>2 DEF Prepare
  <2> QED
    BY <1>0, <1>12, <2>1, <2>3 DEF Prepare, KeepRest, GenTypeOK
<1>13. CASE Consume(c) \/ FailRun(c) \/ Die(c)
  <2>1. call' \in [Callers -> Call]
    BY <1>0, <1>2, <1>13 DEF Consume, FailRun, Die, Return
  <2>0. attempt' = attempt \/ \E n : attempt' = [attempt EXCEPT ![n].st = "consumed"]
    BY <1>13 DEF Consume, FailRun, Die, Becomes
  <2>2. attempt' \in [Numbers -> AttemptRow]
    <3>1. CASE attempt' = attempt
      BY <1>0, <3>1
    <3>2. ASSUME NEW n, attempt' = [attempt EXCEPT ![n].st = "consumed"]
          PROVE  attempt' \in [Numbers -> AttemptRow]
      BY <1>3, <3>2
    <3> QED
      BY <2>0, <3>1, <3>2
  <2>3. run' \in [Numbers -> {"absent", "running", "succeeded", "failed"}]
    BY <1>0, <1>4, <1>13 DEF Consume, FailRun, Die
  <2>4. deaths' \in 0..MaxDeaths /\ overlap' \in BOOLEAN
    BY <1>0, <1>13 DEF Consume, FailRun, Die, KeepRest
  <2> QED
    BY <2>1, <2>2, <2>3, <2>4 DEF GenTypeOK
<1> QED
  BY <1>5, <1>6, <1>7, <1>8, <1>9, <1>10, <1>11, <1>12, <1>13 DEF Invokes

\* Answered attempts stay answered, and attempts once inserted stay.
LEMMA KeptKeeps ==
    ASSUME GInv, NEW c \in Callers, Invokes(c) \/ Die(c)
    PROVE  /\ KeptStep
           /\ \A n \in Numbers : attempt[n].st # "absent" => attempt'[n].st # "absent"
<1>0. attempt \in [Numbers -> AttemptRow]
  BY DEF GInv, GenTypeOK
<1>1. CASE UNCHANGED attempt
  BY <1>1 DEF KeptStep
<1>2. ASSUME NEW n, NEW st \in {"requesting", "persisted", "consumed", "failed", "abandoned"},
             Becomes(n, st), Durable(attempt[n].st) => Durable(st)
      PROVE  KeptStep /\ \A m \in Numbers : attempt[m].st # "absent" => attempt'[m].st # "absent"
  <2>1. ASSUME NEW m \in Numbers
        PROVE  attempt'[m].st = attempt[m].st \/ (m = n /\ attempt'[m].st = st)
    BY <1>0, <1>2 DEF Becomes, AttemptRow
  <2> QED
    BY <1>2, <2>1 DEF KeptStep
<1>3. CASE Abandon(c)
  BY <1>1, <1>2, <1>3 DEF Abandon, Open, Durable
<1>4. CASE MarkRequesting(c)
  BY <1>1, <1>2, <1>4 DEF MarkRequesting, Open, Durable
<1>5. CASE Persist(c)
  BY <1>1, <1>2, <1>5 DEF Persist, Open, Durable
<1>6. CASE Consume(c)
  BY <1>1, <1>2, <1>6 DEF Consume, Durable
<1>7. CASE FailAttempt(c)
  BY <1>1, <1>2, <1>7 DEF FailAttempt, MayFail, Durable
<1>8. CASE Prepare(c)
  <2>1. CASE attempt[call[c].n].st = "absent"
    <3>1. attempt' = [attempt EXCEPT ![call[c].n] = [st |-> "prepared", run |-> call[c].run]]
      BY <1>8, <2>1 DEF Prepare
    <3>2. \A m \in Numbers : attempt'[m] = attempt[m] \/ (m = call[c].n /\ attempt'[m].st = "prepared")
      BY <1>0, <3>1
    <3> QED
      BY <2>1, <3>2 DEF KeptStep, Durable
  <2> QED
    BY <1>1, <1>8, <2>1 DEF Prepare
<1> QED
  BY <1>1, <1>3, <1>4, <1>5, <1>6, <1>7, <1>8
     DEF Invokes, Begin, LookUp, List, Close, LookAgain, CreateRun, Reused, Configure, Answer,
         FinishRun, Recover, FailRun, Die

\* What a step leaves alone in the other processes.
LEMMA OthersStay ==
    ASSUME GInv, NEW c \in Callers, Invokes(c) \/ Die(c)
    PROVE  \A d \in Callers \ {c} : call'[d] = call[d]
<1>0. call \in [Callers -> Call]
  BY DEF GInv, GenTypeOK
<1> QED
  BY <1>0 DEF Invokes, Die, Begin, LookUp, List, Abandon, Close, LookAgain, CreateRun, Prepare,
              Reused, Configure, MarkRequesting, Answer, Persist, FinishRun, Recover, Consume,
              FailAttempt, FailRun, To, Return

\* The numbers stay dense: the attempt inserted is the next one.
LEMMA DenseKeeps ==
    ASSUME GInv, NEW c \in Callers, Invokes(c) \/ Die(c)
    PROVE  Dense'
<1>0. /\ MaxCalls \in Nat \ {0} /\ attempt \in [Numbers -> AttemptRow]
      /\ call \in [Callers -> Call] /\ \A d \in Callers : call[d] \in Call
  BY GenerationAssumption DEF GInv, GenTypeOK
<1>1. PICK k \in 0..MaxCalls : /\ \A n \in Numbers : attempt[n].st = "absent" <=> n > k
                               /\ \A d \in Callers : call[d].n <= k + 1
  BY DEF GInv, Dense
<1>2. ASSUME NEW d \in Callers
      PROVE  call[d].n \in Nat
  <2>1. call[d].n \in Numbers \cup {0}
    BY <1>0 DEF Call
  <2> QED
    BY <1>0, <2>1 DEF Numbers
<1>3. ASSUME call'[c].n \in Nat, call'[c].n <= k + 1,
             \A n \in Numbers : attempt'[n].st = "absent" <=> attempt[n].st = "absent"
      PROVE  Dense'
  BY <1>1, <1>3, OthersStay DEF Dense
<1>4. CASE Prepare(c) /\ attempt[call[c].n].st = "absent" /\ call[c].n \in Numbers
  <2> DEFINE n == call[c].n
  <2>1. n = k + 1 /\ k + 1 \in 0..MaxCalls
    BY <1>0, <1>1, <1>2, <1>4 DEF Numbers
  <2>2. attempt' = [attempt EXCEPT ![n] = [st |-> "prepared", run |-> call[c].run]]
    BY <1>4 DEF Prepare
  <2>3. attempt'[n].st # "absent" /\ \A m \in Numbers \ {n} : attempt'[m] = attempt[m]
    BY <1>0, <1>4, <2>2
  <2>4. call'[c].n = n
    BY <1>0, <1>4 DEF Prepare, To, Call
  <2>5. \A d \in Callers : call'[d].n <= k + 1 /\ call'[d].n \in Nat
    BY <1>1, <1>2, <2>4, OthersStay
  <2>6. \A d \in Callers : call'[d].n <= (k + 1) + 1
    BY <2>5
  <2>7. \A m \in Numbers : attempt'[m].st = "absent" <=> m > k + 1
    BY <1>0, <1>1, <2>1, <2>3 DEF Numbers
  <2> QED
    BY <2>1, <2>6, <2>7 DEF Dense
<1>5. CASE Prepare(c) /\ ~(attempt[call[c].n].st = "absent" /\ call[c].n \in Numbers)
  <2>1. attempt' = attempt
    BY <1>0, <1>5 DEF Prepare
  <2>2. call'[c].n = call[c].n
    BY <1>0, <1>5 DEF Prepare, To, Call
  <2> QED
    BY <1>1, <1>2, <1>3, <2>1, <2>2
<1>6. CASE List(c)
  <2>1. Count = k
    BY <1>1, CountIs
  <2>2. call'[c].n = k + 1 /\ attempt' = attempt
    BY <1>0, <1>6, <2>1 DEF List, Call
  <2> QED
    BY <1>3, <2>2
<1>7. CASE LookUp(c)
  <2>1. call'[c].n \in {1, call[c].n} /\ attempt' = attempt
    BY <1>0, <1>7 DEF LookUp, To, Call
  <2> QED
    BY <1>1, <1>2, <1>3, <2>1
<1>8. CASE Begin(c) \/ Consume(c) \/ FailRun(c) \/ Die(c)
  <2>1. call'[c].n = 0
    <3>1. CASE Begin(c)
      <4>1. call'[c] = [NoCall EXCEPT !.pc = "lookup",
                           !.late = \E n \in Numbers : Durable(attempt[n].st),
                           !.first = Durable(attempt[1].st)]
        BY <1>0, <3>1 DEF Begin
      <4>2. call'[c].n = NoCall.n
        BY <4>1 DEF NoCall
      <4> QED
        BY <4>2 DEF NoCall
    <3>2. CASE Return(c)
      BY <1>0, <3>2 DEF Return, NoCall
    <3> QED
      BY <1>8, <3>1, <3>2 DEF Consume, FailRun, Die
  <2>2. attempt' = attempt \/ (Durable(attempt[call[c].n].st) /\ Becomes(call[c].n, "consumed"))
    BY <1>8 DEF Begin, Consume, FailRun, Die
  <2>3. \A n \in Numbers : attempt'[n].st = "absent" <=> attempt[n].st = "absent"
    BY <1>0, <2>2 DEF Becomes, Durable, AttemptRow
  <2> QED
    BY <1>1, <1>3, <2>1, <2>3
<1>9. CASE \/ Abandon(c) \/ Close(c) \/ LookAgain(c) \/ CreateRun(c) \/ Reused(c) \/ Configure(c)
           \/ MarkRequesting(c) \/ Answer(c) \/ Persist(c) \/ FinishRun(c) \/ Recover(c)
           \/ FailAttempt(c)
  <2>1. call'[c].n = call[c].n
    BY <1>0, <1>9 DEF Abandon, Close, LookAgain, CreateRun, Reused, Configure, MarkRequesting,
                      Answer, Persist, FinishRun, Recover, FailAttempt, To, Call
  <2>2. FailAttempt(c) => attempt[call[c].n].st # "absent"
    BY DEF FailAttempt, At, GInv, Placed
  <2>3. attempt' = attempt \/ \E n, st : /\ attempt[n].st # "absent" /\ st # "absent"
                                         /\ Becomes(n, st)
    BY <1>9, <2>2 DEF Abandon, Close, LookAgain, CreateRun, Reused, Configure, MarkRequesting,
                      Answer, Persist, FinishRun, Recover, FailAttempt, Open
  <2>4. \A n \in Numbers : attempt'[n].st = "absent" <=> attempt[n].st = "absent"
    BY <1>0, <2>3 DEF Becomes, AttemptRow
  <2> QED
    BY <1>1, <1>2, <1>3, <2>1, <2>4
<1> QED
  BY <1>4, <1>5, <1>6, <1>7, <1>8, <1>9 DEF Invokes

\* Where a step takes the process that takes it.
LEMMA WhereTo ==
    ASSUME GInv, NEW c \in Callers
    PROVE  LET q == call'[c]  n == call[c].n IN
           /\ Begin(c) => q.pc = "lookup" /\ q.n = 0 /\ q.first = Durable(attempt[1].st)
           /\ LookUp(c) => /\ q.pc = (IF Durable(attempt[1].st) THEN "recover" ELSE "list")
                           /\ q.n = (IF Durable(attempt[1].st) THEN 1 ELSE n)
                           /\ q.first = call[c].first
           /\ List(c) => /\ q.n = Count + 1 /\ q.first = call[c].first
                         /\ q.pc = (IF Count = 0 THEN "create"
                                    ELSE IF Open(attempt[Count].st) THEN "abandon" ELSE "again")
           /\ CreateRun(c) => q.pc = "prepare" /\ q.n = n /\ q.first = call[c].first
           /\ Consume(c) \/ FailRun(c) \/ Die(c) => q = NoCall
           /\ \/ Abandon(c) \/ Close(c) \/ LookAgain(c) \/ Prepare(c) \/ Reused(c) \/ Configure(c)
              \/ MarkRequesting(c) \/ Answer(c) \/ Persist(c) \/ FinishRun(c) \/ Recover(c)
              \/ FailAttempt(c)
              => q.n = n /\ q.run = call[c].run /\ q.first = call[c].first
           /\ Abandon(c) => q.pc = "close"
           /\ Close(c) => q.pc = "again"
           /\ LookAgain(c) => q.pc = (IF Durable(attempt[n].st) THEN "recover" ELSE "create")
           /\ Prepare(c) => q.pc = (IF Durable(attempt[n].st) THEN "reused" ELSE "configure")
           /\ Reused(c) => q.pc = "recover"
           /\ Configure(c) => q.pc \in {"mark", "fail"}
           /\ MarkRequesting(c) => q.pc = "calling"
           /\ Answer(c) => q.pc \in {"persist", "fail"}
           /\ Persist(c) => q.pc = "finish"
           /\ FinishRun(c) \/ Recover(c) => q.pc = "consume"
           /\ FailAttempt(c) => q.pc = "failRun"
<1>0. call \in [Callers -> Call] /\ call[c] \in Call
  BY DEF GInv, GenTypeOK
<1>1. ASSUME NEW pc \in Points, To(c, pc)
      PROVE  /\ call'[c].pc = pc /\ call'[c].n = call[c].n /\ call'[c].run = call[c].run
             /\ call'[c].first = call[c].first
  BY <1>0, <1>1 DEF To, Call
<1>2. Begin(c) => call'[c].pc = "lookup" /\ call'[c].n = 0
                  /\ call'[c].first = Durable(attempt[1].st)
  <2> HAVE Begin(c)
  <2> DEFINE late == \E n \in Numbers : Durable(attempt[n].st)
             first == Durable(attempt[1].st)
  <2>1. call'[c] = [NoCall EXCEPT !.pc = "lookup", !.late = late, !.first = first]
    BY <1>0 DEF Begin
  <2> HIDE DEF late, first
  <2>2. call'[c].pc = "lookup" /\ call'[c].n = 0 /\ call'[c].first = first
    BY <2>1 DEF NoCall
  <2> QED
    BY <2>2 DEF first
<1>3. LookUp(c) => /\ call'[c].pc = (IF Durable(attempt[1].st) THEN "recover" ELSE "list")
                   /\ call'[c].n = (IF Durable(attempt[1].st) THEN 1 ELSE call[c].n)
                   /\ call'[c].first = call[c].first
  <2> HAVE LookUp(c)
  <2>1. CASE Durable(attempt[1].st)
    <3>1. call' = [call EXCEPT ![c].pc = "recover", ![c].n = 1]
      BY <2>1 DEF LookUp, Reusable
    <3>2. call'[c].pc = "recover" /\ call'[c].n = 1 /\ call'[c].first = call[c].first
      BY <1>0, <3>1 DEF Call
    <3> QED
      BY <2>1, <3>2
  <2>2. CASE ~Durable(attempt[1].st)
    <3>1. To(c, "list")
      BY <2>2 DEF LookUp, Reusable
    <3> QED
      BY <1>1, <2>2, <3>1 DEF Points
  <2> QED
    BY <2>1, <2>2
<1>4. List(c) => /\ call'[c].n = Count + 1 /\ call'[c].first = call[c].first
                 /\ call'[c].pc = (IF Count = 0 THEN "create"
                                    ELSE IF Open(attempt[Count].st) THEN "abandon" ELSE "again")
  <2> HAVE List(c)
  <2> DEFINE pc == IF Count = 0 THEN "create"
                   ELSE IF Open(attempt[Count].st) THEN "abandon" ELSE "again"
             m == Count + 1
  <2>1. call' = [call EXCEPT ![c].n = m, ![c].pc = pc]
    BY DEF List
  <2> HIDE DEF pc, m
  <2>2. call'[c].pc = pc /\ call'[c].n = m /\ call'[c].first = call[c].first
    BY <1>0, <2>1 DEF Call
  <2> QED
    BY <2>2 DEF pc, m
<1>5. CreateRun(c) => /\ call'[c].pc = "prepare" /\ call'[c].n = call[c].n
                      /\ call'[c].first = call[c].first
  <2> HAVE CreateRun(c)
  <2>1. PICK r \in Numbers : call' = [call EXCEPT ![c].run = r, ![c].pc = "prepare"]
    BY DEF CreateRun
  <2>2. call'[c].pc = "prepare" /\ call'[c].n = call[c].n /\ call'[c].first = call[c].first
    BY <1>0, <2>1 DEF Call
  <2> QED
    BY <2>2
<1>6. Consume(c) \/ FailRun(c) \/ Die(c) => call'[c] = NoCall
  BY <1>0 DEF Consume, FailRun, Die, Return
<1>7. \/ Abandon(c) \/ Close(c) \/ LookAgain(c) \/ Prepare(c) \/ Reused(c) \/ Configure(c)
      \/ MarkRequesting(c) \/ Answer(c) \/ Persist(c) \/ FinishRun(c) \/ Recover(c)
      \/ FailAttempt(c)
      => \E pc \in Points : To(c, pc)
  BY DEF Abandon, Close, LookAgain, Prepare, Reused, Configure, MarkRequesting, Answer, Persist,
         FinishRun, Recover, FailAttempt, Points
<1>8. /\ Abandon(c) => To(c, "close")
      /\ Close(c) => To(c, "again")
      /\ LookAgain(c) => To(c, IF Durable(attempt[call[c].n].st) THEN "recover" ELSE "create")
      /\ Prepare(c) => To(c, IF Durable(attempt[call[c].n].st) THEN "reused" ELSE "configure")
      /\ Reused(c) => To(c, "recover")
      /\ Configure(c) => To(c, "mark") \/ To(c, "fail")
      /\ MarkRequesting(c) => To(c, "calling")
      /\ Answer(c) => To(c, "persist") \/ To(c, "fail")
      /\ Persist(c) => To(c, "finish")
      /\ FinishRun(c) \/ Recover(c) => To(c, "consume")
      /\ FailAttempt(c) => To(c, "failRun")
  BY DEF Abandon, Close, LookAgain, Prepare, Reused, Configure, MarkRequesting, Answer, Persist,
         FinishRun, Recover, FailAttempt, Reusable
<1>9. \A pc \in Points : To(c, pc) => call'[c].pc = pc
  BY <1>1
<1>10. {"close", "again", "recover", "create", "reused", "configure", "mark", "fail", "calling",
        "persist", "finish", "consume", "failRun"} \subseteq Points
  BY DEF Points
<1> QED
  BY <1>1, <1>2, <1>3, <1>4, <1>5, <1>6, <1>7, <1>8, <1>9, <1>10

\* An invocation goes on only with an attempt it has found or inserted.
LEMMA PlacedKeeps ==
    ASSUME GInv, NEW c \in Callers, Invokes(c) \/ Die(c)
    PROVE  Placed'
<1> DEFINE n == call[c].n
           q == call'[c]
           Before == {"abandon", "close", "again", "create", "prepare"}
           After == {"reused", "configure", "mark", "calling", "persist", "finish", "recover",
                     "consume", "fail", "failRun"}
<1>0. /\ MaxCalls \in Nat \ {0} /\ attempt \in [Numbers -> AttemptRow]
      /\ call \in [Callers -> Call] /\ call[c] \in Call
  BY GenerationAssumption DEF GInv, GenTypeOK
<1>1. \A m \in Numbers : attempt[m].st # "absent" => attempt'[m].st # "absent"
  BY KeptKeeps
<1>2. SUFFICES /\ q.pc \in Before => q.n \in Numbers
               /\ q.pc \in After => q.n \in Numbers /\ attempt'[q.n].st # "absent"
  BY <1>1, OthersStay DEF GInv, Placed
<1>3. /\ call[c].pc \in Before => n \in Numbers
      /\ call[c].pc \in After => n \in Numbers /\ attempt[n].st # "absent"
  BY DEF GInv, Placed
<1>4. CASE Begin(c)
  BY <1>4, WhereTo
<1>5. CASE LookUp(c)
  <2>1. q.pc = "list" \/ (q.pc = "recover" /\ q.n = 1 /\ Durable(attempt[1].st))
    BY <1>5, WhereTo
  <2>2. 1 \in Numbers
    BY <1>0 DEF Numbers
  <2> QED
    BY <1>1, <2>1, <2>2 DEF Durable
<1>6. CASE List(c)
  <2>1. q.n = Count + 1 /\ q.pc \in Before
    BY <1>6, WhereTo
  <2>2. Count \in Nat
    BY <1>0, CountIs DEF GInv, Dense
  <2>3. Count + 1 \in Numbers
    BY <1>0, <1>6, <2>2 DEF List, Numbers
  <2> QED
    BY <2>1, <2>3
<1>7. CASE Consume(c) \/ FailRun(c) \/ Die(c)
  <2>1. q = NoCall
    BY <1>0, <1>7 DEF Consume, FailRun, Die, Return
  <2> QED
    BY <2>1 DEF NoCall
<1>8. CASE \/ CreateRun(c) \/ Abandon(c) \/ Close(c) \/ LookAgain(c) \/ Prepare(c) \/ Reused(c)
           \/ Configure(c) \/ MarkRequesting(c) \/ Answer(c) \/ Persist(c) \/ FinishRun(c)
           \/ Recover(c) \/ FailAttempt(c)
  <2>1. q.n = n
    BY <1>8, WhereTo
  <2>2. n \in Numbers
    BY <1>3, <1>8 DEF CreateRun, Abandon, Close, LookAgain, Prepare, Reused, Configure,
       MarkRequesting, Answer, Persist, FinishRun, Recover, FailAttempt, At
  <2>3. CASE Prepare(c)
    BY <1>0, <2>1, <2>2, <2>3 DEF Prepare
  <2>4. CASE LookAgain(c)
    <3>1. q.pc = "create" \/ Durable(attempt[n].st)
      BY <2>4, WhereTo
    <3> QED
      BY <1>1, <2>1, <2>2, <3>1 DEF Durable
  <2>5. CASE CreateRun(c) \/ Abandon(c) \/ Close(c)
    <3>1. q.pc \in Before
      BY <2>5, WhereTo
    <3> QED
      BY <2>1, <2>2, <3>1
  <2>6. CASE \/ Reused(c) \/ Configure(c) \/ MarkRequesting(c) \/ Answer(c) \/ Persist(c)
             \/ FinishRun(c) \/ Recover(c) \/ FailAttempt(c)
    <3>1. call[c].pc \in After
      BY <2>6 DEF Reused, Configure, MarkRequesting, Answer, Persist, FinishRun, Recover,
                  FailAttempt, At
    <3> QED
      BY <1>1, <1>3, <2>1, <2>2, <3>1
  <2> QED
    BY <1>8, <2>3, <2>4, <2>5, <2>6
<1> QED
  BY <1>4, <1>5, <1>6, <1>7, <1>8 DEF Invokes

\* The first attempt, once answered, is what the invocation goes to.
LEMMA FirstKeeps ==
    ASSUME GInv, NEW c \in Callers, Invokes(c) \/ Die(c)
    PROVE  FirstOK'
<1>0. 1 \in Numbers /\ call \in [Callers -> Call] /\ call[c] \in Call
  BY GenerationAssumption DEF GInv, GenTypeOK, Numbers
<1>1. Durable(attempt[1].st) => Durable(attempt'[1].st)
  BY <1>0, KeptKeeps DEF KeptStep
<1>2. \A d \in Callers \ {c} : call'[d].first => Durable(attempt'[1].st)
                                  /\ call'[d].pc \in {"lookup", "recover", "consume"}
  BY <1>1, OthersStay DEF GInv, FirstOK
<1>3. call'[c].first => Durable(attempt'[1].st) /\ call'[c].pc \in {"lookup", "recover", "consume"}
  <2>1. CASE Begin(c)
    <3>1. call'[c].pc = "lookup" /\ call'[c].first = Durable(attempt[1].st)
      BY <2>1, WhereTo
    <3> QED
      BY <1>1, <3>1
  <2>2. CASE Consume(c) \/ FailRun(c) \/ Die(c)
    BY <1>0, <2>2 DEF Consume, FailRun, Die, Return, NoCall
  <2>3. CASE ~(Begin(c) \/ Consume(c) \/ FailRun(c) \/ Die(c))
    <3>1. call'[c].first = call[c].first
      BY <2>3, WhereTo DEF Invokes
    <3>2. SUFFICES ASSUME call[c].first
                   PROVE  Durable(attempt'[1].st) /\ call'[c].pc \in {"lookup", "recover", "consume"}
      BY <3>1
    <3>3. Durable(attempt[1].st) /\ call[c].pc \in {"lookup", "recover", "consume"}
      BY <3>2 DEF GInv, FirstOK
    <3>4. LookUp(c) \/ Recover(c)
      BY <2>3, <3>3 DEF Invokes, LookUp, List, CreateRun, Abandon, Close, LookAgain, Prepare,
         Reused, Configure, MarkRequesting, Answer, Persist, FinishRun, Recover, FailAttempt, At
    <3>5. call'[c].pc \in {"recover", "consume"}
      BY <3>3, <3>4, WhereTo
    <3> QED
      BY <1>1, <3>3, <3>5
  <2> QED
    BY <2>1, <2>2, <2>3
<1> QED
  BY <1>2, <1>3 DEF FirstOK

-----------------------------------------------------------------------------
(* While one invocation runs at a time.                                    *)

\* A status written to an attempt that agrees with its run keeps the ledgers.
LEMMA SetStatus ==
    ASSUME GenTypeOK, RunsOK, Agree, NEW n \in Numbers, attempt[n].st # "absent",
           NEW st, st # "absent", Becomes(n, st), run' = run,
           run[attempt[n].run] = "succeeded" => Durable(st),
           st = "consumed" => run[attempt[n].run] = "succeeded"
    PROVE  /\ RunsOK' /\ Agree'
           /\ attempt'[n].st = st /\ attempt'[n].run = attempt[n].run
           /\ \A m \in Numbers \ {n} : attempt'[m] = attempt[m]
<1>0. attempt \in [Numbers -> AttemptRow]
  BY DEF GenTypeOK
<1>1. attempt' = [attempt EXCEPT ![n].st = st]
  BY DEF Becomes
<1>2. attempt'[n].st = st /\ attempt'[n].run = attempt[n].run
  BY <1>0, <1>1 DEF AttemptRow
<1>3. \A m \in Numbers \ {n} : attempt'[m] = attempt[m]
  BY <1>0, <1>1
<1>4. \A m \in Numbers : /\ attempt'[m].run = attempt[m].run
                         /\ attempt'[m].st # "absent" <=> attempt[m].st # "absent"
  BY <1>2, <1>3
<1>5. RunsOK'
  BY <1>4 DEF RunsOK
<1>6. Agree'
  BY <1>2, <1>3, <1>4 DEF Agree
<1> QED
  BY <1>2, <1>3, <1>5, <1>6

\* So does a status written to the run of an attempt that agrees with it.
LEMMA SetRun ==
    ASSUME GenTypeOK, RunsOK, Agree, NEW n \in Numbers, attempt[n].st # "absent",
           NEW st, st # "absent", attempt' = attempt,
           run' = [run EXCEPT ![attempt[n].run] = st],
           st = "succeeded" => Durable(attempt[n].st),
           attempt[n].st = "consumed" => st = "succeeded"
    PROVE  RunsOK' /\ Agree' /\ run'[attempt[n].run] = st
<1>0. run \in [Numbers -> {"absent", "running", "succeeded", "failed"}]
  BY DEF GenTypeOK
<1>1. attempt[n].run \in Numbers
  BY DEF RunsOK
<1>2. /\ run'[attempt[n].run] = st
      /\ \A r \in Numbers \ {attempt[n].run} : run'[r] = run[r]
  BY <1>0, <1>1
<1>3. \A m \in Numbers : attempt[m].st # "absent" =>
          m = n \/ (attempt[m].run \in Numbers \ {attempt[n].run})
  BY DEF RunsOK
<1>4. RunsOK'
  BY <1>2, <1>3 DEF RunsOK
<1>5. Agree'
  BY <1>2, <1>3 DEF Agree
<1> QED
  BY <1>2, <1>4, <1>5

\* An invocation that does not run yet, or any more, knows nothing.
LEMMA NothingToKnow ==
    ASSUME NEW c \in Callers, call'[c].pc \in {"idle", "lookup", "list"}
    PROVE  CallOK(c)'
  BY DEF CallOK, At

\* A step of the only invocation in progress.
LEMMA SoloStep ==
    ASSUME GInv, RunsOK, Agree, NEW c \in Callers, CallOK(c), Invokes(c) \/ Die(c)
    PROVE  RunsOK' /\ Agree' /\ CallOK(c)'
<1> DEFINE n == call[c].n
           r == call[c].run
           q == call'[c]
<1>0. /\ GenTypeOK /\ MaxCalls \in Nat \ {0}
      /\ attempt \in [Numbers -> AttemptRow]
      /\ run \in [Numbers -> {"absent", "running", "succeeded", "failed"}]
      /\ call \in [Callers -> Call] /\ call[c] \in Call
  BY GenerationAssumption DEF GInv, GenTypeOK
<1>1. ASSUME attempt' = attempt, run' = run
      PROVE  RunsOK' /\ Agree'
  BY <1>1 DEF RunsOK, Agree
<1>2. CASE Begin(c)
  <2>1. q.pc = "lookup" /\ attempt' = attempt /\ run' = run
    BY <1>2, WhereTo DEF Begin
  <2> QED
    BY <1>1, <2>1, NothingToKnow
<1>3. CASE Die(c)
  <2>1. q.pc = "idle" /\ attempt' = attempt /\ run' = run
    BY <1>3, WhereTo DEF Die, NoCall
  <2> QED
    BY <1>1, <2>1, NothingToKnow
<1>4. CASE LookUp(c)
  <2>1. attempt' = attempt /\ run' = run
    BY <1>4 DEF LookUp
  <2>2. CASE Durable(attempt[1].st)
    <3>1. q.pc = "recover" /\ q.n = 1
      BY <1>4, <2>2, WhereTo
    <3>2. 1 \in Numbers
      BY <1>0 DEF Numbers
    <3>3. CallOK(c)'
      BY <2>1, <2>2, <3>1, <3>2 DEF CallOK, At, Durable
    <3> QED
      BY <1>1, <2>1, <3>3
  <2>3. CASE ~Durable(attempt[1].st)
    <3>1. q.pc = "list"
      BY <1>4, <2>3, WhereTo
    <3> QED
      BY <1>1, <2>1, <3>1, NothingToKnow
  <2> QED
    BY <2>2, <2>3
<1>5. CASE List(c)
  <2>1. attempt' = attempt /\ run' = run /\ Count < MaxCalls
    BY <1>5 DEF List
  <2>2. PICK k \in 0..MaxCalls : \A m \in Numbers : attempt[m].st = "absent" <=> m > k
    BY DEF GInv, Dense
  <2>3. Count = k
    BY <2>2, CountIs
  <2>4. q.n = k + 1 /\ k + 1 \in Numbers /\ attempt[k+1].st = "absent"
    <3>1. q.n = k + 1
      BY <1>5, <2>3, WhereTo
    <3>2. k + 1 \in Numbers /\ k + 1 > k
      BY <1>0, <2>1, <2>3 DEF Numbers
    <3> QED
      BY <2>2, <3>1, <3>2
  <2>5. q.pc = (IF k = 0 THEN "create" ELSE IF Open(attempt[k].st) THEN "abandon" ELSE "again")
    BY <1>5, <2>3, WhereTo
  <2>6. q.pc = "abandon" => q.n - 1 \in Numbers /\ Open(attempt[q.n - 1].st)
    BY <1>0, <2>4, <2>5 DEF Numbers
  <2>7. q.pc \in {"create", "abandon", "again"}
    BY <2>5
  <2>8. CallOK(c)'
    BY <2>1, <2>4, <2>6, <2>7 DEF CallOK, At
  <2> QED
    BY <1>1, <2>1, <2>8
<1>6. CASE Abandon(c)
  <2>1. /\ n - 1 \in Numbers /\ Open(attempt[n-1].st)
        /\ n \in Numbers /\ attempt[n].st = "absent"
    BY <1>6 DEF Abandon, CallOK, At
  <2>2. Becomes(n-1, "abandoned") /\ run' = run
    BY <1>6, <2>1 DEF Abandon
  <2>3. run[attempt[n-1].run] # "succeeded" /\ attempt[n-1].st # "absent"
    BY <2>1 DEF Agree, Open, Durable
  <2>4. /\ RunsOK' /\ Agree' /\ attempt'[n-1].st = "abandoned"
        /\ \A m \in Numbers \ {n-1} : attempt'[m] = attempt[m]
    BY <1>0, <2>1, <2>2, <2>3, SetStatus
  <2>5. n # n - 1
    BY <2>1 DEF Numbers
  <2>6. q.pc = "close" /\ q.n = n
    BY <1>6, WhereTo
  <2>7. CallOK(c)'
    BY <2>1, <2>4, <2>5, <2>6 DEF CallOK, At
  <2> QED
    BY <2>4, <2>7
<1>7. CASE Close(c)
  <2>1. /\ n - 1 \in Numbers /\ attempt[n-1].st = "abandoned"
        /\ n \in Numbers /\ attempt[n].st = "absent"
    BY <1>7 DEF Close, CallOK, At
  <2>2. attempt' = attempt /\ run' = [run EXCEPT ![attempt[n-1].run] = "failed"]
    BY <1>7 DEF Close
  <2>3. RunsOK' /\ Agree'
    BY <1>0, <2>1, <2>2, SetRun
  <2>4. q.pc = "again" /\ q.n = n
    BY <1>7, WhereTo
  <2>5. CallOK(c)'
    BY <2>1, <2>2, <2>4 DEF CallOK, At
  <2> QED
    BY <2>3, <2>5
<1>8. CASE LookAgain(c)
  <2>1. n \in Numbers /\ attempt[n].st = "absent" /\ attempt' = attempt /\ run' = run
    BY <1>8 DEF LookAgain, CallOK, At
  <2>2. q.pc = "create" /\ q.n = n
    BY <1>8, <2>1, WhereTo DEF Durable
  <2>3. CallOK(c)'
    BY <2>1, <2>2 DEF CallOK, At
  <2> QED
    BY <1>1, <2>1, <2>3
<1>9. CASE CreateRun(c)
  <2>1. n \in Numbers /\ attempt[n].st = "absent" /\ attempt' = attempt
    BY <1>9 DEF CreateRun, CallOK, At
  <2>2. PICK k \in Numbers : /\ run[k] = "absent" /\ run' = [run EXCEPT ![k] = "running"]
                             /\ call' = [call EXCEPT ![c].run = k, ![c].pc = "prepare"]
    BY <1>9 DEF CreateRun
  <2>3. q.pc = "prepare" /\ q.n = n /\ q.run = k
    BY <1>0, <2>2 DEF Call
  <2>4. /\ run'[k] = "running"
        /\ \A m \in Numbers : attempt[m].st # "absent" =>
              attempt[m].run \in Numbers \ {k} /\ run'[attempt[m].run] = run[attempt[m].run]
    BY <1>0, <2>2 DEF RunsOK
  <2>5. RunsOK' /\ Agree'
    BY <2>1, <2>4 DEF RunsOK, Agree
  <2>6. CallOK(c)'
    BY <2>1, <2>3, <2>4 DEF CallOK, At
  <2> QED
    BY <2>5, <2>6
<1>10. CASE Prepare(c)
  <2>1. /\ n \in Numbers /\ attempt[n].st = "absent" /\ run' = run
        /\ r \in Numbers /\ run[r] = "running"
        /\ \A m \in Numbers : attempt[m].st # "absent" => attempt[m].run # r
    BY <1>10 DEF Prepare, CallOK, At
  <2>2. attempt' = [attempt EXCEPT ![n] = [st |-> "prepared", run |-> r]]
    BY <1>10, <2>1 DEF Prepare
  <2>3. /\ attempt'[n].st = "prepared" /\ attempt'[n].run = r
        /\ \A m \in Numbers \ {n} : attempt'[m] = attempt[m]
    BY <1>0, <2>1, <2>2
  <2>4. RunsOK'
    BY <2>1, <2>3 DEF RunsOK
  <2>5. Agree'
    BY <2>1, <2>3 DEF Agree
  <2>6. q.pc = "configure" /\ q.n = n /\ q.run = r
    BY <1>10, <2>1, WhereTo DEF Durable
  <2>7. CallOK(c)'
    BY <2>1, <2>3, <2>6 DEF CallOK, At
  <2> QED
    BY <2>4, <2>5, <2>7
<1>11. ~Reused(c)
  BY DEF Reused, CallOK
<1>12. ASSUME call[c].pc \in {"configure", "mark", "calling", "persist", "finish", "fail", "failRun"}
       PROVE  /\ n \in Numbers /\ r \in Numbers /\ attempt[n].run = r /\ run[r] = "running"
              /\ call[c].pc \in {"configure", "mark"} => attempt[n].st = "prepared"
              /\ call[c].pc \in {"calling", "persist"} => attempt[n].st = "requesting"
              /\ call[c].pc = "finish" => attempt[n].st = "persisted"
              /\ call[c].pc = "fail" => Open(attempt[n].st)
              /\ call[c].pc = "failRun" => attempt[n].st = "failed"
  BY <1>12 DEF CallOK, At
<1>13. CASE Configure(c)
  <2>1. call[c].pc = "configure" /\ attempt' = attempt /\ run' = run
    BY <1>13 DEF Configure, At
  <2>2. q.pc \in {"mark", "fail"} /\ q.n = n /\ q.run = r
    BY <1>13, WhereTo
  <2>3. CallOK(c)'
    BY <1>12, <2>1, <2>2 DEF CallOK, At, Open
  <2> QED
    BY <1>1, <2>1, <2>3
<1>14. CASE MarkRequesting(c)
  <2>1. call[c].pc = "mark" /\ run' = run
    BY <1>14 DEF MarkRequesting, At
  <2>2. Becomes(n, "requesting")
    BY <1>12, <1>14, <2>1 DEF MarkRequesting, Open
  <2>3. RunsOK' /\ Agree' /\ attempt'[n].st = "requesting" /\ attempt'[n].run = attempt[n].run
    BY <1>0, <1>12, <2>1, <2>2, SetStatus
  <2>4. q.pc = "calling" /\ q.n = n /\ q.run = r
    BY <1>14, WhereTo
  <2>5. CallOK(c)'
    BY <1>12, <2>1, <2>3, <2>4 DEF CallOK, At
  <2> QED
    BY <2>3, <2>5
<1>15. CASE Answer(c)
  <2>1. call[c].pc = "calling" /\ attempt' = attempt /\ run' = run
    BY <1>15 DEF Answer, At
  <2>2. q.pc \in {"persist", "fail"} /\ q.n = n /\ q.run = r
    BY <1>15, WhereTo
  <2>3. CallOK(c)'
    BY <1>12, <2>1, <2>2 DEF CallOK, At, Open
  <2> QED
    BY <1>1, <2>1, <2>3
<1>16. CASE Persist(c)
  <2>1. call[c].pc = "persist" /\ run' = run
    BY <1>16 DEF Persist, At
  <2>2. Becomes(n, "persisted")
    BY <1>12, <1>16, <2>1 DEF Persist, Open
  <2>3. RunsOK' /\ Agree' /\ attempt'[n].st = "persisted" /\ attempt'[n].run = attempt[n].run
    BY <1>0, <1>12, <2>1, <2>2, SetStatus
  <2>4. q.pc = "finish" /\ q.n = n /\ q.run = r
    BY <1>16, WhereTo
  <2>5. CallOK(c)'
    BY <1>12, <2>1, <2>3, <2>4 DEF CallOK, At
  <2> QED
    BY <2>3, <2>5
<1>17. CASE FinishRun(c)
  <2>1. call[c].pc = "finish" /\ attempt' = attempt
    BY <1>17 DEF FinishRun, At
  <2>2. /\ n \in Numbers /\ attempt[n].st = "persisted" /\ attempt[n].run = r
        /\ run' = [run EXCEPT ![attempt[n].run] = "succeeded"]
    BY <1>12, <1>17, <2>1 DEF FinishRun
  <2>3. Durable(attempt[n].st) /\ attempt[n].st # "absent"
    BY <2>2 DEF Durable
  <2>4. RunsOK' /\ Agree' /\ run'[attempt[n].run] = "succeeded"
    BY <1>0, <2>1, <2>2, <2>3, SetRun
  <2>5. q.pc = "consume" /\ q.n = n
    BY <1>17, WhereTo
  <2>6. CallOK(c)'
    BY <2>1, <2>2, <2>3, <2>4, <2>5 DEF CallOK, At, Durable
  <2> QED
    BY <2>4, <2>6
<1>18. CASE Recover(c)
  <2>1. /\ n \in Numbers /\ Durable(attempt[n].st) /\ attempt' = attempt
        /\ run' = [run EXCEPT ![attempt[n].run] = "succeeded"]
    BY <1>18 DEF Recover, CallOK, At
  <2>2. attempt[n].st # "absent"
    BY <2>1 DEF Durable
  <2>3. RunsOK' /\ Agree' /\ run'[attempt[n].run] = "succeeded"
    BY <1>0, <2>1, <2>2, SetRun
  <2>4. q.pc = "consume" /\ q.n = n
    BY <1>18, WhereTo
  <2>5. CallOK(c)'
    BY <2>1, <2>3, <2>4 DEF CallOK, At, Durable
  <2> QED
    BY <2>3, <2>5
<1>19. CASE Consume(c)
  <2>1. /\ n \in Numbers /\ Durable(attempt[n].st) /\ run[attempt[n].run] = "succeeded"
        /\ run' = run
    BY <1>19 DEF Consume, CallOK, At
  <2>2. Becomes(n, "consumed") /\ attempt[n].st # "absent"
    BY <1>19, <2>1 DEF Consume, Durable
  <2>3. RunsOK' /\ Agree'
    BY <1>0, <2>1, <2>2, SetStatus DEF Durable
  <2>4. q.pc = "idle"
    BY <1>19, WhereTo DEF NoCall
  <2> QED
    BY <2>3, <2>4, NothingToKnow
<1>20. CASE FailAttempt(c)
  <2>1. call[c].pc = "fail" /\ run' = run
    BY <1>20 DEF FailAttempt, At
  <2>2. Becomes(n, "failed") /\ attempt[n].st # "absent"
    BY <1>12, <1>20, <2>1 DEF FailAttempt, MayFail, Open, Durable
  <2>3. RunsOK' /\ Agree' /\ attempt'[n].st = "failed" /\ attempt'[n].run = attempt[n].run
    BY <1>0, <1>12, <2>1, <2>2, SetStatus
  <2>4. q.pc = "failRun" /\ q.n = n /\ q.run = r
    BY <1>20, WhereTo
  <2>5. CallOK(c)'
    BY <1>12, <2>1, <2>3, <2>4 DEF CallOK, At
  <2> QED
    BY <2>3, <2>5
<1>21. CASE FailRun(c)
  <2>1. call[c].pc = "failRun" /\ attempt' = attempt
    BY <1>21 DEF FailRun, At
  <2>2. /\ n \in Numbers /\ attempt[n].st = "failed"
        /\ run' = [run EXCEPT ![attempt[n].run] = "failed"]
    BY <1>12, <1>21, <2>1 DEF FailRun
  <2>3. RunsOK' /\ Agree'
    BY <1>0, <2>1, <2>2, SetRun
  <2>4. q.pc = "idle"
    BY <1>21, WhereTo DEF NoCall
  <2> QED
    BY <2>3, <2>4, NothingToKnow
<1> QED
  BY <1>2, <1>3, <1>4, <1>5, <1>6, <1>7, <1>8, <1>9, <1>10, <1>11, <1>13, <1>14, <1>15, <1>16,
     <1>17, <1>18, <1>19, <1>20, <1>21 DEF Invokes

\* As long as nothing overlaps, only the invocation that steps is in progress.
LEMMA SoloKeeps ==
    ASSUME GInv, NEW c \in Callers, Invokes(c) \/ Die(c), ~overlap'
    PROVE  Solo'
<1>1. ~overlap /\ \A d \in Callers \ {c} : At(d, "idle")
  <2>1. CASE Begin(c)
    BY <2>1 DEF Begin
  <2>2. CASE ~Begin(c)
    <3>1. overlap' = overlap /\ ~At(c, "idle")
      BY <2>2 DEF Invokes, LookUp, List, CreateRun, Abandon, Close, LookAgain, Prepare, Reused,
         Configure, MarkRequesting, Answer, Persist, FinishRun, Recover, Consume, FailAttempt,
         FailRun, Die, KeepRest, At
    <3> QED
      BY <3>1 DEF GInv, Solo, OneAtATime
  <2> QED
    BY <2>1, <2>2
<1>2. RunsOK /\ Agree /\ CallOK(c)
  BY <1>1 DEF GInv, Solo
<1>3. RunsOK' /\ Agree' /\ CallOK(c)'
  BY <1>2, SoloStep
<1>4. \A d \in Callers \ {c} : call'[d].pc = "idle"
  BY <1>1, OthersStay DEF At
<1>5. OneAtATime'
  BY <1>4 DEF OneAtATime, At
<1>6. \A d \in Callers \ {c} : CallOK(d)'
  BY <1>4, NothingToKnow
<1> QED
  BY <1>3, <1>5, <1>6 DEF Solo

-----------------------------------------------------------------------------
(* The theorems.                                                           *)

\* Nothing has been asked yet.
LEMMA InitGInv == GenInit => GInv
<1> SUFFICES ASSUME GenInit PROVE GInv
  OBVIOUS
<1>0. MaxCalls \in Nat \ {0} /\ MaxDeaths \in Nat
  BY GenerationAssumption
<1>1. /\ \A n \in Numbers : attempt[n] = [st |-> "absent", run |-> 0]
      /\ \A c \in Callers : call[c] = NoCall
  BY DEF GenInit
<1>2. /\ NoCall \in Call
      /\ NoCall.pc = "idle" /\ NoCall.n = 0 /\ NoCall.first = FALSE
  BY DEF NoCall, Call, Points
<1>3. GenTypeOK
  <2>1. [st |-> "absent", run |-> 0] \in AttemptRow
    BY DEF AttemptRow
  <2>2. attempt \in [Numbers -> AttemptRow]
    BY <2>1 DEF GenInit
  <2>3. call \in [Callers -> Call]
    BY <1>2 DEF GenInit
  <2>4. run \in [Numbers -> {"absent", "running", "succeeded", "failed"}]
    BY DEF GenInit
  <2>5. deaths \in 0..MaxDeaths
    BY <1>0 DEF GenInit
  <2>6. overlap \in BOOLEAN
    BY DEF GenInit
  <2> QED
    BY <2>2, <2>3, <2>4, <2>5, <2>6 DEF GenTypeOK
<1>4. Dense
  <2>1. \A n \in Numbers : attempt[n].st = "absent" <=> n > 0
    BY <1>0, <1>1 DEF Numbers
  <2>2. \A c \in Callers : call[c].n = 0
    BY <1>1, <1>2
  <2>3. \A c \in Callers : call[c].n <= 0 + 1
    <3>1. 0 <= 0 + 1
      OBVIOUS
    <3> QED
      BY ONLY <2>2, <3>1
  <2>4. 0 \in 0..MaxCalls
    BY <1>0
  <2> QED
    BY <2>1, <2>3, <2>4 DEF Dense
<1>5. \A c \in Callers : call[c].pc = "idle" /\ ~call[c].first
  BY <1>1, <1>2
<1>6. Placed /\ FirstOK
  BY <1>5 DEF Placed, FirstOK
<1>7. Solo
  BY <1>1, <1>5 DEF Solo, OneAtATime, RunsOK, Agree, CallOK, At
<1> QED
  BY <1>3, <1>4, <1>6, <1>7 DEF GInv

\* A step by one invocation, or a stutter.
LEMMA StepGInv == GInv /\ [GenNext]_genVars => GInv'
<1> SUFFICES ASSUME GInv, [GenNext]_genVars PROVE GInv'
  OBVIOUS
<1>1. CASE GenNext
  <2>1. PICK c \in Callers : Invokes(c) \/ Die(c)
    BY <1>1 DEF GenNext
  <2> QED
    BY <2>1, TypeKeeps, DenseKeeps, PlacedKeeps, FirstKeeps, SoloKeeps DEF GInv
<1>2. CASE UNCHANGED genVars
  BY <1>2 DEF genVars, GInv, GenTypeOK, Dense, Placed, FirstOK, Solo, OneAtATime, RunsOK, Agree,
              CallOK, At
<1> QED
  BY <1>1, <1>2

\* The inductive invariant of the exactly-once boundary of a provider request.
THEOREM GenInvariant == GenSpec => []GInv
  BY InitGInv, StepGInv, PTL DEF GenSpec

\* The rows of generation_attempts and generation_runs and what an invocation
\* holds keep their shape.
THEOREM GenTyped == GenSpec => []GenTypeOK
<1>1. GInv => GenTypeOK
  BY DEF GInv
<1> QED
  BY <1>1, GenInvariant, PTL

\* However invocations of a request overlap and die, no status update takes an
\* answer that was saved away: persist, fail, abandon and mark_requesting all look
\* at the status before they write it.
THEOREM AnswersKept == GenSpec => AnswerIsKept
<1>1. GInv /\ [GenNext]_genVars => [KeptStep]_genVars
  BY KeptKeeps DEF GenNext
<1> QED
  BY <1>1, GenInvariant, PTL DEF GenSpec, AnswerIsKept, KeptStep

\* An execution that begins once the first attempt is answered returns that answer
\* and never reaches the provider, whoever else works on the request meanwhile.
THEOREM FirstIsEnough == GenSpec => []FirstAnswerSuffices
<1>1. GInv => FirstAnswerSuffices
  BY DEF GInv, FirstOK, FirstAnswerSuffices, At
<1> QED
  BY <1>1, GenInvariant, PTL

\* As long as invocations follow one another, whatever dies in between, a run has
\* succeeded exactly when its answer is saved or on its way to the caller.
THEOREM LedgersAlwaysAgree == GenSpec => []LedgersAgree
<1>1. GInv => LedgersAgree
  BY DEF GInv, Solo, Agree, LedgersAgree
<1> QED
  BY <1>1, GenInvariant, PTL

-----------------------------------------------------------------------------
(* ComputeBudget: the reservations.                                        *)


\* No reservation has the number 0, and no plan costs less than nothing.
LEMMA SlotsArePositive == 0 \notin Slots /\ Costs \subseteq Nat
  BY BudgetAssumption DEF Slots

SlotShape == [st: {"absent", "reserved", "released"}, amount: Nat, used: Nat, critical: BOOLEAN]
PlanShape == [res: Slots \cup {0}, est: Nat, critical: BOOLEAN]
StepShape == [pc: {"idle", "planned", "begin", "running", "consume", "release", "replan",
                   "raised", "giveUp"},
              plan: PlanShape, spare: BOOLEAN, again: BOOLEAN, units: Nat, old: Slots \cup {0}]

Shapes ==
    /\ slot \in [Slots -> SlotShape]
    /\ plans \subseteq PlanShape
    /\ router \in [Routers -> StepShape]
    /\ soft \in BOOLEAN

\* Only reservations that have been inserted are spoken of.
Known ==
    \A r \in Slots :
        \/ r \in begun
        \/ \E p \in plans : p.res = r
        \/ \E h \in Routers : MyPlan(h).res = r
        => slot[r].st # "absent"

Works(h, r) == MyPlan(h).res = r /\ router[h].pc \in {"running", "consume", "release"}
Holds(h, r) == MyPlan(h).res = r
               /\ router[h].pc \in {"planned", "running", "consume", "release", "raised"}

InHand ==
    \A r \in Slots : Reserved(r) /\ r \notin astray =>
        /\ r \in begun => \E h \in Routers : Works(h, r)
        /\ (\E h \in Routers : Holds(h, r)) \/ (\E p \in plans : p.res = r)

\* The inductive invariant.
ReturnInv == Shapes /\ Known /\ InHand

\* What a step of one call does to the reservations.
Routed(h) ==
    /\ Shapes'
    /\ \A d \in Routers \ {h} : router'[d] = router[d]
    /\ plans \subseteq plans' /\ plans' \subseteq plans \cup {MyPlan(h)}
    /\ begun' \subseteq begun \cup {MyPlan(h).res}
    /\ astray \subseteq astray'
    /\ \A r \in Slots :
        /\ slot[r].st # "absent" => slot'[r].st # "absent"
        /\ router'[h].plan.res = r => slot'[r].st # "absent"
        /\ r \in begun' => r \in begun \/ Works(h, r)'
        /\ Reserved(r)' /\ r \notin astray' =>
              /\ Reserved(r) \/ (slot[r].st = "absent" /\ Holds(h, r)')
              /\ Works(h, r) => Works(h, r)'
              /\ Holds(h, r) => Holds(h, r)' \/ \E p \in plans' : p.res = r

\* Such a step keeps every reservation in hand.
LEMMA RoutedKeeps ==
    ASSUME ReturnInv, NEW h \in Routers, Routed(h)
    PROVE  ReturnInv'
<1>0. \A d \in Routers \ {h} : router'[d] = router[d]
  BY DEF Routed
<1>1. ASSUME NEW r \in Slots,
             r \in begun' \/ (\E p \in plans' : p.res = r) \/ \E d \in Routers : router'[d].plan.res = r
      PROVE  slot'[r].st # "absent"
  <2>1. CASE r \in begun \/ (\E p \in plans : p.res = r) \/ \E d \in Routers : MyPlan(d).res = r
    BY <2>1 DEF ReturnInv, Known, Routed
  <2>2. CASE router'[h].plan.res = r
    BY <2>2 DEF Routed
  <2>3. CASE ~(<2>1!1) /\ router'[h].plan.res # r
    <3>1. r \notin begun'
      BY <2>3 DEF Routed
    <3>2. ~ \E p \in plans' : p.res = r
      BY <2>3 DEF Routed
    <3>3. ~ \E d \in Routers : router'[d].plan.res = r
      BY <1>0, <2>3 DEF MyPlan
    <3> QED
      BY <1>1, <3>1, <3>2, <3>3
  <2> QED
    BY <2>1, <2>2, <2>3
<1>2. Known'
  BY <1>1 DEF Known, MyPlan
<1>3. ASSUME NEW r \in Slots, Reserved(r)', r \notin astray'
      PROVE  /\ r \in begun' => \E d \in Routers : Works(d, r)'
             /\ (\E d \in Routers : Holds(d, r)') \/ (\E p \in plans' : p.res = r)
  <2>0. /\ Reserved(r) \/ (slot[r].st = "absent" /\ Holds(h, r)')
        /\ Works(h, r) => Works(h, r)'
        /\ Holds(h, r) => Holds(h, r)' \/ \E p \in plans' : p.res = r
        /\ r \in begun' => r \in begun \/ Works(h, r)'
        /\ r \notin astray
    BY <1>3 DEF Routed
  <2>1. \A d \in Routers \ {h} : (Works(d, r) => Works(d, r)') /\ (Holds(d, r) => Holds(d, r)')
    BY <1>0 DEF Works, Holds, MyPlan
  <2>2. CASE Reserved(r)
    <3>1. /\ r \in begun => \E d \in Routers : Works(d, r)
          /\ (\E d \in Routers : Holds(d, r)) \/ (\E p \in plans : p.res = r)
      BY <2>0, <2>2 DEF ReturnInv, InHand
    <3>2. \A p \in plans : p \in plans'
      BY DEF Routed
    <3> QED
      BY <2>0, <2>1, <3>1, <3>2
  <2>3. CASE slot[r].st = "absent" /\ Holds(h, r)'
    <3>1. r \notin begun
      BY <2>3 DEF ReturnInv, Known
    <3> QED
      BY <2>0, <2>3, <3>1
  <2> QED
    BY <2>0, <2>2, <2>3
<1>4. InHand'
  BY <1>3 DEF InHand
<1> QED
  BY <1>2, <1>4 DEF ReturnInv, Routed

-----------------------------------------------------------------------------
(* The steps of a call.                                                    *)

\* The local state of the call that moves.
LEMMA MovesTo ==
    ASSUME Shapes, NEW h \in Routers, NEW s \in StepShape, Moves(h, s)
    PROVE  /\ router' \in [Routers -> StepShape] /\ router'[h] = s
           /\ \A d \in Routers \ {h} : router'[d] = router[d]
  BY DEF Shapes, Moves

\* The local state of a call that is over.
LEMMA NoStepShape ==
    /\ NoStep \in StepShape /\ NoStep.pc = "idle"
    /\ NoStep.plan = [res |-> 0, est |-> 0, critical |-> FALSE] /\ NoStep.plan.res = 0
  BY DEF NoStep, StepShape, PlanShape

\* A step that leaves the table of reservations its statuses: it may begin with a
\* plan that is known, and gives none up that it works on.
LEMMA PlainRouted ==
    ASSUME ReturnInv, NEW h \in Routers, NEW s \in StepShape, Moves(h, s),
           slot' \in [Slots -> SlotShape], \A r \in Slots : slot'[r].st = slot[r].st,
           UNCHANGED <<plans, soft, begun, astray>>,
           s.plan.res # 0 => s.plan.res = MyPlan(h).res \/ \E p \in plans : p.res = s.plan.res,
           \A r \in Slots : /\ Works(h, r) => s.plan.res = r /\ s.pc \in {"running", "consume", "release"}
                            /\ ~(MyPlan(h).res = r /\ router[h].pc \in {"planned", "raised"})
    PROVE  Routed(h)
<1>0. 0 \notin Slots
  BY SlotsArePositive
<1>1. /\ router' \in [Routers -> StepShape] /\ router'[h] = s
      /\ \A d \in Routers \ {h} : router'[d] = router[d]
  BY MovesTo DEF ReturnInv
<1>2. Shapes'
  BY <1>1 DEF ReturnInv, Shapes
<1>3. ASSUME NEW r \in Slots, s.plan.res = r PROVE slot'[r].st # "absent"
  BY <1>0, <1>3 DEF ReturnInv, Known
<1>4. ASSUME NEW r \in Slots
      PROVE  (Works(h, r) => Works(h, r)') /\ (Holds(h, r) => Holds(h, r)')
  BY <1>1 DEF Works, Holds, MyPlan
<1>5. \A r \in Slots : Reserved(r)' => Reserved(r)
  BY DEF Reserved
<1> QED
  BY <1>1, <1>2, <1>3, <1>4, <1>5 DEF Routed

\* A plan is made, with a reservation of its own or with none.
LEMMA ReservesRouted ==
    ASSUME ReturnInv, NEW h \in Routers, NEW spare \in BOOLEAN,
           router[h].pc \in {"idle", "replan"}, Reserves(h, spare),
           UNCHANGED <<plans, soft, begun, astray>>
    PROVE  Routed(h)
<1>0. Costs \subseteq Nat /\ 0 \notin Slots /\ slot \in [Slots -> SlotShape]
  BY SlotsArePositive, BudgetAssumption DEF ReturnInv, Shapes
<1>1. PICK est \in Costs, critical \in BOOLEAN :
        LET step(r) == [NoStep EXCEPT !.pc = "planned", !.spare = spare,
                           !.plan = [res |-> r, est |-> est, critical |-> critical]]
        IN  \/ \E r \in Slots : ReserveSlot(r, est, critical) /\ Moves(h, step(r))
            \/ Moves(h, step(0)) /\ UNCHANGED slot
  BY DEF Reserves
<1> DEFINE step(r) == [NoStep EXCEPT !.pc = "planned", !.spare = spare,
                          !.plan = [res |-> r, est |-> est, critical |-> critical]]
<1>2. \A r \in Slots \cup {0} : step(r) \in StepShape /\ step(r).pc = "planned" /\ step(r).plan.res = r
  BY <1>0 DEF NoStep, StepShape, PlanShape
<1>3. ASSUME NEW r \in Slots, ReserveSlot(r, est, critical), Moves(h, step(r))
      PROVE  Routed(h)
  <2> HIDE DEF step
  <2>1. /\ slot' = [slot EXCEPT ![r] = [st |-> "reserved", amount |-> est, used |-> 0,
                                        critical |-> critical]]
        /\ slot[r].st = "absent"
    BY <1>3 DEF ReserveSlot, NextSlot
  <2>2. /\ slot' \in [Slots -> SlotShape] /\ slot'[r].st = "reserved"
        /\ \A q \in Slots \ {r} : slot'[q] = slot[q]
    BY <1>0, <2>1 DEF SlotShape
  <2>3. /\ router' \in [Routers -> StepShape] /\ router'[h].pc = "planned"
        /\ router'[h].plan.res = r /\ \A d \in Routers \ {h} : router'[d] = router[d]
    BY <1>2, <1>3, MovesTo DEF ReturnInv
  <2>4. Shapes'
    BY <2>2, <2>3 DEF ReturnInv, Shapes
  <2>5. \A q \in Slots : ~Works(h, q) /\ ~Holds(h, q)
    BY DEF Works, Holds
  <2>6. Holds(h, r)'
    BY <2>3 DEF Holds, MyPlan
  <2>7. \A q \in Slots : Reserved(q)' => Reserved(q) \/ (slot[q].st = "absent" /\ Holds(h, q)')
    BY <2>1, <2>2, <2>6 DEF Reserved
  <2> QED
    BY <2>2, <2>3, <2>4, <2>5, <2>7 DEF Routed
<1>4. CASE Moves(h, step(0)) /\ UNCHANGED slot
  <2>1. step(0) \in StepShape /\ step(0).plan.res = 0
    BY <1>2
  <2>2. \A r \in Slots : ~Works(h, r)
    BY DEF Works
  <2> HIDE DEF step
  <2> QED
    BY <1>0, <1>4, <2>1, <2>2, PlainRouted
<1> QED
  BY <1>1, <1>3, <1>4

\* A reservation is released while the call moves on.
LEMMA ReleaseRouted ==
    ASSUME ReturnInv, NEW h \in Routers, NEW s \in StepShape, Moves(h, s),
           NEW q \in Slots \cup {0}, ReleaseSlot(q),
           UNCHANGED <<plans, soft, begun, astray>>,
           s.plan.res \in {0, MyPlan(h).res},
           \A r \in Slots : MyPlan(h).res = r => r = q
    PROVE  Routed(h)
<1>0. slot \in [Slots -> SlotShape] /\ 0 \notin Slots
  BY SlotsArePositive, BudgetAssumption DEF ReturnInv, Shapes
<1>1. /\ router' \in [Routers -> StepShape] /\ router'[h] = s
      /\ \A d \in Routers \ {h} : router'[d] = router[d]
  BY MovesTo DEF ReturnInv
<1>2. /\ slot' \in [Slots -> SlotShape] /\ \A r \in Slots \ {q} : slot'[r] = slot[r]
      /\ q \in Slots => slot'[q].st # "reserved" /\ (slot[q].st # "absent" => slot'[q].st # "absent")
  <2>1. CASE Reserved(q)
    BY <1>0, <2>1 DEF ReleaseSlot, Reserved, SlotShape
  <2>2. CASE ~Reserved(q)
    BY <1>0, <2>2 DEF ReleaseSlot, Reserved
  <2> QED
    BY <2>1, <2>2
<1>3. Shapes'
  BY <1>1, <1>2 DEF ReturnInv, Shapes
<1>4. ASSUME NEW r \in Slots, s.plan.res = r PROVE slot'[r].st # "absent"
  <2>1. MyPlan(h).res = r
    BY <1>0, <1>4
  <2>2. slot[r].st # "absent"
    BY <2>1 DEF ReturnInv, Known
  <2> QED
    BY <1>2, <2>2
<1>5. ASSUME NEW r \in Slots, Reserved(r)'
      PROVE  Reserved(r) /\ ~Works(h, r) /\ ~Holds(h, r)
  BY <1>2, <1>5 DEF Reserved, Works, Holds
<1> QED
  BY <1>1, <1>2, <1>3, <1>4, <1>5 DEF Routed

\* Planning, execution and settlement.
LEMMA CallsRouted ==
    ASSUME ReturnInv, NEW h \in Routers,
           \/ Plan(h) \/ StorePlan(h) \/ DropPlan(h) \/ SelectPlan(h) \/ FindUnready(h)
           \/ StartTurn(h) \/ EndTurn(h) \/ ConsumeUnits(h) \/ ReleaseUnits(h) \/ Replan(h)
    PROVE  Routed(h)
<1>0. /\ Costs \subseteq Nat /\ Reports \subseteq Nat /\ 0 \notin Slots
      /\ slot \in [Slots -> SlotShape] /\ plans \subseteq PlanShape
      /\ router[h] \in StepShape /\ MyPlan(h) \in PlanShape /\ MyPlan(h).res \in Slots \cup {0}
      /\ Shapes
  BY SlotsArePositive, BudgetAssumption DEF ReturnInv, Shapes, MyPlan, StepShape, PlanShape
<1>1. /\ NoStep \in StepShape /\ NoStep.plan.res = 0
  BY NoStepShape
<1>2. ASSUME NEW pc \in {"begin", "running", "release", "replan"}
      PROVE  LET s == [router[h] EXCEPT !.pc = pc] IN
             s \in StepShape /\ s.plan = MyPlan(h) /\ s.pc = pc
  BY <1>0 DEF StepShape, MyPlan
<1>3. CASE Plan(h)
  BY <1>3, ReservesRouted DEF Plan, Is, Unhistoric
<1>4. CASE StorePlan(h)
  <2> DEFINE s == [router[h] EXCEPT !.pc = "begin"]
  <2>1. s \in StepShape /\ s.plan = MyPlan(h) /\ s.pc = "begin"
    BY <1>2
  <2>2. Moves(h, s) /\ plans' = plans \cup {MyPlan(h)} /\ UNCHANGED <<slot, soft, begun, astray>>
        /\ router[h].pc = "planned"
    BY <1>4 DEF StorePlan, StoresPlan, Gets, Unhistoric, Is
  <2> HIDE DEF s
  <2>3. /\ router' \in [Routers -> StepShape] /\ router'[h] = s
        /\ \A d \in Routers \ {h} : router'[d] = router[d]
    BY <1>0, <2>1, <2>2, MovesTo
  <2>4. Shapes'
    BY <1>0, <2>2, <2>3 DEF Shapes
  <2>5. \A r \in Slots : router'[h].plan.res = r => slot[r].st # "absent"
    BY <2>1, <2>3 DEF ReturnInv, Known
  <2>6. \A r \in Slots : /\ ~Works(h, r)
                         /\ Holds(h, r) => \E p \in plans' : p.res = r
                         /\ Reserved(r)' => Reserved(r)
    BY <2>2 DEF Works, Holds, Reserved
  <2> QED
    BY <2>2, <2>3, <2>4, <2>5, <2>6 DEF Routed
<1>5. CASE DropPlan(h)
  <2>1. Moves(h, NoStep) /\ ReleaseSlot(MyPlan(h).res) /\ UNCHANGED <<plans, soft, begun, astray>>
    BY <1>5 DEF DropPlan, Leaves, Unhistoric
  <2> QED
    BY <1>0, <1>1, <2>1, ReleaseRouted
<1>6. ASSUME NEW s \in StepShape, Moves(h, s), UNCHANGED <<slot, plans, soft, begun, astray>>,
             router[h].pc \in {"idle", "begin", "replan"},
             s.plan.res = 0 \/ s.plan = MyPlan(h) \/ s.plan \in plans
      PROVE  Routed(h)
  <2>1. \A r \in Slots : /\ ~Works(h, r)
                         /\ ~(MyPlan(h).res = r /\ router[h].pc \in {"planned", "raised"})
    BY <1>6 DEF Works
  <2> QED
    BY <1>0, <1>6, <2>1, PlainRouted
<1>7. CASE SelectPlan(h)
  <2>1. PICK p \in plans :
           Moves(h, [NoStep EXCEPT !.pc = "begin", !.spare = TRUE, !.plan = p])
    BY <1>7 DEF SelectPlan
  <2> DEFINE s == [NoStep EXCEPT !.pc = "begin", !.spare = TRUE, !.plan = p]
  <2>2. s \in StepShape /\ s.plan = p
    BY <1>0, <1>1 DEF StepShape
  <2>3. Moves(h, s) /\ router[h].pc = "idle" /\ UNCHANGED <<slot, plans, soft, begun, astray>>
    BY <1>7, <2>1 DEF SelectPlan, Is, Unhistoric
  <2> HIDE DEF s
  <2> QED
    BY <1>6, <2>2, <2>3
<1>8. CASE FindUnready(h)
  <2>1. router[h].pc = "begin" /\ UNCHANGED <<slot, plans, soft, begun, astray>>
    BY <1>8 DEF FindUnready, Is, Unhistoric
  <2>2. CASE Gets(h, "replan")
    BY <1>2, <1>6, <2>1, <2>2 DEF Gets
  <2>3. CASE Leaves(h)
    BY <1>1, <1>6, <2>1, <2>3 DEF Leaves
  <2> QED
    BY <1>8, <2>2, <2>3 DEF FindUnready
<1>9. CASE StartTurn(h)
  <2> DEFINE s == [router[h] EXCEPT !.pc = "running"]
  <2>1. s \in StepShape /\ s.plan = MyPlan(h) /\ s.pc = "running"
    BY <1>2
  <2>2. /\ Moves(h, s) /\ UNCHANGED <<slot, plans, soft, astray>> /\ router[h].pc = "begin"
        /\ begun' = begun \cup ({MyPlan(h).res} \ {0})
    BY <1>9 DEF StartTurn, Gets, Is
  <2> HIDE DEF s
  <2>3. /\ router' \in [Routers -> StepShape] /\ router'[h] = s
        /\ \A d \in Routers \ {h} : router'[d] = router[d]
    BY <1>0, <2>1, <2>2, MovesTo
  <2>4. Shapes'
    BY <1>0, <2>2, <2>3 DEF Shapes
  <2>5. \A r \in Slots : router'[h].plan.res = r => slot[r].st # "absent"
    BY <2>1, <2>3 DEF ReturnInv, Known
  <2>6. \A r \in Slots : /\ ~Works(h, r) /\ ~Holds(h, r)
                         /\ Reserved(r)' => Reserved(r)
                         /\ r \in begun' => r \in begun \/ Works(h, r)'
    BY <2>1, <2>2, <2>3 DEF Works, Holds, Reserved, MyPlan
  <2> QED
    BY <2>2, <2>3, <2>4, <2>5, <2>6 DEF Routed
<1>10. CASE EndTurn(h)
  <2>0. router[h].pc = "running" /\ UNCHANGED <<slot, plans, soft, begun, astray>>
    BY <1>10 DEF EndTurn, Is, Unhistoric
  <2>1. CASE MyPlan(h).res = 0
    <3>1. Gets(h, "replan") \/ Leaves(h)
      BY <1>10, <2>1 DEF EndTurn
    <3>2. \A r \in Slots : ~Works(h, r) /\ MyPlan(h).res # r
      BY <1>0, <2>1 DEF Works
    <3>3. \E s \in StepShape : Moves(h, s) /\ s.plan.res = 0
      BY <1>1, <1>2, <2>1, <3>1 DEF Gets, Leaves
    <3> QED
      BY <1>0, <2>0, <3>2, <3>3, PlainRouted
  <2>2. CASE MyPlan(h).res # 0
    <3>0. PICK ok \in BOOLEAN, may \in BOOLEAN :
             \E u \in {AtMost(k, MyPlan(h).est) : k \in Reports}
                      \cup {IF ok THEN MyPlan(h).est ELSE 0} :
                Moves(h, [router[h] EXCEPT !.pc = "consume", !.units = u,
                                           !.again = ~ok /\ may /\ router[h].spare])
      BY <1>10, <2>2 DEF EndTurn
    <3>1. PICK units \in {AtMost(k, MyPlan(h).est) : k \in Reports}
                         \cup {IF ok THEN MyPlan(h).est ELSE 0} :
             Moves(h, [router[h] EXCEPT !.pc = "consume", !.units = units,
                                        !.again = ~ok /\ may /\ router[h].spare])
      BY <3>0
    <3> DEFINE b == ~ok /\ may /\ router[h].spare
               s == [router[h] EXCEPT !.pc = "consume", !.units = units, !.again = b]
    <3>2. b \in BOOLEAN
      OBVIOUS
    <3>3. MyPlan(h).est \in Nat
      BY <1>0 DEF PlanShape
    <3>4. units \in Nat
      BY <1>0, <3>3 DEF AtMost
    <3>5. Moves(h, s)
      BY <3>1
    <3> HIDE DEF b
    <3>6. s \in StepShape /\ s.plan = MyPlan(h) /\ s.pc = "consume"
      BY <1>0, <3>2, <3>4 DEF StepShape, MyPlan
    <3> HIDE DEF s
    <3>7. \A r \in Slots : Works(h, r) => MyPlan(h).res = r
      BY DEF Works
    <3> QED
      BY <1>0, <2>0, <3>5, <3>6, <3>7, PlainRouted
  <2> QED
    BY <2>1, <2>2
<1>11. CASE ConsumeUnits(h)
  <2> DEFINE r == MyPlan(h).res
             fits == Covers(r, router[h].units)
             b == router[h].again /\ (Reserved(r) => fits)
             s == [router[h] EXCEPT !.pc = "release", !.units = 0, !.again = b]
  <2>1. /\ router[h].pc = "consume" /\ UNCHANGED <<plans, soft, begun, astray>>
        /\ slot' = IF Reserved(r) /\ fits
                   THEN [slot EXCEPT ![r].used = @ + router[h].units] ELSE slot
        /\ Moves(h, s)
    BY <1>11 DEF ConsumeUnits, Is, Unhistoric
  <2>2. b \in BOOLEAN
    OBVIOUS
  <2> HIDE DEF b
  <2>3. s \in StepShape /\ s.plan = MyPlan(h) /\ s.pc = "release"
    BY <1>0, <2>2 DEF StepShape, MyPlan
  <2> HIDE DEF s, fits
  <2>4. slot' \in [Slots -> SlotShape] /\ \A q \in Slots : slot'[q].st = slot[q].st
    <3>1. CASE Reserved(r) /\ fits
      <4>1. r \in Slots /\ router[h].units \in Nat
        BY <1>0, <3>1 DEF Reserved, StepShape
      <4>2. slot[r].used + router[h].units \in Nat
        BY <1>0, <4>1 DEF SlotShape
      <4>3. slot' = [slot EXCEPT ![r] = [slot[r] EXCEPT !.used = slot[r].used + router[h].units]]
        BY <1>0, <2>1, <3>1, <4>1
      <4> QED
        BY <1>0, <4>1, <4>2, <4>3 DEF SlotShape
    <3>2. CASE ~(Reserved(r) /\ fits)
      BY <1>0, <2>1, <3>2
    <3> QED
      BY <3>1, <3>2
  <2>5. \A q \in Slots : Works(h, q) => r = q
    BY DEF Works
  <2> QED
    BY <1>0, <2>1, <2>3, <2>4, <2>5, PlainRouted
<1>12. CASE ReleaseUnits(h)
  <2>1. ReleaseSlot(MyPlan(h).res) /\ UNCHANGED <<plans, soft, begun, astray>>
    BY <1>12 DEF ReleaseUnits, Unhistoric
  <2>2. \E s \in StepShape : Moves(h, s) /\ s.plan.res \in {0, MyPlan(h).res}
    BY <1>1, <1>2, <1>12 DEF ReleaseUnits, Gets, Leaves
  <2> QED
    BY <1>0, <2>1, <2>2, ReleaseRouted
<1>13. CASE Replan(h)
  <2>1. router[h].pc = "replan" /\ UNCHANGED <<plans, soft, begun, astray>>
    BY <1>13 DEF Replan, Is, Unhistoric
  <2>2. CASE Reserves(h, FALSE)
    BY <2>1, <2>2, ReservesRouted
  <2>3. ASSUME NEW est \in Costs, NEW critical \in BOOLEAN, UNCHANGED slot,
               Moves(h, [NoStep EXCEPT !.pc = "planned",
                            !.plan = [res |-> 0, est |-> est, critical |-> critical]])
        PROVE  Routed(h)
    <3> DEFINE s == [NoStep EXCEPT !.pc = "planned",
                        !.plan = [res |-> 0, est |-> est, critical |-> critical]]
    <3>1. s \in StepShape /\ s.plan.res = 0
      BY <1>0 DEF NoStep, StepShape, PlanShape
    <3>2. Moves(h, s)
      BY <2>3
    <3> HIDE DEF s
    <3> QED
      BY <1>6, <2>1, <2>3, <3>1, <3>2
  <2>4. CASE Leaves(h) /\ UNCHANGED slot
    BY <1>1, <1>6, <2>1, <2>4 DEF Leaves
  <2> QED
    BY <1>13, <2>2, <2>3, <2>4 DEF Replan
<1> QED
  BY <1>3, <1>4, <1>5, <1>7, <1>8, <1>9, <1>10, <1>11, <1>12, <1>13

\* Escalations, and calls that die.
LEMMA EscalationsRouted ==
    ASSUME ReturnInv, NEW h \in Routers,
           Escalate(h) \/ GiveUp(h) \/ StoreEscalated(h) \/ DropEscalated(h) \/ Perish(h)
    PROVE  Routed(h)
<1>0. /\ Extra \in Nat /\ 0 \notin Slots /\ Shapes
      /\ slot \in [Slots -> SlotShape] /\ plans \subseteq PlanShape
      /\ router[h] \in StepShape /\ MyPlan(h) \in PlanShape /\ MyPlan(h).res \in Slots \cup {0}
      /\ router[h].old \in Slots \cup {0}
  BY SlotsArePositive, BudgetAssumption DEF ReturnInv, Shapes, MyPlan, StepShape, PlanShape
<1>1. /\ NoStep \in StepShape /\ NoStep.plan.res = 0 /\ NoStep.pc = "idle"
  BY NoStepShape
<1>2. CASE Escalate(h)
  <2>0. router[h].pc = "idle" /\ UNCHANGED <<plans, soft, begun, astray>>
    BY <1>2 DEF Escalate, Is, Unhistoric
  <2>1. \A r \in Slots : /\ ~Works(h, r) /\ ~Holds(h, r)
                         /\ ~(MyPlan(h).res = r /\ router[h].pc \in {"planned", "raised"})
    BY <2>0 DEF Works, Holds
  <2>2. PICK p \in plans :
          LET up == [p EXCEPT !.est = @ + Extra]
              step(r, pc) == [NoStep EXCEPT !.pc = pc, !.plan = [up EXCEPT !.res = r]]
          IN
          \/ /\ p.res # 0 /\ MayExtend(p.res, Extra)
             /\ slot' = [slot EXCEPT ![p.res].amount = @ + Extra]
             /\ Moves(h, step(p.res, "raised"))
          \/ /\ p.res # 0
             /\ Moves(h, [step(0, "giveUp") EXCEPT !.old = p.res])
             /\ UNCHANGED slot
          \/ \E r \in Slots : ReserveSlot(r, Extra, p.critical) /\ Moves(h, step(r, "raised"))
          \/ Moves(h, step(0, "raised")) /\ UNCHANGED slot
    BY <1>2 DEF Escalate
  <2> DEFINE up == [p EXCEPT !.est = @ + Extra]
             step(r, pc) == [NoStep EXCEPT !.pc = pc, !.plan = [up EXCEPT !.res = r]]
  <2>3. p \in PlanShape /\ p.res \in Slots \cup {0}
    BY <1>0 DEF PlanShape
  <2>4. up \in PlanShape
    <3>1. p.est + Extra \in Nat
      BY <1>0, <2>3 DEF PlanShape
    <3> QED
      BY <2>3, <3>1 DEF PlanShape
  <2>5. ASSUME NEW r \in Slots \cup {0}, NEW pc \in {"raised", "giveUp"}
        PROVE  /\ step(r, pc) \in StepShape /\ step(r, pc).plan.res = r /\ step(r, pc).pc = pc
    <3> HIDE DEF up
    <3>1. [up EXCEPT !.res = r] \in PlanShape /\ [up EXCEPT !.res = r].res = r
      BY <2>4 DEF PlanShape
    <3> QED
      BY <1>1, <3>1 DEF StepShape
  <2> HIDE DEF step
  <2>6. CASE /\ p.res # 0 /\ MayExtend(p.res, Extra)
             /\ slot' = [slot EXCEPT ![p.res].amount = @ + Extra]
             /\ Moves(h, step(p.res, "raised"))
    <3>1. p.res \in Slots /\ slot[p.res].amount + Extra \in Nat
      BY <1>0, <2>3, <2>6 DEF SlotShape
    <3>2. slot' = [slot EXCEPT ![p.res] = [slot[p.res] EXCEPT !.amount = slot[p.res].amount + Extra]]
      BY <1>0, <2>6, <3>1
    <3>3. slot' \in [Slots -> SlotShape] /\ \A q \in Slots : slot'[q].st = slot[q].st
      BY <1>0, <3>1, <3>2 DEF SlotShape
    <3> QED
      BY <2>0, <2>1, <2>3, <2>5, <2>6, <3>3, PlainRouted
  <2>7. CASE /\ p.res # 0
             /\ Moves(h, [step(0, "giveUp") EXCEPT !.old = p.res])
             /\ UNCHANGED slot
    <3> DEFINE s == [step(0, "giveUp") EXCEPT !.old = p.res]
    <3>1. s \in StepShape /\ s.plan.res = 0
      BY <2>3, <2>5 DEF StepShape
    <3>2. Moves(h, s)
      BY <2>7
    <3> HIDE DEF s
    <3> QED
      BY <1>0, <2>0, <2>1, <2>7, <3>1, <3>2, PlainRouted
  <2>8. ASSUME NEW r \in Slots, ReserveSlot(r, Extra, p.critical), Moves(h, step(r, "raised"))
        PROVE  Routed(h)
    <3>1. /\ slot' = [slot EXCEPT ![r] = [st |-> "reserved", amount |-> Extra, used |-> 0,
                                          critical |-> p.critical]]
          /\ slot[r].st = "absent" /\ p.critical \in BOOLEAN
      BY <2>3, <2>8 DEF ReserveSlot, NextSlot, PlanShape
    <3>2. /\ slot' \in [Slots -> SlotShape] /\ slot'[r].st = "reserved"
          /\ \A q \in Slots \ {r} : slot'[q] = slot[q]
      BY <1>0, <3>1 DEF SlotShape
    <3>3. /\ router' \in [Routers -> StepShape] /\ router'[h].pc = "raised"
          /\ router'[h].plan.res = r /\ \A d \in Routers \ {h} : router'[d] = router[d]
      BY <1>0, <2>5, <2>8, MovesTo
    <3>4. Shapes'
      BY <1>0, <2>0, <3>2, <3>3 DEF Shapes
    <3>5. Holds(h, r)'
      BY <3>3 DEF Holds, MyPlan
    <3>6. \A q \in Slots : Reserved(q)' => Reserved(q) \/ (slot[q].st = "absent" /\ Holds(h, q)')
      BY <3>1, <3>2, <3>5 DEF Reserved
    <3> QED
      BY <2>0, <2>1, <3>2, <3>3, <3>4, <3>6 DEF Routed
  <2>9. CASE Moves(h, step(0, "raised")) /\ UNCHANGED slot
    BY <1>0, <2>0, <2>1, <2>5, <2>9, PlainRouted
  <2> QED
    BY <2>2, <2>6, <2>7, <2>8, <2>9 DEF step
<1>3. CASE GiveUp(h)
  <2> DEFINE s == [router[h] EXCEPT !.pc = "raised", !.old = 0]
             q == router[h].old
  <2>1. /\ router[h].pc = "giveUp" /\ ReleaseSlot(q) /\ Moves(h, s)
        /\ UNCHANGED <<plans, soft, begun, astray>>
    BY <1>3 DEF GiveUp, Is, Unhistoric
  <2>2. s \in StepShape /\ s.plan = MyPlan(h) /\ s.pc = "raised"
    BY <1>0 DEF StepShape, MyPlan
  <2> HIDE DEF s
  <2>3. /\ router' \in [Routers -> StepShape] /\ router'[h] = s
        /\ \A d \in Routers \ {h} : router'[d] = router[d]
    BY <1>0, <2>1, <2>2, MovesTo
  <2>4. /\ slot' \in [Slots -> SlotShape]
        /\ \A r \in Slots : /\ slot[r].st # "absent" => slot'[r].st # "absent"
                            /\ Reserved(r)' => Reserved(r)
    <3>1. CASE Reserved(q)
      BY <1>0, <2>1, <3>1 DEF ReleaseSlot, Reserved, SlotShape
    <3>2. CASE ~Reserved(q)
      BY <1>0, <2>1, <3>2 DEF ReleaseSlot, Reserved
    <3> QED
      BY <3>1, <3>2
  <2>5. Shapes'
    BY <1>0, <2>1, <2>3, <2>4 DEF Shapes
  <2>6. \A r \in Slots : router'[h].plan.res = r => slot'[r].st # "absent"
    BY <2>2, <2>3, <2>4 DEF ReturnInv, Known
  <2>7. \A r \in Slots : ~Works(h, r) /\ ~Holds(h, r)
    BY <2>1 DEF Works, Holds
  <2> QED
    BY <2>1, <2>3, <2>4, <2>5, <2>6, <2>7 DEF Routed
<1>4. CASE StoreEscalated(h) \/ DropEscalated(h) \/ Perish(h)
  <2>1. /\ Moves(h, NoStep) /\ UNCHANGED <<slot, soft, begun>>
        /\ plans \subseteq plans' /\ plans' \subseteq plans \cup {MyPlan(h)}
        /\ astray \subseteq astray'
        /\ router[h].pc = "raised" \/ MyPlan(h).res = 0 \/ MyPlan(h).res \in astray'
        /\ MyPlan(h).res = 0 \/ MyPlan(h).res \in astray' \/ \E p \in plans' : p.res = MyPlan(h).res
    BY <1>4 DEF StoreEscalated, DropEscalated, Perish, StoresPlan, Leaves, Unhistoric, Is
  <2>2. /\ router' \in [Routers -> StepShape] /\ router'[h] = NoStep
        /\ \A d \in Routers \ {h} : router'[d] = router[d]
    BY <1>0, <1>1, <2>1, MovesTo
  <2>3. Shapes'
    BY <1>0, <2>1, <2>2 DEF Shapes
  <2>4. ASSUME NEW r \in Slots, r \notin astray'
        PROVE  /\ ~Works(h, r)
               /\ Holds(h, r) => \E p \in plans' : p.res = r
    BY <1>0, <2>1, <2>4 DEF Works, Holds
  <2>5. \A r \in Slots : (Reserved(r)' => Reserved(r)) /\ router'[h].plan.res # r
    BY <1>0, <1>1, <2>1, <2>2 DEF Reserved
  <2> QED
    BY <2>1, <2>2, <2>3, <2>4, <2>5 DEF Routed
<1> QED
  BY <1>2, <1>3, <1>4

-----------------------------------------------------------------------------
(* The theorems.                                                           *)

\* Nothing is reserved.
LEMMA InitReturn == BudgetInit => ReturnInv
<1> SUFFICES ASSUME BudgetInit PROVE ReturnInv
  OBVIOUS
<1>0. 0 \notin Slots
  BY SlotsArePositive
<1>1. NoStep \in StepShape /\ NoStep.plan.res = 0
  BY NoStepShape
<1>2. [st |-> "absent", amount |-> 0, used |-> 0, critical |-> FALSE] \in SlotShape
  BY DEF SlotShape
<1>3. Shapes
  BY <1>1, <1>2 DEF BudgetInit, Shapes
<1>4. \A h \in Routers : MyPlan(h).res = 0
  BY <1>1 DEF BudgetInit, MyPlan
<1>5. Known
  BY <1>0, <1>4 DEF BudgetInit, Known
<1>6. \A r \in Slots : ~Reserved(r)
  BY DEF BudgetInit, Reserved
<1>7. InHand
  BY <1>6 DEF InHand
<1> QED
  BY <1>3, <1>5, <1>7 DEF ReturnInv

\* A step of a call, of the author, or none.
LEMMA StepReturn == ReturnInv /\ [BudgetNext]_budgetVars => ReturnInv'
<1> SUFFICES ASSUME ReturnInv, [BudgetNext]_budgetVars PROVE ReturnInv'
  OBVIOUS
<1>1. ASSUME NEW h \in Routers, Routes(h) \/ Perish(h)
      PROVE  ReturnInv'
  BY <1>1, CallsRouted, EscalationsRouted, RoutedKeeps DEF Routes
<1>2. CASE UNCHANGED <<slot, plans, router, begun, astray>> /\ soft' \in BOOLEAN
  BY <1>2 DEF ReturnInv, Shapes, Known, InHand, Reserved, Works, Holds, MyPlan
<1>3. SetPolicy => UNCHANGED <<slot, plans, router, begun, astray>> /\ soft' \in BOOLEAN
  BY DEF SetPolicy, Unhistoric
<1>4. UNCHANGED budgetVars => UNCHANGED <<slot, plans, router, begun, astray>> /\ soft' \in BOOLEAN
  BY DEF budgetVars, ReturnInv, Shapes
<1> QED
  BY <1>1, <1>2, <1>3, <1>4 DEF BudgetNext

\* The inductive invariant of reservations.
THEOREM ReservationInvariant == BudgetSpec => []ReturnInv
  BY InitReturn, StepReturn, PTL DEF BudgetSpec

\* Units are held only for a call in progress or a stored plan not yet begun, unless
\* a process died or an escalation was dropped, for any costs, amounts and number of
\* concurrent calls and escalations.
THEOREM ReservationsComeBack == BudgetSpec => []ReservationsReturn
<1>1. ReturnInv => ReservationsReturn
  <2> SUFFICES ASSUME ReturnInv, NEW r \in Slots, Reserved(r), r \notin astray
               PROVE  \/ \E h \in Routers : r \in {MyPlan(h).res, router[h].old}
                      \/ r \notin begun /\ \E p \in plans : p.res = r
    BY DEF ReservationsReturn
  <2>1. /\ r \in begun => \E h \in Routers : Works(h, r)
        /\ (\E h \in Routers : Holds(h, r)) \/ (\E p \in plans : p.res = r)
    BY DEF ReturnInv, InHand
  <2> QED
    BY <2>1 DEF Works, Holds
<1> QED
  BY <1>1, ReservationInvariant, PTL

-----------------------------------------------------------------------------
(* Sums.                                                                   *)

Units == [Slots -> Nat]
IsSum(f, c, n) == f = [k \in 0..n |-> IF k = 0 THEN 0 ELSE f[k - 1] + c[k]]

\* Every set of numbers has a least one.
LEMMA LeastNumber ==
    ASSUME NEW S, S \subseteq Nat, S # {}
    PROVE  \E n \in S : \A m \in S : n <= m
<1> DEFINE Less == {ss \in Nat \X Nat : ss[1] < ss[2]}
<1>1. Less = OpToRel(<, Nat)
  BY DEF OpToRel
<1>2. IsWellFoundedOn(Less, Nat)
  BY <1>1, NatLessThanWellFounded, Zenon
<1>3. \A m, n \in Nat : <<m, n>> \notin Less => n <= m
  OBVIOUS
<1> HIDE DEF Less
<1>4. PICK n \in S : \A m \in S : <<m, n>> \notin Less
  BY <1>2, WFMin, Zenon
<1> QED
  BY <1>3, <1>4

\* The recursive definition of a sum has a solution ...
LEMMA SumExists ==
    ASSUME NEW c \in Units, NEW n \in 0..MaxReservations
    PROVE  \E f \in [0..n -> Nat] : IsSum(f, c, n)
<1>0. MaxReservations \in Nat
  BY BudgetAssumption
<1> DEFINE Without == {m \in 0..MaxReservations : ~ \E f \in [0..m -> Nat] : IsSum(f, c, m)}
<1> SUFFICES ASSUME Without # {} PROVE FALSE
  OBVIOUS
<1>1. Without \subseteq Nat
  BY <1>0
<1>2. PICK m \in Without : \A k \in Without : m <= k
  <2> HIDE DEF Without
  <2> QED
    BY <1>1, LeastNumber
<1>3. CASE m = 0
  <2> DEFINE f == [k \in 0..0 |-> 0]
  <2>1. f \in [0..0 -> Nat] /\ IsSum(f, c, 0)
    BY DEF IsSum
  <2> QED
    BY <1>2, <1>3, <2>1
<1>4. CASE m # 0
  <2>0. m \in 1..MaxReservations /\ m - 1 \in 0..MaxReservations
    BY <1>0, <1>2, <1>4
  <2>1. m - 1 \in 0..MaxReservations /\ m - 1 \notin Without /\ m \in 1..MaxReservations
    <3> HIDE DEF Without
    <3> QED
      BY <1>2, <2>0
  <2>2. PICK f \in [0..m - 1 -> Nat] : IsSum(f, c, m - 1)
    BY <2>1
  <2> DEFINE g == [k \in 0..m |-> IF k = m THEN f[m - 1] + c[m] ELSE f[k]]
  <2>3. c[m] \in Nat /\ f[m - 1] \in Nat
    BY <1>0, <2>1 DEF Units, Slots
  <2>4. g \in [0..m -> Nat]
    BY <2>1, <2>3
  <2>5. ASSUME NEW k \in 0..m PROVE g[k] = IF k = 0 THEN 0 ELSE g[k - 1] + c[k]
    <3>1. CASE k = m
      BY <2>1, <3>1
    <3>2. CASE k # m
      <4>1. k \in 0..m - 1 /\ g[k] = f[k] /\ (k # 0 => k - 1 \in 0..m - 1 /\ g[k - 1] = f[k - 1])
        BY <2>1, <3>2
      <4>2. f[k] = IF k = 0 THEN 0 ELSE f[k - 1] + c[k]
        BY <2>2, <4>1 DEF IsSum
      <4> QED
        BY <4>1, <4>2
    <3> QED
      BY <3>1, <3>2
  <2>6. IsSum(g, c, m)
    <3> HIDE DEF g
    <3> QED
      BY <2>4, <2>5 DEF IsSum
  <2> QED
    BY <1>2, <2>4, <2>6
<1> QED
  BY <1>3, <1>4

\* ... and only one, up to where it ends.
LEMMA SumUnique ==
    ASSUME NEW c \in Units, NEW n \in 0..MaxReservations, NEW m \in n..MaxReservations,
           NEW f, IsSum(f, c, n), NEW g \in [0..m -> Nat], IsSum(g, c, m), NEW k \in 0..n
    PROVE  f[k] = g[k]
<1>0. MaxReservations \in Nat
  BY BudgetAssumption
<1> DEFINE Apart == {i \in 0..n : f[i] # g[i]}
<1> SUFFICES ASSUME Apart # {} PROVE FALSE
  OBVIOUS
<1>1. Apart \subseteq Nat
  BY <1>0
<1>2. PICK i \in Apart : \A j \in Apart : i <= j
  <2> HIDE DEF Apart
  <2> QED
    BY <1>1, LeastNumber
<1>3. /\ f[i] = IF i = 0 THEN 0 ELSE f[i - 1] + c[i]
      /\ g[i] = IF i = 0 THEN 0 ELSE g[i - 1] + c[i]
  BY <1>0, <1>2 DEF IsSum
<1>4. i # 0 => i - 1 \in 0..n /\ i - 1 \notin Apart
  BY <1>0, <1>2
<1> QED
  BY <1>2, <1>3, <1>4

\* A sum is the sum without its last number, plus that number.
LEMMA SumStep ==
    ASSUME NEW c \in Units
    PROVE  /\ UnitsUpTo(c, 0) = 0
           /\ \A n \in 0..MaxReservations : UnitsUpTo(c, n) \in Nat
           /\ \A n \in Slots : UnitsUpTo(c, n) = UnitsUpTo(c, n - 1) + c[n]
<1>0. MaxReservations \in Nat
  BY BudgetAssumption
<1>1. ASSUME NEW n \in 0..MaxReservations, NEW g \in [0..n -> Nat], IsSum(g, c, n)
      PROVE  \A k \in 0..n : UnitsUpTo(c, k) = g[k]
  <2> SUFFICES ASSUME NEW k \in 0..n PROVE UnitsUpTo(c, k) = g[k]
    OBVIOUS
  <2>1. k \in 0..MaxReservations /\ n \in k..MaxReservations /\ k \in 0..k
    BY <1>0
  <2> DEFINE h == CHOOSE f : f = [i \in 0..k |-> IF i = 0 THEN 0 ELSE f[i - 1] + c[i]]
  <2>2. \E f : IsSum(f, c, k)
    BY <2>1, SumExists
  <2>3. IsSum(h, c, k)
    BY <2>2, Zenon DEF IsSum
  <2>4. UnitsUpTo(c, k) = h[k]
    BY Zenon DEF UnitsUpTo
  <2> HIDE DEF h
  <2> QED
    BY <1>1, <2>1, <2>3, <2>4, SumUnique
<1>2. \A n \in 0..MaxReservations : \E g \in [0..n -> Nat] : IsSum(g, c, n)
  BY SumExists
<1>3. UnitsUpTo(c, 0) = 0
  <2>1. 0 \in 0..MaxReservations /\ 0 \in 0..0
    BY <1>0
  <2>2. PICK g \in [0..0 -> Nat] : IsSum(g, c, 0)
    BY <1>2, <2>1
  <2>3. UnitsUpTo(c, 0) = g[0]
    BY <1>1, <2>1, <2>2
  <2> QED
    BY <2>1, <2>2, <2>3 DEF IsSum
<1>4. ASSUME NEW n \in 0..MaxReservations PROVE UnitsUpTo(c, n) \in Nat
  <2>1. n \in 0..n
    BY <1>0
  <2> QED
    BY <1>1, <1>2, <2>1
<1>5. ASSUME NEW n \in Slots PROVE UnitsUpTo(c, n) = UnitsUpTo(c, n - 1) + c[n]
  <2>1. n \in 0..MaxReservations /\ n \in 0..n /\ n - 1 \in 0..n /\ n # 0
    BY <1>0 DEF Slots
  <2>2. PICK g \in [0..n -> Nat] : IsSum(g, c, n)
    BY <1>2, <2>1
  <2>3. UnitsUpTo(c, n) = g[n] /\ UnitsUpTo(c, n - 1) = g[n - 1]
    BY <1>1, <2>1, <2>2
  <2>4. g[n] = g[n - 1] + c[n]
    BY <2>1, <2>2 DEF IsSum
  <2> QED
    BY <2>3, <2>4
<1> QED
  BY <1>3, <1>4, <1>5

\* Two sums that differ in one number differ by what it differs by.
LEMMA SumChange ==
    ASSUME NEW c \in Units, NEW d \in Units, NEW r \in Slots, \A k \in Slots \ {r} : c[k] = d[k]
    PROVE  UnitsUpTo(d, MaxReservations) + c[r] = UnitsUpTo(c, MaxReservations) + d[r]
<1>0. MaxReservations \in Nat /\ r \in Nat \ {0} /\ r <= MaxReservations
  BY BudgetAssumption DEF Slots
<1> DEFINE Apart == {n \in 0..MaxReservations :
                        ~ IF n < r THEN UnitsUpTo(d, n) = UnitsUpTo(c, n)
                          ELSE UnitsUpTo(d, n) + c[r] = UnitsUpTo(c, n) + d[r]}
<1>1. Apart = {}
  <2> SUFFICES ASSUME Apart # {} PROVE FALSE
    OBVIOUS
  <2>1. Apart \subseteq Nat
    BY <1>0
  <2>2. PICK n \in Apart : \A m \in Apart : n <= m
    <3> HIDE DEF Apart
    <3> QED
      BY <2>1, LeastNumber
  <2>3. n # 0
    BY <1>0, <2>2, SumStep
  <2>4. n \in Slots /\ n - 1 \in 0..MaxReservations /\ n - 1 \notin Apart /\ n \in 0..MaxReservations
    BY <1>0, <2>2, <2>3 DEF Slots
  <2>5. /\ UnitsUpTo(c, n) = UnitsUpTo(c, n - 1) + c[n]
        /\ UnitsUpTo(d, n) = UnitsUpTo(d, n - 1) + d[n]
        /\ UnitsUpTo(c, n - 1) \in Nat /\ UnitsUpTo(d, n - 1) \in Nat
    BY <2>4, SumStep
  <2>6. c[n] \in Nat /\ d[n] \in Nat /\ c[r] \in Nat /\ d[r] \in Nat
    BY <2>4 DEF Units
  <2>7. IF n - 1 < r THEN UnitsUpTo(d, n - 1) = UnitsUpTo(c, n - 1)
        ELSE UnitsUpTo(d, n - 1) + c[r] = UnitsUpTo(c, n - 1) + d[r]
    BY <2>4
  <2>8. IF n < r THEN UnitsUpTo(d, n) = UnitsUpTo(c, n)
        ELSE UnitsUpTo(d, n) + c[r] = UnitsUpTo(c, n) + d[r]
    <3>1. CASE n < r
      BY <1>0, <2>4, <2>5, <2>6, <2>7, <3>1
    <3>2. CASE n = r
      BY <1>0, <2>4, <2>5, <2>6, <2>7, <3>2
    <3>3. CASE n > r
      <4>1. c[n] = d[n] /\ ~(n - 1 < r) /\ ~(n < r)
        BY <1>0, <2>4, <3>3
      <4> QED
        BY <2>5, <2>6, <2>7, <4>1
    <3> QED
      BY <1>0, <2>4, <3>1, <3>2, <3>3
  <2> QED
    BY <2>2, <2>8
<1>2. MaxReservations \notin Apart /\ ~(MaxReservations < r) /\ MaxReservations \in 0..MaxReservations
  <2> HIDE DEF Apart
  <2> QED
    BY <1>0, <1>1
<1> QED
  BY <1>2

\* The larger the numbers, the larger their sum.
LEMMA SumGrows ==
    ASSUME NEW c \in Units, NEW d \in Units, \A k \in Slots : c[k] <= d[k]
    PROVE  UnitsUpTo(c, MaxReservations) <= UnitsUpTo(d, MaxReservations)
<1>0. MaxReservations \in Nat
  BY BudgetAssumption
<1> DEFINE Apart == {n \in 0..MaxReservations : ~(UnitsUpTo(c, n) <= UnitsUpTo(d, n))}
<1>1. Apart = {}
  <2> SUFFICES ASSUME Apart # {} PROVE FALSE
    OBVIOUS
  <2>1. Apart \subseteq Nat
    BY <1>0
  <2>2. PICK n \in Apart : \A m \in Apart : n <= m
    <3> HIDE DEF Apart
    <3> QED
      BY <2>1, LeastNumber
  <2>3. n # 0
    BY <1>0, <2>2, SumStep
  <2>4. n \in Slots /\ n - 1 \in 0..MaxReservations /\ n - 1 \notin Apart
    BY <1>0, <2>2, <2>3 DEF Slots
  <2>5. /\ UnitsUpTo(c, n) = UnitsUpTo(c, n - 1) + c[n]
        /\ UnitsUpTo(d, n) = UnitsUpTo(d, n - 1) + d[n]
        /\ UnitsUpTo(c, n - 1) \in Nat /\ UnitsUpTo(d, n - 1) \in Nat
    BY <2>4, SumStep
  <2>6. c[n] \in Nat /\ d[n] \in Nat /\ c[n] <= d[n]
    BY <2>4 DEF Units
  <2> QED
    BY <2>2, <2>4, <2>5, <2>6
<1>2. MaxReservations \notin Apart /\ MaxReservations \in 0..MaxReservations
  <2> HIDE DEF Apart
  <2> QED
    BY <1>0, <1>1
<1> QED
  BY <1>2

-----------------------------------------------------------------------------
(* The account.                                                            *)

\* What a row takes from the account, and from the part open to normal plans.
ChargeOf(row) == CASE row.st = "absent" -> 0
                   [] row.st = "reserved" -> row.amount
                   [] OTHER -> row.used
NormalChargeOf(row) == IF row.critical THEN 0 ELSE ChargeOf(row)

\* The rows are within the account.
RowsFit ==
    /\ slot \in [Slots -> ReservationRow]
    /\ \A r \in Slots : slot[r].used <= slot[r].amount
    /\ BudgetKept

\* Every way in which a transaction changes the table.
SlotStep ==
    \/ UNCHANGED slot
    \/ \E r \in Slots, amount \in Nat, critical \in BOOLEAN :
          Fits(amount, critical) /\ ReserveSlot(r, amount, critical)
    \/ \E r \in Slots : /\ MayExtend(r, Extra)
                        /\ slot' = [slot EXCEPT ![r].amount = @ + Extra]
    \/ \E r \in Slots, units \in Nat : /\ Reserved(r) /\ Covers(r, units)
                                       /\ slot' = [slot EXCEPT ![r].used = @ + units]
    \/ \E r \in Slots \cup {0} : ReleaseSlot(r)

\* The account as a sum over rows.
TypedRows == slot \in [Slots -> SlotShape]
AccountIsSum ==
    LET c == [r \in Slots |-> ChargeOf(slot[r])]
        d == [r \in Slots |-> NormalChargeOf(slot[r])]
    IN  /\ c \in Units /\ Taken(Slots) = UnitsUpTo(c, MaxReservations)
        /\ d \in Units
        /\ Taken({r \in Slots : ~slot[r].critical}) = UnitsUpTo(d, MaxReservations)

LEMMA TakenIsSum == TypedRows => AccountIsSum
<1> SUFFICES ASSUME TypedRows PROVE AccountIsSum
  OBVIOUS
<1> USE DEF TypedRows
<1> DEFINE c == [r \in Slots |-> ChargeOf(slot[r])]
           d == [r \in Slots |-> NormalChargeOf(slot[r])]
           normal == {r \in Slots : ~slot[r].critical}
<1>1. \A r \in Slots : ChargeOf(slot[r]) \in Nat /\ NormalChargeOf(slot[r]) \in Nat
  BY DEF ChargeOf, NormalChargeOf, SlotShape
<1>2. c \in Units /\ d \in Units
  BY <1>1 DEF Units
<1>3. Counted(Slots) = c
  BY DEF Counted, Charge, ChargeOf, SlotShape
<1>4. Counted(normal) = d
  <2>1. \A r \in Slots : Counted(normal)[r] = d[r]
    BY DEF Counted, Charge, ChargeOf, NormalChargeOf, SlotShape
  <2>2. Counted(normal) = [r \in Slots |-> Counted(normal)[r]]
    BY DEF Counted
  <2> HIDE DEF normal
  <2> QED
    BY <2>1, <2>2
<1> HIDE DEF normal
<1>5. /\ Taken(Slots) = UnitsUpTo(c, MaxReservations)
      /\ Taken(normal) = UnitsUpTo(d, MaxReservations)
  BY <1>3, <1>4 DEF Taken
<1> QED
  BY <1>2, <1>5 DEF normal, AccountIsSum

LEMMA TakenIsSumNext == TypedRows' => AccountIsSum'
  BY TakenIsSum, PTL

\* A row never takes more than the sum.
LEMMA RowWithinTaken ==
    ASSUME slot \in [Slots -> SlotShape], NEW r \in Slots
    PROVE  Taken(Slots) \in Nat /\ ChargeOf(slot[r]) \in Nat /\ ChargeOf(slot[r]) <= Taken(Slots)
<1>0. MaxReservations \in 0..MaxReservations
  BY BudgetAssumption
<1> DEFINE c == [k \in Slots |-> ChargeOf(slot[k])]
           b == [k \in Slots |-> IF k = r THEN 0 ELSE c[k]]
<1>1. c \in Units /\ Taken(Slots) = UnitsUpTo(c, MaxReservations) /\ c[r] = ChargeOf(slot[r])
  BY TakenIsSum DEF TypedRows, AccountIsSum
<1> HIDE DEF c
<1>2. b \in Units /\ b[r] = 0 /\ \A k \in Slots \ {r} : c[k] = b[k]
  BY <1>1 DEF Units
<1> HIDE DEF b
<1>3. UnitsUpTo(b, MaxReservations) + c[r] = UnitsUpTo(c, MaxReservations) + b[r]
  BY <1>1, <1>2, SumChange
<1>4. UnitsUpTo(b, MaxReservations) \in Nat /\ UnitsUpTo(c, MaxReservations) \in Nat
  BY <1>0, <1>1, <1>2, SumStep
<1>5. c[r] \in Nat
  BY <1>1 DEF Units
<1> QED
  BY <1>1, <1>2, <1>3, <1>4, <1>5

\* When one row changes, the account changes by what the row takes.
LEMMA RowChanges ==
    ASSUME slot \in [Slots -> SlotShape], NEW r \in Slots, NEW row \in SlotShape,
           slot' = [slot EXCEPT ![r] = row]
    PROVE  LET normal == {q \in Slots : ~slot[q].critical} IN
           /\ Taken(Slots) \in Nat /\ Taken(Slots)' \in Nat
           /\ Taken(normal) \in Nat /\ Taken(normal)' \in Nat
           /\ Taken(normal) <= Taken(Slots)
           /\ Taken(Slots)' + ChargeOf(slot[r]) = Taken(Slots) + ChargeOf(row)
           /\ Taken(normal)' + NormalChargeOf(slot[r]) = Taken(normal) + NormalChargeOf(row)
<1> DEFINE normal == {q \in Slots : ~slot[q].critical}
           c == [q \in Slots |-> ChargeOf(slot[q])]
           d == [q \in Slots |-> NormalChargeOf(slot[q])]
           e == [q \in Slots |-> ChargeOf(slot'[q])]
           f == [q \in Slots |-> NormalChargeOf(slot'[q])]
<1>0. MaxReservations \in 0..MaxReservations
  BY BudgetAssumption
<1>1. slot' \in [Slots -> SlotShape] /\ slot'[r] = row /\ \A q \in Slots \ {r} : slot'[q] = slot[q]
  OBVIOUS
<1>2. /\ c \in Units /\ Taken(Slots) = UnitsUpTo(c, MaxReservations)
      /\ d \in Units /\ Taken(normal) = UnitsUpTo(d, MaxReservations)
  BY TakenIsSum DEF TypedRows, AccountIsSum
<1>3. /\ e \in Units /\ Taken(Slots)' = UnitsUpTo(e, MaxReservations)
      /\ f \in Units /\ Taken(normal)' = UnitsUpTo(f, MaxReservations)
  BY <1>1, TakenIsSumNext DEF TypedRows, AccountIsSum
<1>4. /\ \A q \in Slots \ {r} : c[q] = e[q] /\ d[q] = f[q]
      /\ c[r] = ChargeOf(slot[r]) /\ e[r] = ChargeOf(row)
      /\ d[r] = NormalChargeOf(slot[r]) /\ f[r] = NormalChargeOf(row)
  BY <1>1
<1>5. \A q \in Slots : d[q] <= c[q]
  BY DEF NormalChargeOf, ChargeOf, SlotShape
<1> HIDE DEF normal, c, d, e, f
<1>6. /\ UnitsUpTo(c, MaxReservations) \in Nat /\ UnitsUpTo(d, MaxReservations) \in Nat
      /\ UnitsUpTo(e, MaxReservations) \in Nat /\ UnitsUpTo(f, MaxReservations) \in Nat
  BY <1>0, <1>2, <1>3, SumStep
<1>7. UnitsUpTo(d, MaxReservations) <= UnitsUpTo(c, MaxReservations)
  BY <1>2, <1>5, SumGrows
<1>8. /\ UnitsUpTo(e, MaxReservations) + c[r] = UnitsUpTo(c, MaxReservations) + e[r]
      /\ UnitsUpTo(f, MaxReservations) + d[r] = UnitsUpTo(d, MaxReservations) + f[r]
  BY <1>2, <1>3, <1>4, SumChange
<1> QED
  BY <1>2, <1>3, <1>4, <1>6, <1>7, <1>8 DEF normal

\* A row with one field changed.
LEMMA RowEdited ==
    ASSUME NEW q \in SlotShape, NEW v
    PROVE  /\ [q EXCEPT !.st = v] = [st |-> v, amount |-> q.amount, used |-> q.used,
                                    critical |-> q.critical]
           /\ [q EXCEPT !.amount = v] = [st |-> q.st, amount |-> v, used |-> q.used,
                                        critical |-> q.critical]
           /\ [q EXCEPT !.used = v] = [st |-> q.st, amount |-> q.amount, used |-> v,
                                      critical |-> q.critical]
  BY DEF SlotShape

\* Rows within the account stay within it, whoever changes them.
LEMMA RowsKept ==
    ASSUME RowsFit, SlotStep
    PROVE  RowsFit'
<1> DEFINE normal == {q \in Slots : ~slot[q].critical}
<1>0. /\ slot \in [Slots -> SlotShape] /\ Total \in Nat /\ CriticalReserve \in Nat
      /\ Extra \in Nat
  BY BudgetAssumption DEF RowsFit, ReservationRow, SlotShape
<1>1. ASSUME NEW r \in Slots, NEW row \in SlotShape, slot' = [slot EXCEPT ![r] = row],
             row.used <= row.amount,
             \/ ChargeOf(row) <= ChargeOf(slot[r]) /\ (slot[r].critical => row.critical)
                /\ row.amount <= Total
             \/ /\ ChargeOf(row) = row.amount
                /\ (row.amount - ChargeOf(slot[r])) + Taken(Slots)
                      + (IF row.critical THEN 0 ELSE CriticalReserve) <= Total
                /\ slot[r].st # "absent" => row.critical = slot[r].critical
      PROVE  RowsFit'
  <2>1. /\ Taken(Slots) \in Nat /\ Taken(Slots)' \in Nat
        /\ Taken(normal) \in Nat /\ Taken(normal)' \in Nat
        /\ Taken(normal) <= Taken(Slots)
        /\ Taken(Slots)' + ChargeOf(slot[r]) = Taken(Slots) + ChargeOf(row)
        /\ Taken(normal)' + NormalChargeOf(slot[r]) = Taken(normal) + NormalChargeOf(row)
    BY <1>0, <1>1, RowChanges
  <2>2. /\ ChargeOf(row) \in Nat /\ ChargeOf(slot[r]) \in Nat
        /\ row.amount \in Nat /\ row.used \in Nat /\ row.critical \in BOOLEAN
        /\ slot[r].critical \in BOOLEAN
    BY <1>0, <1>1 DEF ChargeOf, SlotShape
  <2>3. ChargeOf(slot[r]) <= Taken(Slots)
    BY <1>0, RowWithinTaken
  <2>4. Taken(Slots) <= Total /\ Taken(normal) + CriticalReserve <= Total
    BY DEF RowsFit, BudgetKept
  <2>5. slot[r].st = "absent" => ChargeOf(slot[r]) = 0
    BY DEF ChargeOf
  <2>6. /\ NormalChargeOf(row) = IF row.critical THEN 0 ELSE ChargeOf(row)
        /\ NormalChargeOf(slot[r]) = IF slot[r].critical THEN 0 ELSE ChargeOf(slot[r])
    BY DEF NormalChargeOf
  <2> HIDE DEF normal
  <2>7. Taken(Slots)' <= Total /\ Taken(normal)' + CriticalReserve <= Total
    <3>1. CASE /\ ChargeOf(row) <= ChargeOf(slot[r]) /\ (slot[r].critical => row.critical)
      BY <1>0, <2>1, <2>2, <2>4, <2>6, <3>1
    <3>2. CASE /\ ChargeOf(row) = row.amount
               /\ (row.amount - ChargeOf(slot[r])) + Taken(Slots)
                     + (IF row.critical THEN 0 ELSE CriticalReserve) <= Total
               /\ slot[r].st # "absent" => row.critical = slot[r].critical
      <4>1. CASE row.critical
        BY <1>0, <2>1, <2>2, <2>4, <2>6, <3>2, <4>1
      <4>2. CASE ~row.critical /\ slot[r].st # "absent"
        BY <1>0, <2>1, <2>2, <2>4, <2>6, <3>2, <4>2
      <4>3. CASE ~row.critical /\ slot[r].st = "absent"
        BY <1>0, <2>1, <2>2, <2>4, <2>5, <2>6, <3>2, <4>3
      <4> QED
        BY <4>1, <4>2, <4>3
    <3> QED
      BY <1>1, <3>1, <3>2
  <2>8. row.amount <= Total
    BY <1>0, <1>1, <2>1, <2>2, <2>3, <2>4, <2>7
  <2>9. row \in ReservationRow
    BY <1>0, <1>1, <2>2, <2>8 DEF SlotShape, ReservationRow
  <2>10. slot' \in [Slots -> ReservationRow] /\ \A q \in Slots : slot'[q].used <= slot'[q].amount
    BY <1>1, <2>9 DEF RowsFit
  <2> QED
    BY <2>7, <2>10 DEF RowsFit, BudgetKept, normal
<1>2. ASSUME NEW r \in Slots, NEW amount \in Nat, NEW critical \in BOOLEAN,
             Fits(amount, critical), ReserveSlot(r, amount, critical)
      PROVE  RowsFit'
  <2> DEFINE row == [st |-> "reserved", amount |-> amount, used |-> 0, critical |-> critical]
  <2>1. row \in SlotShape /\ row.used <= row.amount /\ ChargeOf(row) = row.amount
        /\ row.amount = amount /\ row.critical = critical
    BY DEF SlotShape, ChargeOf
  <2>2. slot' = [slot EXCEPT ![r] = row] /\ slot[r].st = "absent" /\ ChargeOf(slot[r]) = 0
    BY <1>2 DEF ReserveSlot, NextSlot, ChargeOf
  <2> HIDE DEF row
  <2>3. (row.amount - 0) + Taken(Slots) + (IF row.critical THEN 0 ELSE CriticalReserve) <= Total
    <3>1. Taken(Slots) \in Nat
      BY <1>0, RowWithinTaken
    <3> QED
      BY <1>0, <1>2, <2>1, <3>1 DEF Fits
  <2> QED
    BY <1>1, <2>1, <2>2, <2>3
<1>3. ASSUME NEW r \in Slots, MayExtend(r, Extra), slot' = [slot EXCEPT ![r].amount = @ + Extra]
      PROVE  RowsFit'
  <2> DEFINE row == [st |-> slot[r].st, amount |-> slot[r].amount + Extra, used |-> slot[r].used,
                     critical |-> slot[r].critical]
  <2>1. /\ slot[r].st = "reserved" /\ slot[r].amount \in Nat /\ slot[r].used \in Nat
        /\ slot[r].critical \in BOOLEAN /\ slot[r].used <= slot[r].amount
    <3>1. slot[r] \in SlotShape
      BY <1>0
    <3> QED
      BY <1>3, <3>1 DEF SlotShape, MayExtend, Reserved, RowsFit
  <2>2. slot' = [slot EXCEPT ![r] = row]
    <3>1. slot[r] \in SlotShape
      BY <1>0
    <3>2. [slot[r] EXCEPT !.amount = slot[r].amount + Extra] = row
      BY <3>1, RowEdited
    <3> HIDE DEF row
    <3> QED
      BY <1>0, <1>3, <3>2
  <2>3. /\ row \in SlotShape /\ row.used <= row.amount /\ ChargeOf(row) = row.amount
        /\ row.amount = slot[r].amount + Extra /\ row.critical = slot[r].critical
        /\ ChargeOf(slot[r]) = slot[r].amount
    BY <1>0, <2>1 DEF SlotShape, ChargeOf
  <2> HIDE DEF row
  <2>4. (row.amount - ChargeOf(slot[r])) + Taken(Slots)
           + (IF row.critical THEN 0 ELSE CriticalReserve) <= Total
    <3>1. Taken(Slots) \in Nat
      BY <1>0, RowWithinTaken
    <3> QED
      BY <1>0, <1>3, <2>1, <2>3, <3>1 DEF MayExtend, Fits
  <2> QED
    BY <1>1, <2>2, <2>3, <2>4
<1>4. ASSUME NEW r \in Slots, NEW units \in Nat, Reserved(r), Covers(r, units),
             slot' = [slot EXCEPT ![r].used = @ + units]
      PROVE  RowsFit'
  <2> DEFINE row == [st |-> slot[r].st, amount |-> slot[r].amount, used |-> slot[r].used + units,
                     critical |-> slot[r].critical]
  <2>1. /\ slot[r].st = "reserved" /\ slot[r].amount \in 0..Total /\ slot[r].used \in Nat
        /\ slot[r].critical \in BOOLEAN
    <3>1. slot[r] \in SlotShape /\ slot[r].amount \in 0..Total
      BY <1>0 DEF RowsFit, ReservationRow
    <3> QED
      BY <1>4, <3>1 DEF SlotShape, Reserved
  <2>2. slot' = [slot EXCEPT ![r] = row]
    <3>1. slot[r] \in SlotShape
      BY <1>0
    <3>2. [slot[r] EXCEPT !.used = slot[r].used + units] = row
      BY <3>1, RowEdited
    <3> HIDE DEF row
    <3> QED
      BY <1>0, <1>4, <3>2
  <2>3. /\ row \in SlotShape /\ row.used <= row.amount /\ ChargeOf(row) = slot[r].amount
        /\ row.amount <= Total /\ row.critical = slot[r].critical
        /\ ChargeOf(slot[r]) = slot[r].amount
    BY <1>0, <1>4, <2>1 DEF SlotShape, ChargeOf, Covers
  <2> HIDE DEF row
  <2> QED
    <3>1. ChargeOf(row) <= ChargeOf(slot[r])
      BY <1>0, <2>1, <2>3
    <3> QED
      BY <1>1, <2>2, <2>3, <3>1
<1>5. CASE UNCHANGED slot
  BY <1>5 DEF RowsFit, BudgetKept, Taken, Counted, Charge
<1>6. ASSUME NEW r \in Slots \cup {0}, ReleaseSlot(r)
      PROVE  RowsFit'
  <2>0. CASE ~Reserved(r)
    BY <1>6, <1>5, <2>0 DEF ReleaseSlot
  <2> SUFFICES ASSUME Reserved(r) PROVE RowsFit'
    BY <2>0
  <2> DEFINE row == [st |-> "released", amount |-> slot[r].amount, used |-> slot[r].used,
                     critical |-> slot[r].critical]
  <2>1. /\ r \in Slots
        /\ slot[r].st = "reserved" /\ slot[r].amount \in 0..Total /\ slot[r].used \in Nat
        /\ slot[r].critical \in BOOLEAN /\ slot[r].used <= slot[r].amount
    <3>1. r \in Slots /\ slot[r].st = "reserved"
      BY DEF Reserved
    <3>2. slot[r] \in SlotShape /\ slot[r].amount \in 0..Total /\ slot[r].used <= slot[r].amount
      BY <1>0, <3>1 DEF RowsFit, ReservationRow
    <3> QED
      BY <3>1, <3>2 DEF SlotShape
  <2>2. slot' = [slot EXCEPT ![r] = row]
    <3>1. slot[r] \in SlotShape
      BY <1>0, <2>1
    <3>2. [slot[r] EXCEPT !.st = "released"] = row
      BY <3>1, RowEdited
    <3> HIDE DEF row
    <3> QED
      BY <1>0, <1>6, <3>2 DEF ReleaseSlot
  <2>3. /\ row \in SlotShape /\ row.used <= row.amount /\ ChargeOf(row) = slot[r].used
        /\ row.amount <= Total /\ row.critical = slot[r].critical
        /\ ChargeOf(slot[r]) = slot[r].amount
    BY <1>0, <2>1 DEF SlotShape, ChargeOf
  <2> HIDE DEF row
  <2> QED
    BY <1>1, <2>1, <2>2, <2>3
<1> QED
  BY <1>2, <1>3, <1>4, <1>6, <1>5 DEF SlotStep


\* What any step of a call may do to the tables and to its own state.
WithinAccount(h) ==
    /\ SlotStep
    /\ \E s \in Step : Moves(h, s)
    /\ plans' \subseteq PlanRecord /\ soft' \in BOOLEAN /\ losses' \in 0..MaxLosses
    /\ begun' \subseteq Slots /\ astray' \subseteq Slots

LEMMA WithinAccountKeeps ==
    ASSUME BudgetTypeOK, BudgetKept, NEW h \in Routers, WithinAccount(h)
    PROVE  BudgetTypeOK' /\ BudgetKept'
<1>1. RowsFit'
  BY RowsKept DEF WithinAccount, RowsFit, BudgetTypeOK
<1>2. router' \in [Routers -> Step]
  BY DEF WithinAccount, Moves, BudgetTypeOK
<1> QED
  BY <1>1, <1>2 DEF WithinAccount, RowsFit, BudgetTypeOK

\* What the type of a call says.
LEMMA CallTyped ==
    ASSUME BudgetTypeOK, NEW h \in Routers
    PROVE  /\ router[h] \in Step /\ MyPlan(h) \in PlanRecord
           /\ MyPlan(h).res \in Slots \cup {0} /\ MyPlan(h).est \in 0..MaxEstimate
           /\ router[h].old \in Slots \cup {0} /\ router[h].units \in 0..MaxEstimate
           /\ router[h].spare \in BOOLEAN /\ router[h].again \in BOOLEAN
           /\ NoStep \in Step
           /\ plans \subseteq PlanRecord /\ soft \in BOOLEAN /\ losses \in 0..MaxLosses
           /\ begun \subseteq Slots /\ astray \subseteq Slots
           /\ MaxEstimate \in Nat /\ MaxLosses \in Nat /\ 0 \notin Slots
           /\ Costs \subseteq 1..MaxEstimate /\ Reports \subseteq Nat /\ Extra \in Nat
<1>1. router[h] \in Step
  BY DEF BudgetTypeOK
<1>2. MyPlan(h) \in PlanRecord
  BY <1>1 DEF MyPlan, Step
<1>3. NoStep \in Step
  BY BudgetAssumption DEF NoStep, Step, PlanRecord
<1> QED
  BY <1>1, <1>2, <1>3, BudgetAssumption DEF BudgetTypeOK, Step, PlanRecord, Slots

\* A plan is made, within the account or without a reservation.
LEMMA ReservesWithin ==
    ASSUME BudgetTypeOK, NEW h \in Routers, NEW spare \in BOOLEAN, Reserves(h, spare)
    PROVE  SlotStep /\ \E s \in Step : Moves(h, s)
<1>0. NoStep \in Step /\ Costs \subseteq 1..MaxEstimate /\ MaxEstimate \in Nat
  BY CallTyped
<1>1. PICK est \in Costs, critical \in BOOLEAN :
        LET step(r) == [NoStep EXCEPT !.pc = "planned", !.spare = spare,
                           !.plan = [res |-> r, est |-> est, critical |-> critical]]
        IN  \/ /\ Fits(est, critical)
               /\ \E r \in Slots : ReserveSlot(r, est, critical) /\ Moves(h, step(r))
            \/ Moves(h, step(0)) /\ UNCHANGED slot
  BY DEF Reserves
<1> DEFINE step(r) == [NoStep EXCEPT !.pc = "planned", !.spare = spare,
                          !.plan = [res |-> r, est |-> est, critical |-> critical]]
<1>2. est \in Nat /\ est \in 0..MaxEstimate
  BY <1>0
<1>3. \A r \in Slots \cup {0} : step(r) \in Step
  BY <1>0, <1>2 DEF Step, PlanRecord
<1> HIDE DEF step
<1>4. CASE /\ Fits(est, critical)
           /\ \E r \in Slots : ReserveSlot(r, est, critical) /\ Moves(h, step(r))
  BY <1>2, <1>3, <1>4 DEF SlotStep
<1>5. CASE Moves(h, step(0)) /\ UNCHANGED slot
  BY <1>3, <1>5 DEF SlotStep
<1> QED
  BY <1>1, <1>4, <1>5 DEF step

\* Planning, execution and settlement stay within the account.
LEMMA CallsWithin ==
    ASSUME BudgetTypeOK, BudgetKept, NEW h \in Routers,
           \/ Plan(h) \/ StorePlan(h) \/ DropPlan(h) \/ SelectPlan(h) \/ FindUnready(h)
           \/ StartTurn(h) \/ EndTurn(h) \/ ConsumeUnits(h) \/ ReleaseUnits(h) \/ Replan(h)
    PROVE  WithinAccount(h)
<1>0. /\ router[h] \in Step /\ MyPlan(h) \in PlanRecord
      /\ MyPlan(h).res \in Slots \cup {0} /\ MyPlan(h).est \in 0..MaxEstimate
      /\ router[h].units \in 0..MaxEstimate
      /\ router[h].spare \in BOOLEAN /\ router[h].again \in BOOLEAN
      /\ NoStep \in Step
      /\ plans \subseteq PlanRecord /\ soft \in BOOLEAN /\ losses \in 0..MaxLosses
      /\ begun \subseteq Slots /\ astray \subseteq Slots
      /\ MaxEstimate \in Nat /\ 0 \notin Slots
      /\ Costs \subseteq 1..MaxEstimate /\ Reports \subseteq Nat
  BY CallTyped
<1>1. \A pc \in {"begin", "running", "release", "replan"} : [router[h] EXCEPT !.pc = pc] \in Step
  BY <1>0 DEF Step
<1>2. ASSUME NEW pc \in {"begin", "running", "release", "replan"}, Gets(h, pc)
      PROVE  \E s \in Step : Moves(h, s)
  BY <1>1, <1>2 DEF Gets
<1>3. ASSUME Leaves(h) PROVE \E s \in Step : Moves(h, s)
  BY <1>0, <1>3 DEF Leaves
<1>4. ASSUME ReleaseSlot(MyPlan(h).res) PROVE SlotStep
  BY <1>0, <1>4 DEF SlotStep
<1>5. CASE Plan(h)
  BY <1>0, <1>5, ReservesWithin DEF Plan, WithinAccount, Unhistoric
<1>6. CASE StorePlan(h)
  BY <1>0, <1>2, <1>6 DEF StorePlan, StoresPlan, WithinAccount, Unhistoric, SlotStep
<1>7. CASE DropPlan(h)
  BY <1>0, <1>3, <1>4, <1>7 DEF DropPlan, WithinAccount, Unhistoric
<1>8. CASE SelectPlan(h)
  <2>1. PICK p \in plans :
           Moves(h, [NoStep EXCEPT !.pc = "begin", !.spare = TRUE, !.plan = p])
    BY <1>8 DEF SelectPlan
  <2>2. [NoStep EXCEPT !.pc = "begin", !.spare = TRUE, !.plan = p] \in Step
    BY <1>0 DEF Step
  <2> QED
    BY <1>0, <1>8, <2>1, <2>2 DEF SelectPlan, WithinAccount, Unhistoric, SlotStep
<1>9. CASE FindUnready(h)
  BY <1>0, <1>2, <1>3, <1>9 DEF FindUnready, WithinAccount, Unhistoric, SlotStep
<1>10. CASE StartTurn(h)
  BY <1>0, <1>2, <1>10 DEF StartTurn, WithinAccount, SlotStep
<1>11. CASE EndTurn(h)
  <2>1. \E s \in Step : Moves(h, s)
    <3>1. CASE MyPlan(h).res = 0
      BY <1>2, <1>3, <1>11, <3>1 DEF EndTurn
    <3>2. CASE MyPlan(h).res # 0
      <4>1. PICK ok \in BOOLEAN, may \in BOOLEAN :
               \E u \in {AtMost(k, MyPlan(h).est) : k \in Reports}
                        \cup {IF ok THEN MyPlan(h).est ELSE 0} :
                  Moves(h, [router[h] EXCEPT !.pc = "consume", !.units = u,
                                             !.again = ~ok /\ may /\ router[h].spare])
        BY <1>11, <3>2 DEF EndTurn
      <4>2. PICK units \in {AtMost(k, MyPlan(h).est) : k \in Reports}
                           \cup {IF ok THEN MyPlan(h).est ELSE 0} :
               Moves(h, [router[h] EXCEPT !.pc = "consume", !.units = units,
                                          !.again = ~ok /\ may /\ router[h].spare])
        BY <4>1
      <4> DEFINE b == ~ok /\ may /\ router[h].spare
      <4>3. b \in BOOLEAN
        OBVIOUS
      <4>4. units \in 0..MaxEstimate
        BY <1>0 DEF AtMost
      <4>5. Moves(h, [router[h] EXCEPT !.pc = "consume", !.units = units, !.again = b])
        BY <4>2
      <4> HIDE DEF b
      <4>6. [router[h] EXCEPT !.pc = "consume", !.units = units, !.again = b] \in Step
        BY <1>0, <4>3, <4>4 DEF Step
      <4> QED
        BY <4>5, <4>6
    <3> QED
      BY <3>1, <3>2
  <2> QED
    BY <1>0, <1>11, <2>1 DEF EndTurn, WithinAccount, Unhistoric, SlotStep
<1>12. CASE ConsumeUnits(h)
  <2> DEFINE r == MyPlan(h).res
             fits == Covers(r, router[h].units)
             b == router[h].again /\ (Reserved(r) => fits)
  <2>1. /\ UNCHANGED <<plans, soft>> /\ Unhistoric
        /\ slot' = IF Reserved(r) /\ fits
                   THEN [slot EXCEPT ![r].used = @ + router[h].units] ELSE slot
        /\ Moves(h, [router[h] EXCEPT !.pc = "release", !.units = 0, !.again = b])
    BY <1>12 DEF ConsumeUnits
  <2>2. b \in BOOLEAN /\ 0 \in 0..MaxEstimate
    BY <1>0
  <2> HIDE DEF b
  <2>3. [router[h] EXCEPT !.pc = "release", !.units = 0, !.again = b] \in Step
    BY <1>0, <2>2 DEF Step
  <2>4. SlotStep
    <3>1. Reserved(r) => r \in Slots
      BY <1>0 DEF Reserved
    <3>2. router[h].units \in Nat
      BY <1>0
    <3> QED
      BY <2>1, <3>1, <3>2 DEF SlotStep
  <2> QED
    BY <1>0, <2>1, <2>3, <2>4 DEF WithinAccount, Unhistoric
<1>13. CASE ReleaseUnits(h)
  BY <1>0, <1>2, <1>3, <1>4, <1>13 DEF ReleaseUnits, WithinAccount, Unhistoric
<1>14. CASE Replan(h)
  <2>1. CASE Reserves(h, FALSE)
    BY <1>0, <1>14, <2>1, ReservesWithin DEF Replan, WithinAccount, Unhistoric
  <2>2. ASSUME NEW est \in Costs, NEW critical \in BOOLEAN, UNCHANGED slot,
               Moves(h, [NoStep EXCEPT !.pc = "planned",
                            !.plan = [res |-> 0, est |-> est, critical |-> critical]])
        PROVE  WithinAccount(h)
    <3>1. [NoStep EXCEPT !.pc = "planned",
              !.plan = [res |-> 0, est |-> est, critical |-> critical]] \in Step
      <4>1. est \in 0..MaxEstimate
        BY <1>0
      <4> QED
        BY <1>0, <4>1 DEF Step, PlanRecord
    <3> QED
      BY <1>0, <1>14, <2>2, <3>1 DEF Replan, WithinAccount, Unhistoric, SlotStep
  <2>3. CASE Leaves(h) /\ UNCHANGED slot
    BY <1>0, <1>3, <1>14, <2>3 DEF Replan, WithinAccount, Unhistoric, SlotStep
  <2> QED
    BY <1>14, <2>1, <2>2, <2>3 DEF Replan
<1> QED
  BY <1>5, <1>6, <1>7, <1>8, <1>9, <1>10, <1>11, <1>12, <1>13, <1>14

\* So do escalations, and calls that die.
LEMMA EscalationsWithin ==
    ASSUME BudgetTypeOK, BudgetKept, NEW h \in Routers,
           Escalate(h) \/ GiveUp(h) \/ StoreEscalated(h) \/ DropEscalated(h) \/ Perish(h)
    PROVE  WithinAccount(h)
<1>0. /\ router[h] \in Step /\ MyPlan(h) \in PlanRecord
      /\ MyPlan(h).res \in Slots \cup {0} /\ router[h].old \in Slots \cup {0}
      /\ NoStep \in Step
      /\ plans \subseteq PlanRecord /\ soft \in BOOLEAN /\ losses \in 0..MaxLosses
      /\ begun \subseteq Slots /\ astray \subseteq Slots
      /\ MaxEstimate \in Nat /\ MaxLosses \in Nat /\ 0 \notin Slots /\ Extra \in Nat
  BY CallTyped
<1>1. CASE Escalate(h)
  <2>1. PICK p \in plans :
          LET up == [p EXCEPT !.est = @ + Extra]
              step(r, pc) == [NoStep EXCEPT !.pc = pc, !.plan = [up EXCEPT !.res = r]]
          IN
          /\ up.est <= MaxEstimate
          /\ \/ /\ p.res # 0 /\ MayExtend(p.res, Extra)
                /\ slot' = [slot EXCEPT ![p.res].amount = @ + Extra]
                /\ Moves(h, step(p.res, "raised"))
             \/ /\ Moves(h, [step(0, "giveUp") EXCEPT !.old = p.res])
                /\ UNCHANGED slot
             \/ /\ Fits(Extra, p.critical)
                /\ \E r \in Slots : ReserveSlot(r, Extra, p.critical) /\ Moves(h, step(r, "raised"))
             \/ Moves(h, step(0, "raised")) /\ UNCHANGED slot
    BY <1>1 DEF Escalate
  <2> DEFINE up == [p EXCEPT !.est = @ + Extra]
             step(r, pc) == [NoStep EXCEPT !.pc = pc, !.plan = [up EXCEPT !.res = r]]
  <2>2. p \in PlanRecord /\ p.res \in Slots \cup {0} /\ p.critical \in BOOLEAN
        /\ p.est \in 0..MaxEstimate
    BY <1>0 DEF PlanRecord
  <2>3. up \in PlanRecord
    <3>0. up.est = p.est + Extra
      BY <2>2 DEF PlanRecord
    <3>2. up.est <= MaxEstimate
      BY <2>1, Zenon
    <3> HIDE DEF up
    <3>1. p.est + Extra \in 0..MaxEstimate
      BY <1>0, <2>2, <3>0, <3>2
    <3> USE DEF up
    <3> QED
      BY <2>2, <3>1 DEF PlanRecord
  <2>4. ASSUME NEW r \in Slots \cup {0}, NEW pc \in {"raised", "giveUp"}
        PROVE  step(r, pc) \in Step
    <3> HIDE DEF up
    <3>1. [up EXCEPT !.res = r] \in PlanRecord
      BY <2>3 DEF PlanRecord
    <3> QED
      BY <1>0, <3>1 DEF Step
  <2> HIDE DEF step
  <2>5. \E s \in Step : Moves(h, s)
    <3>1. [step(0, "giveUp") EXCEPT !.old = p.res] \in Step
      BY <2>2, <2>4 DEF Step
    <3> QED
      BY <2>1, <2>2, <2>4, <3>1 DEF step
  <2>6. SlotStep
    <3>1. p.res # 0 => p.res \in Slots
      BY <2>2
    <3> QED
      BY <1>0, <2>1, <2>2, <3>1 DEF SlotStep
  <2> QED
    BY <1>0, <1>1, <2>5, <2>6 DEF Escalate, WithinAccount, Unhistoric
<1>2. CASE GiveUp(h)
  <2>1. [router[h] EXCEPT !.pc = "raised", !.old = 0] \in Step
    BY <1>0 DEF Step
  <2> QED
    BY <1>0, <1>2, <2>1 DEF GiveUp, WithinAccount, Unhistoric, SlotStep
<1>3. CASE StoreEscalated(h)
  BY <1>0, <1>3 DEF StoreEscalated, StoresPlan, Leaves, WithinAccount, Unhistoric, SlotStep
<1>4. CASE DropEscalated(h)
  BY <1>0, <1>4 DEF DropEscalated, Leaves, WithinAccount, SlotStep
<1>5. CASE Perish(h)
  BY <1>0, <1>5 DEF Perish, Leaves, WithinAccount, SlotStep
<1> QED
  BY <1>1, <1>2, <1>3, <1>4, <1>5

\* An empty table.
LEMMA InitAccount == BudgetInit => BudgetTypeOK /\ BudgetKept
<1> SUFFICES ASSUME BudgetInit PROVE BudgetTypeOK /\ BudgetKept
  OBVIOUS
<1>0. /\ Total \in Nat /\ CriticalReserve \in 0..Total /\ MaxReservations \in 0..MaxReservations
      /\ MaxEstimate \in Nat /\ MaxLosses \in Nat
  BY BudgetAssumption
<1>1. \A r \in Slots : slot[r] = [st |-> "absent", amount |-> 0, used |-> 0, critical |-> FALSE]
  BY DEF BudgetInit
<1>2. [st |-> "absent", amount |-> 0, used |-> 0, critical |-> FALSE] \in ReservationRow
  BY <1>0 DEF ReservationRow
<1>3. slot \in [Slots -> ReservationRow]
  BY <1>2 DEF BudgetInit
<1>4. NoStep \in Step
  <2>1. [res |-> 0, est |-> 0, critical |-> FALSE] \in PlanRecord /\ 0 \in 0..MaxEstimate
    BY <1>0 DEF PlanRecord
  <2> QED
    BY <2>1 DEF NoStep, Step
<1>5. BudgetTypeOK
  <2>1. \A r \in Slots : slot[r].used <= slot[r].amount
    BY <1>1
  <2>2. router \in [Routers -> Step]
    BY <1>4 DEF BudgetInit
  <2>3. losses \in 0..MaxLosses
    BY <1>0 DEF BudgetInit
  <2> QED
    BY <1>3, <2>1, <2>2, <2>3 DEF BudgetInit, BudgetTypeOK
<1>6. BudgetKept
  <2> DEFINE zero == [r \in Slots |-> 0]
  <2>1. Counted(Slots) = zero /\ Counted({r \in Slots : ~slot[r].critical}) = zero
    BY <1>1 DEF Counted
  <2>2. zero \in Units /\ \A n \in Slots : zero[n] = 0
    BY DEF Units
  <2> HIDE DEF zero
  <2>3. UnitsUpTo(zero, MaxReservations) = 0
    <3> DEFINE Positive == {n \in 0..MaxReservations : UnitsUpTo(zero, n) # 0}
    <3>1. Positive = {}
      <4> SUFFICES ASSUME Positive # {} PROVE FALSE
        OBVIOUS
      <4>1. Positive \subseteq Nat
        BY <1>0
      <4>2. PICK n \in Positive : \A m \in Positive : n <= m
        <5> HIDE DEF Positive
        <5> QED
          BY <4>1, LeastNumber
      <4>3. n # 0
        BY <2>2, <4>2, SumStep
      <4>4. n \in Slots /\ n - 1 \in 0..MaxReservations
        BY <1>0, <4>2, <4>3 DEF Slots
      <4>5. n - 1 \notin Positive
        <5> HIDE DEF Positive
        <5> QED
          BY <4>1, <4>2, <4>4
      <4>6. UnitsUpTo(zero, n) = UnitsUpTo(zero, n - 1) + zero[n]
        BY <2>2, <4>4, SumStep
      <4> QED
        BY <2>2, <4>2, <4>4, <4>5, <4>6
    <3> QED
      BY <1>0, <3>1
  <2> QED
    BY <1>0, <2>1, <2>3 DEF BudgetKept, Taken
<1> QED
  BY <1>5, <1>6

\* The tables are well formed, no reservation is consumed beyond its amount, and
\* the account is never overdrawn nor its critical reserve taken by normal plans,
\* for any costs, reserve, escalations and number of concurrent calls.
THEOREM AccountInvariant == BudgetSpec => [](BudgetTypeOK /\ BudgetKept)
<1>1. ASSUME BudgetTypeOK, BudgetKept, [BudgetNext]_budgetVars
      PROVE  BudgetTypeOK' /\ BudgetKept'
  <2>1. ASSUME NEW h \in Routers, Routes(h) \/ Perish(h)
        PROVE  BudgetTypeOK' /\ BudgetKept'
    BY <1>1, <2>1, CallsWithin, EscalationsWithin, WithinAccountKeeps DEF Routes
  <2>2. CASE UNCHANGED <<slot, plans, router, losses, begun, astray>> /\ soft' \in BOOLEAN
    BY <1>1, <2>2 DEF BudgetTypeOK, BudgetKept, Taken, Counted, Charge
  <2>3. SetPolicy => UNCHANGED <<slot, plans, router, losses, begun, astray>> /\ soft' \in BOOLEAN
    BY DEF SetPolicy, Unhistoric
  <2>4. UNCHANGED budgetVars
           => UNCHANGED <<slot, plans, router, losses, begun, astray>> /\ soft' \in BOOLEAN
    BY <1>1 DEF budgetVars, BudgetTypeOK
  <2> QED
    BY <1>1, <2>1, <2>2, <2>3, <2>4 DEF BudgetNext
<1> QED
  BY <1>1, InitAccount, PTL DEF BudgetSpec

\* The part about the account.
THEOREM AccountNeverOverdrawn == BudgetSpec => []BudgetKept
  BY AccountInvariant, PTL

\* The part about the tables.
THEOREM BudgetTypes == BudgetSpec => []BudgetTypeOK
  BY AccountInvariant, PTL
=============================================================================
