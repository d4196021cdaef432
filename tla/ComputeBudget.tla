---------------------------- MODULE ComputeBudget ----------------------------
(***************************************************************************)
(* The quota of compute units and the plans that hold a part of it:        *)
(* BudgetBroker and ComputeScheduler (src/src/compute/scheduler.py) as     *)
(* RuntimeRouter (src/src/runtime/router.py) uses them.                    *)
(*                                                                         *)
(* A plan reserves what it may cost; the router stores it, executes it,    *)
(* and settles: it consumes what was used and releases the rest.  The host *)
(* may escalate a stored plan at any time, also while it is executed; the  *)
(* successor shares the reservation of the plan it replaces.  Every call   *)
(* of the broker and every insertion of a plan is a transaction of its     *)
(* own, and an action here; a process may die between any two.             *)
(*                                                                         *)
(* Abstractions: a plan is its reservation, its estimate and whether it is *)
(* critical; which runtime it selects, and so whether that runtime is      *)
(* ready, is nondeterministic.  Costs are small integers, so the tolerance *)
(* of 1e-9 is left out.  The broker with a database is modelled, the one   *)
(* without is used by tests only.                                          *)
(***************************************************************************)
EXTENDS Naturals, FiniteSets

CONSTANTS
    Routers,        \* calls in progress: executions, or escalations
    MaxReservations,\* bound: reservations
    Total,          \* total of the account
    CriticalReserve,\* part of it that only critical plans may reserve
    Costs,          \* estimates of a plan
    Reports,        \* units a runtime may report to have used
    Extra,          \* what one escalation adds to an estimate
    MaxEstimate,    \* bound: estimate of a plan, escalated or not
    MaxPlans,       \* bound: plans stored
    MaxLosses       \* bound: processes that die inside a call

ASSUME BudgetAssumption ==
    /\ MaxReservations \in Nat
    /\ Total \in Nat /\ CriticalReserve \in 0..Total
    /\ Costs \subseteq 1..MaxEstimate /\ Extra \in Nat \ {0}
    /\ Reports \subseteq Nat
    /\ MaxEstimate \in Nat /\ MaxPlans \in Nat /\ MaxLosses \in Nat

VARIABLES
    slot,       \* compute_budget_reservations
    plans,      \* compute_plans
    router,     \* what each call holds between two transactions
    soft,       \* budget_mode of the policy in force
    losses,
    begun,      \* history: reservations of plans whose execution has started
    astray      \* history: reservations given up by a death or a failed escalation

budgetVars == <<slot, plans, router, soft, losses, begun, astray>>

-----------------------------------------------------------------------------
\* Ids of reservations, in the order of creation.
Slots == 1..MaxReservations

ReservationRow == [st: {"absent", "reserved", "released"}, amount: 0..Total, used: 0..Total,
                   critical: BOOLEAN]

\* res = 0: the plan has no reservation.
PlanRecord == [res: Slots \cup {0}, est: 0..MaxEstimate, critical: BOOLEAN]

\* spare: a fallback is left; again: the failure allows one; units: what is to
\* be consumed; old: reservation that a soft escalation gives up.
Step == [pc: {"idle", "planned", "begin", "running", "consume", "release", "replan",
              "raised", "giveUp"},
         plan: PlanRecord, spare: BOOLEAN, again: BOOLEAN, units: 0..MaxEstimate,
         old: Slots \cup {0}]

NoStep == [pc |-> "idle", plan |-> [res |-> 0, est |-> 0, critical |-> FALSE], spare |-> FALSE,
           again |-> FALSE, units |-> 0, old |-> 0]

Is(h, pc) == router[h].pc = pc
Moves(h, local) == router' = [router EXCEPT ![h] = local]
Gets(h, pc) == Moves(h, [router[h] EXCEPT !.pc = pc])
Leaves(h) == Moves(h, NoStep)
MyPlan(h) == router[h].plan

Reserved(r) == r # 0 /\ slot[r].st = "reserved"
NextSlot(r) == slot[r].st = "absent" /\ \A q \in Slots : q < r => slot[q].st # "absent"

\* Units used by the reservations of S, and those they still hold.
Charge(r) == IF slot[r].st = "reserved" THEN slot[r].amount ELSE slot[r].used
Counted(S) == [r \in Slots |-> IF r \in S /\ slot[r].st # "absent" THEN Charge(r) ELSE 0]
UnitsUpTo(c, n) == LET upTo[k \in 0..n] == IF k = 0 THEN 0 ELSE upTo[k - 1] + c[k] IN upTo[n]
Taken(S) == UnitsUpTo(Counted(S), MaxReservations)

Unhistoric == UNCHANGED <<losses, begun, astray>>

-----------------------------------------------------------------------------
(* BudgetBroker.                                                           *)

\* amount <= available
Fits(amount, critical) ==
    amount + Taken(Slots) + (IF critical THEN 0 ELSE CriticalReserve) <= Total

ReserveSlot(r, amount, critical) ==
    /\ NextSlot(r)
    /\ slot' = [slot EXCEPT ![r] = [st |-> "reserved", amount |-> amount, used |-> 0,
                                    critical |-> critical]]

\* Mutant of MayExtend: an approved escalation is not held against the account.
MayExtendUnchecked(r, amount) == Reserved(r) /\ slot[r].amount + amount <= Total

MayExtend(r, amount) == Reserved(r) /\ Fits(amount, slot[r].critical)

\* Mutant of Covers: what was consumed before is not counted.
CoversOnce(r, units) == units <= slot[r].amount

\* amount <= remaining
Covers(r, units) == units <= slot[r].amount - slot[r].used

ReleaseSlot(r) ==
    slot' = IF Reserved(r) THEN [slot EXCEPT ![r].st = "released"] ELSE slot

-----------------------------------------------------------------------------
(* Planning.                                                               *)

\* ComputeScheduler.plan: the estimate is reserved, or, when it does not fit,
\* a soft budget lets the plan go ahead without; a hard one raises.
Reserves(h, spare) ==
    \E est \in Costs, critical \in BOOLEAN :
        LET step(r) == [NoStep EXCEPT !.pc = "planned", !.spare = spare,
                           !.plan = [res |-> r, est |-> est, critical |-> critical]]
        IN  \/ /\ Fits(est, critical)
               /\ \E r \in Slots : ReserveSlot(r, est, critical) /\ Moves(h, step(r))
            \/ ~Fits(est, critical) /\ soft /\ Moves(h, step(0)) /\ UNCHANGED slot

Plan(h) ==
    /\ Is(h, "idle")
    /\ Reserves(h, TRUE)
    /\ UNCHANGED <<plans, soft>> /\ Unhistoric

StoresPlan(h) ==
    /\ plans' = plans \cup {MyPlan(h)}
    /\ Cardinality(plans') <= MaxPlans

\* The runtime is ready and has an adapter.
StorePlan(h) ==
    /\ Is(h, "planned")
    /\ StoresPlan(h)
    /\ Gets(h, "begin")
    /\ UNCHANGED <<slot, soft>> /\ Unhistoric

\* Mutant of DropPlan: the refused plan keeps its reservation.
DropPlanKeeping(h) ==
    /\ Is(h, "planned")
    /\ Leaves(h)
    /\ UNCHANGED <<slot, plans, soft>> /\ Unhistoric

\* It is not, and the error leaves the call, also that of a replacement.
DropPlan(h) ==
    /\ Is(h, "planned")
    /\ ReleaseSlot(MyPlan(h).res)
    /\ Leaves(h)
    /\ UNCHANGED <<plans, soft>> /\ Unhistoric

-----------------------------------------------------------------------------
(* Execution.                                                              *)

\* execute with compute_plan_id.
SelectPlan(h) ==
    /\ Is(h, "idle")
    /\ \E p \in plans :
          Moves(h, [NoStep EXCEPT !.pc = "begin", !.spare = TRUE, !.plan = p])
    /\ UNCHANGED <<slot, plans, soft>> /\ Unhistoric

\* The readiness check before the turn is outside the try block: nothing is
\* settled, and RUNTIME_UNAVAILABLE allows a fallback.
FindUnready(h) ==
    /\ Is(h, "begin")
    /\ IF router[h].spare THEN Gets(h, "replan") ELSE Leaves(h)
    /\ UNCHANGED <<slot, plans, soft>> /\ Unhistoric

StartTurn(h) ==
    /\ Is(h, "begin")
    /\ Gets(h, "running")
    /\ begun' = begun \cup ({MyPlan(h).res} \ {0})
    /\ UNCHANGED <<slot, plans, soft, losses, astray>>

AtMost(c, est) == IF c <= est THEN c ELSE est

\* The turn ends: what the runtime reported, the estimate of a completed turn
\* that reported nothing, nothing for a failed one; never above the estimate.
EndTurn(h) ==
    LET p == MyPlan(h) IN
    /\ Is(h, "running")
    /\ \E ok, may \in BOOLEAN :
       \E units \in {AtMost(c, p.est) : c \in Reports} \cup {IF ok THEN p.est ELSE 0} :
          LET again == ~ok /\ may /\ router[h].spare IN
          IF p.res # 0
          THEN Moves(h, [router[h] EXCEPT !.pc = "consume", !.units = units, !.again = again])
          ELSE IF again THEN Gets(h, "replan") ELSE Leaves(h)
    /\ UNCHANGED <<slot, plans, soft>> /\ Unhistoric

\* Settlement.  A reservation that is no longer active is passed over; one that
\* is too small raises ComputeBudgetExceeded, which allows no fallback and
\* comes after the release.
ConsumeUnits(h) ==
    LET r == MyPlan(h).res
        units == router[h].units
        fits == Covers(r, units)
    IN
    /\ Is(h, "consume")
    /\ slot' = IF Reserved(r) /\ fits THEN [slot EXCEPT ![r].used = @ + units] ELSE slot
    /\ Moves(h, [router[h] EXCEPT !.pc = "release", !.units = 0,
                                  !.again = @ /\ (Reserved(r) => fits)])
    /\ UNCHANGED <<plans, soft>> /\ Unhistoric

ReleaseUnits(h) ==
    /\ Is(h, "release")
    /\ ReleaseSlot(MyPlan(h).res)
    /\ IF router[h].again THEN Gets(h, "replan") ELSE Leaves(h)
    /\ UNCHANGED <<plans, soft>> /\ Unhistoric

\* The fallback: a replacement that reserves only if the failed plan had; the
\* second failure is final.
Replan(h) ==
    /\ Is(h, "replan")
    /\ \/ MyPlan(h).res # 0 /\ Reserves(h, FALSE)
       \/ /\ MyPlan(h).res = 0
          /\ \E est \in Costs, critical \in BOOLEAN :
                Moves(h, [NoStep EXCEPT !.pc = "planned",
                             !.plan = [res |-> 0, est |-> est, critical |-> critical]])
          /\ UNCHANGED slot
       \/ Leaves(h) /\ UNCHANGED slot
    /\ UNCHANGED <<plans, soft>> /\ Unhistoric

-----------------------------------------------------------------------------
(* Escalation.                                                             *)

\* request_escalation, approved: the reservation is extended, or a new one made
\* for what is added.  A soft budget goes on without, after giving up the old
\* reservation; a hard one raises, and so does one that is no longer active.
Escalate(h) ==
    /\ Is(h, "idle")
    /\ \E p \in plans :
        LET up == [p EXCEPT !.est = @ + Extra]
            step(r, pc) == [NoStep EXCEPT !.pc = pc, !.plan = [up EXCEPT !.res = r]]
            covered == p.critical
        IN
        /\ up.est <= MaxEstimate
        /\ \/ /\ p.res # 0 /\ MayExtend(p.res, Extra)
              /\ slot' = [slot EXCEPT ![p.res].amount = @ + Extra]
              /\ Moves(h, step(p.res, "raised"))
           \/ /\ p.res # 0 /\ Reserved(p.res) /\ ~MayExtend(p.res, Extra) /\ soft
              /\ Moves(h, [step(0, "giveUp") EXCEPT !.old = p.res])
              /\ UNCHANGED slot
           \/ /\ p.res = 0 /\ Fits(Extra, covered)
              /\ \E r \in Slots : ReserveSlot(r, Extra, covered) /\ Moves(h, step(r, "raised"))
           \/ /\ p.res = 0 /\ ~Fits(Extra, covered) /\ soft
              /\ Moves(h, step(0, "raised"))
              /\ UNCHANGED slot
    /\ UNCHANGED <<plans, soft>> /\ Unhistoric

GiveUp(h) ==
    /\ Is(h, "giveUp")
    /\ ReleaseSlot(router[h].old)
    /\ Moves(h, [router[h] EXCEPT !.pc = "raised", !.old = 0])
    /\ UNCHANGED <<plans, soft>> /\ Unhistoric

StoreEscalated(h) ==
    /\ Is(h, "raised")
    /\ StoresPlan(h)
    /\ Leaves(h)
    /\ UNCHANGED <<slot, soft>> /\ Unhistoric

\* The runtime selected is not ready: the successor is not stored, and what was
\* reserved or added for it stays.
DropEscalated(h) ==
    /\ Is(h, "raised")
    /\ Leaves(h)
    /\ astray' = astray \cup ({MyPlan(h).res} \ ({p.res : p \in plans} \cup {0}))
    /\ UNCHANGED <<slot, plans, soft, losses, begun>>

-----------------------------------------------------------------------------
\* The author selects another strategy.
SetPolicy ==
    /\ soft' = ~soft
    /\ UNCHANGED <<slot, plans, router>> /\ Unhistoric

Perish(h) ==
    /\ ~Is(h, "idle")
    /\ losses < MaxLosses
    /\ losses' = losses + 1
    /\ astray' = astray \cup ({MyPlan(h).res, router[h].old} \ {0})
    /\ Leaves(h)
    /\ UNCHANGED <<slot, plans, soft, begun>>

Routes(h) ==
    \/ Plan(h) \/ StorePlan(h) \/ DropPlan(h)
    \/ SelectPlan(h) \/ FindUnready(h) \/ StartTurn(h) \/ EndTurn(h)
    \/ ConsumeUnits(h) \/ ReleaseUnits(h) \/ Replan(h)
    \/ Escalate(h) \/ GiveUp(h) \/ StoreEscalated(h) \/ DropEscalated(h)

BudgetInit ==
    /\ slot = [r \in Slots |-> [st |-> "absent", amount |-> 0, used |-> 0, critical |-> FALSE]]
    /\ plans = {}
    /\ router = [h \in Routers |-> NoStep]
    /\ soft = FALSE
    /\ losses = 0
    /\ begun = {} /\ astray = {}

BudgetNext == SetPolicy \/ \E h \in Routers : Routes(h) \/ Perish(h)

BudgetSpec == BudgetInit /\ [][BudgetNext]_budgetVars

-----------------------------------------------------------------------------
(* Properties.                                                             *)

\* The rows and the calls have their shape; in particular no reservation is
\* consumed beyond its amount.
BudgetTypeOK ==
    /\ slot \in [Slots -> ReservationRow]
    /\ \A r \in Slots : slot[r].used <= slot[r].amount
    /\ plans \subseteq PlanRecord
    /\ router \in [Routers -> Step]
    /\ soft \in BOOLEAN
    /\ losses \in 0..MaxLosses
    /\ begun \subseteq Slots /\ astray \subseteq Slots

\* The account is never overdrawn, and what normal plans have used or hold
\* never reaches into the critical reserve: not by two plans that reserve at
\* once, not by an escalation of a plan that is being executed or settled, not
\* by a soft budget.
BudgetKept ==
    /\ Taken(Slots) <= Total
    /\ Taken({r \in Slots : ~slot[r].critical}) + CriticalReserve <= Total

\* "failed/aborted executions release the unused estimate" (router.py): units
\* are held only for a call that is in progress or for a stored plan whose
\* execution has not started, unless a process died or the runtime of an
\* escalation was not ready.
ReservationsReturn ==
    \A r \in Slots : Reserved(r) =>
        \/ \E h \in Routers : r \in {MyPlan(h).res, router[h].old}
        \/ r \in astray
        \/ r \notin begun /\ \E p \in plans : p.res = r
=============================================================================
