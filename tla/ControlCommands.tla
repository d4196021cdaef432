--------------------------- MODULE ControlCommands --------------------------
(***************************************************************************)
(* Commands of the Control Plane and the approvals they decide and spend:  *)
(* ControlCommandStore (src/src/runtime/persistence.py), CommandBus and    *)
(* ControlCommandWorker (src/src/runtime/control_plane.py), ApprovalEngine *)
(* (src/src/runtime/approvals.py) and ToolGateway.invoke.                  *)
(*                                                                         *)
(* A command is executed either at once by the process that received it    *)
(* (dispatch) or by whichever worker claims its queue row under a lease.   *)
(* Executing is: claim, assert the claim, run the handler, complete the    *)
(* receipt; the steps are separate transactions, and a handler may itself  *)
(* be several.  A lease that runs out lets a second worker execute the     *)
(* command again while the first is still at it.                           *)
(*                                                                         *)
(* Abstractions: a payload is the grant it names; a receipt's result and   *)
(* error are its status; events are left out; task.pause, resume, cancel   *)
(* and retry are the actions of TaskRuntime, so of the task commands only  *)
(* task.enqueue is here.  One scope (task and domain) holds all grants.    *)
(***************************************************************************)
EXTENDS Naturals, FiniteSets

CONSTANTS
    Commands,           \* command ids, in the order of submission
    Loops, Requests,    \* command workers, and request handlers that dispatch
    NoHost,
    Grants,             \* ids of approvals, in the order of requested_at
    GatedTool,          \* a tool of the gateway that requires an approval
    CommandNames,       \* names the environment submits
    MaxDepartures,      \* bound: processes that die
    MaxStalls           \* bound: lease deadlines missed by a living process

Escalation == "compute.escalation"
Tools == {Escalation, GatedTool}
Hosts == Loops \cup Requests

ASSUME CommandAssumption ==
    /\ Commands \subseteq Nat /\ IsFiniteSet(Commands)
    /\ Grants \subseteq Nat \ {0} /\ IsFiniteSet(Grants)
    /\ NoHost \notin Hosts
    /\ GatedTool # Escalation
    /\ MaxDepartures \in Nat /\ MaxStalls \in Nat
    /\ CommandNames \subseteq {"task.enqueue", "approval.request", "approval.approve",
            "approval.reject", "approval.revoke", "compute.escalation.request",
            "compute.escalate"}

VARIABLES
    receipt,    \* control_commands
    queue,      \* control_command_queue
    made,       \* number of tasks that carry the command's id as their key
    grant,      \* runtime_approvals
    host,       \* what each process holds between two transactions
    departures, stalls

cmdVars == <<receipt, queue, made, grant, host, departures, stalls>>

-----------------------------------------------------------------------------
Receipt == [st: {"absent", "processing", "accepted", "rejected"},
            name: CommandNames \cup {"none"}, g: Grants \cup {0}]
QueueRow == [st: {"none", "queued", "processing", "completed"},
             by: Hosts \cup {NoHost}, late: BOOLEAN]
\* spent (history): uses of the grant that went ahead.
Grant == [st: {"absent", "requested", "approved", "rejected", "revoked", "consumed", "expired"},
          tool: Tools, late: BOOLEAN, spent: 0..2]
Steps == {"idle", "claimed", "handle", "ask", "consume", "apply", "finish"}
Executor == [pc: Steps, c: Commands \cup {0}, outcome: {"none", "ok", "error"}]

NoReceipt == [st |-> "absent", name |-> "none", g |-> 0]
NoRow == [st |-> "none", by |-> NoHost, late |-> FALSE]
NoGrant == [st |-> "absent", tool |-> Escalation, late |-> FALSE, spent |-> 0]
AtRest == [pc |-> "idle", c |-> 0, outcome |-> "none"]

Decided(c) == receipt[c].st \in {"accepted", "rejected"}
Queued(c) == queue[c].st # "none"
HostAt(h, pc) == host[h].pc = pc
Cmd(h) == host[h].c
Named(h, name) == receipt[Cmd(h)].name = name

\* The handler of h goes on at pc, or ends in an outcome.
GoesTo(h, pc) == host' = [host EXCEPT ![h].pc = pc]
Ends(h, outcome) == host' = [host EXCEPT ![h].pc = "finish", ![h].outcome = outcome]
Rests(h) == host' = [host EXCEPT ![h] = AtRest]

GrantBecomes(g, st) == grant' = [grant EXCEPT ![g].st = st]
Faults == <<departures, stalls>>

-----------------------------------------------------------------------------
(* Receipts and their queue.                                               *)

Fresh(c) == receipt[c].st = "absent" /\ \A d \in Commands : d < c => receipt[d].st # "absent"

Records(c) ==
    \E name \in CommandNames, g \in Grants \cup {0} :
        /\ (g # 0) <=> name \in {"approval.approve", "approval.reject", "approval.revoke",
                                 "compute.escalate"}
        /\ receipt' = [receipt EXCEPT ![c] = [st |-> "processing", name |-> name, g |-> g]]

\* CommandBus.enqueue of a new command id.
EnqueueCommand(c) ==
    /\ Fresh(c)
    /\ Records(c)
    /\ queue' = [queue EXCEPT ![c].st = "queued"]
    /\ UNCHANGED <<made, grant, host>> /\ UNCHANGED Faults

\* CommandBus.dispatch of a new command id: the receipt has no queue row.
DispatchCommand(h, c) ==
    /\ h \in Requests /\ HostAt(h, "idle")
    /\ Fresh(c)
    /\ Records(c)
    /\ host' = [host EXCEPT ![h] = [AtRest EXCEPT !.pc = "handle", !.c = c]]
    /\ UNCHANGED <<queue, made, grant>> /\ UNCHANGED Faults

\* Mutant of ClaimableCommand: claim looks for queued rows only.
ClaimableQueued(c) == receipt[c].st = "processing" /\ queue[c].st = "queued"

ClaimableCommand(c) ==
    /\ receipt[c].st = "processing"
    /\ queue[c].st = "queued" \/ (queue[c].st = "processing" /\ queue[c].late)

ClaimCommand(h, c) ==
    /\ h \in Loops /\ HostAt(h, "idle")
    /\ ClaimableCommand(c) /\ \A d \in Commands : d < c => ~ClaimableCommand(d)
    /\ queue' = [queue EXCEPT ![c] = [st |-> "processing", by |-> h, late |-> FALSE]]
    /\ host' = [host EXCEPT ![h] = [AtRest EXCEPT !.pc = "claimed", !.c = c]]
    /\ UNCHANGED <<receipt, made, grant>> /\ UNCHANGED Faults

Holder(c, h) == queue[c].st = "processing" /\ queue[c].by = h

\* _assert_claimed; ControlCommandLeaseLost ends run_once.
AssertClaimed(h) ==
    /\ HostAt(h, "claimed")
    /\ IF receipt[Cmd(h)].st = "processing" /\ Holder(Cmd(h), h) THEN GoesTo(h, "handle")
       ELSE Rests(h)
    /\ UNCHANGED <<receipt, queue, made, grant>> /\ UNCHANGED Faults

\* renew does not ask whether the lease has already run out.
RenewClaim(h) ==
    /\ ~HostAt(h, "idle")
    /\ Holder(Cmd(h), h) /\ queue[Cmd(h)].late
    /\ queue' = [queue EXCEPT ![Cmd(h)].late = FALSE]
    /\ UNCHANGED <<receipt, made, grant, host>> /\ UNCHANGED Faults

\* requeue_stale returns every expired lease to the queue.
RequeueStale ==
    /\ \E c \in Commands : queue[c].st = "processing" /\ queue[c].late
    /\ queue' = [c \in Commands |->
                    IF queue[c].st = "processing" /\ queue[c].late
                    THEN [st |-> "queued", by |-> NoHost, late |-> FALSE] ELSE queue[c]]
    /\ UNCHANGED <<receipt, made, grant, host>> /\ UNCHANGED Faults

\* Mutant of Fence: completion is fenced by the receipt only.
FenceByStatus(h, c) == receipt[c].st = "processing"

\* With a worker id, its processing queue row; without, no queue row at all.
Fence(h, c) ==
    /\ receipt[c].st = "processing"
    /\ IF h \in Loops THEN Holder(c, h) ELSE ~Queued(c)

\* complete; a result that finds the command settled or the lease lost is dropped.
CompleteReceipt(h) ==
    LET c == Cmd(h) IN
    /\ HostAt(h, "finish")
    /\ IF Fence(h, c)
       THEN /\ receipt' = [receipt EXCEPT ![c].st =
                              IF host[h].outcome = "ok" THEN "accepted" ELSE "rejected"]
            /\ queue' = IF Queued(c)
                        THEN [queue EXCEPT ![c] = [NoRow EXCEPT !.st = "completed"]] ELSE queue
       ELSE UNCHANGED <<receipt, queue>>
    /\ Rests(h)
    /\ UNCHANGED <<made, grant>> /\ UNCHANGED Faults

-----------------------------------------------------------------------------
(* Approvals.                                                              *)

Live(g) == grant[g].st \in {"requested", "approved"}
LatestOf(G, g) == g \in G /\ \A f \in G : f <= g
LiveOf(tool) == {g \in Grants : Live(g) /\ grant[g].tool = tool}
FreshGrant(g) == grant[g].st = "absent" /\ \A f \in Grants : f < g => grant[f].st # "absent"

\* request: the latest live grant is returned, unless its deadline has passed;
\* then it expires and a new one is inserted.
RequestGrant(tool) ==
    IF \E g \in LiveOf(tool) : LatestOf(LiveOf(tool), g) /\ ~grant[g].late
    THEN UNCHANGED grant
    ELSE \E new \in Grants :
            /\ FreshGrant(new)
            /\ grant' = [g \in Grants |->
                    IF g = new THEN [NoGrant EXCEPT !.st = "requested", !.tool = tool]
                    ELSE IF LatestOf(LiveOf(tool), g) THEN [grant[g] EXCEPT !.st = "expired"]
                    ELSE grant[g]]

\* _decide and consume: refused unless the status is one of `from'; a grant past
\* its deadline expires instead.
Decide(h, g, from, to) ==
    \/ grant[g].st \notin from /\ Ends(h, "error") /\ UNCHANGED grant
    \/ grant[g].st \in from /\ grant[g].late /\ Ends(h, "error") /\ GrantBecomes(g, "expired")
    \/ grant[g].st \in from /\ ~grant[g].late /\ Ends(h, "ok") /\ GrantBecomes(g, to)

\* Mutant of MayConsume: the update does not look at the status again.
MayConsumeUnchecked(g) == grant[g].st # "absent"

MayConsume(g) == grant[g].st = "approved"

Spend(g) == grant' = [grant EXCEPT ![g].st = "consumed",
                                   ![g].spent = IF @ = 2 THEN 2 ELSE @ + 1]

-----------------------------------------------------------------------------
(* Handlers.  Any of them may raise before it has done anything.           *)

Handles(h) == HostAt(h, "handle") /\ UNCHANGED <<receipt, queue>> /\ UNCHANGED Faults

HandlerFails(h) == Handles(h) /\ Ends(h, "error") /\ UNCHANGED <<made, grant>>

\* Mutant of TaskKeyed: the key is drawn anew at every execution.
TaskUnkeyed(c) == made' = [made EXCEPT ![c] = IF @ = 2 THEN 2 ELSE @ + 1]

\* TaskRuntime.enqueue with the command id as its idempotency key.
TaskKeyed(c) == made' = [made EXCEPT ![c] = 1]

HandleEnqueue(h) ==
    /\ Handles(h) /\ Named(h, "task.enqueue")
    /\ TaskKeyed(Cmd(h))
    /\ Ends(h, "ok")
    /\ UNCHANGED grant

HandleRequest(h) ==
    /\ Handles(h) /\ Named(h, "approval.request")
    /\ RequestGrant(GatedTool)
    /\ Ends(h, "ok")
    /\ UNCHANGED made

\* _request_compute_escalation lists first: any live grant, its deadline passed
\* or not, is the answer if it asks for the same.
HandleEscalationRequest(h) ==
    /\ Handles(h) /\ Named(h, "compute.escalation.request")
    /\ IF LiveOf(Escalation) # {} THEN Ends(h, "ok") ELSE GoesTo(h, "ask")
    /\ UNCHANGED <<made, grant>>

\* The second transaction; an invalid ttl raises.
AskForEscalation(h) ==
    /\ HostAt(h, "ask")
    /\ \/ RequestGrant(Escalation) /\ Ends(h, "ok")
       \/ Ends(h, "error") /\ UNCHANGED grant
    /\ UNCHANGED <<receipt, queue, made>> /\ UNCHANGED Faults

HandleDecision(h) ==
    LET g == receipt[Cmd(h)].g IN
    /\ Handles(h)
    /\ \/ Named(h, "approval.approve") /\ Decide(h, g, {"requested"}, "approved")
       \/ Named(h, "approval.reject") /\ Decide(h, g, {"requested"}, "rejected")
       \/ Named(h, "approval.revoke") /\ Decide(h, g, {"requested", "approved"}, "revoked")
    /\ UNCHANGED made

\* _compute_escalate reads the grant, spends it, and applies the plan, each in a
\* transaction of its own.
HandleEscalate(h) ==
    LET g == receipt[Cmd(h)].g IN
    /\ Handles(h) /\ Named(h, "compute.escalate")
    /\ IF grant[g].st = "approved" /\ grant[g].tool = Escalation THEN GoesTo(h, "consume")
       ELSE Ends(h, "error")
    /\ UNCHANGED <<made, grant>>

ConsumeForEscalation(h) ==
    LET g == receipt[Cmd(h)].g IN
    /\ HostAt(h, "consume")
    /\ \/ ~MayConsume(g) /\ Ends(h, "error") /\ UNCHANGED grant
       \/ MayConsume(g) /\ grant[g].late /\ Ends(h, "error") /\ GrantBecomes(g, "expired")
       \/ MayConsume(g) /\ ~grant[g].late /\ GoesTo(h, "apply") /\ Spend(g)
    /\ UNCHANGED <<receipt, queue, made>> /\ UNCHANGED Faults

\* request_escalation of the orchestrator: a new plan, or an exception; the grant
\* stays spent.
ApplyEscalation(h) ==
    /\ HostAt(h, "apply")
    /\ Ends(h, "ok") \/ Ends(h, "error")
    /\ UNCHANGED <<receipt, queue, made, grant>> /\ UNCHANGED Faults

\* ToolGateway.invoke, called by an agent with or without the id of a grant.
InvokeTool ==
    /\ \E g \in Grants :
          /\ grant[g].tool = GatedTool /\ MayConsume(g)
          /\ IF grant[g].late THEN GrantBecomes(g, "expired") ELSE Spend(g)
    /\ UNCHANGED <<receipt, queue, made, host>> /\ UNCHANGED Faults

Executes(h) ==
    \/ AssertClaimed(h) \/ HandleEnqueue(h) \/ HandleRequest(h) \/ HandleEscalationRequest(h)
    \/ AskForEscalation(h) \/ HandleDecision(h) \/ HandleEscalate(h)
    \/ ConsumeForEscalation(h) \/ ApplyEscalation(h) \/ HandlerFails(h) \/ CompleteReceipt(h)

-----------------------------------------------------------------------------
(* Time and failure.                                                       *)

\* A living worker renews in time (_heartbeat), except when it stalls.
LeaseLapses(c) ==
    /\ queue[c].st = "processing" /\ ~queue[c].late
    /\ queue[c].by = NoHost \/ stalls < MaxStalls
    /\ queue' = [queue EXCEPT ![c].late = TRUE]
    /\ stalls' = IF queue[c].by = NoHost THEN stalls ELSE stalls + 1
    /\ UNCHANGED <<receipt, made, grant, host, departures>>

GrantLapses(g) ==
    /\ Live(g) /\ ~grant[g].late
    /\ grant' = [grant EXCEPT ![g].late = TRUE]
    /\ UNCHANGED <<receipt, queue, made, host>> /\ UNCHANGED Faults

\* The process dies; the one started in its place has another worker id, so the
\* lease left behind belongs to nobody.
Departs(h) ==
    /\ departures < MaxDepartures
    /\ ~HostAt(h, "idle")
    /\ departures' = departures + 1
    /\ queue' = [c \in Commands |-> IF queue[c].by = h THEN [queue[c] EXCEPT !.by = NoHost]
                                    ELSE queue[c]]
    /\ Rests(h)
    /\ UNCHANGED <<receipt, made, grant, stalls>>

\* Earlier sessions may have left a grant in the table.
CmdInit ==
    /\ receipt = [c \in Commands |-> NoReceipt]
    /\ queue = [c \in Commands |-> NoRow]
    /\ made = [c \in Commands |-> 0]
    /\ \/ grant = [g \in Grants |-> NoGrant]
       \/ \E st \in {"requested", "approved"}, tool \in Tools :
             grant = [g \in Grants |->
                 IF \A f \in Grants : g <= f THEN [NoGrant EXCEPT !.st = st, !.tool = tool]
                 ELSE NoGrant]
    /\ host = [h \in Hosts |-> AtRest]
    /\ departures = 0 /\ stalls = 0

CmdNext ==
    \/ \E c \in Commands : EnqueueCommand(c) \/ LeaseLapses(c)
    \/ \E h \in Hosts, c \in Commands : DispatchCommand(h, c) \/ ClaimCommand(h, c)
    \/ \E h \in Hosts : Executes(h) \/ RenewClaim(h) \/ Departs(h)
    \/ \E g \in Grants : GrantLapses(g)
    \/ RequeueStale \/ InvokeTool

CmdSpec == CmdInit /\ [][CmdNext]_cmdVars

\* A living worker looks for work and takes its next step, and the lease of a
\* dead one runs out.
CmdFair ==
    /\ \A h \in Hosts : WF_cmdVars(\E c \in Commands : ClaimCommand(h, c)) /\ WF_cmdVars(Executes(h))
    /\ \A c \in Commands : WF_cmdVars(queue[c].by = NoHost /\ LeaseLapses(c))

CmdFairSpec == CmdSpec /\ CmdFair

-----------------------------------------------------------------------------
(* Properties.                                                             *)

\* Rows and processes have their shape.
CmdTypeOK ==
    /\ receipt \in [Commands -> Receipt]
    /\ queue \in [Commands -> QueueRow]
    /\ made \in [Commands -> 0..2]
    /\ grant \in [Grants -> Grant]
    /\ host \in [Hosts -> Executor]
    /\ departures \in 0..MaxDepartures /\ stalls \in 0..MaxStalls

\* "the queue lease fences completion to the process that actually claimed the
\* command" (ControlCommandWorker): a queued command is settled only by the worker
\* that claimed it last, although an earlier one may still be executing it, and
\* receipt and queue row are settled together, once.
SettledByClaimant ==
    [][\A c \in Commands :
        /\ Decided(c) => receipt'[c] = receipt[c]
        /\ Queued(c) => (Decided(c)' <=> queue'[c].st = "completed")
        /\ Queued(c) /\ ~Decided(c) /\ Decided(c)'
           => \E h \in Loops : Holder(c, h) /\ Cmd(h) = c /\ HostAt(h, "finish")]_cmdVars

\* An approval is spent at most once, by whatever number of escalations and tool
\* calls that have all read it as approved; once its rejection or revocation has
\* been accepted it is never spent.
GrantSpentOnce ==
    \A g \in Grants :
        /\ grant[g].spent = (IF grant[g].st = "consumed" THEN 1 ELSE 0)
        /\ \A c \in Commands :
              /\ receipt[c].st = "accepted" /\ receipt[c].g = g
              /\ receipt[c].name \in {"approval.reject", "approval.revoke"}
              => grant[g].spent = 0

\* However often a command is executed again after a lost lease or a crash, it
\* makes one task, and a command that is answered with success has made it.
OneTaskPerCommand ==
    \A c \in Commands :
        /\ made[c] <= 1
        /\ receipt[c].st = "accepted" /\ receipt[c].name = "task.enqueue" => made[c] = 1

\* A queued command is answered some day, whichever worker dies or stalls over it.
CommandAnswered == \A c \in Commands : queue[c].st = "queued" ~> Decided(c)
=============================================================================
