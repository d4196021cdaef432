----------------------- MODULE ControlCommandsProofs ------------------------
(***************************************************************************)
(* Theorems of ControlCommands, for any number of commands, workers,       *)
(* request handlers and approvals.                                         *)
(*                                                                         *)
(* A process executes on what it has read, so the invariant says what its  *)
(* reading is worth (KnowsOK): a command that has a receipt keeps its name *)
(* and its grant, a grant once refused stays refused, a task once made     *)
(* stays made.  Nothing a process knows is undone by another (Steady), and *)
(* that is why executing a command twice does no harm.                     *)
(***************************************************************************)
EXTENDS ControlCommands, TLAPS

Naming == {"approval.approve", "approval.reject", "approval.revoke", "compute.escalate"}
Refusals == {"approval.reject", "approval.revoke"}

Refused(g) == g \in Grants /\ grant[g].st \in {"rejected", "revoked"}

\* A receipt, its queue row and what its success stands for.
ReceiptOK(c) ==
    /\ receipt[c].st # "absent" => (receipt[c].g # 0 <=> receipt[c].name \in Naming)
    /\ Queued(c) => receipt[c].st # "absent" /\ (Decided(c) <=> queue[c].st = "completed")
    /\ made[c] <= 1
    /\ receipt[c].st = "accepted" =>
          /\ receipt[c].name = "task.enqueue" => made[c] = 1
          /\ receipt[c].name \in Refusals => Refused(receipt[c].g)

GrantsOK == \A g \in Grants : grant[g].spent = (IF grant[g].st = "consumed" THEN 1 ELSE 0)

\* What a process that executes a command knows of it.
KnowsOK(h) ==
    LET c == host[h].c IN
    host[h].pc # "idle" =>
        /\ c \in Commands /\ receipt[c].st # "absent"
        /\ host[h].pc = "ask" => receipt[c].name = "compute.escalation.request"
        /\ host[h].pc \in {"consume", "apply"} => receipt[c].name = "compute.escalate"
        /\ host[h].pc = "finish" /\ host[h].outcome = "ok" =>
              /\ receipt[c].name = "task.enqueue" => made[c] = 1
              /\ receipt[c].name \in Refusals => Refused(receipt[c].g)

\* The inductive invariant.
CmdInv ==
    /\ CmdTypeOK
    /\ GrantsOK
    /\ \A c \in Commands : ReceiptOK(c)
    /\ \A h \in Hosts : KnowsOK(h)

-----------------------------------------------------------------------------
(* Steps, by what they leave standing.                                     *)

\* Name and grant of a receipt, and the fact that it is there.
ReceiptsStand ==
    \A c \in Commands : receipt[c].st # "absent" =>
        /\ receipt'[c].st # "absent"
        /\ receipt'[c].name = receipt[c].name /\ receipt'[c].g = receipt[c].g

Steady ==
    /\ ReceiptsStand
    /\ \A c \in Commands : made[c] = 1 => made'[c] = 1
    /\ \A g \in Grants : Refused(g) => Refused(g)'

\* The life of one grant.
GMove(g) ==
    \/ grant'[g] = grant[g]
    \/ /\ Live(g)
       /\ \E st \in {"approved", "rejected", "revoked", "expired"} :
             grant'[g] = [grant[g] EXCEPT !.st = st]
    \/ Live(g) /\ grant'[g] = [grant[g] EXCEPT !.late = TRUE]
    \/ /\ grant[g].st = "approved"
       /\ grant'[g] = [grant[g] EXCEPT !.st = "consumed", !.spent = IF @ = 2 THEN 2 ELSE @ + 1]
    \/ /\ grant[g].st = "absent"
       /\ \E tool \in Tools : grant'[g] = [NoGrant EXCEPT !.st = "requested", !.tool = tool]

GrantStep == grant' = [g \in Grants |-> grant'[g]] /\ \A g \in Grants : GMove(g)

\* The body of SettledByClaimant.
SettledStep ==
    \A c \in Commands :
        /\ Decided(c) => receipt'[c] = receipt[c]
        /\ Queued(c) => (Decided(c)' <=> queue'[c].st = "completed")
        /\ Queued(c) /\ ~Decided(c) /\ Decided(c)'
           => \E h \in Loops : Holder(c, h) /\ Cmd(h) = c /\ HostAt(h, "finish")

\* The queue row is leased or returned, nothing else happens to it.
QMove(c) ==
    \/ queue'[c].st = queue[c].st
    \/ queue[c].st \in {"queued", "processing"} /\ queue'[c].st \in {"queued", "processing"}

-----------------------------------------------------------------------------
(* Grants.                                                                 *)

\* A grant is spent once, when it was approved, and what is refused or spent is
\* final.
LEMMA GrantMoves ==
    ASSUME CmdInv, GrantStep
    PROVE  /\ grant' \in [Grants -> Grant]
           /\ GrantsOK'
           /\ \A g \in Grants : Refused(g) => Refused(g)'
<1>0. grant \in [Grants -> Grant] /\ NoGrant \in Grant
  BY DEF CmdInv, CmdTypeOK, NoGrant, Grant, Tools
<1>1. ASSUME NEW g \in Grants
      PROVE  /\ grant'[g] \in Grant
             /\ grant'[g].spent = (IF grant'[g].st = "consumed" THEN 1 ELSE 0)
             /\ Refused(g) => Refused(g)'
  <2>0. grant[g] \in Grant /\ grant[g].spent = (IF grant[g].st = "consumed" THEN 1 ELSE 0)
    BY <1>0 DEF CmdInv, GrantsOK
  <2>1. CASE grant'[g] = grant[g]
    BY <2>0, <2>1 DEF Refused
  <2>2. ASSUME Live(g), NEW st \in {"approved", "rejected", "revoked", "expired"},
               grant'[g] = [grant[g] EXCEPT !.st = st]
        PROVE  <1>1!2
    BY <2>0, <2>2 DEF Live, Grant, Refused
  <2>3. CASE Live(g) /\ grant'[g] = [grant[g] EXCEPT !.late = TRUE]
    BY <2>0, <2>3 DEF Live, Grant, Refused
  <2>4. CASE /\ grant[g].st = "approved"
             /\ grant'[g] = [grant[g] EXCEPT !.st = "consumed",
                                             !.spent = IF @ = 2 THEN 2 ELSE @ + 1]
    <3>1. grant[g].spent = 0
      BY <2>0, <2>4
    <3> DEFINE more == IF grant[g].spent = 2 THEN 2 ELSE grant[g].spent + 1
    <3>2. grant'[g] = [grant[g] EXCEPT !.st = "consumed", !.spent = more]
      BY <2>4
    <3>3. more = 1
      BY <3>1
    <3> HIDE DEF more
    <3>4. grant'[g].st = "consumed" /\ grant'[g].spent = 1
      BY <2>0, <3>2, <3>3 DEF Grant
    <3>5. grant'[g] \in Grant
      <4>1. more \in 0..2
        BY <3>3
      <4> QED
        BY <2>0, <3>2, <4>1 DEF Grant
    <3> QED
      BY <2>4, <3>4, <3>5 DEF Refused
  <2>5. ASSUME grant[g].st = "absent", NEW tool \in Tools,
               grant'[g] = [NoGrant EXCEPT !.st = "requested", !.tool = tool]
        PROVE  <1>1!2
    <3>1. NoGrant.spent = 0
      BY DEF NoGrant
    <3>2. /\ grant'[g] \in Grant
          /\ grant'[g].st = "requested" /\ grant'[g].spent = NoGrant.spent
      BY <1>0, <2>5 DEF Grant
    <3> QED
      BY <2>5, <3>1, <3>2 DEF Refused
  <2> QED
    BY <2>1, <2>2, <2>3, <2>4, <2>5 DEF GrantStep, GMove
<1>2. grant' \in [Grants -> Grant]
  BY <1>1 DEF GrantStep
<1> QED
  BY <1>1, <1>2 DEF GrantsOK

\* One row changes, as the life of a grant allows.
LEMMA OneGrant ==
    ASSUME CmdInv, NEW g \in Grants, NEW v, grant' = [grant EXCEPT ![g] = v],
           GMove(g)
    PROVE  GrantStep
<1>0. grant \in [Grants -> Grant]
  BY DEF CmdInv, CmdTypeOK
<1>1. grant' = [f \in Grants |-> grant'[f]]
  BY <1>0
<1>2. \A f \in Grants \ {g} : grant'[f] = grant[f]
  BY <1>0
<1> QED
  BY <1>1, <1>2 DEF GrantStep, GMove

\* request: a grant is inserted, the one it replaces expires.
LEMMA RequestMoves ==
    ASSUME CmdInv, NEW tool \in Tools, RequestGrant(tool)
    PROVE  GrantStep
<1>0. grant \in [Grants -> Grant]
  BY DEF CmdInv, CmdTypeOK
<1>1. CASE UNCHANGED grant
  BY <1>0, <1>1 DEF GrantStep, GMove
<1>2. ASSUME NEW new \in Grants, FreshGrant(new),
             grant' = [g \in Grants |->
                IF g = new THEN [NoGrant EXCEPT !.st = "requested", !.tool = tool]
                ELSE IF LatestOf(LiveOf(tool), g) THEN [grant[g] EXCEPT !.st = "expired"]
                ELSE grant[g]]
      PROVE  GrantStep
  <2>1. grant' = [g \in Grants |-> grant'[g]]
    BY <1>2
  <2>2. ASSUME NEW g \in Grants PROVE GMove(g)
    <3>1. CASE g = new
      BY <1>2, <3>1 DEF GMove, FreshGrant
    <3>2. CASE g # new /\ LatestOf(LiveOf(tool), g)
      <4>1. Live(g)
        BY <3>2 DEF LatestOf, LiveOf
      <4>2. grant'[g] = [grant[g] EXCEPT !.st = "expired"]
        BY <1>2, <3>2
      <4> QED
        BY <4>1, <4>2 DEF GMove
    <3>3. CASE g # new /\ ~LatestOf(LiveOf(tool), g)
      BY <1>2, <3>3 DEF GMove
    <3> QED
      BY <3>1, <3>2, <3>3
  <2> QED
    BY <2>1, <2>2 DEF GrantStep
<1> QED
  BY <1>1, <1>2 DEF RequestGrant

\* A live grant gets another status.
LEMMA BecomesMoves ==
    ASSUME CmdInv, NEW g \in Grants, Live(g),
           NEW st \in {"approved", "rejected", "revoked", "expired"}, GrantBecomes(g, st)
    PROVE  GrantStep /\ grant'[g].st = st
<1>0. grant \in [Grants -> Grant]
  BY DEF CmdInv, CmdTypeOK
<1>1. grant'[g] = [grant[g] EXCEPT !.st = st] /\ grant' = [grant EXCEPT ![g] = [grant[g] EXCEPT !.st = st]]
  BY <1>0 DEF GrantBecomes
<1>2. GMove(g)
  BY <1>1 DEF GMove
<1>3. grant'[g].st = st
  BY <1>0, <1>1 DEF Grant
<1> QED
  BY <1>1, <1>2, <1>3, OneGrant

\* An approved grant is spent.
LEMMA SpendMoves ==
    ASSUME CmdInv, NEW g \in Grants, MayConsume(g), Spend(g)
    PROVE  GrantStep
<1>0. grant \in [Grants -> Grant]
  BY DEF CmdInv, CmdTypeOK
<1> DEFINE v == [grant[g] EXCEPT !.st = "consumed", !.spent = IF @ = 2 THEN 2 ELSE @ + 1]
<1>1. grant' = [grant EXCEPT ![g] = v] /\ grant'[g] = v
  BY <1>0 DEF Spend
<1>2. GMove(g)
  BY <1>1 DEF GMove, MayConsume
<1> QED
  BY <1>1, <1>2, OneGrant

-----------------------------------------------------------------------------
(* Processes.                                                              *)

\* Where the end of a transaction leaves the process that ran it.
LEMMA HostMoves ==
    ASSUME CmdInv, NEW h \in Hosts
    PROVE  /\ \A pc \in Steps : GoesTo(h, pc) =>
                 /\ host' \in [Hosts -> Executor] /\ host'[h].pc = pc /\ host'[h].c = host[h].c
                 /\ \A d \in Hosts \ {h} : host'[d] = host[d]
           /\ \A o \in {"ok", "error"} : Ends(h, o) =>
                 /\ host' \in [Hosts -> Executor] /\ host'[h].pc = "finish"
                 /\ host'[h].c = host[h].c /\ host'[h].outcome = o
                 /\ \A d \in Hosts \ {h} : host'[d] = host[d]
           /\ Rests(h) =>
                 /\ host' \in [Hosts -> Executor] /\ host'[h].pc = "idle"
                 /\ \A d \in Hosts \ {h} : host'[d] = host[d]
<1>0. host \in [Hosts -> Executor] /\ host[h] \in Executor
  BY DEF CmdInv, CmdTypeOK
<1>1. ASSUME NEW pc \in Steps, GoesTo(h, pc)
      PROVE  /\ host' \in [Hosts -> Executor] /\ host'[h].pc = pc /\ host'[h].c = host[h].c
             /\ \A d \in Hosts \ {h} : host'[d] = host[d]
  BY <1>0, <1>1 DEF GoesTo, Executor
<1>2. ASSUME NEW o \in {"ok", "error"}, Ends(h, o)
      PROVE  /\ host' \in [Hosts -> Executor] /\ host'[h].pc = "finish"
             /\ host'[h].c = host[h].c /\ host'[h].outcome = o
             /\ \A d \in Hosts \ {h} : host'[d] = host[d]
  <2>1. host' = [host EXCEPT ![h] = [host[h] EXCEPT !.pc = "finish", !.outcome = o]]
    BY <1>0, <1>2 DEF Ends
  <2>2. [host[h] EXCEPT !.pc = "finish", !.outcome = o] \in Executor
    BY <1>0 DEF Executor, Steps
  <2> QED
    BY <1>0, <2>1, <2>2 DEF Executor
<1>3. ASSUME Rests(h)
      PROVE  /\ host' \in [Hosts -> Executor] /\ host'[h].pc = "idle"
             /\ \A d \in Hosts \ {h} : host'[d] = host[d]
  <2>1. AtRest \in Executor /\ AtRest.pc = "idle"
    BY DEF AtRest, Executor, Steps
  <2> QED
    BY <1>0, <1>3, <2>1 DEF Rests
<1> QED
  BY <1>1, <1>2, <1>3

\* What a process that does not move knows stays true.
LEMMA KnowledgeStands ==
    ASSUME CmdInv, Steady, NEW d \in Hosts,
           host'[d] = host[d] \/ (/\ host'[d].pc \in {"claimed", "handle"}
                                  /\ host'[d].c = host[d].c /\ host[d].pc # "idle")
    PROVE  KnowsOK(d)'
<1> DEFINE c == host[d].c
<1>1. SUFFICES ASSUME host'[d].pc # "idle" PROVE KnowsOK(d)'
  BY DEF KnowsOK
<1>2. host[d].pc # "idle" /\ host'[d].c = c /\ KnowsOK(d)
  BY <1>1 DEF CmdInv
<1>3. /\ c \in Commands /\ receipt[c].st # "absent" /\ receipt'[c].st # "absent"
      /\ receipt'[c].name = receipt[c].name /\ receipt'[c].g = receipt[c].g
  BY <1>2 DEF KnowsOK, Steady, ReceiptsStand
<1>4. CASE host'[d] = host[d]
  BY <1>2, <1>3, <1>4 DEF KnowsOK, Steady, Refused
<1>5. CASE host'[d].pc \in {"claimed", "handle"}
  BY <1>2, <1>3, <1>5 DEF KnowsOK
<1> QED
  BY <1>4, <1>5

\* A step inside a handler: receipts and queue stay, grants and tasks move on.
LEMMA HandlerStep ==
    ASSUME CmdInv, UNCHANGED <<receipt, queue, departures, stalls>>,
           grant' = grant \/ GrantStep,
           made' \in [Commands -> 0..2], \A c \in Commands : made'[c] \in {made[c], 1},
           host' \in [Hosts -> Executor],
           \A d \in Hosts : host'[d] = host[d] \/ (Steady => KnowsOK(d)')
    PROVE  CmdInv' /\ SettledStep
<1>1. /\ grant' \in [Grants -> Grant] /\ GrantsOK'
      /\ \A g \in Grants : Refused(g) => Refused(g)'
  BY GrantMoves DEF CmdInv, CmdTypeOK, GrantsOK, Refused
<1>2. Steady
  BY <1>1 DEF Steady, ReceiptsStand
<1>3. \A d \in Hosts : KnowsOK(d)'
  BY <1>2, KnowledgeStands
<1>4. ASSUME NEW c \in Commands PROVE ReceiptOK(c)'
  <2>1. ReceiptOK(c)
    BY DEF CmdInv
  <2>2. Refused(receipt[c].g) => Refused(receipt[c].g)'
    BY <1>1 DEF Refused
  <2>3. made'[c] <= 1 /\ (made[c] = 1 => made'[c] = 1)
    BY <2>1 DEF ReceiptOK
  <2> QED
    BY <2>1, <2>2, <2>3 DEF ReceiptOK, Queued, Decided
<1>5. CmdTypeOK'
  BY <1>1 DEF CmdInv, CmdTypeOK
<1>6. SettledStep
  BY DEF SettledStep, CmdInv, ReceiptOK, Decided, Queued
<1> QED
  BY <1>1, <1>3, <1>4, <1>5, <1>6 DEF CmdInv

\* A step of the leases: receipts, tasks and grants stay.
LEMMA LeaseStep ==
    ASSUME CmdInv, UNCHANGED <<receipt, made, grant>>,
           queue' \in [Commands -> QueueRow], \A c \in Commands : QMove(c),
           host' \in [Hosts -> Executor],
           \A d \in Hosts : host'[d] = host[d] \/ KnowsOK(d)',
           departures' \in 0..MaxDepartures, stalls' \in 0..MaxStalls
    PROVE  CmdInv' /\ SettledStep
<1>1. Steady
  BY DEF Steady, ReceiptsStand, Refused
<1>2. \A d \in Hosts : KnowsOK(d)'
  BY <1>1, KnowledgeStands
<1>3. ASSUME NEW c \in Commands
      PROVE  ReceiptOK(c)' /\ (Queued(c) => (Decided(c)' <=> queue'[c].st = "completed"))
  <2>1. ReceiptOK(c) /\ QMove(c)
    BY DEF CmdInv
  <2> QED
    BY <2>1 DEF ReceiptOK, QMove, Queued, Decided, Refused
<1>4. CmdTypeOK' /\ GrantsOK'
  BY DEF CmdInv, CmdTypeOK, GrantsOK
<1>5. SettledStep
  BY <1>3 DEF SettledStep, Decided
<1> QED
  BY <1>2, <1>3, <1>4, <1>5 DEF CmdInv

-----------------------------------------------------------------------------
(* The steps of a process that executes a command.                         *)

\* A handler that raises, or stops at a point of its own, knows nothing new.
LEMMA EndsKnowing ==
    ASSUME CmdInv, NEW h \in Hosts, host[h].pc # "idle", ReceiptsStand,
           \/ Ends(h, "error")
           \/ /\ Ends(h, "ok")
              /\ receipt[host[h].c].name # "task.enqueue"
              /\ receipt[host[h].c].name \notin Refusals
    PROVE  KnowsOK(h)'
<1>1. KnowsOK(h)
  BY DEF CmdInv
<1>2. /\ host'[h].pc = "finish" /\ host'[h].c = host[h].c
      /\ Ends(h, "ok") => host'[h].outcome = "ok"
      /\ Ends(h, "error") => host'[h].outcome = "error"
  BY HostMoves
<1>3. /\ host[h].c \in Commands /\ receipt'[host[h].c].st # "absent"
      /\ receipt'[host[h].c].name = receipt[host[h].c].name
  BY <1>1 DEF KnowsOK, ReceiptsStand
<1> QED
  BY <1>2, <1>3 DEF KnowsOK

\* Each handler.
LEMMA HandlersKeep ==
    ASSUME CmdInv, NEW h \in Hosts,
           \/ HandleEnqueue(h) \/ HandleRequest(h) \/ HandleEscalationRequest(h)
           \/ AskForEscalation(h) \/ HandleDecision(h) \/ HandleEscalate(h)
           \/ ConsumeForEscalation(h) \/ ApplyEscalation(h) \/ HandlerFails(h)
    PROVE  CmdInv' /\ SettledStep
<1> DEFINE c == host[h].c
           g == receipt[c].g
<1>0. /\ made \in [Commands -> 0..2] /\ \A d \in Commands : made[d] \in {made[d], 1}
      /\ KnowsOK(h)
  BY DEF CmdInv, CmdTypeOK
<1>1. /\ host[h].pc # "idle" /\ UNCHANGED <<receipt, queue, departures, stalls>>
  BY DEF HandleEnqueue, HandleRequest, HandleEscalationRequest, AskForEscalation, HandleDecision,
         HandleEscalate, ConsumeForEscalation, ApplyEscalation, HandlerFails, Handles, HostAt, Faults
<1>2. c \in Commands /\ receipt[c].st # "absent" /\ ReceiptsStand
  BY <1>0, <1>1 DEF KnowsOK, ReceiptsStand
<1>3. Tools = {Escalation, GatedTool} /\ g \in Grants \cup {0}
  BY <1>2 DEF Tools, CmdInv, CmdTypeOK, Receipt
<1>4. ASSUME receipt[c].name \in Naming PROVE g \in Grants
  BY <1>2, <1>3, <1>4 DEF CmdInv, ReceiptOK
<1>5. ASSUME grant' = grant \/ GrantStep, made' = made,
             \/ Ends(h, "error")
             \/ /\ Ends(h, "ok")
                /\ receipt[c].name # "task.enqueue" /\ receipt[c].name \notin Refusals
      PROVE  CmdInv' /\ SettledStep
  <2>1. KnowsOK(h)'
    BY <1>1, <1>2, <1>5, EndsKnowing
  <2>2. host' \in [Hosts -> Executor] /\ \A d \in Hosts \ {h} : host'[d] = host[d]
    BY <1>5, HostMoves
  <2> QED
    BY <1>0, <1>1, <1>5, <2>1, <2>2, HandlerStep
<1>6. ASSUME grant' = grant \/ GrantStep, made' = made,
             NEW pc \in {"ask", "consume", "apply"}, GoesTo(h, pc),
             pc = "ask" => receipt[c].name = "compute.escalation.request",
             pc # "ask" => receipt[c].name = "compute.escalate"
      PROVE  CmdInv' /\ SettledStep
  <2>1. /\ host' \in [Hosts -> Executor] /\ \A d \in Hosts \ {h} : host'[d] = host[d]
        /\ host'[h].pc = pc /\ host'[h].c = c
    BY <1>6, HostMoves DEF Steps
  <2>2. KnowsOK(h)'
    BY <1>1, <1>2, <1>6, <2>1 DEF KnowsOK
  <2> QED
    BY <1>0, <1>1, <1>6, <2>1, <2>2, HandlerStep
<1>7. CASE HandleEnqueue(h)
  <2>1. made' = [made EXCEPT ![c] = 1] /\ Ends(h, "ok") /\ receipt[c].name = "task.enqueue"
        /\ grant' = grant
    BY <1>7 DEF HandleEnqueue, TaskKeyed, Cmd, Named
  <2>2. /\ made' \in [Commands -> 0..2] /\ made'[c] = 1
        /\ \A d \in Commands : made'[d] \in {made[d], 1}
    BY <1>0, <1>2, <2>1
  <2>3. /\ host' \in [Hosts -> Executor] /\ \A d \in Hosts \ {h} : host'[d] = host[d]
        /\ host'[h].pc = "finish" /\ host'[h].c = c
    BY <2>1, HostMoves
  <2>4. KnowsOK(h)'
    BY <1>1, <1>2, <2>1, <2>2, <2>3 DEF KnowsOK, Refusals
  <2> QED
    BY <1>1, <2>1, <2>2, <2>3, <2>4, HandlerStep
<1>8. CASE HandleRequest(h)
  <2>1. GrantStep
    BY <1>3, <1>8, RequestMoves DEF HandleRequest
  <2> QED
    BY <1>5, <1>8, <2>1 DEF HandleRequest, Named, Cmd, Refusals
<1>9. CASE HandleEscalationRequest(h)
  BY <1>5, <1>6, <1>9 DEF HandleEscalationRequest, Named, Cmd, Refusals
<1>10. CASE AskForEscalation(h)
  <2>1. GrantStep \/ grant' = grant
    BY <1>3, <1>10, RequestMoves DEF AskForEscalation
  <2>2. receipt[c].name = "compute.escalation.request"
    BY <1>0, <1>10 DEF AskForEscalation, HostAt, KnowsOK
  <2> QED
    BY <1>5, <1>10, <2>1, <2>2 DEF AskForEscalation, Refusals
<1>11. ASSUME NEW from \in SUBSET {"requested", "approved"},
              NEW to \in {"approved", "rejected", "revoked"}, Decide(h, g, from, to),
              receipt[c].name \in Naming, receipt[c].name \in Refusals => to # "approved",
              made' = made
       PROVE  CmdInv' /\ SettledStep
  <2>0. g \in Grants /\ receipt[c].name # "task.enqueue"
    BY <1>4, <1>11 DEF Naming
  <2>1. CASE grant[g].st \notin from
    BY <1>5, <1>11, <2>1 DEF Decide
  <2>2. CASE grant[g].st \in from
    <3>1. Live(g)
      BY <1>11, <2>2 DEF Live
    <3>2. CASE Ends(h, "error") /\ GrantBecomes(g, "expired")
      BY <1>5, <1>11, <2>0, <3>1, <3>2, BecomesMoves
    <3>3. CASE Ends(h, "ok") /\ GrantBecomes(g, to)
      <4>1. GrantStep /\ grant'[g].st = to
        BY <1>11, <2>0, <3>1, <3>3, BecomesMoves
      <4>2. receipt[c].name \in Refusals => grant'[g].st \in {"rejected", "revoked"}
        BY <1>11, <4>1
      <4>3. /\ host' \in [Hosts -> Executor] /\ \A d \in Hosts \ {h} : host'[d] = host[d]
            /\ host'[h].pc = "finish" /\ host'[h].c = c
        BY <3>3, HostMoves
      <4>4. KnowsOK(h)'
        BY <1>1, <1>2, <2>0, <4>2, <4>3 DEF KnowsOK, Refused
      <4> QED
        BY <1>0, <1>1, <1>11, <4>1, <4>3, <4>4, HandlerStep
    <3> QED
      BY <1>11, <2>2, <3>2, <3>3 DEF Decide
  <2> QED
    BY <2>1, <2>2
<1>12. CASE HandleDecision(h)
  <2>1. made' = made /\ g = receipt[Cmd(h)].g
    BY <1>12 DEF HandleDecision, Cmd
  <2>2. CASE Named(h, "approval.approve") /\ Decide(h, g, {"requested"}, "approved")
    BY <1>11, <2>1, <2>2 DEF Named, Cmd, Naming, Refusals
  <2>3. CASE Named(h, "approval.reject") /\ Decide(h, g, {"requested"}, "rejected")
    BY <1>11, <2>1, <2>3 DEF Named, Cmd, Naming, Refusals
  <2>4. CASE Named(h, "approval.revoke") /\ Decide(h, g, {"requested", "approved"}, "revoked")
    BY <1>11, <2>1, <2>4 DEF Named, Cmd, Naming, Refusals
  <2> QED
    BY <1>12, <2>1, <2>2, <2>3, <2>4 DEF HandleDecision
<1>13. CASE HandleEscalate(h)
  BY <1>5, <1>6, <1>13 DEF HandleEscalate, Named, Cmd
<1>14. CASE ConsumeForEscalation(h)
  <2>1. receipt[c].name = "compute.escalate" /\ made' = made /\ g = receipt[Cmd(h)].g
    BY <1>0, <1>14 DEF ConsumeForEscalation, HostAt, KnowsOK, Cmd
  <2>2. g \in Grants
    BY <1>4, <2>1 DEF Naming
  <2>3. CASE Ends(h, "error") /\ UNCHANGED grant
    BY <1>5, <2>1, <2>3
  <2>4. CASE MayConsume(g) /\ Ends(h, "error") /\ GrantBecomes(g, "expired")
    <3>1. GrantStep
      BY <2>2, <2>4, BecomesMoves DEF MayConsume, Live
    <3> QED
      BY <1>5, <2>1, <2>4, <3>1
  <2>5. CASE MayConsume(g) /\ GoesTo(h, "apply") /\ Spend(g)
    <3>1. GrantStep
      BY <2>2, <2>5, SpendMoves
    <3> QED
      BY <1>6, <2>1, <2>5, <3>1
  <2> QED
    BY <1>14, <2>1, <2>3, <2>4, <2>5 DEF ConsumeForEscalation
<1>15. CASE ApplyEscalation(h)
  <2>1. receipt[c].name = "compute.escalate"
    BY <1>0, <1>15 DEF ApplyEscalation, HostAt, KnowsOK
  <2> QED
    BY <1>5, <1>15, <2>1 DEF ApplyEscalation, Refusals
<1>16. CASE HandlerFails(h)
  BY <1>5, <1>16 DEF HandlerFails
<1> QED
  BY <1>7, <1>8, <1>9, <1>10, <1>12, <1>13, <1>14, <1>15, <1>16

\* complete: the one step that settles a command.
LEMMA CompleteKeeps ==
    ASSUME CmdInv, NEW h \in Hosts, CompleteReceipt(h)
    PROVE  CmdInv' /\ SettledStep
<1> DEFINE st == IF host[h].outcome = "ok" THEN "accepted" ELSE "rejected"
<1>0. /\ receipt \in [Commands -> Receipt] /\ queue \in [Commands -> QueueRow]
      /\ made' = made /\ grant' = grant /\ UNCHANGED <<departures, stalls>>
      /\ KnowsOK(h) /\ host[h].pc = "finish"
  BY DEF CmdInv, CmdTypeOK, CompleteReceipt, Faults, HostAt
<1>1. PICK c \in Commands : c = host[h].c /\ receipt[c].st # "absent" /\ ReceiptOK(c)
  BY <1>0 DEF CmdInv, KnowsOK
<1>2. /\ host' \in [Hosts -> Executor] /\ host'[h].pc = "idle"
      /\ \A d \in Hosts \ {h} : host'[d] = host[d]
  BY HostMoves DEF CompleteReceipt
<1>3. KnowsOK(h)'
  BY <1>2 DEF KnowsOK
<1>4. CASE ~Fence(h, c)
  <2>1. UNCHANGED <<receipt, queue>>
    BY <1>1, <1>4 DEF CompleteReceipt, Cmd
  <2>2. \A d \in Commands : QMove(d)
    BY <2>1 DEF QMove
  <2>3. departures' \in 0..MaxDepartures /\ stalls' \in 0..MaxStalls
    BY <1>0 DEF CmdInv, CmdTypeOK
  <2> QED
    BY <1>0, <1>2, <1>3, <2>1, <2>2, <2>3, LeaseStep
<1>5. CASE Fence(h, c)
  <2> HIDE DEF st
  <2>1. /\ receipt' = [receipt EXCEPT ![c].st = st]
        /\ queue' = IF Queued(c) THEN [queue EXCEPT ![c] = [NoRow EXCEPT !.st = "completed"]]
                    ELSE queue
    BY <1>1, <1>5 DEF CompleteReceipt, Cmd, st
  <2>2. /\ receipt[c].st = "processing" /\ st \in {"accepted", "rejected"}
        /\ st = "accepted" => host[h].outcome = "ok"
    BY <1>5 DEF Fence, st
  <2>3. /\ receipt' \in [Commands -> Receipt]
        /\ receipt'[c].st = st /\ receipt'[c].name = receipt[c].name
        /\ receipt'[c].g = receipt[c].g
        /\ \A d \in Commands \ {c} : receipt'[d] = receipt[d]
    BY <1>0, <1>1, <2>1, <2>2 DEF Receipt
  <2>4. /\ queue' \in [Commands -> QueueRow]
        /\ Queued(c) => queue'[c].st = "completed"
        /\ ~Queued(c) => queue'[c] = queue[c]
        /\ \A d \in Commands \ {c} : queue'[d] = queue[d]
    <3>1. [NoRow EXCEPT !.st = "completed"] \in QueueRow
          /\ [NoRow EXCEPT !.st = "completed"].st = "completed"
      BY DEF NoRow, QueueRow
    <3> QED
      BY <1>0, <1>1, <2>1, <3>1
  <2>5. Steady
    BY <1>0, <2>2, <2>3 DEF Steady, ReceiptsStand, Refused
  <2>6. \A d \in Hosts : KnowsOK(d)'
    BY <1>2, <1>3, <2>5, KnowledgeStands
  <2>7. ReceiptOK(c)'
    <3>1. st = "accepted" =>
             /\ receipt[c].name = "task.enqueue" => made[c] = 1
             /\ receipt[c].name \in Refusals => Refused(receipt[c].g)
      BY <1>0, <1>1, <2>2 DEF KnowsOK
    <3>2. Queued(c)' => queue'[c].st = "completed"
      BY <2>4 DEF Queued
    <3> QED
      BY <1>0, <1>1, <2>2, <2>3, <3>1, <3>2 DEF ReceiptOK, Decided, Refused
  <2>8. \A d \in Commands \ {c} : ReceiptOK(d)'
    BY <1>0, <2>3, <2>4 DEF CmdInv, ReceiptOK, Queued, Decided, Refused
  <2>9. CmdTypeOK' /\ GrantsOK'
    BY <1>0, <1>2, <2>3, <2>4 DEF CmdInv, CmdTypeOK, GrantsOK
  <2>10. SettledStep
    <3>1. ASSUME NEW d \in Commands \ {c}
          PROVE  /\ receipt'[d] = receipt[d] /\ (Decided(d)' <=> Decided(d))
                 /\ Queued(d) => (Decided(d)' <=> queue'[d].st = "completed")
      BY <2>3, <2>4 DEF CmdInv, ReceiptOK, Decided
    <3>2. /\ ~Decided(c) /\ Decided(c)'
          /\ Queued(c) => queue'[c].st = "completed"
          /\ Queued(c) => h \in Loops /\ Holder(c, h)
      BY <1>5, <2>2, <2>3, <2>4 DEF Decided, Fence
    <3>3. Cmd(h) = c /\ HostAt(h, "finish")
      BY <1>0, <1>1 DEF Cmd, HostAt
    <3> QED
      BY <3>1, <3>2, <3>3 DEF SettledStep
  <2> QED
    BY <2>6, <2>7, <2>8, <2>9, <2>10 DEF CmdInv
<1> QED
  BY <1>4, <1>5

-----------------------------------------------------------------------------
(* Submission, leases and failures.                                        *)

\* enqueue and dispatch: a new receipt, with a queue row or without.
LEMMA SubmitKeeps ==
    ASSUME CmdInv, NEW c \in Commands,
           EnqueueCommand(c) \/ \E h \in Hosts : DispatchCommand(h, c)
    PROVE  CmdInv' /\ SettledStep
<1>0. /\ receipt \in [Commands -> Receipt] /\ queue \in [Commands -> QueueRow]
      /\ host \in [Hosts -> Executor]
      /\ made' = made /\ grant' = grant /\ UNCHANGED <<departures, stalls>>
      /\ receipt[c].st = "absent" /\ Records(c) /\ ReceiptOK(c)
  BY DEF CmdInv, CmdTypeOK, EnqueueCommand, DispatchCommand, Faults, Fresh
<1>1. PICK name \in CommandNames, g \in Grants \cup {0} :
         /\ g # 0 <=> name \in Naming
         /\ receipt' = [receipt EXCEPT ![c] = [st |-> "processing", name |-> name, g |-> g]]
  BY <1>0 DEF Records, Naming
<1>2. /\ receipt' \in [Commands -> Receipt] /\ \A d \in Commands \ {c} : receipt'[d] = receipt[d]
      /\ receipt'[c].st = "processing"
      /\ receipt'[c].g # 0 <=> receipt'[c].name \in Naming
  BY <1>0, <1>1 DEF Receipt
<1>3. ~Queued(c)
  BY <1>0 DEF ReceiptOK
<1>4. /\ queue' \in [Commands -> QueueRow] /\ \A d \in Commands \ {c} : queue'[d] = queue[d]
      /\ queue'[c].st \in {"none", "queued"}
  <2>1. CASE EnqueueCommand(c)
    BY <1>0, <2>1 DEF EnqueueCommand, QueueRow
  <2>2. CASE \E h \in Hosts : DispatchCommand(h, c)
    BY <1>0, <1>3, <2>2 DEF DispatchCommand, Queued
  <2> QED
    BY <2>1, <2>2
<1>5. Steady
  BY <1>0, <1>2 DEF Steady, ReceiptsStand, Refused
<1>6. host' \in [Hosts -> Executor] /\ \A d \in Hosts : KnowsOK(d)'
  <2>1. CASE host' = host
    BY <1>0, <1>5, <2>1, KnowledgeStands
  <2>2. ASSUME NEW h \in Hosts, DispatchCommand(h, c)
        PROVE  host' \in [Hosts -> Executor] /\ \A d \in Hosts : KnowsOK(d)'
    <3> DEFINE v == [AtRest EXCEPT !.pc = "handle", !.c = c]
    <3>1. v \in Executor /\ v.pc = "handle" /\ v.c = c
      BY DEF AtRest, Executor, Steps
    <3>2. host' = [host EXCEPT ![h] = v]
      BY <2>2 DEF DispatchCommand
    <3> HIDE DEF v
    <3>3. /\ host' \in [Hosts -> Executor] /\ host'[h].pc = "handle" /\ host'[h].c = c
          /\ \A d \in Hosts \ {h} : host'[d] = host[d]
      BY <1>0, <3>1, <3>2
    <3>4. KnowsOK(h)'
      BY <1>2, <3>3 DEF KnowsOK
    <3> QED
      BY <1>5, <3>3, <3>4, KnowledgeStands
  <2> QED
    BY <2>1, <2>2 DEF EnqueueCommand
<1>7. ReceiptOK(c)'
  BY <1>0, <1>2, <1>4 DEF ReceiptOK, Queued, Decided
<1>8. \A d \in Commands \ {c} : ReceiptOK(d)'
  BY <1>0, <1>2, <1>4 DEF CmdInv, ReceiptOK, Queued, Decided, Refused
<1>9. CmdTypeOK' /\ GrantsOK'
  BY <1>0, <1>2, <1>4, <1>6 DEF CmdInv, CmdTypeOK, GrantsOK
<1>10. SettledStep
  <2>1. \A d \in Commands \ {c} :
           /\ receipt'[d] = receipt[d] /\ (Decided(d)' <=> Decided(d))
           /\ Queued(d) => (Decided(d)' <=> queue'[d].st = "completed")
    BY <1>2, <1>4 DEF CmdInv, ReceiptOK, Decided
  <2>2. ~Decided(c)
    BY <1>0 DEF Decided
  <2> QED
    BY <1>3, <2>1, <2>2 DEF SettledStep
<1> QED
  BY <1>6, <1>7, <1>8, <1>9, <1>10 DEF CmdInv

\* The claim and what happens to its lease.
LEMMA LeasesKeep ==
    ASSUME CmdInv,
           \/ \E c \in Commands : LeaseLapses(c)
           \/ \E h \in Hosts, c \in Commands : ClaimCommand(h, c)
           \/ \E h \in Hosts : AssertClaimed(h) \/ RenewClaim(h) \/ Departs(h)
           \/ RequeueStale
    PROVE  CmdInv' /\ SettledStep
<1>0. /\ queue \in [Commands -> QueueRow] /\ host \in [Hosts -> Executor]
      /\ departures \in 0..MaxDepartures /\ stalls \in 0..MaxStalls
      /\ MaxDepartures \in Nat /\ MaxStalls \in Nat
      /\ \A d \in Hosts : KnowsOK(d)
  BY CommandAssumption DEF CmdInv, CmdTypeOK
<1>1. ASSUME NEW c \in Commands, LeaseLapses(c)
      PROVE  CmdInv' /\ SettledStep
  <2>1. /\ UNCHANGED <<receipt, made, grant, host, departures>>
        /\ queue' = [queue EXCEPT ![c].late = TRUE]
        /\ stalls' \in 0..MaxStalls
    BY <1>0, <1>1 DEF LeaseLapses
  <2>2. queue' \in [Commands -> QueueRow] /\ \A d \in Commands : QMove(d)
    BY <1>0, <2>1 DEF QueueRow, QMove
  <2> QED
    BY <1>0, <2>1, <2>2, LeaseStep
<1>2. ASSUME NEW h \in Hosts, NEW c \in Commands, ClaimCommand(h, c)
      PROVE  CmdInv' /\ SettledStep
  <2> DEFINE v == [AtRest EXCEPT !.pc = "claimed", !.c = c]
             w == [st |-> "processing", by |-> h, late |-> FALSE]
  <2>1. /\ UNCHANGED <<receipt, made, grant, departures, stalls>>
        /\ queue' = [queue EXCEPT ![c] = w] /\ host' = [host EXCEPT ![h] = v]
        /\ receipt[c].st # "absent" /\ queue[c].st \in {"queued", "processing"}
    BY <1>2 DEF ClaimCommand, ClaimableCommand, Faults
  <2>2. v \in Executor /\ v.pc = "claimed" /\ v.c = c
    BY DEF AtRest, Executor, Steps
  <2>3. w \in QueueRow /\ w.st = "processing"
    BY DEF QueueRow
  <2> HIDE DEF v, w
  <2>4. queue' \in [Commands -> QueueRow] /\ \A d \in Commands : QMove(d)
    BY <1>0, <2>1, <2>3 DEF QMove
  <2>5. /\ host' \in [Hosts -> Executor] /\ host'[h].pc = "claimed" /\ host'[h].c = c
        /\ \A d \in Hosts \ {h} : host'[d] = host[d]
    BY <1>0, <2>1, <2>2
  <2>6. KnowsOK(h)'
    BY <2>1, <2>5 DEF KnowsOK
  <2> QED
    BY <1>0, <2>1, <2>4, <2>5, <2>6, LeaseStep
<1>3. ASSUME NEW h \in Hosts, AssertClaimed(h)
      PROVE  CmdInv' /\ SettledStep
  <2>1. UNCHANGED <<receipt, queue, made, grant, departures, stalls>> /\ host[h].pc = "claimed"
    BY <1>3 DEF AssertClaimed, Faults, HostAt
  <2>2. \A d \in Commands : QMove(d)
    BY <2>1 DEF QMove
  <2>3. CASE GoesTo(h, "handle")
    <3>1. /\ host' \in [Hosts -> Executor] /\ host'[h].pc = "handle" /\ host'[h].c = host[h].c
          /\ \A d \in Hosts \ {h} : host'[d] = host[d]
      BY <2>3, HostMoves DEF Steps
    <3>2. KnowsOK(h)'
      BY <1>0, <2>1, <3>1 DEF KnowsOK
    <3> QED
      BY <1>0, <2>1, <2>2, <3>1, <3>2, LeaseStep
  <2>4. CASE Rests(h)
    <3>1. /\ host' \in [Hosts -> Executor] /\ host'[h].pc = "idle"
          /\ \A d \in Hosts \ {h} : host'[d] = host[d]
      BY <2>4, HostMoves
    <3>2. KnowsOK(h)'
      BY <3>1 DEF KnowsOK
    <3> QED
      BY <1>0, <2>1, <2>2, <3>1, <3>2, LeaseStep
  <2> QED
    BY <1>3, <2>3, <2>4 DEF AssertClaimed
<1>4. ASSUME NEW h \in Hosts, RenewClaim(h)
      PROVE  CmdInv' /\ SettledStep
  <2>1. /\ UNCHANGED <<receipt, made, grant, host, departures, stalls>>
        /\ queue' = [queue EXCEPT ![Cmd(h)].late = FALSE]
    BY <1>4 DEF RenewClaim, Faults
  <2>2. queue' \in [Commands -> QueueRow] /\ \A d \in Commands : QMove(d)
    BY <1>0, <2>1 DEF QueueRow, QMove
  <2> QED
    BY <1>0, <2>1, <2>2, LeaseStep
<1>5. ASSUME NEW h \in Hosts, Departs(h)
      PROVE  CmdInv' /\ SettledStep
  <2>1. /\ UNCHANGED <<receipt, made, grant, stalls>>
        /\ queue' = [c \in Commands |-> IF queue[c].by = h THEN [queue[c] EXCEPT !.by = NoHost]
                                        ELSE queue[c]]
        /\ departures' \in 0..MaxDepartures
    BY <1>0, <1>5 DEF Departs
  <2>2. queue' \in [Commands -> QueueRow] /\ \A d \in Commands : QMove(d)
    BY <1>0, <2>1 DEF QueueRow, QMove
  <2>3. /\ host' \in [Hosts -> Executor] /\ host'[h].pc = "idle"
        /\ \A d \in Hosts \ {h} : host'[d] = host[d]
    BY <1>5, HostMoves DEF Departs
  <2>4. KnowsOK(h)'
    BY <2>3 DEF KnowsOK
  <2> QED
    BY <1>0, <2>1, <2>2, <2>3, <2>4, LeaseStep
<1>6. CASE RequeueStale
  <2>1. /\ UNCHANGED <<receipt, made, grant, host, departures, stalls>>
        /\ queue' = [c \in Commands |->
                       IF queue[c].st = "processing" /\ queue[c].late
                       THEN [st |-> "queued", by |-> NoHost, late |-> FALSE] ELSE queue[c]]
    BY <1>6 DEF RequeueStale, Faults
  <2>2. queue' \in [Commands -> QueueRow] /\ \A d \in Commands : QMove(d)
    BY <1>0, <2>1 DEF QueueRow, QMove
  <2> QED
    BY <1>0, <2>1, <2>2, LeaseStep
<1> QED
  BY <1>1, <1>2, <1>3, <1>4, <1>5, <1>6

\* Agents that spend grants, and deadlines that pass.
LEMMA OutsideKeeps ==
    ASSUME CmdInv, InvokeTool \/ \E g \in Grants : GrantLapses(g)
    PROVE  CmdInv' /\ SettledStep
<1>0. /\ UNCHANGED <<receipt, queue, made, host, departures, stalls>>
      /\ grant \in [Grants -> Grant] /\ host \in [Hosts -> Executor]
      /\ made \in [Commands -> 0..2]
  BY DEF CmdInv, CmdTypeOK, InvokeTool, GrantLapses, Faults
<1>1. GrantStep
  <2>1. CASE InvokeTool
    BY <2>1, BecomesMoves, SpendMoves DEF InvokeTool, MayConsume, Live
  <2>2. ASSUME NEW g \in Grants, GrantLapses(g)
        PROVE  GrantStep
    <3>1. /\ Live(g) /\ grant' = [grant EXCEPT ![g] = [grant[g] EXCEPT !.late = TRUE]]
          /\ grant'[g] = [grant[g] EXCEPT !.late = TRUE]
      BY <1>0, <2>2 DEF GrantLapses
    <3>2. GMove(g)
      BY <3>1 DEF GMove
    <3> QED
      BY <3>1, <3>2, OneGrant
  <2> QED
    BY <2>1, <2>2
<1> QED
  BY <1>0, <1>1, HandlerStep

-----------------------------------------------------------------------------
(* The theorems.                                                           *)

\* Nothing has been submitted; a grant may be left of an earlier session.
LEMMA InitCmdInv == CmdInit => CmdInv
<1> SUFFICES ASSUME CmdInit PROVE CmdInv
  OBVIOUS
<1>0. MaxDepartures \in Nat /\ MaxStalls \in Nat
  BY CommandAssumption
<1>1. NoReceipt \in Receipt /\ NoReceipt.st = "absent"
  BY DEF NoReceipt, Receipt
<1>2. NoRow \in QueueRow /\ NoRow.st = "none"
  BY DEF NoRow, QueueRow
<1>3. AtRest \in Executor /\ AtRest.pc = "idle"
  BY DEF AtRest, Executor, Steps
<1>4. NoGrant \in Grant /\ NoGrant.st = "absent" /\ NoGrant.spent = 0
  BY DEF NoGrant, Grant, Tools
<1>5. grant \in [Grants -> Grant] /\ GrantsOK
  <2>1. CASE grant = [g \in Grants |-> NoGrant]
    BY <1>4, <2>1 DEF GrantsOK
  <2>2. ASSUME NEW st \in {"requested", "approved"}, NEW tool \in Tools,
               grant = [g \in Grants |->
                   IF \A f \in Grants : g <= f THEN [NoGrant EXCEPT !.st = st, !.tool = tool]
                   ELSE NoGrant]
        PROVE  grant \in [Grants -> Grant] /\ GrantsOK
    <3> DEFINE v == [NoGrant EXCEPT !.st = st, !.tool = tool]
    <3>1. v \in Grant /\ v.st = st /\ v.spent = 0
      BY <1>4, <2>2 DEF Grant
    <3>2. \A g \in Grants : grant[g] \in {v, NoGrant}
      BY <2>2
    <3>3. \A g \in Grants : grant[g] \in Grant /\ grant[g].spent = 0 /\ grant[g].st # "consumed"
      BY <1>4, <3>1, <3>2
    <3>4. grant = [g \in Grants |-> grant[g]]
      BY <2>2
    <3> QED
      BY <3>3, <3>4 DEF GrantsOK
  <2> QED
    BY <2>1, <2>2 DEF CmdInit
<1>6. /\ receipt \in [Commands -> Receipt] /\ queue \in [Commands -> QueueRow]
      /\ host \in [Hosts -> Executor] /\ made \in [Commands -> 0..2]
      /\ departures \in 0..MaxDepartures /\ stalls \in 0..MaxStalls
  <2>1. receipt \in [Commands -> Receipt] /\ queue \in [Commands -> QueueRow]
    BY <1>1, <1>2 DEF CmdInit
  <2>2. host \in [Hosts -> Executor]
    BY <1>3 DEF CmdInit
  <2>3. made \in [Commands -> 0..2]
    <3>1. 0 \in 0..2
      OBVIOUS
    <3> QED
      BY <3>1 DEF CmdInit
  <2>4. departures = 0 /\ stalls = 0
    BY DEF CmdInit
  <2> QED
    BY <1>0, <2>1, <2>2, <2>3, <2>4
<1>7. \A c \in Commands : receipt[c].st = "absent" /\ ~Queued(c) /\ made[c] = 0
  BY <1>1, <1>2 DEF CmdInit, Queued
<1>8. \A c \in Commands : ReceiptOK(c)
  BY <1>7 DEF ReceiptOK
<1>9. \A h \in Hosts : KnowsOK(h)
  BY <1>3 DEF CmdInit, KnowsOK
<1> QED
  BY <1>5, <1>6, <1>8, <1>9 DEF CmdInv, CmdTypeOK

\* Every step keeps the invariant and settles as SettledByClaimant says.
LEMMA StepCmdInv == CmdInv /\ [CmdNext]_cmdVars => CmdInv' /\ [SettledStep]_cmdVars
<1> SUFFICES ASSUME CmdInv, [CmdNext]_cmdVars PROVE CmdInv' /\ [SettledStep]_cmdVars
  OBVIOUS
<1>1. ASSUME NEW c \in Commands, EnqueueCommand(c) \/ LeaseLapses(c)
      PROVE  CmdInv' /\ SettledStep
  BY <1>1, SubmitKeeps, LeasesKeep
<1>2. ASSUME NEW h \in Hosts, NEW c \in Commands, DispatchCommand(h, c) \/ ClaimCommand(h, c)
      PROVE  CmdInv' /\ SettledStep
  BY <1>2, SubmitKeeps, LeasesKeep
<1>3. ASSUME NEW h \in Hosts, Executes(h) \/ RenewClaim(h) \/ Departs(h)
      PROVE  CmdInv' /\ SettledStep
  BY <1>3, LeasesKeep, HandlersKeep, CompleteKeeps DEF Executes
<1>4. CASE RequeueStale \/ InvokeTool \/ \E g \in Grants : GrantLapses(g)
  BY <1>4, LeasesKeep, OutsideKeeps
<1>5. CASE UNCHANGED cmdVars
  BY <1>5 DEF cmdVars, CmdInv, CmdTypeOK, GrantsOK, ReceiptOK, KnowsOK, Queued, Decided, Refused
<1> QED
  BY <1>1, <1>2, <1>3, <1>4, <1>5 DEF CmdNext

\* The inductive invariant of receipts, grants and the processes that execute.
THEOREM CommandInvariant == CmdSpec => []CmdInv
  BY InitCmdInv, StepCmdInv, PTL DEF CmdSpec

\* The rows of the Control Plane and what its processes hold keep their shape.
THEOREM CommandsTyped == CmdSpec => []CmdTypeOK
<1>1. CmdInv => CmdTypeOK
  BY DEF CmdInv
<1> QED
  BY <1>1, CommandInvariant, PTL

\* However many escalations and tool calls have read a grant as approved, it is
\* spent once at most, and not at all once its refusal has been accepted.
THEOREM GrantsSpentOnce == CmdSpec => []GrantSpentOnce
<1>1. CmdInv => GrantSpentOnce
  BY DEF CmdInv, GrantsOK, ReceiptOK, Refused, Refusals, GrantSpentOnce
<1> QED
  BY <1>1, CommandInvariant, PTL

\* Executing a task.enqueue again, after a lost lease or a crash, finds the task
\* under the id of the command; success means that there is one.
THEOREM OneTaskEach == CmdSpec => []OneTaskPerCommand
<1>1. CmdInv => OneTaskPerCommand
  BY DEF CmdInv, ReceiptOK, OneTaskPerCommand
<1> QED
  BY <1>1, CommandInvariant, PTL

\* A queued command is settled by the worker whose claim is the last one, together
\* with its queue row, and only once.
THEOREM ClaimantsSettle == CmdSpec => SettledByClaimant
  BY CommandInvariant, StepCmdInv, PTL DEF CmdSpec, SettledByClaimant, SettledStep
=============================================================================
