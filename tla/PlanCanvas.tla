------------------------------ MODULE PlanCanvas ------------------------------
(* The planning canvas of a book: its revisioned row                       *)
(* (PlotWorkspaceRepository), the lifecycle of planning nodes and the      *)
(* author's proposals (StoryFlowPlanningService, ProposalStore), candidate *)
(* branches of a forecast, the adoption of a simulation's outcome, and the *)
(* fulfilment of a planned node by the writing pipeline.                   *)
(*                                                                         *)
(* Whoever needs the canvas calls load(), which reads the row and, if the  *)
(* story has changed since the row was saved, saves the merge of the two;  *)
(* worker threads do so while they gather context.  A write then opens a   *)
(* transaction of its own.                                                 *)
(* Left out: edges, positions and texts; the nodes of the story itself, of *)
(* which `shown' only says how much of the story the row has seen; nodes   *)
(* of a kind other than planning; the second save that a new story node    *)
(* causes; the form of a delta that replaces the whole graph; the          *)
(* revisions kept as history, which are written with the row.              *)
EXTENDS Naturals, FiniteSets

CONSTANTS
    Plans,          \* planning nodes the author may draw
    Adoptions,      \* rows of simulation_adoptions; the node of one has its id
    Branches,       \* candidate branches of forecasts, by their external id
    StoryCommits,   \* accepted commits of the tasks that write a planned node
    Threads,        \* handlers in worker threads
    Host,           \* the studio's event loop: one request at a time
    Deltas,         \* the changes the author may propose
    MaxStory,       \* bound: versions of the story
    MaxMoves        \* bound: requests, calls of handlers, and deaths

PlanningStatuses == {"draft", "candidate", "planned", "accepted", "superseded", "stale", "conflict"}
PlanNodes == Plans \cup Adoptions \cup Branches

ASSUME CanvasAssumption ==
    /\ Plans \cap Adoptions = {} /\ Plans \cap Branches = {} /\ Adoptions \cap Branches = {}
    /\ Host \notin Threads
    /\ 0 \notin StoryCommits
    /\ Deltas \subseteq [op: {"add", "set", "remove"}, node: PlanNodes, status: PlanningStatuses]
    /\ MaxStory \in Nat \ {0} /\ MaxMoves \in Nat

VARIABLES
    canvas,     \* the row of plot_workspaces; revision 0: there is none
    story,      \* the version of the story that build_source_graph finds
    proposal,   \* the status of each row of agent_proposals, by its id
    decision,   \* the status of the task of each proposal
    adoption,   \* the status of each row of simulation_adoptions
    planner,    \* what each process that is not at rest is doing
    moves       \* requests, calls and deaths so far

planVars == <<canvas, story, proposal, decision, adoption, planner, moves>>

PLANNING_TRANSITIONS ==
    [draft |-> {"candidate", "planned", "superseded", "conflict"},
     candidate |-> {"planned", "superseded", "stale", "conflict"},
     planned |-> {"accepted", "superseded", "stale", "conflict"},
     accepted |-> {},
     superseded |-> {},
     stale |-> {"planned", "superseded", "conflict"},
     conflict |-> {"planned", "superseded", "stale"}]

\* A node's status and the commit that fulfilled it.
NoNode == [status |-> "absent", commit |-> 0]
Drawn(status) == [status |-> status, commit |-> 0]
NoCanvas == [revision |-> 0, plan |-> [n \in PlanNodes |-> NoNode], shown |-> 0]

\* A proposal's id is a hash of its delta and the revision it was made for; a
\* canvas that is not there yet is at revision 1.
ReadRevision == IF canvas.revision = 0 THEN 1 ELSE canvas.revision

\* op: the call; loads: calls of load() still to come; row: the row load() read;
\* seen: the plan an earlier load() returned; expect: expected_revision, 0 if None.
AtRest == [op |-> "none", pc |-> "idle", loads |-> 0, row |-> NoCanvas, seen |-> NoCanvas.plan,
           node |-> 0, to |-> "absent", expect |-> 0, about |-> {}]

-----------------------------------------------------------------------------
(* The lifecycle of a node.                                                *)

MayBecome(plan, n, status) ==
    \/ plan[n].status \in {"absent", status}
    \/ \E old \in PlanningStatuses : plan[n].status = old /\ status \in PLANNING_TRANSITIONS[old]

\* validate_delta: a node that is not there is left to the write to report.
Valid(plan, d) ==
    CASE d.op = "add" -> d.status # "accepted"
      [] d.op = "set" -> MayBecome(plan, d.node, d.status)
                         /\ (d.status = "accepted" => plan[d.node].status \in {"absent", "accepted"})
      [] OTHER -> TRUE

\* _apply_operations raises on a node that is there, or is not.
Applicable(plan, d) ==
    CASE d.op = "add" -> plan[d.node].status = "absent"
      [] d.op = "set" -> plan[d.node].status # "absent"
      [] OTHER -> TRUE

Applied(plan, d) ==
    CASE d.op = "add" -> [plan EXCEPT ![d.node] = Drawn(d.status)]
      [] d.op = "set" -> [plan EXCEPT ![d.node].status = d.status]
      [] OTHER -> [plan EXCEPT ![d.node] = NoNode]

\* _is_candidate_node: a branch of a forecast counts as one whatever its status.
IsCandidate(plan, n) == plan[n].status = "candidate" \/ (n \in Branches /\ plan[n].status # "absent")

-----------------------------------------------------------------------------
(* Processes.                                                              *)

Rests(p) == p \notin DOMAIN planner
AtPoint(p, pc) == ~Rests(p) /\ planner[p].pc = pc
PlannerAt(p, op, pc) == AtPoint(p, pc) /\ planner[p].op = op
Stops(p) == planner' = [q \in DOMAIN planner \ {p} |-> planner[q]]
Becomes(p, me) ==
    IF me = AtRest THEN Stops(p)
    ELSE planner' = [q \in DOMAIN planner \cup {p} |-> IF q = p THEN me ELSE planner[q]]

Moved == moves < MaxMoves /\ moves' = moves + 1

\* A call that begins with n calls of load().
Call(p, op, n) == [AtRest EXCEPT !.op = op, !.pc = "load", !.loads = n]
Begins(p, record) ==
    /\ Rests(p) /\ Moved
    /\ Becomes(p, record)
    /\ UNCHANGED <<canvas, story, proposal, decision, adoption>>

-----------------------------------------------------------------------------
(* load(): the row is read, then the story, and what differs is saved.     *)

LoadRow(p) ==
    /\ AtPoint(p, "load")
    /\ planner' = [planner EXCEPT ![p].pc = "merge", ![p].row = canvas]
    /\ UNCHANGED <<canvas, story, proposal, decision, adoption, moves>>

\* What a caller does with the plan that load() returns.
AfterLoad(p, plan) ==
    LET me == planner[p]
        again == [me EXCEPT !.pc = "load", !.loads = @ - 1, !.seen = plan]
        write == [me EXCEPT !.pc = "write", !.loads = 0]
        here == plan[me.node]
    IN  CASE me.op = "look" -> AtRest
          [] me.op = "import" -> write
          [] me.op = "confirm" ->
                IF me.loads > 1 THEN again
                ELSE IF \A id \in me.about : Valid(plan, id.delta) THEN write ELSE AtRest
          [] me.op = "fulfil" ->
                IF me.loads > 1
                THEN IF here.status = "planned" THEN again ELSE AtRest
                ELSE IF MayBecome(plan, me.node, "accepted") THEN write ELSE AtRest
          [] me.op = "decide" ->
                IF me.loads > 1
                THEN IF IsCandidate(plan, me.node) THEN again ELSE AtRest
                ELSE IF MayBecome(plan, me.node, me.to) THEN write ELSE AtRest
          [] me.op = "adopt" ->
                IF me.loads = 3 /\ here.status # "absent" THEN [me EXCEPT !.pc = "mark", !.loads = 0]
                ELSE IF me.loads > 1 THEN again ELSE write
          [] OTHER -> IF here.status # "absent" THEN [me EXCEPT !.pc = "mark", !.loads = 0] ELSE AtRest

\* _save_merged_source writes what was made of the row read before, whatever the
\* row says now, and leaves the revision as it finds it.
MergedRow(row) == [canvas EXCEPT !.plan = row.plan, !.shown = story]

LoadRest(p) ==
    /\ AtPoint(p, "merge")
    /\ LET row == planner[p].row
           insert == row.revision = 0
           clash == insert /\ canvas.revision # 0        \* book_id is unique
       IN  /\ canvas' = IF clash THEN canvas
                        ELSE IF insert THEN [NoCanvas EXCEPT !.revision = 1]
                        ELSE IF row.shown # story THEN MergedRow(row)
                        ELSE canvas
           /\ Becomes(p, IF clash THEN AtRest ELSE AfterLoad(p, row.plan))
    /\ UNCHANGED <<story, proposal, decision, adoption, moves>>

\* Chapters, characters and events are written by the rest of the system.
StoryMoves ==
    /\ story < MaxStory
    /\ story' = story + 1
    /\ UNCHANGED <<canvas, proposal, decision, adoption, planner, moves>>

-----------------------------------------------------------------------------
(* apply_delta: the write itself, on the row as it is now.                 *)

\* Mutant of Fresh: the transaction does not compare the revision.
FreshAlways(expected) == canvas.revision # 0 /\ expected \in Nat

Fresh(expected) == canvas.revision # 0 /\ (expected = 0 \/ expected = canvas.revision)

\* Mutant of NextRow: a write keeps the revision.
NextRowUncounted(plan) == [canvas EXCEPT !.plan = plan]

NextRow(plan) == [canvas EXCEPT !.revision = @ + 1, !.plan = plan]

\* get_plot_canvas, and the context of a handler: load() alone.
Look(p) == Begins(p, Call(p, "look", 1))

-----------------------------------------------------------------------------
(* Proposals: preview, confirmation, and what other hosts do meanwhile.    *)

\* preview_delta reads the row and the story without saving anything; a proposal
\* that is there is returned.
AskPreview(d) ==
    LET id == [revision |-> ReadRevision, delta |-> d]
    IN  /\ Valid(canvas.plan, d) /\ Applicable(canvas.plan, d)
        /\ id \notin DOMAIN proposal
        /\ Begins(Host, [AtRest EXCEPT !.op = "preview", !.pc = "enqueue", !.about = {id}])

\* enqueue under the proposal's key: a task that is there is returned as it is.
EnqueueDecision ==
    /\ PlannerAt(Host, "preview", "enqueue")
    /\ decision' = [id \in DOMAIN decision \cup planner[Host].about |->
                       IF id \in DOMAIN decision THEN decision[id] ELSE "needs_author_decision"]
    /\ planner' = [planner EXCEPT ![Host].pc = "record"]
    /\ UNCHANGED <<canvas, story, proposal, adoption, moves>>

RecordProposal ==
    /\ PlannerAt(Host, "preview", "record")
    /\ proposal' = [id \in DOMAIN proposal \cup planner[Host].about |->
                       IF id \in planner[Host].about THEN "PROPOSED" ELSE proposal[id]]
    /\ Stops(Host)
    /\ UNCHANGED <<canvas, story, decision, adoption, moves>>

\* apply_proposal; one that was ACCEPTED before only looks, and only if its task
\* has no result to return.
AskConfirm(id) ==
    /\ proposal[id] \in {"PROPOSED", "ACCEPTED"} /\ decision[id] # "completed"
    /\ IF proposal[id] = "ACCEPTED"
       THEN Begins(Host, Call(Host, "look", 1))
       ELSE Begins(Host, [Call(Host, "confirm", IF canvas.revision = 0 THEN 2 ELSE 1) EXCEPT
                            !.about = {id}, !.expect = id.revision])

\* Canvas, proposal and task change together or not at all.
Confirm(id) ==
    /\ PlannerAt(Host, "confirm", "write") /\ planner[Host].about = {id}
    /\ IF /\ proposal[id] = "PROPOSED" /\ decision[id] = "needs_author_decision"
          /\ Fresh(planner[Host].expect) /\ Applicable(canvas.plan, id.delta)
       THEN /\ canvas' = NextRow(Applied(canvas.plan, id.delta))
            /\ proposal' = [proposal EXCEPT ![id] = "ACCEPTED"]
            /\ decision' = [decision EXCEPT ![id] = "completed"]
       ELSE UNCHANGED <<canvas, proposal, decision>>
    /\ Stops(Host)
    /\ UNCHANGED <<story, adoption, moves>>

\* The commands proposal.accept, proposal.reject and proposal.supersede of the
\* control plane; accept applies nothing.
DecideProposal(id, status) ==
    /\ Moved
    /\ proposal[id] = "PROPOSED"
    /\ proposal' = [proposal EXCEPT ![id] = status]
    /\ UNCHANGED <<canvas, story, decision, adoption, planner>>

\* The author cancels or retries the task, as any other task.
LeaveDecision(id, status) ==
    /\ Moved
    /\ decision[id] = "needs_author_decision"
    /\ decision' = [decision EXCEPT ![id] = status]
    /\ UNCHANGED <<canvas, story, proposal, adoption, planner>>

-----------------------------------------------------------------------------
(* Candidates.                                                             *)

\* _apply_candidate_set_transaction: a branch that is there is not made again.
AskImport(p, b, expected) == Begins(p, [Call(p, "import", 1) EXCEPT !.node = b, !.expect = expected])

ImportBranch(p) ==
    /\ PlannerAt(p, "import", "write")
    /\ LET b == planner[p].node
       IN  canvas' = IF Fresh(planner[p].expect) /\ canvas.plan[b].status = "absent"
                     THEN NextRow([canvas.plan EXCEPT ![b] = Drawn("candidate")])
                     ELSE canvas
    /\ Stops(p)
    /\ UNCHANGED <<story, proposal, decision, adoption, moves>>

\* decide(): adopt or discard, with or without the revision the author saw.
AskDecide(n, to, expected) ==
    Begins(Host, [Call(Host, "decide", 2) EXCEPT !.node = n, !.to = to, !.expect = expected])

DecideCandidate ==
    /\ PlannerAt(Host, "decide", "write")
    /\ LET n == planner[Host].node
       IN  canvas' = IF Fresh(planner[Host].expect) /\ canvas.plan[n].status # "absent"
                     THEN NextRow([canvas.plan EXCEPT ![n].status = planner[Host].to])
                     ELSE canvas
    /\ Stops(Host)
    /\ UNCHANGED <<story, proposal, decision, adoption, moves>>

-----------------------------------------------------------------------------
(* Fulfilment.                                                             *)

\* mark_intent_accepted: by the pipeline after its commit, or by the author's
\* reconcile request.  A node already fulfilled is refused or left as it is.
AskFulfil(p, n, c, expected) ==
    Begins(p, [Call(p, "fulfil", 2) EXCEPT !.node = n, !.expect = expected, !.about = {c}])

Fulfil(p) ==
    /\ PlannerAt(p, "fulfil", "write")
    /\ LET n == planner[p].node
       IN  \E c \in planner[p].about :
              canvas' = IF Fresh(planner[p].expect) /\ canvas.plan[n].status # "absent"
                        THEN NextRow([canvas.plan EXCEPT ![n] = [status |-> "accepted", commit |-> c]])
                        ELSE canvas
    /\ Stops(p)
    /\ UNCHANGED <<story, proposal, decision, adoption, moves>>

-----------------------------------------------------------------------------
(* Adoption of a simulation's outcome.                                     *)

AskAdopt(a, expected) ==
    /\ adoption[a] = "PROPOSED"
    /\ Begins(Host, [Call(Host, "adopt", 3) EXCEPT !.node = a, !.expect = expected])

\* add_node.  A stale revision is an error; a node that is there after all is
\* looked for once more.
AdoptNode ==
    /\ PlannerAt(Host, "adopt", "write")
    /\ LET a == planner[Host].node
           adds == Fresh(planner[Host].expect) /\ canvas.plan[a].status = "absent"
       IN  /\ canvas' = IF adds THEN NextRow([canvas.plan EXCEPT ![a] = Drawn("planned")]) ELSE canvas
           /\ Becomes(Host,
                 IF adds THEN [planner[Host] EXCEPT !.pc = "mark"]
                 ELSE IF Fresh(planner[Host].expect)
                 THEN [planner[Host] EXCEPT !.op = "recover", !.pc = "load", !.loads = 1]
                 ELSE AtRest)
    /\ UNCHANGED <<story, proposal, decision, adoption, moves>>

\* The row of the adoption follows the node, in a transaction of its own.
MarkAdopted ==
    /\ AtPoint(Host, "mark")
    /\ adoption' = [adoption EXCEPT ![planner[Host].node] = "ADOPTED"]
    /\ Stops(Host)
    /\ UNCHANGED <<canvas, story, proposal, decision, moves>>

RejectAdoption(a) ==
    /\ Rests(Host) /\ Moved
    /\ adoption[a] = "PROPOSED"
    /\ adoption' = [adoption EXCEPT ![a] = "REJECTED"]
    /\ UNCHANGED <<canvas, story, proposal, decision, planner>>

\* A process dies between two of its steps.
PlannerDies(p) ==
    /\ ~Rests(p) /\ Moved
    /\ Stops(p)
    /\ UNCHANGED <<canvas, story, proposal, decision, adoption>>

-----------------------------------------------------------------------------

FirstRow(n, s) == [revision |-> 2, shown |-> 1, plan |-> [NoCanvas.plan EXCEPT ![n] = Drawn(s)]]

\* Some changes of the canvas that is there have been previewed.
Previewed(deltas) ==
    LET ids == [revision : {canvas.revision} \ {0}, delta : deltas]
    IN  /\ proposal = [id \in ids |-> "PROPOSED"]
        /\ decision = [id \in ids |-> "needs_author_decision"]

\* The canvas was never opened, or has a first node of the author's and perhaps
\* every change of it was previewed, in browser tabs that are still open.
PlanInit ==
    /\ canvas \in {NoCanvas} \cup {FirstRow(n, s) : n \in Plans, s \in {"candidate", "planned"}}
    /\ story = 1
    /\ \/ Previewed({})
       \/ Previewed({d \in Deltas : Valid(canvas.plan, d) /\ Applicable(canvas.plan, d)})
    /\ adoption = [a \in Adoptions |-> "PROPOSED"]
    /\ planner = [p \in {} |-> AtRest]
    /\ moves = 0

\* A handler in a thread names no revision; the author's request may name the one
\* that the author saw.
Named(p) == IF p = Host THEN {0, canvas.revision} ELSE {0}

PlannerStep(p) ==
    \/ Look(p) \/ LoadRow(p) \/ LoadRest(p) \/ PlannerDies(p)
    \/ \E b \in Branches, expected \in Named(p) : AskImport(p, b, expected)
    \/ \E n \in PlanNodes, c \in StoryCommits, expected \in Named(p) : AskFulfil(p, n, c, expected)
    \/ ImportBranch(p) \/ Fulfil(p)

AuthorStep ==
    \/ \E d \in Deltas : AskPreview(d)
    \/ \E id \in DOMAIN proposal : AskConfirm(id) \/ Confirm(id)
    \/ \E n \in PlanNodes, to \in {"planned", "superseded"}, expected \in Named(Host) :
          AskDecide(n, to, expected)
    \/ \E a \in Adoptions : RejectAdoption(a) \/ \E expected \in Named(Host) : AskAdopt(a, expected)
    \/ EnqueueDecision \/ RecordProposal \/ DecideCandidate \/ AdoptNode \/ MarkAdopted

PlanNext ==
    \/ \E p \in Threads \cup {Host} : PlannerStep(p)
    \/ AuthorStep
    \/ \E id \in DOMAIN proposal, status \in {"ACCEPTED", "REJECTED", "SUPERSEDED"} :
          DecideProposal(id, status)
    \/ \E id \in DOMAIN decision, status \in {"cancelled", "queued"} : LeaveDecision(id, status)
    \/ StoryMoves

PlanSpec == PlanInit /\ [][PlanNext]_planVars

-----------------------------------------------------------------------------
(* Properties.                                                             *)

\* The proposals whose task is done.
Done == {id \in DOMAIN decision : decision[id] = "completed"}

\* Two browser tabs never both get their way on one revision: each proposal whose
\* task is done was accepted with it, and consumed a revision no other consumed.
ConfirmedOnce ==
    \A id \in Done :
        /\ proposal[id] = "ACCEPTED" /\ id.revision < canvas.revision
        /\ \A other \in Done : other.revision = id.revision => other = id

\* The author draws a node, or removes it by a proposal, or it moves along
\* PLANNING_TRANSITIONS; only a commit fulfils it, once.
LawfulMove(n) ==
    LET old == canvas.plan[n]
        new == canvas'.plan[n]
    IN  \/ new = old
        \/ old = NoNode /\ new.status # "accepted" /\ new.commit = 0
        \/ /\ new = NoNode
           /\ \E id \in Done' \ Done : id.delta.op = "remove" /\ id.delta.node = n
        \/ /\ "absent" \notin {old.status, new.status}
           /\ new.status \in PLANNING_TRANSITIONS[old.status]
           /\ IF new.status = "accepted" THEN new.commit # 0 ELSE new.commit = old.commit

\* Somebody has changed n since process p looked, and p saves a merge, or writes.
\* If p names a revision, the change was a merge, which keeps the revision.
OvertakenAt(p, n) ==
    LET me == planner[p]
    IN  /\ p \notin DOMAIN planner' \/ planner'[p] # me
        /\ \/ me.pc = "merge" /\ canvas.plan[n] # me.row.plan[n]
           \/ /\ me.pc = "write"
              /\ \/ canvas.plan[n] # me.row.plan[n]
                 \/ me.op = "fulfil" /\ canvas.plan[n] # me.seen[n]
              /\ me.expect = 0 \/ me.row.revision = canvas.revision

\* A planning node leaves its lifecycle only when its writer was overtaken, and a
\* writer that names its revision only when a merge overtook it.
LifecycleKept ==
    \A n \in PlanNodes : LawfulMove(n) \/ \E p \in DOMAIN planner : OvertakenAt(p, n)
PlanKept == [][LifecycleKept]_planVars
=============================================================================
