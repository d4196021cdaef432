--------------------------- MODULE ChapterPipeline --------------------------
(***************************************************************************)
(* The pipeline that writes one chapter, run by a worker under a lease:    *)
(* WritingPipeline.execute and its stage handlers                          *)
(* (src/src/pipeline/writing_pipeline.py), the chapter workflow the queue  *)
(* keeps beside the task (core/task_workflow.py and TaskRuntime.checkpoint *)
(* and transition), and the author's decision on a task that stopped       *)
(* (web/studio.py), over the truth store of StoryCanon.                    *)
(*                                                                         *)
(* A handler reads, calls a model and writes; other steps may come between *)
(* any two of its transactions.  execute() looks at the task's status only *)
(* between two stages, and there at `cancelling' and `paused' only: under  *)
(* every other status it goes on to the next handler.                      *)
(*                                                                         *)
(* Abstractions: the stages from PRECHECK to COMPOSE_WRITING_PROMPT change *)
(* nothing but the context and are one stage, PRECHECK; a review is known  *)
(* by its id and whether it passed (score, verdict and issues together);   *)
(* the attempt counter and the back-off are left to TaskRuntime: a failure *)
(* may be retried or not.  An exception that leaves run_once with nothing  *)
(* written is the loss of the process, Crash; the checkpoint a worker has  *)
(* prepared under its own lease is read and written in one step, since a   *)
(* lease lost in between makes it such an exception.                       *)
(***************************************************************************)
EXTENDS StoryCanon

CONSTANTS
    Tasks,          \* ids of write-next rows, in creation order
    Workers,        \* workers, named by their lease owner
    NoWorker,       \* lease_owner IS NULL
    MaxRevisions,   \* max_revisions
    PlanChapters,   \* bound: the chapters write-next is asked for
    MaxDisturbances \* bound: requests of the author, expiries, failures and crashes

ASSUME PipelineAssumption ==
    /\ Tasks \subseteq Nat \ {0}
    /\ NoWorker \notin Workers
    /\ MaxRevisions \in Nat
    /\ PlanChapters \subseteq Chapters
    /\ MaxDisturbances \in Nat

VARIABLES
    task,   \* tasks, with the latest row of task_checkpoints
    job,    \* what each worker's process holds
    spent   \* counts the disturbances

vars == <<canonVars, task, job, spent>>

-----------------------------------------------------------------------------
(* The chapter workflow.                                                   *)

Stages == {"PRECHECK", "GENERATE_DRAFT", "REVIEW", "QUALITY_GATE", "REVISION",
           "EXTRACT_FACTS", "CREATE_STORY_COMMIT", "COMPLETE", "DONE"}

Gates == {"none", "REVISE", "PASS", "AUTHOR_OVERRIDE", "MAX_REVISIONS"}

Ctx == [ver: 0..MaxVersion, review: ReviewIds \cup {0}, rev: 0..MaxRevisions, gate: Gates,
        commit: CommitIds \cup {0}, override: BOOLEAN]

NewCtx == [ver |-> 0, review |-> 0, rev |-> 0, gate |-> "none", commit |-> 0, override |-> FALSE]

\* CHAPTER_WORKFLOW_STATES in their order; CONTEXT_READY and COMPUTE_PLANNED
\* are the collapsed stages'.
Order == [PLANNED |-> 0, GENERATING |-> 3, DRAFTED |-> 4, REVIEWING |-> 5,
          REVISION_REQUIRED |-> 6, REVISING |-> 7, GATE_PENDING |-> 8, VERIFIED |-> 9,
          COMMIT_PENDING |-> 10, COMMITTED |-> 11]

Workflow == DOMAIN Order

\* state_for_stage.  DONE is reached only with completed = True and a commit.
StateForStage(stage, ctx) ==
    CASE stage = "PRECHECK" -> "PLANNED"
      [] stage = "GENERATE_DRAFT" -> "GENERATING"
      [] stage = "REVIEW" -> "DRAFTED"
      [] stage = "QUALITY_GATE" -> "REVIEWING"
      [] stage = "REVISION" -> "REVISION_REQUIRED"
      [] stage = "EXTRACT_FACTS" -> "VERIFIED"
      [] stage = "CREATE_STORY_COMMIT" -> "COMMIT_PENDING"
      [] stage = "COMPLETE" -> IF ctx.gate = "MAX_REVISIONS" /\ ctx.commit = 0
                               THEN "REVISION_REQUIRED" ELSE "COMMIT_PENDING"
      [] stage = "DONE" -> "COMMITTED"

\* can_advance_workflow_state: forward, or back by an edge of the revision loop.
CanAdvance(from, to) ==
    \/ from = to
    \/ from # "COMMITTED" /\ Order[to] > Order[from]
    \/ from = "REVISING" /\ to = "DRAFTED"
    \/ from = "GATE_PENDING" /\ to = "REVISION_REQUIRED"

-----------------------------------------------------------------------------
(* Rows and processes.                                                     *)

Statuses == {"absent", "queued", "running", "paused", "cancelling", "completed", "failed",
             "cancelled", "needs_author_decision"}
Active == {"running", "cancelling"}

\* saved: a checkpoint exists; before it, stage and ctx are those the task
\* was created with.  from: the task and the decision it continues.
TaskRow == [st: Statuses, owner: Workers \cup {NoWorker}, ch: Chapters \cup {0},
            stage: Stages, ctx: Ctx, saved: BOOLEAN, wf: Workflow,
            from: Tasks \cup {0}, decision: {"none", "accept", "reject"}]

NoTaskRow == [st |-> "absent", owner |-> NoWorker, ch |-> 0, stage |-> "PRECHECK", ctx |-> NewCtx,
              saved |-> FALSE, wf |-> "PLANNED", from |-> 0, decision |-> "none"]

\* pc of a worker: "at" the boundary before `stage'; "in" its handler, past
\* the handler's first transaction; "out" of it, with the next stage in
\* hand; "parked" when it has read that the task is paused.  now: the
\* chapter status COMPLETE believes in.
Job == [pc: {"idle", "at", "in", "out", "parked"}, task: Tasks \cup {0}, stage: Stages,
        ctx: Ctx, id: CommitIds \cup {0}, now: ChapterStatus]

Idle == [pc |-> "idle", task |-> 0, stage |-> "PRECHECK", ctx |-> NewCtx, id |-> 0,
         now |-> "absent"]

NextTask(t) == task[t].st = "absent" /\ \A u \in Tasks : u < t => task[u].st # "absent"

T(w) == task[job[w].task]
Holds(w) == T(w).owner = w
Settled(t, s) == [task EXCEPT ![t].st = s, ![t].owner = NoWorker]

Stop(w) == job' = [job EXCEPT ![w] = Idle]
Goto(w, pc, stage, ctx) ==
    job' = [job EXCEPT ![w] = [Idle EXCEPT !.pc = pc, !.task = job[w].task, !.stage = stage,
                                           !.ctx = ctx]]

-----------------------------------------------------------------------------
(* The queue, the author and time.                                         *)

Enqueue(t, ch) ==
    /\ NextTask(t)
    /\ task' = [task EXCEPT ![t] = [NoTaskRow EXCEPT !.st = "queued", !.ch = ch]]
    /\ UNCHANGED <<canonVars, job>>

\* POST /tasks/{id}/author-decision: continue in a new task, once for each
\* decision, from the latest checkpoint and only if its draft is still the
\* latest text.
AuthorDecision(t, u, d) ==
    LET row == task[t]
        ctx == [row.ctx EXCEPT !.override = d = "accept",
                               !.gate = IF d = "accept" THEN "AUTHOR_OVERRIDE" ELSE @] IN
    /\ row.st = "needs_author_decision" /\ row.saved /\ row.ctx.ver # 0
    /\ Written(row.ch) /\ row.ctx.ver = Latest(row.ch)
    /\ \A v \in Tasks : ~(task[v].from = t /\ task[v].decision = d)
    /\ NextTask(u)
    /\ task' = [task EXCEPT ![u] = [NoTaskRow EXCEPT
                    !.st = "queued", !.ch = row.ch, !.ctx = ctx, !.from = t, !.decision = d,
                    !.stage = IF d = "accept" THEN "EXTRACT_FACTS" ELSE "REVIEW",
                    !.wf = IF d = "accept" THEN "VERIFIED" ELSE "DRAFTED"]]
    /\ UNCHANGED <<canonVars, job>>

Pause(t) ==
    /\ task[t].st = "running"
    /\ task' = Settled(t, "paused")
    /\ UNCHANGED <<canonVars, job>>

\* resume() and retry()
Requeue(t) ==
    /\ task[t].st \in {"paused", "failed", "needs_author_decision"}
    /\ task' = Settled(t, "queued")
    /\ UNCHANGED <<canonVars, job>>

Cancel(t) ==
    /\ \/ /\ task[t].st \in {"queued", "paused", "needs_author_decision"}
          /\ task' = Settled(t, "cancelled")
       \/ /\ task[t].st = "running"
          /\ task' = [task EXCEPT ![t].st = "cancelling"]
    /\ UNCHANGED <<canonVars, job>>

\* recover_expired_leases: the writing of a chapter is never resumed by itself.
LeaseExpires(t) ==
    /\ task[t].st \in Active
    /\ task' = Settled(t, "needs_author_decision")
    /\ UNCHANGED <<canonVars, job>>

\* The worker's process ends, with whatever it held.
Crash(w) ==
    /\ job[w].pc # "idle"
    /\ Stop(w)
    /\ UNCHANGED <<canonVars, task>>

-----------------------------------------------------------------------------
(* One turn of execute()'s loop.                                           *)

Claim(w, t) ==
    /\ job[w].pc = "idle"
    /\ task[t].st = "queued"
    /\ task' = [task EXCEPT ![t].st = "running", ![t].owner = w]
    /\ job' = [job EXCEPT ![w] = [Idle EXCEPT !.pc = "at", !.task = t, !.stage = task[t].stage,
                                              !.ctx = task[t].ctx]]
    /\ UNCHANGED canonVars

\* The boundary: the task asked to stop is left here.
StopsHere(w) ==
    /\ job[w].pc = "at"
    /\ \/ /\ T(w).st = "cancelling" /\ Holds(w)
          /\ task' = Settled(job[w].task, "cancelled")
       \/ T(w).st = "paused" /\ UNCHANGED task
       \/ job[w].stage = "DONE" /\ T(w).st \notin Active /\ UNCHANGED task
    /\ Stop(w)
    /\ UNCHANGED canonVars

\* ... and any other task goes on to the next handler.
GoesOn(w, stage) ==
    job[w].pc = "at" /\ job[w].stage = stage /\ T(w).st \notin {"cancelling", "paused"}

\* CONCURRENT_WRITE is a check of this moment; a failed one is a Fail.
Precheck(w) ==
    /\ GoesOn(w, "PRECHECK")
    /\ \A u \in Tasks : u # job[w].task => task[u].st # "running"
    /\ Goto(w, "out", "GENERATE_DRAFT", job[w].ctx)
    /\ UNCHANGED <<canonVars, task>>

\* GENERATE_DRAFT and REVISION note that the model is about to be called,
\* in a checkpoint under the lease.
CallModel(w, stage, wf) ==
    /\ GoesOn(w, stage)
    /\ Holds(w) /\ CanAdvance(T(w).wf, wf)
    /\ stage = "REVISION" => HasVersion(T(w).ch, job[w].ctx.ver)
    /\ task' = [task EXCEPT ![job[w].task].stage = stage, ![job[w].task].ctx = job[w].ctx,
                            ![job[w].task].saved = TRUE, ![job[w].task].wf = wf]
    /\ Goto(w, "in", stage, job[w].ctx)
    /\ UNCHANGED canonVars

StartDraft(w) == CallModel(w, "GENERATE_DRAFT", "GENERATING")
StartRevision(w) == CallModel(w, "REVISION", "REVISING")

\* append_chapter_version with no status: the one of the row is kept.
AppendVersion(ch) ==
    \/ NewChapter(ch, "draft")
    \/ NewText(ch, chapter[ch].status)
    \/ KeepText(ch, chapter[ch].status)

\* The answer becomes a version and the draft of the context; the lease is
\* not looked at.
AppendDraft(w) ==
    LET ch == T(w).ch  revised == IF job[w].stage = "REVISION" THEN 1 ELSE 0 IN
    /\ job[w].pc = "in" /\ job[w].stage \in {"GENERATE_DRAFT", "REVISION"}
    /\ AppendVersion(ch)
    /\ Goto(w, "out", "REVIEW", [job[w].ctx EXCEPT !.ver = chapter'[ch].head,
                                                   !.rev = @ + revised])
    /\ UNCHANGED task

Review(w) ==
    /\ GoesOn(w, "REVIEW")
    /\ \E r \in ReviewIds, pass \in BOOLEAN :
          /\ SaveReview(r, T(w).ch, job[w].ctx.ver, pass)
          /\ Goto(w, "out", "QUALITY_GATE", [job[w].ctx EXCEPT !.review = r])
    /\ UNCHANGED task

\* Mutant of Gate: one revision too many.
GateOnceMore(ctx) ==
    IF ctx.override THEN "AUTHOR_OVERRIDE"
    ELSE IF review[ctx.review].pass THEN "PASS"
    ELSE IF ctx.rev > MaxRevisions THEN "MAX_REVISIONS"
    ELSE "REVISE"

\* _quality_gate
Gate(ctx) ==
    IF ctx.override THEN "AUTHOR_OVERRIDE"
    ELSE IF review[ctx.review].pass THEN "PASS"
    ELSE IF ctx.rev >= MaxRevisions THEN "MAX_REVISIONS"
    ELSE "REVISE"

QualityGate(w) ==
    LET gate == Gate(job[w].ctx) IN
    /\ GoesOn(w, "QUALITY_GATE")
    /\ Goto(w, "out", CASE gate \in {"PASS", "AUTHOR_OVERRIDE"} -> "EXTRACT_FACTS"
                        [] gate = "MAX_REVISIONS" -> "COMPLETE"
                        [] OTHER -> "REVISION",
            [job[w].ctx EXCEPT !.gate = gate])
    /\ UNCHANGED <<canonVars, task>>

ExtractFacts(w) ==
    /\ GoesOn(w, "EXTRACT_FACTS")
    /\ HasVersion(T(w).ch, job[w].ctx.ver)
    /\ Goto(w, "out", "CREATE_STORY_COMMIT", job[w].ctx)
    /\ UNCHANGED <<canonVars, task>>

\* _create_commit: create_story_commit, then accept_story_commit.
CreateStoryCommit(w) ==
    LET ctx == job[w].ctx IN
    /\ GoesOn(w, "CREATE_STORY_COMMIT")
    /\ \E id \in CommitIds :
          /\ CreateCommit(id, T(w).ch, ctx.ver, ctx.review, ctx.override)
          /\ job' = [job EXCEPT ![w].pc = "in", ![w].id = id]
    /\ UNCHANGED task

AcceptStoryCommit(w) ==
    LET id == job[w].id IN
    /\ job[w].pc = "in" /\ job[w].stage = "CREATE_STORY_COMMIT"
    /\ \/ Accept(id, job[w].ctx.override)
       \/ commit[id].st = "accepted" /\ UNCHANGED canonVars     \* idempotent
    /\ Goto(w, "out", "COMPLETE", [job[w].ctx EXCEPT !.commit = id])
    /\ UNCHANGED task

\* _complete reads the chapter's status, once.
StartComplete(w) ==
    LET ctx == job[w].ctx IN
    /\ GoesOn(w, "COMPLETE")
    /\ Written(T(w).ch)
    /\ ctx.gate = "MAX_REVISIONS" => ctx.override
    /\ ctx.gate \in {"PASS", "AUTHOR_OVERRIDE"} \/ ctx.override
    /\ ctx.commit # 0
    /\ job' = [job EXCEPT ![w].pc = "in", ![w].now = chapter[T(w).ch].status]
    /\ UNCHANGED <<canonVars, task>>

\* draft to drafted to approved to committed, a transaction each.
Promoted(s) == CASE s = "draft" -> "drafted"
                 [] s \in {"drafted", "reviewing"} -> "approved"
                 [] OTHER -> "committed"

Promote(w) ==
    /\ job[w].pc = "in" /\ job[w].stage = "COMPLETE" /\ job[w].now # "committed"
    /\ TransitionStatus(T(w).ch, Promoted(job[w].now))
    /\ job' = [job EXCEPT ![w].now = Promoted(job[w].now)]
    /\ UNCHANGED task

EndComplete(w) ==
    /\ job[w].pc = "in" /\ job[w].stage = "COMPLETE" /\ job[w].now = "committed"
    /\ Goto(w, "out", "DONE", job[w].ctx)
    /\ UNCHANGED <<canonVars, task>>

\* The revisions are used up, or a status move was refused: to the author.
AsksAuthor(w) ==
    /\ \/ /\ GoesOn(w, "COMPLETE") /\ Written(T(w).ch)
          /\ job[w].ctx.gate = "MAX_REVISIONS" /\ ~job[w].ctx.override
       \/ /\ job[w].pc = "in" /\ job[w].stage = "COMPLETE" /\ job[w].now # "committed"
          /\ ~MaySave(T(w).ch, Promoted(job[w].now))
    /\ Holds(w)
    /\ task' = Settled(job[w].task, "needs_author_decision")
    /\ Stop(w)
    /\ UNCHANGED canonVars

\* Mutant of ValidCompletion: the reference is enough.
ValidCompletionByRef(ctx) == ctx.commit # 0

\* _validate_chapter_completion
ValidCompletion(ctx) ==
    ctx.commit # 0 /\ commit[ctx.commit].st = "accepted" /\ ctx.commit \in active

\* TaskRuntime.checkpoint of the next stage; it refuses a workflow state that
\* goes back and a COMMITTED without its canon.
Checkpoint(w) ==
    LET stage == job[w].stage  ctx == job[w].ctx  wf == StateForStage(stage, ctx) IN
    /\ CanAdvance(T(w).wf, wf)
    /\ wf = "COMMITTED" => ValidCompletion(ctx)
    /\ task' = [task EXCEPT ![job[w].task].stage = stage, ![job[w].task].ctx = ctx,
                            ![job[w].task].saved = TRUE, ![job[w].task].wf = wf]

Save(w) ==
    /\ job[w].pc = "out"
    /\ T(w).st \in Active /\ Holds(w) /\ Checkpoint(w)
    /\ Goto(w, "at", job[w].stage, job[w].ctx)
    /\ UNCHANGED canonVars

\* The task is neither active nor paused: nothing is saved, the loop goes on.
SaveNothing(w) ==
    /\ job[w].pc = "out"
    /\ T(w).st \notin Active \cup {"paused"}
    /\ Goto(w, "at", job[w].stage, job[w].ctx)
    /\ UNCHANGED <<canonVars, task>>

SeesPaused(w) ==
    /\ job[w].pc = "out" /\ T(w).st = "paused"
    /\ Goto(w, "parked", job[w].stage, job[w].ctx)
    /\ UNCHANGED <<canonVars, task>>

\* Having read `paused', the worker saves without naming its lease, whoever
\* holds the task by now.
SaveParked(w) ==
    /\ job[w].pc = "parked"
    /\ T(w).st \in Active \cup {"paused"} /\ Checkpoint(w)
    /\ Goto(w, "at", job[w].stage, job[w].ctx)
    /\ UNCHANGED canonVars

-----------------------------------------------------------------------------
(* The worker's end of a task: PersistentTaskWorker.run_once.              *)

Finish(w) ==
    /\ job[w].pc = "at" /\ job[w].stage = "DONE"
    /\ T(w).st = "running" /\ Holds(w)
    /\ T(w).wf = "COMMITTED" /\ ValidCompletion(job[w].ctx)
    /\ task' = Settled(job[w].task, "completed")
    /\ Stop(w)
    /\ UNCHANGED canonVars

\* fail(): an exception of a handler or of the queue, at any point.
Fail(w) ==
    /\ job[w].pc # "idle" /\ Holds(w)
    /\ \/ T(w).st = "running" /\ \E s \in {"queued", "failed"} : task' = Settled(job[w].task, s)
       \/ T(w).st = "cancelling" /\ task' = Settled(job[w].task, "needs_author_decision")
    /\ Stop(w)
    /\ UNCHANGED canonVars

-----------------------------------------------------------------------------
Init ==
    /\ CanonInit
    /\ task = [t \in Tasks |-> NoTaskRow]
    /\ job = [w \in Workers |-> Idle]
    /\ spent = 0

Queue(t) ==
    \/ \E ch \in PlanChapters : Enqueue(t, ch)
    \/ \E u \in Tasks, d \in {"accept", "reject"} : AuthorDecision(t, u, d)
    \/ Pause(t) \/ Requeue(t) \/ Cancel(t) \/ LeaseExpires(t)

Work(w) ==
    \/ \E t \in Tasks : Claim(w, t)
    \/ StopsHere(w) \/ Precheck(w) \/ StartDraft(w) \/ StartRevision(w) \/ AppendDraft(w)
    \/ Review(w) \/ QualityGate(w) \/ ExtractFacts(w) \/ CreateStoryCommit(w)
    \/ AcceptStoryCommit(w) \/ StartComplete(w) \/ Promote(w) \/ EndComplete(w) \/ AsksAuthor(w)
    \/ Save(w) \/ SaveNothing(w) \/ SeesPaused(w) \/ SaveParked(w)
    \/ Finish(w)

Disturbance ==
    /\ spent < MaxDisturbances
    /\ spent' = spent + 1
    /\ \/ \E t \in Tasks : Queue(t)
       \/ \E w \in Workers : Fail(w) \/ Crash(w)
       \/ CanonNext /\ UNCHANGED <<task, job>>

Next ==
    \/ Disturbance
    \/ (\E w \in Workers : Work(w)) /\ UNCHANGED spent

Spec == Init /\ [][Next]_vars

-----------------------------------------------------------------------------
(* Properties.                                                             *)

\* The rows have the shape of their tables.
TypeOK ==
    /\ CanonTypeOK
    /\ task \in [Tasks -> TaskRow]
    /\ job \in [Workers -> Job]
    /\ spent \in 0..MaxDisturbances

\* A chapter task is completed only over live canon: at that moment the
\* commit it names is active in the ledger, for the latest text of the
\* chapter, however long the worker was away and whatever the author edited
\* meanwhile.
CompletedIsCanon ==
    [][\A t \in Tasks :
          task'[t].st = "completed" /\ task[t].st # "completed" =>
              \E id \in active :
                  /\ id = task[t].ctx.commit
                  /\ commit[id].ch = task[t].ch /\ commit[id].ver = Latest(task[t].ch)]_vars

\* docs/architecture/09-task-system.md:19, cancellation is cooperative:
\* every boundary of the pipeline reads the cancel flag.  A task that has
\* been cancelled puts nothing more into canon.
CancelledIsInert ==
    [][\A w \in Workers :
          job[w].pc # "idle" /\ T(w).st = "cancelled" /\ job'[w] # job[w] => active' \subseteq active]_vars
=============================================================================
