------------------------ MODULE ChapterPipelineProofs -----------------------
(***************************************************************************)
(* Theorems of ChapterPipeline, for every number of tasks, workers,        *)
(* chapters, versions and revisions, and every number of disturbances.     *)
(*                                                                         *)
(* A step either performs an operation of the store and moves one worker   *)
(* (StoreMove), or rewrites one task and perhaps moves one worker          *)
(* (TaskMove).  StoryCanonProofs says what the first does to the canon and *)
(* to the commits a task or a worker refers to; the second may overwrite   *)
(* what another worker relies on, and Follows says when it does no harm.   *)
(***************************************************************************)
EXTENDS ChapterPipeline, StoryCanonProofs

\* The commit a context refers to: one of the task's chapter that has been accepted.
CommitFor(id, ch) == commit[id].st \notin {"absent", "pending"} /\ commit[id].ch = ch

RowOK(r) ==
    /\ r.st # "absent" => r.ch \in Chapters
    /\ r.owner # NoWorker => r.st \in Active
    /\ r.ctx.commit # 0 => CommitFor(r.ctx.commit, r.ch)
    /\ r.stage = "DONE" => r.wf = "COMMITTED"
    /\ r.stage = "REVISION" => r.ctx.rev < MaxRevisions

\* Worker w with j in hand, r being the row of j's task.  A worker that has
\* reached DONE under its lease has the task's own commit in hand, if that is
\* still canon: it may not be when the worker has been away.
JobOK(w, j, r) ==
    j.pc # "idle" =>
       /\ j.task \in Tasks /\ r.st # "absent"
       /\ j.ctx.commit # 0 => CommitFor(j.ctx.commit, r.ch)
       /\ j.pc = "in" /\ j.stage = "CREATE_STORY_COMMIT" =>
             j.id \in CommitIds /\ commit[j.id].st # "absent" /\ commit[j.id].ch = r.ch
       /\ j.stage = "REVISION" => j.ctx.rev < MaxRevisions
       /\ j.pc = "at" /\ j.stage = "DONE" /\ r.owner = w =>
             /\ r.wf = "COMMITTED"
             /\ j.ctx.commit \in active => r.ctx.commit = j.ctx.commit

\* The inductive invariant.
PInv ==
    /\ TypeOK
    /\ CanonInv
    /\ \A t \in Tasks : RowOK(task[t])
    /\ \A w \in Workers : JobOK(w, job[w], task[job[w].task])

\* Task t names a commit that is canon, for the latest text of its chapter.
OverCanon(t) ==
    \E id \in active :
       /\ id = task[t].ctx.commit
       /\ commit[id].ch = task[t].ch /\ commit[id].ver = Latest(task[t].ch)

\* CompletedIsCanon for one step.
CompleteStep ==
    \A t \in Tasks : task'[t].st = "completed" /\ task[t].st # "completed" => OverCanon(t)

\* What worker v may rely on when the row r of its task becomes q.
Follows(v, r, q) ==
    /\ q.st # "absent" /\ q.ch = r.ch
    /\ q.owner = v => r.owner = v
    /\ r.wf = "COMMITTED" =>
          q.wf = "COMMITTED" /\ (q.ctx.commit = r.ctx.commit \/ q.ctx.commit \in active)

\* A step on the store that moves the workers of W.
StoreMove(W) ==
    /\ StoreStep \/ UNCHANGED canonVars
    /\ UNCHANGED task
    /\ job' \in [Workers -> Job]
    /\ \A v \in Workers \ W : job'[v] = job[v]
    /\ \A w \in W : JobOK(w, job[w], task[job[w].task])'
    /\ spent' \in 0..MaxDisturbances

\* A step that rewrites the row of task t and moves the workers of W.
TaskMove(t, W) ==
    /\ UNCHANGED canonVars
    /\ \E q \in TaskRow : /\ task' = [task EXCEPT ![t] = q] /\ RowOK(q)
                          /\ q.st = "completed" => task[t].st = "completed" \/ OverCanon(t)
                          /\ \A v \in Workers \ W : job[v].pc # "idle" /\ job[v].task = t =>
                                Follows(v, task[t], q)
    /\ job' \in [Workers -> Job]
    /\ \A v \in Workers \ W : job'[v] = job[v]
    /\ \A w \in W : JobOK(w, job'[w], task'[job'[w].task])
    /\ spent' \in 0..MaxDisturbances

\* What a step has to show.
Kept == PInv' /\ CompleteStep /\ (EditStep \/ UNCHANGED canonVars)

-----------------------------------------------------------------------------
(* The two shapes of a step.                                               *)

\* References to commits outlast every operation of the store.
LEMMA RefsLast ==
    ASSUME CanonInv, CanonInv', Lasting
    PROVE  /\ \A r \in TaskRow : RowOK(r) => RowOK(r)'
           /\ \A w \in Workers, j \in Job, r \in TaskRow : JobOK(w, j, r) => JobOK(w, j, r)'
<1>0. active \subseteq CommitIds /\ active' \subseteq CommitIds /\ 0 \notin CommitIds
  BY CanonAssumption DEF CanonInv, CanonTypeOK
<1>1. \A id \in CommitIds : \A ch : CommitFor(id, ch) => CommitFor(id, ch)'
  BY DEF Lasting, CommitFor
<1>2. \A id \in CommitIds : \A ch : CommitFor(id, ch) /\ id \in active' => id \in active
  BY DEF Lasting, CommitFor
<1>3. ASSUME NEW r \in TaskRow, RowOK(r)
      PROVE  RowOK(r)'
  <2>1. r.ctx.commit # 0 => r.ctx.commit \in CommitIds
    BY DEF TaskRow, Ctx
  <2> QED
    BY <1>1, <1>3, <2>1 DEF RowOK
<1>4. ASSUME NEW w \in Workers, NEW j \in Job, NEW r \in TaskRow, JobOK(w, j, r)
      PROVE  JobOK(w, j, r)'
  <2>1. j.ctx.commit # 0 => j.ctx.commit \in CommitIds
    BY DEF Job, Ctx
  <2>2. SUFFICES ASSUME j.pc # "idle" PROVE JobOK(w, j, r)'
    BY DEF JobOK
  <2>3. j.ctx.commit # 0 => CommitFor(j.ctx.commit, r.ch)'
    BY <1>1, <1>4, <2>1, <2>2 DEF JobOK
  <2>4. j.ctx.commit \in active' => j.ctx.commit \in active
    BY <1>0, <1>2, <1>4, <2>1, <2>2 DEF JobOK
  <2>5. j.pc = "in" /\ j.stage = "CREATE_STORY_COMMIT" =>
             j.id \in CommitIds /\ commit'[j.id].st # "absent" /\ commit'[j.id].ch = r.ch
    BY <1>4, <2>2 DEF JobOK, Lasting
  <2> QED
    BY <1>4, <2>2, <2>3, <2>4, <2>5 DEF JobOK
<1> QED
  BY <1>3, <1>4

\* An operation of the store next to a pipeline: jobs know only what lasts.
LEMMA StoreMoveKeeps ==
    ASSUME PInv, NEW W \in SUBSET Workers, StoreMove(W)
    PROVE  Kept
<1>1. CanonInv /\ TypeOK
  BY DEF PInv
<1>2. CanonInv' /\ Lasting /\ (EditStep \/ UNCHANGED canonVars)
  BY <1>1, StoreStepKeeps, CanonStutter DEF StoreMove
<1>3. job' \in [Workers -> Job] /\ \A v \in Workers \ W : job'[v] = job[v]
  BY DEF StoreMove
<1>4. job \in [Workers -> Job] /\ task \in [Tasks -> TaskRow] /\ task' = task
  BY <1>1 DEF TypeOK, StoreMove
<1>5. TypeOK'
  BY <1>2, <1>3, <1>4 DEF TypeOK, CanonInv, StoreMove
<1>6. \A t \in Tasks : RowOK(task[t])'
  BY <1>1, <1>2, <1>4, RefsLast DEF PInv
<1>7. ASSUME NEW v \in Workers
      PROVE  JobOK(v, job[v], task[job[v].task])'
  <2>1. CASE v \in W
    BY <2>1 DEF StoreMove
  <2>2. CASE v \notin W
    <3>1. job'[v] = job[v]
      BY <1>3, <2>2
    <3>2. JobOK(v, job[v], task[job[v].task])
      BY DEF PInv
    <3>3. CASE job[v].pc = "idle"
      BY <3>1, <3>3 DEF JobOK
    <3>4. CASE job[v].pc # "idle"
      <4> DEFINE k == job[v]
                 r == task[k.task]
      <4>1. k \in Job /\ r \in TaskRow /\ JobOK(v, k, r)
        BY <1>4, <3>2, <3>4 DEF JobOK
      <4>2. \A i \in Job, q \in TaskRow : JobOK(v, i, q) => JobOK(v, i, q)'
        BY <1>1, <1>2, RefsLast
      <4> QED
        BY <1>4, <3>1, <3>4, <4>1, <4>2
    <3> QED
      BY <3>3, <3>4
  <2> QED
    BY <2>1, <2>2
<1>8. CompleteStep
  BY <1>4 DEF CompleteStep
<1> QED
  BY <1>2, <1>5, <1>6, <1>7, <1>8 DEF Kept, PInv

\* A worker whose task's row changes in the way of Follows keeps what it relies on.
LEMMA FollowsKeeps ==
    ASSUME CanonInv, NEW v \in Workers, NEW j \in Job, NEW r \in TaskRow, NEW q \in TaskRow,
           RowOK(q), JobOK(v, j, r), Follows(v, r, q)
    PROVE  JobOK(v, j, q)
<1> SUFFICES ASSUME j.pc # "idle" PROVE JobOK(v, j, q)
  BY DEF JobOK
<1>1. active \subseteq CommitIds /\ 0 \notin CommitIds
  BY CanonAssumption DEF CanonInv, CanonTypeOK
<1>2. ASSUME j.pc = "at", j.stage = "DONE", q.owner = v
      PROVE  q.wf = "COMMITTED" /\ (j.ctx.commit \in active => q.ctx.commit = j.ctx.commit)
  <2>1. r.wf = "COMMITTED" /\ (j.ctx.commit \in active => r.ctx.commit = j.ctx.commit)
    BY <1>2 DEF JobOK, Follows
  <2>2. ASSUME j.ctx.commit \in active, q.ctx.commit \in active
        PROVE  q.ctx.commit = j.ctx.commit
    <3>1. commit[j.ctx.commit].ch = r.ch /\ commit[q.ctx.commit].ch = q.ch
      BY <1>1, <2>2 DEF JobOK, RowOK, CommitFor
    <3> QED
      BY <2>2, <3>1 DEF Follows, CanonInv, CanonIsHead
  <2> QED
    BY <2>1, <2>2 DEF Follows
<1> QED
  BY <1>2 DEF JobOK, Follows

\* A change of one row of the queue that frees the workers it no longer names.
LEMMA TaskMoveKeeps ==
    ASSUME PInv, NEW t \in Tasks, NEW W \in SUBSET Workers, TaskMove(t, W)
    PROVE  Kept
<1>1. CanonInv /\ TypeOK
  BY DEF PInv
<1>2. CanonInv' /\ UNCHANGED canonVars /\ Lasting
  BY <1>1, CanonStutter DEF TaskMove
<1>3. commit' = commit /\ active' = active
  BY <1>2 DEF canonVars
<1>4. PICK q \in TaskRow : /\ task' = [task EXCEPT ![t] = q] /\ RowOK(q)
                           /\ q.st = "completed" => task[t].st = "completed" \/ OverCanon(t)
                           /\ \A v \in Workers \ W : job[v].pc # "idle" /\ job[v].task = t =>
                                Follows(v, task[t], q)
  BY DEF TaskMove
<1>5. job \in [Workers -> Job] /\ task \in [Tasks -> TaskRow]
  BY <1>1 DEF TypeOK
<1>6. TypeOK'
  BY <1>2, <1>4, <1>5 DEF TypeOK, CanonInv, TaskMove
<1>7. task'[t] = q /\ \A u \in Tasks \ {t} : task'[u] = task[u]
  BY <1>4, <1>5
<1>9. \A u \in Tasks : RowOK(task[u])'
  BY <1>3, <1>4, <1>7 DEF PInv, RowOK, CommitFor
<1>10. ASSUME NEW v \in Workers
       PROVE  JobOK(v, job'[v], task'[job'[v].task])
  <2>1. CASE v \in W
    BY <2>1 DEF TaskMove
  <2>2. CASE v \notin W
    <3>1. job'[v] = job[v] /\ job[v] \in Job /\ JobOK(v, job[v], task[job[v].task])
      BY <1>5, <2>2 DEF TaskMove, PInv
    <3>2. CASE job[v].pc = "idle"
      BY <3>1, <3>2 DEF JobOK
    <3>3. CASE job[v].pc # "idle" /\ job[v].task # t
      <4>1. job[v].task \in Tasks
        BY <3>1, <3>3 DEF JobOK
      <4> QED
        BY <1>7, <3>1, <3>3, <4>1
    <3>4. CASE job[v].pc # "idle" /\ job[v].task = t
      <4>1. Follows(v, task[t], q) /\ RowOK(q) /\ task[t] \in TaskRow
        BY <1>4, <1>5, <2>2, <3>4
      <4>2. JobOK(v, job[v], q)
        BY <1>1, <3>1, <3>4, <4>1, FollowsKeeps
      <4> QED
        BY <1>7, <3>1, <3>4, <4>2
    <3> QED
      BY <3>2, <3>3, <3>4
  <2> QED
    BY <2>1, <2>2
<1>11. \A v \in Workers : JobOK(v, job[v], task[job[v].task])'
  BY <1>3, <1>10 DEF JobOK, CommitFor
<1>12. CompleteStep
  BY <1>4, <1>7 DEF CompleteStep
<1> QED
  BY <1>2, <1>6, <1>9, <1>11, <1>12 DEF Kept, PInv

-----------------------------------------------------------------------------
(* Moves of one worker.                                                    *)

\* The job of one worker changes.
LEMMA JobMoves ==
    ASSUME TypeOK, NEW w \in Workers, NEW j \in Job, job' = [job EXCEPT ![w] = j]
    PROVE  /\ job' \in [Workers -> Job] /\ job'[w] = j
           /\ \A v \in Workers \ {w} : job'[v] = job[v]
  BY DEF TypeOK

\* A worker that is not idle has a task, and that task a chapter.
LEMMA Busy ==
    ASSUME PInv, NEW w \in Workers, job[w].pc # "idle"
    PROVE  /\ job[w] \in Job /\ job[w].task \in Tasks
           /\ T(w) \in TaskRow /\ T(w).st # "absent" /\ T(w).ch \in Chapters
           /\ RowOK(T(w)) /\ JobOK(w, job[w], T(w))
<1>1. job[w] \in Job /\ JobOK(w, job[w], T(w))
  BY DEF PInv, TypeOK, T
<1>2. job[w].task \in Tasks /\ T(w).st # "absent"
  BY <1>1 DEF JobOK
<1>3. T(w) \in TaskRow /\ RowOK(T(w))
  BY <1>2 DEF PInv, TypeOK, T
<1> QED
  BY <1>1, <1>2, <1>3 DEF RowOK

\* A worker that stops knows nothing any more.
LEMMA StopMoves ==
    ASSUME TypeOK, NEW w \in Workers, Stop(w)
    PROVE  /\ job' \in [Workers -> Job] /\ job'[w] = Idle
           /\ \A v \in Workers \ {w} : job'[v] = job[v]
           /\ \A r : JobOK(w, job'[w], r)
<1>1. Idle \in Job
  <2>1. NewCtx \in Ctx
    BY CanonAssumption, PipelineAssumption DEF NewCtx, Ctx, Gates
  <2> QED
    BY <2>1 DEF Idle, Job, Stages, ChapterStatus
<1>2. Idle.pc = "idle"
  BY DEF Idle
<1> QED
  BY <1>1, <1>2, JobMoves DEF Stop, JobOK

\* Where Goto sends a worker.
LEMMA GotoMoves ==
    ASSUME PInv, NEW w \in Workers, job[w].pc # "idle", NEW pc \in {"at", "in", "out", "parked"},
           NEW stage \in Stages, NEW ctx \in Ctx, Goto(w, pc, stage, ctx)
    PROVE  /\ job' \in [Workers -> Job]
           /\ \A v \in Workers \ {w} : job'[v] = job[v]
           /\ job'[w].pc = pc /\ job'[w].task = job[w].task
           /\ job'[w].stage = stage /\ job'[w].ctx = ctx
<1> DEFINE j == [Idle EXCEPT !.pc = pc, !.task = job[w].task, !.stage = stage, !.ctx = ctx]
<1>1. job[w].task \in Tasks
  BY Busy
<1>2. j \in Job
  BY <1>1 DEF Idle, Job, Stages, ChapterStatus
<1>3. j.pc = pc /\ j.task = job[w].task /\ j.stage = stage /\ j.ctx = ctx
  BY DEF Idle
<1>4. job' = [job EXCEPT ![w] = j]
  BY DEF Goto
<1> HIDE DEF j
<1> QED
  BY <1>2, <1>3, <1>4, JobMoves DEF PInv

\* A worker in an operation of the store, or between two stages, goes on with
\* the task it has: at the next boundary only when the task is no longer its own.
LEMMA GotoKeeps ==
    ASSUME PInv, NEW w \in Workers, job[w].pc # "idle", NEW pc \in {"at", "out", "parked"},
           NEW stage \in Stages, NEW ctx \in Ctx, Goto(w, pc, stage, ctx),
           StoreStep \/ UNCHANGED canonVars, UNCHANGED task, spent' \in 0..MaxDisturbances,
           \/ ctx.commit = job[w].ctx.commit
           \/ commit'[ctx.commit].st \notin {"absent", "pending"} /\ commit'[ctx.commit].ch = T(w).ch,
           stage = "REVISION" => ctx.rev < MaxRevisions,
           pc = "at" => T(w).owner # w
    PROVE  Kept
<1>1. /\ job[w] \in Job /\ job[w].task \in Tasks /\ T(w) \in TaskRow /\ T(w).st # "absent"
      /\ JobOK(w, job[w], T(w))
  BY Busy
<1>2. /\ job' \in [Workers -> Job]
      /\ \A v \in Workers \ {w} : job'[v] = job[v]
      /\ job'[w].pc = pc /\ job'[w].task = job[w].task
      /\ job'[w].stage = stage /\ job'[w].ctx = ctx
  BY GotoMoves
<1>3. task'[job'[w].task] = T(w)
  BY <1>2 DEF T
<1>4. ctx.commit # 0 => commit'[ctx.commit].st \notin {"absent", "pending"}
                       /\ commit'[ctx.commit].ch = T(w).ch
  <2>1. CASE ctx.commit = job[w].ctx.commit
    <3>1. Lasting
      BY StoreStepKeeps, CanonStutter DEF PInv
    <3>2. ctx.commit # 0 => ctx.commit \in CommitIds /\ CommitFor(ctx.commit, T(w).ch)
      BY <1>1, <2>1 DEF JobOK, Ctx
    <3> QED
      BY <3>1, <3>2 DEF Lasting, CommitFor
  <2> QED
    BY <2>1
<1>5. JobOK(w, job[w], task[job[w].task])'
  BY <1>1, <1>2, <1>3, <1>4 DEF JobOK, CommitFor
<1>6. StoreMove({w})
  BY <1>2, <1>5 DEF StoreMove
<1> QED
  BY <1>6, StoreMoveKeeps

-----------------------------------------------------------------------------
(* The steps of a handler that leave the task's row alone.                 *)

\* A worker dies and its context with it.
LEMMA CrashKeeps ==
    ASSUME PInv, NEW w \in Workers, Crash(w), spent' \in 0..MaxDisturbances
    PROVE  Kept
<1>1. /\ job' \in [Workers -> Job] /\ job'[w].pc = "idle"
      /\ \A v \in Workers \ {w} : job'[v] = job[v]
  BY StopMoves DEF Crash, PInv, Idle
<1>2. JobOK(w, job[w], task[job[w].task])'
  BY <1>1 DEF JobOK
<1>3. StoreMove({w})
  BY <1>1, <1>2 DEF Crash, StoreMove
<1> QED
  BY <1>3, StoreMoveKeeps

\* The handlers that only move on.
LEMMA MovesOnKeep ==
    ASSUME PInv, NEW w \in Workers, UNCHANGED spent,
           Precheck(w) \/ ExtractFacts(w) \/ EndComplete(w) \/ SeesPaused(w) \/ SaveNothing(w)
    PROVE  Kept
<1>0. spent' \in 0..MaxDisturbances
  BY DEF PInv, TypeOK
<1>1. job[w].pc # "idle" /\ UNCHANGED <<canonVars, task>>
  BY DEF Precheck, ExtractFacts, EndComplete, SeesPaused, SaveNothing, GoesOn
<1>2. job[w].ctx \in Ctx /\ job[w].stage \in Stages
      /\ (job[w].stage = "REVISION" => job[w].ctx.rev < MaxRevisions)
  BY <1>1, Busy DEF Job, JobOK
<1>3. "GENERATE_DRAFT" \in Stages /\ "CREATE_STORY_COMMIT" \in Stages /\ "DONE" \in Stages
  BY DEF Stages
<1>4. CASE Precheck(w)
  BY <1>0, <1>1, <1>2, <1>3, <1>4, GotoKeeps DEF Precheck
<1>5. CASE ExtractFacts(w)
  BY <1>0, <1>1, <1>2, <1>3, <1>5, GotoKeeps DEF ExtractFacts
<1>6. CASE EndComplete(w)
  BY <1>0, <1>1, <1>2, <1>3, <1>6, GotoKeeps DEF EndComplete
<1>7. CASE SeesPaused(w)
  BY <1>0, <1>1, <1>2, <1>7, GotoKeeps DEF SeesPaused
<1>8. CASE SaveNothing(w)
  <2>1. T(w).owner # w
    BY <1>1, <1>8, Busy, PipelineAssumption DEF SaveNothing, RowOK
  <2> QED
    BY <1>0, <1>1, <1>2, <1>8, <2>1, GotoKeeps DEF SaveNothing
<1> QED
  BY <1>4, <1>5, <1>6, <1>7, <1>8

\* One more revision fits, because REVISION is entered below the limit.
LEMMA AppendDraftKeeps ==
    ASSUME PInv, NEW w \in Workers, AppendDraft(w), UNCHANGED spent
    PROVE  Kept
<1> DEFINE ch == T(w).ch
           revised == IF job[w].stage = "REVISION" THEN 1 ELSE 0
           ctx == [job[w].ctx EXCEPT !.ver = chapter'[ch].head, !.rev = @ + revised]
<1>0. spent' \in 0..MaxDisturbances /\ MaxRevisions \in Nat
  BY PipelineAssumption DEF PInv, TypeOK
<1>1. job[w].pc # "idle" /\ AppendVersion(ch) /\ Goto(w, "out", "REVIEW", ctx) /\ UNCHANGED task
  BY DEF AppendDraft
<1>2. job[w].ctx \in Ctx /\ ch \in Chapters
      /\ (job[w].stage = "REVISION" => job[w].ctx.rev < MaxRevisions)
  BY <1>1, Busy DEF Job, JobOK
<1>3. StoreStep
  BY <1>1, <1>2 DEF AppendVersion, StoreStep
<1>4. CanonInv'
  BY <1>3, StoreStepKeeps DEF PInv
<1>5. chapter'[ch].head \in 0..MaxVersion
  BY <1>2, <1>4 DEF CanonInv, CanonTypeOK, ChapterRow
<1>6. job[w].ctx.rev + revised \in 0..MaxRevisions
  BY <1>0, <1>2 DEF Ctx
<1>7. ctx \in Ctx /\ ctx.commit = job[w].ctx.commit
  BY <1>2, <1>5, <1>6 DEF Ctx
<1>8. "REVIEW" \in Stages
  BY DEF Stages
<1> HIDE DEF ctx
<1> QED
  BY <1>0, <1>1, <1>3, <1>7, <1>8, GotoKeeps

\* The review is saved for the version of the draft.
LEMMA ReviewKeeps ==
    ASSUME PInv, NEW w \in Workers, Review(w), UNCHANGED spent
    PROVE  Kept
<1>0. spent' \in 0..MaxDisturbances
  BY DEF PInv, TypeOK
<1>1. job[w].pc # "idle" /\ UNCHANGED task
  BY DEF Review, GoesOn
<1>2. PICK r \in ReviewIds, pass \in BOOLEAN :
         /\ SaveReview(r, T(w).ch, job[w].ctx.ver, pass)
         /\ Goto(w, "out", "QUALITY_GATE", [job[w].ctx EXCEPT !.review = r])
  BY DEF Review
<1>3. job[w].ctx \in Ctx /\ T(w).ch \in Chapters
  BY <1>1, Busy DEF Job
<1>4. job[w].ctx.ver \in 0..MaxVersion
  BY <1>3 DEF Ctx
<1>5. StoreStep
  BY <1>2, <1>3, <1>4 DEF StoreStep
<1>6. [job[w].ctx EXCEPT !.review = r] \in Ctx
      /\ [job[w].ctx EXCEPT !.review = r].commit = job[w].ctx.commit
  BY <1>3 DEF Ctx
<1>7. "QUALITY_GATE" \in Stages
  BY DEF Stages
<1> QED
  BY <1>0, <1>1, <1>2, <1>5, <1>6, <1>7, GotoKeeps

\* The gate only chooses the next stage.
LEMMA QualityGateKeeps ==
    ASSUME PInv, NEW w \in Workers, QualityGate(w), UNCHANGED spent
    PROVE  Kept
<1> DEFINE gate == Gate(job[w].ctx)
           stage == CASE gate \in {"PASS", "AUTHOR_OVERRIDE"} -> "EXTRACT_FACTS"
                      [] gate = "MAX_REVISIONS" -> "COMPLETE"
                      [] OTHER -> "REVISION"
           ctx == [job[w].ctx EXCEPT !.gate = gate]
<1>0. spent' \in 0..MaxDisturbances /\ MaxRevisions \in Nat
  BY PipelineAssumption DEF PInv, TypeOK
<1>1. job[w].pc # "idle" /\ UNCHANGED <<canonVars, task>> /\ Goto(w, "out", stage, ctx)
  BY DEF QualityGate, GoesOn
<1>2. job[w].ctx \in Ctx
  BY <1>1, Busy DEF Job
<1>3. gate \in {"AUTHOR_OVERRIDE", "PASS", "MAX_REVISIONS", "REVISE"}
      /\ (gate = "REVISE" => ~(job[w].ctx.rev >= MaxRevisions))
  BY DEF Gate
<1>4. gate = "REVISE" => job[w].ctx.rev < MaxRevisions
  BY <1>0, <1>2, <1>3 DEF Ctx
<1> HIDE DEF gate
<1>5. stage \in Stages /\ (stage = "REVISION" => gate = "REVISE")
  BY <1>3 DEF Stages
<1>6. ctx \in Ctx /\ ctx.commit = job[w].ctx.commit /\ ctx.rev = job[w].ctx.rev
  BY <1>2, <1>3 DEF Ctx, Gates
<1> HIDE DEF stage, ctx
<1> QED
  BY <1>0, <1>1, <1>4, <1>5, <1>6, GotoKeeps

\* A worker that stays in its handler with something new in hand.
LEMMA StaysInKeeps ==
    ASSUME PInv, NEW w \in Workers, job[w].pc # "idle", NEW j \in Job,
           j.pc = "in", j.task = job[w].task, j.stage = job[w].stage, j.ctx = job[w].ctx,
           job' = [job EXCEPT ![w] = j],
           StoreStep \/ UNCHANGED canonVars, UNCHANGED <<task, spent>>,
           j.stage = "CREATE_STORY_COMMIT" =>
              j.id \in CommitIds /\ commit'[j.id].st # "absent" /\ commit'[j.id].ch = T(w).ch
    PROVE  Kept
<1>1. /\ job' \in [Workers -> Job] /\ job'[w] = j
      /\ \A v \in Workers \ {w} : job'[v] = job[v]
  BY JobMoves DEF PInv
<1>2. job[w] \in Job /\ job[w].task \in Tasks /\ T(w).st # "absent" /\ JobOK(w, job[w], T(w))
  BY Busy
<1>3. Lasting
  BY StoreStepKeeps, CanonStutter DEF PInv
<1>4. j.ctx.commit # 0 => commit'[j.ctx.commit].st \notin {"absent", "pending"}
                          /\ commit'[j.ctx.commit].ch = T(w).ch
  <2>1. j.ctx.commit # 0 => j.ctx.commit \in CommitIds /\ CommitFor(j.ctx.commit, T(w).ch)
    BY <1>2 DEF JobOK, Job, Ctx
  <2> QED
    BY <1>3, <2>1 DEF Lasting, CommitFor
<1>5. JobOK(w, job[w], task[job[w].task])'
  BY <1>1, <1>2, <1>4 DEF JobOK, CommitFor, T
<1>6. spent' \in 0..MaxDisturbances
  BY DEF PInv, TypeOK
<1>7. StoreMove({w})
  BY <1>1, <1>5, <1>6 DEF StoreMove
<1> QED
  BY <1>7, StoreMoveKeeps

\* The commit names the version and the review of the context.
LEMMA CreateStoryCommitKeeps ==
    ASSUME PInv, NEW w \in Workers, CreateStoryCommit(w), UNCHANGED spent
    PROVE  Kept
<1> DEFINE ctx == job[w].ctx
           ch == T(w).ch
<1>1. job[w].pc # "idle" /\ job[w].stage = "CREATE_STORY_COMMIT" /\ UNCHANGED task
  BY DEF CreateStoryCommit, GoesOn
<1>2. PICK id \in CommitIds : /\ CreateCommit(id, ch, ctx.ver, ctx.review, ctx.override)
                              /\ job' = [job EXCEPT ![w].pc = "in", ![w].id = id]
  BY DEF CreateStoryCommit
<1>3. job[w] \in Job /\ ctx \in Ctx /\ ch \in Chapters
  BY <1>1, Busy DEF Job
<1>4. ctx.ver \in 0..MaxVersion /\ ctx.review \in ReviewIds \cup {0} /\ ctx.override \in BOOLEAN
  BY <1>3 DEF Ctx
<1>5. StoreStep
  BY <1>2, <1>3, <1>4 DEF StoreStep
<1>6. commit'[id].st # "absent" /\ commit'[id].ch = ch
  <2>1. CASE LiveCommits(ch, ctx.ver) = {}
    BY <1>2, <2>1 DEF CreateCommit, PInv, CanonInv, CanonTypeOK
  <2>2. CASE LiveCommits(ch, ctx.ver) # {}
    BY <1>2, <2>2 DEF CreateCommit, LiveCommits, CommitsOf
  <2> QED
    BY <2>1, <2>2
<1>7. [job[w] EXCEPT !.pc = "in", !.id = id] \in Job
  BY <1>3 DEF Job
<1>8. /\ [job[w] EXCEPT !.pc = "in", !.id = id].pc = "in"
      /\ [job[w] EXCEPT !.pc = "in", !.id = id].id = id
      /\ [job[w] EXCEPT !.pc = "in", !.id = id].task = job[w].task
      /\ [job[w] EXCEPT !.pc = "in", !.id = id].stage = job[w].stage
      /\ [job[w] EXCEPT !.pc = "in", !.id = id].ctx = ctx
  BY <1>3 DEF Job
<1>9. job' = [job EXCEPT ![w] = [job[w] EXCEPT !.pc = "in", !.id = id]]
  BY <1>2
<1> QED
  BY <1>1, <1>5, <1>6, <1>7, <1>8, <1>9, StaysInKeeps

\* Acceptance makes the version canon, and the context remembers the commit.
LEMMA AcceptStoryCommitKeeps ==
    ASSUME PInv, NEW w \in Workers, AcceptStoryCommit(w), UNCHANGED spent
    PROVE  Kept
<1> DEFINE id == job[w].id
           ctx == [job[w].ctx EXCEPT !.commit = id]
<1>0. spent' \in 0..MaxDisturbances
  BY DEF PInv, TypeOK
<1>1. /\ job[w].pc = "in" /\ job[w].stage = "CREATE_STORY_COMMIT" /\ UNCHANGED task
      /\ Goto(w, "out", "COMPLETE", ctx)
      /\ Accept(id, job[w].ctx.override) \/ (commit[id].st = "accepted" /\ UNCHANGED canonVars)
  BY DEF AcceptStoryCommit
<1>2. job[w] \in Job /\ job[w].ctx \in Ctx /\ job[w].ctx.override \in BOOLEAN
  BY <1>1, Busy DEF Job, Ctx
<1>3. id \in CommitIds /\ commit[id].ch = T(w).ch
  BY <1>1, Busy DEF JobOK
<1>4. StoreStep \/ UNCHANGED canonVars
  BY <1>1, <1>2, <1>3 DEF StoreStep
<1>5. commit'[id].st = "accepted" /\ commit'[id].ch = T(w).ch
  <2>1. CASE Accept(id, job[w].ctx.override)
    <3>1. commit \in [CommitIds -> CommitRow]
      BY DEF PInv, CanonInv, CanonTypeOK
    <3> QED
      BY <1>3, <2>1, <3>1 DEF Accept, CommitRow
  <2>2. CASE commit[id].st = "accepted" /\ UNCHANGED canonVars
    BY <1>3, <2>2 DEF canonVars
  <2> QED
    BY <1>1, <2>1, <2>2
<1>6. ctx \in Ctx /\ ctx.commit = id
  BY <1>2, <1>3 DEF Ctx
<1>7. "COMPLETE" \in Stages
  BY DEF Stages
<1>8. commit'[ctx.commit].st \notin {"absent", "pending"} /\ commit'[ctx.commit].ch = T(w).ch
  BY <1>5, <1>6
<1> HIDE DEF ctx
<1> QED
  BY <1>0, <1>1, <1>4, <1>6, <1>7, <1>8, GotoKeeps

\* Completion reads the status of the chapter first.
LEMMA StartCompleteKeeps ==
    ASSUME PInv, NEW w \in Workers, StartComplete(w), UNCHANGED spent
    PROVE  Kept
<1> DEFINE j == [job[w] EXCEPT !.pc = "in", !.now = chapter[T(w).ch].status]
<1>1. /\ job[w].pc # "idle" /\ job[w].stage = "COMPLETE" /\ UNCHANGED <<canonVars, task>>
      /\ job' = [job EXCEPT ![w] = j]
  BY DEF StartComplete, GoesOn
<1>2. job[w] \in Job /\ T(w).ch \in Chapters
  BY <1>1, Busy
<1>3. chapter[T(w).ch].status \in ChapterStatus
  BY <1>2 DEF PInv, CanonInv, CanonTypeOK, ChapterRow
<1>4. /\ j \in Job /\ j.pc = "in" /\ j.task = job[w].task /\ j.stage = job[w].stage
      /\ j.ctx = job[w].ctx
  BY <1>2, <1>3 DEF Job
<1> HIDE DEF j
<1> QED
  BY <1>1, <1>4, StaysInKeeps

\* Completion promotes the chapter one status at a time.
LEMMA PromoteKeeps ==
    ASSUME PInv, NEW w \in Workers, Promote(w), UNCHANGED spent
    PROVE  Kept
<1> DEFINE s == Promoted(job[w].now)
           j == [job[w] EXCEPT !.pc = "in", !.now = s]
<1>1. /\ job[w].pc = "in" /\ job[w].stage = "COMPLETE" /\ UNCHANGED task
      /\ KeepText(T(w).ch, s) /\ job' = [job EXCEPT ![w].now = s]
  BY DEF Promote, TransitionStatus
<1>2. job[w] \in Job /\ T(w).ch \in Chapters
  BY <1>1, Busy
<1>3. StoreStep
  BY <1>1, <1>2 DEF StoreStep
<1>4. s \in ChapterStatus
  BY LifecycleSet DEF Promoted, ChapterStatus
<1> HIDE DEF s
<1>5. /\ j \in Job /\ j.pc = "in" /\ j.task = job[w].task /\ j.stage = job[w].stage
      /\ j.ctx = job[w].ctx
  BY <1>2, <1>4 DEF Job
<1>6. j = [job[w] EXCEPT !.now = s]
  BY <1>1, <1>2 DEF Job
<1>7. job' = [job EXCEPT ![w] = j]
  BY <1>1, <1>6
<1> HIDE DEF j
<1> QED
  BY <1>1, <1>3, <1>5, <1>7, StaysInKeeps

-----------------------------------------------------------------------------
(* The steps that rewrite a task.                                          *)

\* A row that gives up or keeps its owner and changes its status only.
LEMMA StatusKeeps ==
    ASSUME PInv, NEW t \in Tasks, task[t].st # "absent", NEW s \in Statuses, s # "absent",
           NEW o \in {task[t].owner, NoWorker}, o # NoWorker => s \in Active,
           s = "completed" => OverCanon(t),
           task' = [task EXCEPT ![t] = [task[t] EXCEPT !.st = s, !.owner = o]],
           NEW W \in SUBSET Workers,
           job' \in [Workers -> Job], \A v \in Workers \ W : job'[v] = job[v],
           \A w \in W : job'[w].pc = "idle",
           UNCHANGED canonVars, spent' \in 0..MaxDisturbances
    PROVE  Kept
<1> DEFINE q == [task[t] EXCEPT !.st = s, !.owner = o]
<1>1. task[t] \in TaskRow /\ RowOK(task[t])
  BY DEF PInv, TypeOK
<1>2. /\ q \in TaskRow /\ q.st = s /\ q.owner = o
      /\ q.ch = task[t].ch /\ q.ctx = task[t].ctx /\ q.wf = task[t].wf /\ q.stage = task[t].stage
  BY <1>1 DEF TaskRow
<1> HIDE DEF q
<1>3. RowOK(q)
  BY <1>1, <1>2 DEF RowOK
<1>4. \A v \in Workers : Follows(v, task[t], q)
  BY <1>2, PipelineAssumption DEF Follows
<1>5. \A w \in W : JobOK(w, job'[w], task'[job'[w].task])
  BY DEF JobOK
<1>6. task' = [task EXCEPT ![t] = q]
  BY DEF q
<1>7. TaskMove(t, W)
  BY <1>2, <1>3, <1>4, <1>5, <1>6 DEF TaskMove
<1> QED
  BY <1>7, TaskMoveKeeps

\* A row that was not there before: no worker has it.
LEMMA NewTaskKeeps ==
    ASSUME PInv, NEW t \in Tasks, task[t].st = "absent", NEW q \in TaskRow, RowOK(q),
           q.st = "queued", task' = [task EXCEPT ![t] = q],
           UNCHANGED <<canonVars, job>>, spent' \in 0..MaxDisturbances
    PROVE  Kept
<1>1. \A v \in Workers : job[v].pc # "idle" => job[v].task # t
  BY Busy DEF T
<1>2. TaskMove(t, {})
  BY <1>1 DEF TaskMove, PInv, TypeOK
<1> QED
  BY <1>2, TaskMoveKeeps

\* A task is queued for a chapter that is to be written.
LEMMA EnqueueKeeps ==
    ASSUME PInv, NEW t \in Tasks, NEW ch \in PlanChapters, Enqueue(t, ch),
           spent' \in 0..MaxDisturbances
    PROVE  Kept
<1> DEFINE q == [NoTaskRow EXCEPT !.st = "queued", !.ch = ch]
<1>1. ch \in Chapters
  BY PipelineAssumption
<1>2. NewCtx \in Ctx /\ NewCtx.commit = 0
  BY CanonAssumption, PipelineAssumption DEF NewCtx, Ctx, Gates
<1>3. "PLANNED" \in Workflow
  BY DEF Workflow, Order
<1>4. /\ q \in TaskRow /\ q.st = "queued" /\ q.ch = ch /\ q.owner = NoWorker
      /\ q.ctx = NewCtx /\ q.stage = "PRECHECK"
  BY <1>1, <1>2, <1>3 DEF NoTaskRow, TaskRow, Statuses, Stages
<1>5. task' = [task EXCEPT ![t] = q] /\ task[t].st = "absent" /\ UNCHANGED <<canonVars, job>>
  BY DEF Enqueue, NextTask
<1> HIDE DEF q
<1>6. RowOK(q)
  BY <1>1, <1>2, <1>4 DEF RowOK
<1> QED
  BY <1>4, <1>5, <1>6, NewTaskKeeps

\* The author accepts or rejects what a task stopped with, by a task of its own.
LEMMA AuthorDecisionKeeps ==
    ASSUME PInv, NEW t \in Tasks, NEW u \in Tasks, NEW d \in {"accept", "reject"},
           AuthorDecision(t, u, d), spent' \in 0..MaxDisturbances
    PROVE  Kept
<1> DEFINE row == task[t]
           ctx == [row.ctx EXCEPT !.override = d = "accept",
                                  !.gate = IF d = "accept" THEN "AUTHOR_OVERRIDE" ELSE @]
           stage == IF d = "accept" THEN "EXTRACT_FACTS" ELSE "REVIEW"
           wf == IF d = "accept" THEN "VERIFIED" ELSE "DRAFTED"
           q == [NoTaskRow EXCEPT !.st = "queued", !.ch = row.ch, !.ctx = ctx, !.from = t,
                                  !.decision = d, !.stage = stage, !.wf = wf]
<1>1. row \in TaskRow /\ RowOK(row) /\ row.st # "absent"
  BY DEF PInv, TypeOK, AuthorDecision
<1>2. row.ch \in Chapters /\ row.ctx \in Ctx
  BY <1>1 DEF RowOK, TaskRow
<1>3. ctx \in Ctx /\ ctx.commit = row.ctx.commit
  BY <1>2 DEF Ctx, Gates
<1>4. wf \in Workflow /\ stage \in Stages \ {"DONE", "REVISION"}
  BY DEF Workflow, Order, Stages
<1> HIDE DEF ctx, stage, wf, row
<1>5. /\ q \in TaskRow /\ q.st = "queued" /\ q.ch = row.ch /\ q.owner = NoWorker
      /\ q.ctx = ctx /\ q.stage = stage
  BY <1>2, <1>3, <1>4 DEF NoTaskRow, TaskRow, Statuses
<1>6. task' = [task EXCEPT ![u] = q] /\ task[u].st = "absent" /\ UNCHANGED <<canonVars, job>>
  BY DEF AuthorDecision, NextTask, ctx, stage, wf, row
<1> HIDE DEF q
<1>7. RowOK(q)
  BY <1>1, <1>2, <1>3, <1>4, <1>5 DEF RowOK
<1> QED
  BY <1>5, <1>6, <1>7, NewTaskKeeps

\* A task that leaves its status for a settled one, whoever does it.
LEMMA SettledKeeps ==
    ASSUME PInv, NEW t \in Tasks, task[t].st # "absent",
           NEW s \in Statuses, s # "absent", s = "completed" => OverCanon(t),
           task' = Settled(t, s), NEW W \in SUBSET Workers,
           job' \in [Workers -> Job], \A v \in Workers \ W : job'[v] = job[v],
           \A w \in W : job'[w].pc = "idle",
           UNCHANGED canonVars, spent' \in 0..MaxDisturbances
    PROVE  Kept
<1>1. task' = [task EXCEPT ![t] = [task[t] EXCEPT !.st = s, !.owner = NoWorker]]
  BY DEF Settled
<1> QED
  BY <1>1, StatusKeeps

\* What else the queue does to a row: pause, resume, cancel, retry, expiry.
LEMMA QueueKeeps ==
    ASSUME PInv, NEW t \in Tasks, Queue(t), spent' \in 0..MaxDisturbances
    PROVE  Kept
<1>0. job \in [Workers -> Job]
  BY DEF PInv, TypeOK
<1>1. CASE \E ch \in PlanChapters : Enqueue(t, ch)
  BY <1>1, EnqueueKeeps
<1>2. CASE \E u \in Tasks, d \in {"accept", "reject"} : AuthorDecision(t, u, d)
  BY <1>2, AuthorDecisionKeeps
<1>3. ASSUME NEW s \in {"paused", "queued", "cancelled", "needs_author_decision"},
             task' = Settled(t, s), task[t].st # "absent", UNCHANGED <<canonVars, job>>
      PROVE  Kept
  <2>1. s \in Statuses /\ s # "absent" /\ s # "completed"
    BY DEF Statuses
  <2>2. PICK W \in SUBSET Workers : W = {}
    OBVIOUS
  <2>3. /\ job' \in [Workers -> Job] /\ \A v \in Workers \ W : job'[v] = job[v]
        /\ \A w \in W : job'[w].pc = "idle"
    BY <1>0, <1>3, <2>2
  <2> QED
    BY <1>3, <2>1, <2>3, SettledKeeps
<1>4. CASE Pause(t)
  BY <1>3, <1>4 DEF Pause
<1>5. CASE Requeue(t)
  BY <1>3, <1>5 DEF Requeue
<1>6. CASE LeaseExpires(t)
  BY <1>3, <1>6 DEF LeaseExpires, Active
<1>7. CASE Cancel(t)
  <2>1. CASE task[t].st \in {"queued", "paused", "needs_author_decision"}
             /\ task' = Settled(t, "cancelled")
    BY <1>3, <1>7, <2>1 DEF Cancel
  <2>2. CASE task[t].st = "running" /\ task' = [task EXCEPT ![t].st = "cancelling"]
    <3>1. task[t] \in TaskRow
      BY DEF PInv, TypeOK
    <3>2. [task[t] EXCEPT !.st = "cancelling"]
             = [task[t] EXCEPT !.st = "cancelling", !.owner = task[t].owner]
      BY <3>1 DEF TaskRow
    <3>3. task' = [task EXCEPT ![t] = [task[t] EXCEPT !.st = "cancelling", !.owner = task[t].owner]]
      BY <2>2, <3>2
    <3>4. "cancelling" \in Statuses /\ "cancelling" \in Active
      BY DEF Statuses, Active
    <3>5. UNCHANGED <<canonVars, job>>
      BY <1>7 DEF Cancel
    <3>6. PICK W \in SUBSET Workers : W = {}
      OBVIOUS
    <3>7. /\ job' \in [Workers -> Job] /\ \A v \in Workers \ W : job'[v] = job[v]
          /\ \A w \in W : job'[w].pc = "idle"
      BY <1>0, <3>5, <3>6
    <3> QED
      BY <2>2, <3>3, <3>4, <3>5, <3>7, StatusKeeps
  <2> QED
    BY <1>7, <2>1, <2>2 DEF Cancel
<1> QED
  BY <1>1, <1>2, <1>4, <1>5, <1>6, <1>7 DEF Queue

\* A worker that stops and settles its task.
LEMMA StopSettledKeeps ==
    ASSUME PInv, NEW w \in Workers, job[w].pc # "idle", Stop(w), UNCHANGED canonVars,
           NEW s \in Statuses, s # "absent", s = "completed" => OverCanon(job[w].task),
           task' = Settled(job[w].task, s), spent' \in 0..MaxDisturbances
    PROVE  Kept
<1>1. job[w].task \in Tasks /\ task[job[w].task].st # "absent"
  BY Busy DEF T
<1>2. /\ job' \in [Workers -> Job] /\ job'[w].pc = "idle"
      /\ \A v \in Workers \ {w} : job'[v] = job[v]
  BY StopMoves DEF PInv, Idle
<1> QED
  BY <1>1, <1>2, SettledKeeps

\* A boundary that finds the task cancelling or paused.
LEMMA StopsHereKeeps ==
    ASSUME PInv, NEW w \in Workers, StopsHere(w), UNCHANGED spent
    PROVE  Kept
<1>0. spent' \in 0..MaxDisturbances
  BY DEF PInv, TypeOK
<1>1. CASE task' = Settled(job[w].task, "cancelled")
  BY <1>0, <1>1, StopSettledKeeps DEF StopsHere, Statuses
<1>2. CASE UNCHANGED task
  <2>1. /\ job' \in [Workers -> Job] /\ job'[w].pc = "idle"
        /\ \A v \in Workers \ {w} : job'[v] = job[v]
    BY StopMoves DEF StopsHere, PInv, Idle
  <2>2. JobOK(w, job[w], task[job[w].task])'
    BY <2>1 DEF JobOK
  <2>3. StoreMove({w})
    BY <1>0, <1>2, <2>1, <2>2 DEF StopsHere, StoreMove
  <2> QED
    BY <2>3, StoreMoveKeeps
<1> QED
  BY <1>1, <1>2 DEF StopsHere

\* The pipeline stops and leaves the decision to the author.
LEMMA AsksAuthorKeeps ==
    ASSUME PInv, NEW w \in Workers, AsksAuthor(w), UNCHANGED spent
    PROVE  Kept
<1>1. job[w].pc # "idle"
  BY DEF AsksAuthor, GoesOn
<1>2. spent' \in 0..MaxDisturbances
  BY DEF PInv, TypeOK
<1> QED
  BY <1>1, <1>2, StopSettledKeeps DEF AsksAuthor, Statuses

\* The worker fails a task whose handler raised.
LEMMA FailKeeps ==
    ASSUME PInv, NEW w \in Workers, Fail(w), spent' \in 0..MaxDisturbances
    PROVE  Kept
<1>1. PICK s \in {"queued", "failed", "needs_author_decision"} : task' = Settled(job[w].task, s)
  BY DEF Fail
<1> QED
  BY <1>1, StopSettledKeeps DEF Fail, Statuses

\* Completion: the worker's commit is the task's, and canon is the latest text.
LEMMA FinishKeeps ==
    ASSUME PInv, NEW w \in Workers, Finish(w), UNCHANGED spent
    PROVE  Kept
<1> DEFINE id == job[w].ctx.commit
           ch == T(w).ch
<1>1. /\ job[w].pc = "at" /\ job[w].stage = "DONE" /\ T(w).owner = w
      /\ id # 0 /\ commit[id].st = "accepted" /\ id \in active
      /\ task' = Settled(job[w].task, "completed") /\ Stop(w) /\ UNCHANGED canonVars
  BY DEF Finish, Holds, ValidCompletion
<1>2. JobOK(w, job[w], T(w)) /\ ch \in Chapters
  BY <1>1, Busy
<1>3. T(w).ctx.commit = id /\ commit[id].ch = ch
  BY <1>1, <1>2 DEF JobOK, CommitFor
<1>4. active \subseteq CommitIds /\ chapter[ch] \in ChapterRow
  BY <1>2 DEF PInv, CanonInv, CanonTypeOK
<1>5. commit[id].ver = chapter[ch].head /\ chapter[ch].base < commit[id].ver
  BY <1>1, <1>3, <1>4 DEF PInv, CanonInv, CanonIsHead, CommitsOK, LiveStatus
<1>6. commit[id].ver = Latest(ch)
  BY <1>4, <1>5 DEF Latest, ChapterRow
<1>7. OverCanon(job[w].task)
  BY <1>1, <1>3, <1>6 DEF OverCanon, T
<1>8. spent' \in 0..MaxDisturbances /\ "completed" \in Statuses
  BY DEF PInv, TypeOK, Statuses
<1> QED
  BY <1>1, <1>7, <1>8, StopSettledKeeps

\* The claim: the worker begins with the context of the checkpoint.
LEMMA ClaimKeeps ==
    ASSUME PInv, NEW w \in Workers, NEW t \in Tasks, Claim(w, t), UNCHANGED spent
    PROVE  Kept
<1> DEFINE q == [task[t] EXCEPT !.st = "running", !.owner = w]
           j == [Idle EXCEPT !.pc = "at", !.task = t, !.stage = task[t].stage, !.ctx = task[t].ctx]
<1>1. task[t] \in TaskRow /\ RowOK(task[t]) /\ task[t].st = "queued"
  BY DEF Claim, PInv, TypeOK
<1>2. /\ q \in TaskRow /\ q.st = "running" /\ q.owner = w /\ q.ch = task[t].ch
      /\ q.ctx = task[t].ctx /\ q.wf = task[t].wf /\ q.stage = task[t].stage
  BY <1>1 DEF TaskRow, Statuses
<1>3. /\ j \in Job /\ j.pc = "at" /\ j.task = t /\ j.stage = task[t].stage
      /\ j.ctx = task[t].ctx
  BY <1>1 DEF Idle, Job, ChapterStatus, TaskRow
<1>4. task' = [task EXCEPT ![t] = q] /\ job' = [job EXCEPT ![w] = j] /\ UNCHANGED canonVars
  BY <1>1 DEF Claim
<1> HIDE DEF q, j
<1>5. RowOK(q)
  BY <1>1, <1>2 DEF RowOK, Active
<1>6. JobOK(w, j, q)
  BY <1>1, <1>2, <1>3 DEF JobOK, RowOK
<1>7. \A v \in Workers \ {w} : Follows(v, task[t], q)
  BY <1>2 DEF Follows
<1>8. /\ job' \in [Workers -> Job] /\ job'[w] = j
      /\ \A v \in Workers \ {w} : job'[v] = job[v]
  BY <1>3, <1>4, JobMoves DEF PInv
<1>9. task'[t] = q
  BY <1>4 DEF PInv, TypeOK
<1>10. spent' \in 0..MaxDisturbances
  BY DEF PInv, TypeOK
<1>11. TaskMove(t, {w})
  BY <1>2, <1>3, <1>4, <1>5, <1>6, <1>7, <1>8, <1>9, <1>10 DEF TaskMove
<1> QED
  BY <1>11, TaskMoveKeeps

\* A checkpoint of the context in hand: a task that has reached COMMITTED is
\* rewritten with a commit that is canon, hence with the same one.
LEMMA WritesKeep ==
    ASSUME PInv, NEW w \in Workers, job[w].pc # "idle", NEW pc \in {"at", "in"},
           NEW stage \in Stages, stage = "REVISION" => job[w].ctx.rev < MaxRevisions,
           NEW wf \in Workflow,
           pc = "in" => stage \notin {"CREATE_STORY_COMMIT", "DONE"}, stage = "DONE" => wf = "COMMITTED",
           T(w).wf = "COMMITTED" => wf = "COMMITTED" /\ job[w].ctx.commit \in active,
           Goto(w, pc, stage, job[w].ctx), UNCHANGED canonVars, UNCHANGED spent,
           task' = [task EXCEPT ![job[w].task].stage = stage, ![job[w].task].ctx = job[w].ctx,
                                ![job[w].task].saved = TRUE, ![job[w].task].wf = wf]
    PROVE  Kept
<1> DEFINE t == job[w].task
           q == [task[t] EXCEPT !.stage = stage, !.ctx = job[w].ctx, !.saved = TRUE, !.wf = wf]
<1>1. /\ job[w] \in Job /\ t \in Tasks /\ task[t] \in TaskRow /\ task[t].st # "absent"
      /\ RowOK(task[t]) /\ JobOK(w, job[w], task[t]) /\ T(w) = task[t]
  BY Busy DEF T
<1>2. job[w].ctx \in Ctx
  BY <1>1 DEF Job
<1>3. /\ q \in TaskRow /\ q.stage = stage /\ q.ctx = job[w].ctx /\ q.wf = wf
      /\ q.st = task[t].st /\ q.owner = task[t].owner /\ q.ch = task[t].ch
  BY <1>1, <1>2 DEF TaskRow
<1>4. task' = [task EXCEPT ![t] = q]
  BY <1>1
<1> HIDE DEF q
<1>5. RowOK(q)
  BY <1>1, <1>3 DEF RowOK, JobOK
<1>6. /\ job' \in [Workers -> Job]
      /\ \A v \in Workers \ {w} : job'[v] = job[v]
      /\ job'[w].pc = pc /\ job'[w].task = t
      /\ job'[w].stage = stage /\ job'[w].ctx = job[w].ctx
  BY <1>2, GotoMoves
<1>7. task'[t] = q
  BY <1>1, <1>4 DEF PInv, TypeOK
<1>8. JobOK(w, job'[w], q)
  BY <1>1, <1>3, <1>6 DEF JobOK
<1>9. \A v \in Workers : Follows(v, task[t], q)
  BY <1>1, <1>3 DEF Follows
<1>10. spent' \in 0..MaxDisturbances
  BY DEF PInv, TypeOK
<1>11. TaskMove(t, {w})
  BY <1>1, <1>3, <1>4, <1>5, <1>6, <1>7, <1>8, <1>9, <1>10 DEF TaskMove
<1> QED
  BY <1>1, <1>11, TaskMoveKeeps

\* The draft and the revision: a model call that changes the context only.
LEMMA CallModelKeeps ==
    ASSUME PInv, NEW w \in Workers, UNCHANGED spent, StartDraft(w) \/ StartRevision(w)
    PROVE  Kept
<1>1. PICK stage \in {"GENERATE_DRAFT", "REVISION"}, wf \in {"GENERATING", "REVISING"} :
         CallModel(w, stage, wf)
  BY DEF StartDraft, StartRevision
<1>2. /\ job[w].pc # "idle" /\ job[w].stage = stage /\ CanAdvance(T(w).wf, wf)
      /\ Goto(w, "in", stage, job[w].ctx) /\ UNCHANGED canonVars
      /\ task' = [task EXCEPT ![job[w].task].stage = stage, ![job[w].task].ctx = job[w].ctx,
                              ![job[w].task].saved = TRUE, ![job[w].task].wf = wf]
  BY <1>1 DEF CallModel, GoesOn
<1>3. T(w).wf # "COMMITTED"
  BY <1>2 DEF CanAdvance
<1>4. stage \in Stages \ {"CREATE_STORY_COMMIT", "DONE"} /\ wf \in Workflow
  BY DEF Stages, Workflow, Order
<1>5. stage = "REVISION" => job[w].ctx.rev < MaxRevisions
  BY <1>2, Busy DEF JobOK
<1> QED
  BY <1>2, <1>3, <1>4, <1>5, WritesKeep

\* A checkpoint writes the context to the row, with the lease or without.
LEMMA CheckpointKeeps ==
    ASSUME PInv, NEW w \in Workers, UNCHANGED spent, Save(w) \/ SaveParked(w)
    PROVE  Kept
<1> DEFINE stage == job[w].stage
           wf == StateForStage(stage, job[w].ctx)
<1>1. /\ job[w].pc # "idle" /\ CanAdvance(T(w).wf, wf)
      /\ wf = "COMMITTED" => ValidCompletion(job[w].ctx)
      /\ Goto(w, "at", stage, job[w].ctx) /\ UNCHANGED canonVars
      /\ task' = [task EXCEPT ![job[w].task].stage = stage, ![job[w].task].ctx = job[w].ctx,
                              ![job[w].task].saved = TRUE, ![job[w].task].wf = wf]
  BY DEF Save, SaveParked, Checkpoint
<1>2. job[w] \in Job /\ JobOK(w, job[w], T(w))
  BY <1>1, Busy
<1>3. stage \in Stages
  BY <1>2 DEF Job
<1>4. stage = "DONE" => wf = "COMMITTED"
  BY DEF StateForStage
<1>5. wf \in {"PLANNED", "GENERATING", "DRAFTED", "REVIEWING", "REVISION_REQUIRED", "VERIFIED",
              "COMMIT_PENDING", "COMMITTED"}
  BY <1>3 DEF StateForStage, Stages
<1>6. wf \in Workflow
  BY <1>5 DEF Workflow, Order
<1> HIDE DEF wf, stage
<1>7. T(w).wf = "COMMITTED" => wf = "COMMITTED" /\ job[w].ctx.commit \in active
  BY <1>1 DEF CanAdvance, ValidCompletion
<1>8. stage = "REVISION" => job[w].ctx.rev < MaxRevisions
  BY <1>1, <1>2 DEF JobOK, stage
<1> QED
  BY <1>1, <1>3, <1>4, <1>6, <1>7, <1>8, WritesKeep

-----------------------------------------------------------------------------
(* The theorems.                                                           *)

\* No task, an empty book.
LEMMA InitPInv == Init => PInv
<1> SUFFICES ASSUME Init PROVE PInv
  OBVIOUS
<1>1. CanonInv
  BY InitCanonInv DEF Init
<1>2. NewCtx \in Ctx /\ NewCtx.commit = 0
  BY CanonAssumption, PipelineAssumption DEF NewCtx, Ctx, Gates
<1>3. "PLANNED" \in Workflow
  BY DEF Workflow, Order
<1>4. NoTaskRow \in TaskRow
  BY <1>2, <1>3 DEF NoTaskRow, TaskRow, Statuses, Stages
<1>5. Idle \in Job
  BY <1>2 DEF Idle, Job, Stages, ChapterStatus
<1>6. TypeOK
  BY <1>1, <1>4, <1>5, PipelineAssumption DEF Init, TypeOK, CanonInv
<1>7. \A t \in Tasks : RowOK(task[t])
  BY <1>2 DEF Init, RowOK, NoTaskRow
<1>8. \A w \in Workers : JobOK(w, job[w], task[job[w].task])
  BY DEF Init, JobOK, Idle
<1> QED
  BY <1>1, <1>6, <1>7, <1>8 DEF PInv

\* Every step of a worker.
LEMMA WorkKeeps ==
    ASSUME PInv, NEW w \in Workers, Work(w), UNCHANGED spent
    PROVE  Kept
  BY ClaimKeeps, StopsHereKeeps, MovesOnKeep, CallModelKeeps, AppendDraftKeeps, ReviewKeeps,
     QualityGateKeeps, CreateStoryCommitKeeps, AcceptStoryCommitKeeps, StartCompleteKeeps,
     PromoteKeeps, AsksAuthorKeeps, CheckpointKeeps, FinishKeeps DEF Work

\* A step of the author on the store itself moves no worker.
LEMMA AuthorKeeps ==
    ASSUME PInv, CanonNext, UNCHANGED <<task, job>>, spent' \in 0..MaxDisturbances
    PROVE  Kept
<1>1. StoreStep
  BY CanonNextIsStore DEF PInv, CanonInv
<1>2. StoreMove({})
  BY <1>1 DEF StoreMove, PInv, TypeOK
<1> QED
  BY <1>2, StoreMoveKeeps

\* Every step from outside.
LEMMA DisturbanceKeeps ==
    ASSUME PInv, Disturbance
    PROVE  Kept
<1>1. spent' \in 0..MaxDisturbances
  BY PipelineAssumption DEF Disturbance, PInv, TypeOK
<1> QED
  BY <1>1, QueueKeeps, FailKeeps, CrashKeeps, AuthorKeeps DEF Disturbance

\* Every step keeps the invariant and the two action properties.
LEMMA StepPInv ==
    PInv /\ [Next]_vars => PInv' /\ [CompleteStep]_vars /\ [EditStep]_canonVars
<1> SUFFICES ASSUME PInv, [Next]_vars
             PROVE  PInv' /\ [CompleteStep]_vars /\ [EditStep]_canonVars
  OBVIOUS
<1>1. CASE Next
  BY <1>1, WorkKeeps, DisturbanceKeeps DEF Next, Kept
<1>2. CASE UNCHANGED vars
  <2>1. UNCHANGED canonVars /\ UNCHANGED <<task, job, spent>>
    BY <1>2 DEF vars
  <2>2. CanonInv'
    BY <2>1, CanonStutter DEF PInv
  <2>3. TypeOK'
    BY <2>1, <2>2 DEF TypeOK, PInv, CanonInv
  <2>4. (\A t \in Tasks : RowOK(task[t]))' /\ (\A w \in Workers : JobOK(w, job[w], task[job[w].task]))'
    BY <2>1 DEF PInv, RowOK, JobOK, CommitFor, canonVars
  <2> QED
    BY <1>2, <2>1, <2>2, <2>3, <2>4 DEF PInv
<1> QED
  BY <1>1, <1>2

\* The inductive invariant holds in every behaviour of the pipeline.
THEOREM PipelineInvariant == Spec => []PInv
  BY InitPInv, StepPInv, PTL DEF Spec

\* The rows of the store, of the queue and of the workers keep their shape; in
\* particular no task is revised more often than max_revisions allows.
THEOREM PipelineTyped == Spec => []TypeOK
<1>1. PInv => TypeOK
  BY DEF PInv
<1> QED
  BY <1>1, PipelineInvariant, PTL

\* Workers that write, lose their lease and come back do to the canon nothing an
\* author could not do: it stays one commit of a chapter, of its latest text, and
\* the status column and the derived rows agree with the ledger.
THEOREM PipelineKeepsCanon == Spec => [](CanonIsHead /\ CanonMirror /\ DerivedIsReplay)
<1>1. PInv => CanonIsHead /\ CanonMirror /\ DerivedIsReplay
  BY DEF PInv, CanonInv
<1> QED
  BY <1>1, PipelineInvariant, PTL

\* A text that a worker or the author changes takes out of canon what was
\* accepted for this chapter and the later ones.
THEOREM PipelineInvalidates == Spec => EditInvalidates
<1>1. PInv /\ [Next]_vars => [EditStep]_canonVars
  BY StepPInv
<1> QED
  BY <1>1, PipelineInvariant, PTL DEF Spec, EditInvalidates, EditStep

\* A chapter task is completed only over live canon: the commit it names is
\* active, of its chapter, and of the chapter's latest text at that moment.
THEOREM CompletedOverCanon == Spec => CompletedIsCanon
<1>1. PInv /\ [Next]_vars => [CompleteStep]_vars
  BY StepPInv
<1> QED
  BY <1>1, PipelineInvariant, PTL DEF Spec, CompletedIsCanon, CompleteStep, OverCanon
=============================================================================
