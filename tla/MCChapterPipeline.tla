-------------------------- MODULE MCChapterPipeline -------------------------
(* Small instances of ChapterPipeline, of StoryCanon alone, of             *)
(* GenerationAttempts, ControlCommands and ComputeBudget, for TLC.         *)
EXTENDS ChapterPipeline, GenerationAttempts, ControlCommands, ComputeBudget, TLC

CONSTANTS w1, w2, r1

WorkerSymmetry == Permutations(Workers)

\* One run explores five scenes: at the "desk" an author works on the truth
\* store alone, without limit on the number of operations; at the "worker" the
\* pipeline runs, and MaxDisturbances bounds what comes from outside; at the
\* "gateway" the handlers of one stage call the provider; at the "plane" hosts
\* execute commands and spend approvals; at the "account" the router's calls
\* share the compute budget.
VARIABLE scene

mcvars == <<vars, genVars, cmdVars, budgetVars, scene>>

\* What CmdInit may find in the table of approvals matters to the plane alone.
MCInit ==
    /\ Init /\ GenInit /\ CmdInit /\ BudgetInit
    /\ scene \in {"desk", "worker", "gateway", "plane", "account"}
    /\ scene # "plane" => \A g \in Grants : grant[g] = NoGrant

MCNext ==
    /\ UNCHANGED scene
    /\ \/ scene = "worker" /\ Next /\ UNCHANGED <<genVars, cmdVars, budgetVars>>
       \/ scene = "desk" /\ CanonNext /\ UNCHANGED <<task, job, spent, genVars, cmdVars, budgetVars>>
       \/ scene = "gateway" /\ GenNext /\ UNCHANGED <<vars, cmdVars, budgetVars>>
       \/ scene = "plane" /\ CmdNext /\ UNCHANGED <<vars, genVars, budgetVars>>
       \/ scene = "account" /\ BudgetNext /\ UNCHANGED <<vars, genVars, cmdVars>>

MCSpec == MCInit /\ [][MCNext]_mcvars

\* The second chapter has one version, and only at the desk.
SceneBound == chapter[2].head <= IF scene = "desk" THEN 1 ELSE 0
=============================================================================
