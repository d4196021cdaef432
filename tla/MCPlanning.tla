----------------------------- MODULE MCPlanning ------------------------------
(* Small instances of TaskRuntime and of PlanCanvas, for TLC.  A behaviour *)
(* shows one of them, the scene: the "queue" of tasks, or the "canvas".    *)
EXTENDS MCTaskRuntime, PlanCanvas

SomeDeltas == [op: {"add"}, node: Plans, status: {"planned"}]
                  \cup [op: {"set"}, node: Plans, status: {"superseded"}]
                  \cup [op: {"remove"}, node: Plans, status: {"planned"}]

VARIABLE scene

planningVars == <<vars, planVars, scene>>

PlanningInit ==
    /\ Init /\ PlanInit
    /\ scene = "canvas" \/ (scene = "queue" /\ canvas = NoCanvas)

PlanningNext ==
    /\ UNCHANGED scene
    /\ \/ scene = "queue" /\ Next /\ UNCHANGED planVars
       \/ scene = "canvas" /\ PlanNext /\ UNCHANGED vars

PlanningSpec == PlanningInit /\ [][PlanningNext]_planningVars
=============================================================================
