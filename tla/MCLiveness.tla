------------------------------ MODULE MCLiveness ----------------------------
(* The background work of a studio process that must come to an end, in    *)
(* one instance: a session of ContinuousWriting, and the command queue of  *)
(* ControlCommands.  A behaviour shows one of them, the scene; the other   *)
(* has nothing to do, so that its fairness asks nothing of it.             *)
EXTENDS ContinuousWriting

CONSTANTS Submitted, Loops, NoHost, GatedTool, MaxDepartures, MaxStalls

VARIABLES receipt, queue, made, grant, host, departures, stalls, scene

SixTasks == 1..6

\* Commands that make a task, executed by command workers alone.
Plane == INSTANCE ControlCommands WITH
            Commands <- Submitted, Requests <- {}, Grants <- {}, CommandNames <- {"task.enqueue"}

planeVars == <<receipt, queue, made, grant, host, departures, stalls>>
liveVars == <<cvars, planeVars, scene>>

LInit == CInit /\ Plane!CmdInit /\ scene \in {"session", "commands"}

LNext ==
    /\ UNCHANGED scene
    /\ \/ scene = "session" /\ CNext /\ UNCHANGED planeVars
       \/ scene = "commands" /\ Plane!CmdNext /\ UNCHANGED cvars

LFairSpec == LInit /\ [][LNext]_liveVars /\ CFair /\ Plane!CmdFair

\* A queued command is answered some day, whichever command worker dies or
\* stalls over it (ControlCommands).
CommandAnswered == Plane!CommandAnswered
=============================================================================
