------------------------------- MODULE MCSandbox ----------------------------
(* Small instances of ContinuousWriting and of SimulationRuns, for TLC.  A *)
(* behaviour shows one of them, the scene: the "session" that writes the   *)
(* chapters of a book, or the author and the round tasks in the "sandbox". *)
EXTENDS MCContinuousWriting, SimulationRuns

VARIABLE scene

sandboxVars == <<cvars, simVars, scene>>

SandboxInit == CInit /\ SimInit /\ scene \in {"session", "sandbox"}

SandboxNext ==
    /\ UNCHANGED scene
    /\ \/ scene = "session" /\ CNext /\ UNCHANGED simVars
       \/ scene = "sandbox" /\ SimNext /\ UNCHANGED cvars

SandboxSpec == SandboxInit /\ [][SandboxNext]_sandboxVars
=============================================================================
