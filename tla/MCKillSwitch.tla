---------------------------- MODULE MCKillSwitch ----------------------------
(* Instances of KillSwitch for TLC: an Actor filed under the workspace, a   *)
(* newcomer waiting for approval, a human.                                 *)
EXTENDS KillSwitch

CONSTANTS agent, newcomer, human
=============================================================================
