--------------------------- MODULE MCProbeWaiters ---------------------------
(***************************************************************************)
(* Instances of ProbeWaiters for TLC.                                      *)
(***************************************************************************)
EXTENDS ProbeWaiters

ObjectTags == [o \in Objects |-> CASE o \in {"a1", "a2"} -> "a"
                                   [] o = "b1" -> "b"
                                   [] OTHER -> "l"]
OneTag == <<"a">>
TwoTags == <<"a", "b">>

\* Nothing pauses the group here: pauses belong to the scenarios of MCAutoSelect.
LiveNext == WaitersNext /\ pausedBy' = {}

LiveSpec == WaitersInit /\ [][LiveNext]_allVars /\ WaitersFairness
=============================================================================
