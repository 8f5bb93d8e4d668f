--------------------------- MODULE MCFailureSwitch ---------------------------
(***************************************************************************)
(* An instance of FailureSwitch for TLC.                                   *)
(***************************************************************************)
EXTENDS FailureSwitch

ObjectTags == [o \in Objects |-> IF o = "b1" THEN "b" ELSE "a"]
TwoTags == <<"a", "b">>
=============================================================================
