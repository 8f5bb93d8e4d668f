--------------------------- MODULE MCRemovalQueue ---------------------------
(***************************************************************************)
(* Instances of RemovalQueue for TLC.                                      *)
(***************************************************************************)
EXTENDS RemovalQueue

\* Every tag is always created as the same kind.
OneKindEach == [t \in Tags |-> IF t = "b" THEN {"endpoint"} ELSE {"outbound"}]

=============================================================================
