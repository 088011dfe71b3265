--------------------------- MODULE MCDesiredState ---------------------------
(***************************************************************************)
(* Instances of DesiredState for TLC: two documents.  d1 is a chain of     *)
(* three ops; d2 holds only the last one, whose prerequisite is missing.   *)
(***************************************************************************)
EXTENDS DesiredStateRefinement

MCDocs == {"d1", "d2"}
MCOps == {"net", "vol", "run"}
MCOpsOf == [d \in MCDocs |-> IF d = "d1" THEN {"net", "vol", "run"} ELSE {"run"}]
MCDependsOn ==
    [d \in MCDocs |->
        [o \in MCOps |-> CASE o = "vol" -> {"net"} [] o = "run" -> {"vol"} [] OTHER -> {}]]

\* One document for the liveness runs.
OneDoc == {"d1"}
OneDocOps == {"net", "run"}
OneDocOpsOf == [d \in OneDoc |-> OneDocOps]
OneDocDependsOn == [d \in OneDoc |-> [o \in OneDocOps |-> IF o = "run" THEN {"net"} ELSE {}]]
=============================================================================
