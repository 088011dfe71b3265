----------------------- MODULE DesiredStateRefinement -----------------------
(* DesiredState implements Delivery.                                       *)
EXTENDS DesiredState

\* How version v ended on the agent, according to its journal.
EndedClean(v) == \A o \in Ops : Result(v, o) \notin Broken

Promise == INSTANCE Delivery WITH
    issued  <- version,
    done    <- lastApplied,
    outcome <- [v \in 1 .. lastApplied |-> EndedClean(v)],
    known   <- appliedVersion,
    verdict <- IF version = 0 \/ appliedVersion < version THEN "pending"
               ELSE IF applyOK THEN "clean" ELSE "broken"

\* The journal, the re-reports and the guards of StoreDSD and ApplyDSDStatus
\* together deliver what Delivery promises: seen from outside, documents are
\* issued, finished and learnt of in order, an outcome never changes once its
\* version is behind the agent, and the verdict on the newest version is its
\* outcome, whatever is lost, repeated, late, crashed or resumed in between.
DeliversAsPromised == Promise!DeliverySpec
=============================================================================
