---------------------------- MODULE MCReconciler ----------------------------
(* Instances of Reconciler for TLC.                                        *)
EXTENDS Reconciler, TLC

CONSTANTS s1, s2, r1, r2, p1, p2, p3

OneServer   == {s1}
TwoServers  == {s1, s2}
OneReplica  == {r1}
TwoReplicas == {r1, r2}
TwoPasses   == {p1, p2}
ThreePasses == {p1, p2, p3}

\* Two replicas with a pass each; one replica with every pass.
Apart    == p1 :> r1 @@ p2 :> r2
Together == [p \in ThreePasses |-> r1]
=============================================================================
