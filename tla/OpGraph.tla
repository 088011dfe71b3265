------------------------------ MODULE OpGraph ------------------------------
(***************************************************************************)
(* What it means for the ops of a Desired-State Document to be orderable,  *)
(* stated without an algorithm.  ops is a set of op ids and dep[o] the set *)
(* of ids op o names in its dependsOn list (an id may be missing from the  *)
(* document, and the lists may form cycles).                               *)
(*                                                                         *)
(* TopoOrder.tla checks the depth-first search of dsd.TopoOrder against    *)
(* these definitions; DesiredState.tla uses them in its place.             *)
(***************************************************************************)

\* S names every prerequisite of its members and has no cycle: each nonempty
\* part of S has a member that depends on nothing in that part.
SelfContained(dep, S) ==
    /\ \A o \in S : dep[o] \subseteq S
    /\ \A T \in SUBSET S : T # {} => \E o \in T : dep[o] \cap T = {}

\* The ops that can be placed in dependency order.  The others depend,
\* directly or through other ops, on a missing id or on a cycle.
Resolvable(ops, dep) == UNION {S \in SUBSET ops : SelfContained(dep, S)}
============================================================================
