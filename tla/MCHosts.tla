------------------------------ MODULE MCHosts ------------------------------
(***************************************************************************)
(* What happens to a host: the agent orders a document's ops, its          *)
(* container driver rolls a service out, and the server enters and leaves  *)
(* the fleet.  The three share no state: each behaviour runs one of them,  *)
(* `part', and leaves the others alone.  The server is followed up to      *)
(* where its decommission is undone, if it is.                             *)
(***************************************************************************)
EXTENDS MCContainerDriver, MCFleet, TopoOrder

VARIABLE part

\* The search never compares two ids with each other, so that the lists in which
\* the ids first occur in the order a, b, c stand for all of them.
FirstSeenInOrder ==
    \A i \in DOMAIN list : \A p \in {<<"a", "b">>, <<"b", "c">>} :
       list[i] = p[2] => \E j \in 1 .. i - 1 : list[j] = p[1]

HostsInit ==
    /\ part \in {"driver", "order", "fleet"}
    /\ Init /\ TopoInit /\ FleetInit
    /\ part # "driver" => kind = "rollout" /\ good = {0}
    /\ IF part = "order" THEN FirstSeenInOrder ELSE list = <<>>

Driving(A)  == part = "driver" /\ A /\ UNCHANGED <<part, topoVars, fleetVars>>
Ordering(A) == part = "order"  /\ A /\ UNCHANGED <<part, vars, fleetVars>>
Serving(A)  == part = "fleet"  /\ undone = {} /\ A /\ UNCHANGED <<part, vars, topoVars>>

HostsNext == Driving(Next) \/ Ordering(TopoNext) \/ Serving(FleetNext)

\* The fairness of the driver's two loops.
HostsSpec ==
    /\ HostsInit /\ [][HostsNext]_<<part, vars, topoVars, fleetVars>>
    /\ WF_vars(Driving(LoopStep)) /\ WF_vars(Driving(TickStep))
=============================================================================
