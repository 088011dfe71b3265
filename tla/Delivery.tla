------------------------------ MODULE Delivery ------------------------------
(***************************************************************************)
(* What document delivery promises, without journals, messages, crashes or *)
(* retries: numbered documents are issued, the agent finishes some of them *)
(* in order, and the control plane learns how the finished ones ended.     *)
(* Once a version is behind the agent its outcome never changes, and the   *)
(* verdict kept for the newest version is that outcome and nothing else.   *)
(***************************************************************************)
EXTENDS Integers

VARIABLES
    issued,   \* the newest version
    done,     \* the version the agent finished last
    outcome,  \* outcome[v], for v up to done: every op of it is applied
    known,    \* the version of the last report recorded
    verdict   \* on the newest version: "pending", "clean" or "broken"

deliveryVars == <<issued, done, outcome, known, verdict>>

VerdictOf(clean) == IF clean THEN "clean" ELSE "broken"

DeliveryInit ==
    /\ issued = 0 /\ done = 0 /\ known = 0
    /\ outcome = [v \in 1 .. 0 |-> TRUE]
    /\ verdict = "pending"

Issue ==
    /\ issued' = issued + 1
    /\ verdict' = "pending"
    /\ UNCHANGED <<done, outcome, known>>

\* The agent may pass over versions that were superseded before it fetched them
\* or before it was through with them.
Finish ==
    /\ done' \in (done + 1) .. issued
    /\ \E ends \in [(done + 1) .. done' -> BOOLEAN] :
          outcome' = [v \in 1 .. done' |-> IF v <= done THEN outcome[v] ELSE ends[v]]
    /\ UNCHANGED <<issued, known, verdict>>

Learn ==
    /\ known' \in known .. done /\ known' > 0
    /\ verdict' = IF known' = issued THEN VerdictOf(outcome[known']) ELSE "pending"
    /\ UNCHANGED <<issued, done, outcome>>

DeliveryNext == Issue \/ Finish \/ Learn

DeliverySpec == DeliveryInit /\ [][DeliveryNext]_deliveryVars
=============================================================================
