--------------------------- MODULE ReleaseHistory ---------------------------
(***************************************************************************)
(* What the release history of an app promises, without transactions,      *)
(* documents, agents or reports: releases are created, and each of them    *)
(* ends once.  A release ships an image of its own or one that has served  *)
(* before, with the source that one was built from; a new release takes    *)
(* the place of those still open, unless it only changes the               *)
(* configuration; failures are announced as they happen, and nothing else  *)
(* is.                                                                     *)
(***************************************************************************)
CONSTANTS
    Releases,  \* ids of releases
    Sources,   \* commits
    Ways       \* how a release comes about; "config" is a new configuration

VARIABLES
    fate,   \* release -> "open", "success", "failed" or "superseded"
    what,   \* release -> what it ships, and how it came about
    paged   \* the releases whose failure was announced

historyVars == <<fate, what, paged>>

What == [image : Releases, source : Sources, how : Ways]
Open == {r \in DOMAIN fate : fate[r] = "open"}

\* The image of r was built for r and has served.
Served(r) == r \in DOMAIN fate /\ fate[r] = "success" /\ what[r].image = r

HistoryInit ==
    /\ fate = [r \in {} |-> "open"]
    /\ what = [r \in {} |-> r]
    /\ paged = {}

Create(r, w) ==
    /\ r \notin DOMAIN fate
    /\ w.image = r \/ (Served(w.image) /\ w.source = what[w.image].source)
    /\ fate' = [q \in DOMAIN fate \cup {r} |->
                  IF q = r THEN "open"
                  ELSE IF q \in Open /\ w.how # "config" THEN "superseded"
                  ELSE fate[q]]
    /\ what' = [q \in DOMAIN fate \cup {r} |-> IF q = r THEN w ELSE what[q]]
    /\ UNCHANGED paged

Succeed(r) ==
    /\ fate' = [fate EXCEPT ![r] = "success"]
    /\ UNCHANGED <<what, paged>>

Fail(S) ==
    /\ fate' = [q \in DOMAIN fate |-> IF q \in S THEN "failed" ELSE fate[q]]
    /\ paged' = paged \cup S
    /\ UNCHANGED what

HistoryNext ==
    \/ \E r \in Releases, w \in What : Create(r, w)
    \/ \E r \in Open : Succeed(r)
    \/ \E S \in SUBSET Open : Fail(S)

HistorySpec == HistoryInit /\ [][HistoryNext]_historyVars
=============================================================================
