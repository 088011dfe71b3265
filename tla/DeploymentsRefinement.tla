----------------------- MODULE DeploymentsRefinement -----------------------
(* Deployments implements ReleaseHistory.                                  *)
EXTENDS Deployments

\* Queued, building and deploying are one from outside: a row may even be put
\* back from one to another by a slow handler.
Fate(i) == IF deps[i].status \in InFlight THEN "open" ELSE deps[i].status
Ships(i) == [image |-> deps[i].pin, source |-> deps[i].commit, how |-> deps[i].trigger]

History == INSTANCE ReleaseHistory WITH
    Releases <- Ids,
    Sources  <- Commits,
    Ways     <- Building \cup {"rollback", "config"},
    fate     <- [i \in DOMAIN deps |-> Fate(i)],
    what     <- [i \in DOMAIN deps |-> Ships(i)],
    paged    <- alerts

\* The lock and the supersession, the frozen terminal statuses, the alert in the
\* transaction that fails a row, and the pins copied from successful rows
\* together make a history: seen from outside every deployment is created once
\* and ends once, what it ships was built for it or has served with the same
\* commit, and a page goes out for the failures, whatever transactions, reports,
\* replicas and the sweeper do in between.
KeepsHistory == History!HistorySpec
=============================================================================
