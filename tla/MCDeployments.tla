--------------------------- MODULE MCDeployments ---------------------------
(* Instances of Deployments for TLC.                                       *)
EXTENDS DeploymentsRefinement

CONSTANTS t1, t2, h1, h2

OneTxn == {t1}
TwoTxns == {t1, t2}
OneHandler == {h1}
TwoHandlers == {h1, h2}

\* How deployments come about.
AllTriggers    == Building \cup {"rollback", "config"}
LockedTriggers == AllTriggers \ {"config"}
PushTriggers   == {"git", "redeploy", "rollback", "config"}
UserTriggers   == AllTriggers \ {"git"}
ButtonTriggers == {"head", "redeploy", "rollback"}
=============================================================================
