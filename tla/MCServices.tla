----------------------------- MODULE MCServices -----------------------------
(***************************************************************************)
(* Services of the control plane that share no state: cluster workloads,   *)
(* key custody, object storage, billing, webhooks, alerts, and the         *)
(* reconciler's slots with its connection pool.                            *)
(* Each behaviour runs one of them, `part', and leaves the others alone.   *)
(* Volumes are removed beside a plain app only.                            *)
(***************************************************************************)
EXTENDS Clusters, Secrets, Buckets, Billing, GitHooks, Reconciler,
        AlertsRefinement

VARIABLE part

MCAfterService == [s \in Services |-> IF s = "web" THEN {"db"} ELSE {}]

MCUnitWeight == [t \in HostTypes |-> IF t = "gpu" THEN 3 ELSE 1]

\* One replica with every pass.
Together == [p \in Passes |-> CHOOSE r \in Replicas : TRUE]

MCKind == [c \in Channels |-> "webhook"]
MCEvent == [k \in Keys |-> "cert_failed"]

ServicesInit ==
    /\ part \in {"clusters", "volumes", "secrets", "buckets", "billing", "webhooks", "slots",
                 "alerts"}
    /\ ClustersInit /\ SecretsInit /\ BucketsInit /\ BillingInit /\ GitHooksInit /\ Init
    /\ AlertsInit
    /\ part \notin {"clusters", "volumes"} => registry

ServicesNext ==
    /\ UNCHANGED part
    /\ \/ /\ part \in {"clusters", "volumes"} /\ ClustersNext
          /\ IF part = "clusters" THEN UNCHANGED tokens ELSE app'.declared \subseteq {Plain}
          /\ UNCHANGED <<secretVars, bucketVars, billingVars, gitHookVars, vars,
                         alertsVars>>
       \/ /\ part = "secrets" /\ SecretsNext
          /\ UNCHANGED <<clusterVars, bucketVars, billingVars, gitHookVars, vars,
                         alertsVars>>
       \/ /\ part = "buckets" /\ BucketsNext
          /\ UNCHANGED <<clusterVars, secretVars, billingVars, gitHookVars, vars,
                         alertsVars>>
       \/ /\ part = "billing" /\ BillingNext
          /\ UNCHANGED <<clusterVars, secretVars, bucketVars, gitHookVars, vars,
                         alertsVars>>
       \/ /\ part = "webhooks" /\ GitHooksNext
          /\ UNCHANGED <<clusterVars, secretVars, bucketVars, billingVars, vars,
                         alertsVars>>
       \/ /\ part = "slots" /\ Next
          /\ UNCHANGED <<clusterVars, secretVars, bucketVars, billingVars, gitHookVars,
                         alertsVars>>
       \/ /\ part = "alerts" /\ AlertsNext
          /\ UNCHANGED <<clusterVars, secretVars, bucketVars, billingVars, gitHookVars,
                         vars>>
=============================================================================
