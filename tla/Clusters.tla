------------------------------ MODULE Clusters ------------------------------
(***************************************************************************)
(* An app deployed into a Kubernetes cluster, from its creation to the     *)
(* removal of its manifests, and the two-phase removal of volumes, which   *)
(* goes through the same table of pending destructive operations.          *)
(*                                                                         *)
(*   cp/internal/store/clusters.go, destructive.go   the rows              *)
(*   cp/internal/reconciler/k8s.go, reconciler.go    the rendering         *)
(*   agent/internal/k8s                              the node              *)
(*                                                                         *)
(* The document is that of the control-plane node: the membership op, one  *)
(* k8s.apply per workload and one op per pending row.  The reads of a      *)
(* reconcile are separate statements.  The agent applies the ops of a      *)
(* document one by one in an order that respects depends_on; what it       *)
(* reports may arrive late and more than once.  The app is deployed once:  *)
(* supersession and the stamp of versions are in module Deployments.       *)
(***************************************************************************)
EXTENDS Naturals, FiniteSets

CONSTANTS
    Services,       \* names of Compose services
    Plain,          \* the name of the workload of an app without Compose
    Prebuilt,       \* the services that name an image and build nothing
    AfterService,   \* depends_on: service -> services
    AppSpecs,       \* the sets of workloads an app may declare
    Volumes,        \* volumes an operator may remove
    MaxK8sFails     \* bound: ops that fail; the re-drive cap is not reached

Workloads == Services \cup {Plain}

ASSUME ClustersAssumption ==
    /\ Plain \notin Services /\ Prebuilt \subseteq Services
    /\ AppSpecs \subseteq (SUBSET Services \ {{}}) \cup {{Plain}}
    /\ AfterService \in [Services -> SUBSET Services] /\ MaxK8sFails \in Nat

VARIABLES
    cluster,     \* the row of clusters: "none", "up", "deleted"
    app,         \* the resource: its state and the workloads its spec declares
    registry,    \* the organisation has a registry and a build server
    release,     \* the deployment: status and service_status
    pushed,      \* workloads whose image is in the registry
    pending,     \* pending_destructive_ops with applied_at IS NULL
    tokens,      \* destructive_confirm_tokens, one per volume
    pass,        \* a reconcile of the control-plane node between two reads
    k8sDoc,      \* the ops of its stored document
    issued,      \* the document is newer than the one the agent has
    host,        \* the agent: ops still to apply and the results so far
    k3s,         \* the k3s service runs on the node
    manifests,   \* files in the manifest directory of k3s
    disks,       \* volumes that exist on the host
    outcomes,    \* reports on their way to the control plane
    retry,       \* the last report had a failure: the next resync re-issues
    k8sFails

clusterVars == <<cluster, app, registry, release, pushed, pending, tokens, pass, k8sDoc, issued,
                 host, k3s, manifests, disks, outcomes, retry, k8sFails>>
appVars     == <<cluster, app, registry>>
destroyVars == <<pending, tokens>>
clusterPassVars    == <<pass, k8sDoc, issued, retry>>
nodeVars    == <<host, k3s, manifests, disks, k8sFails>>

NodeOp == [kind |-> "k8s.node", target |-> {}]
ApplyOp(w) == [kind |-> "k8s.apply", target |-> {w}]
RemoveRow == [kind : {"k8s.remove"}, target : SUBSET Workloads]
VolumeRow == [kind : {"volume.remove"}, target : {{v} : v \in Volumes}]
K8sOps == {NodeOp} \cup {ApplyOp(w) : w \in Workloads} \cup RemoveRow \cup VolumeRow

NoRelease == [status |-> "none", svc |-> [w \in Workloads |-> "none"]]
NoPass == [pc |-> "idle", removals |-> {}]
InFlightRelease == {"queued", "deploying"}

ClustersInit ==
    /\ cluster = "none" /\ app = [state |-> "none", declared |-> {}]
    /\ registry \in BOOLEAN /\ release = NoRelease /\ pushed = {}
    /\ pending = {} /\ tokens = [v \in Volumes |-> "none"]
    /\ pass = NoPass /\ k8sDoc = {} /\ issued = FALSE /\ retry = FALSE
    /\ host = [todo |-> {}, done |-> {}, results |-> {}]
    /\ k3s = FALSE /\ manifests = {} /\ disks = Volumes /\ outcomes = {} /\ k8sFails = 0

(***************************************************************************)
(* The rows.                                                               *)
(***************************************************************************)
CreateCluster ==
    /\ cluster = "none" /\ cluster' = "up"
    /\ UNCHANGED <<app, registry, release, pushed, destroyVars, clusterPassVars, nodeVars, outcomes>>

\* A resource of a kind the cluster admits, with the workloads of its spec,
\* which no later operation changes.
CreateClusterResource ==
    /\ cluster = "up" /\ app.state = "none"
    /\ \E declared \in AppSpecs :
          app' = [state |-> "live", declared |-> declared]
    /\ UNCHANGED <<cluster, registry, release, pushed, destroyVars, clusterPassVars, nodeVars, outcomes>>

\* The one deployment of the app.
DeployToCluster ==
    /\ app.state = "live" /\ release.status = "none"
    /\ release' = [release EXCEPT !.status = "queued"]
    /\ UNCHANGED <<appVars, pushed, destroyVars, clusterPassVars, nodeVars, outcomes>>

\* Both shapes are named, whatever the spec says.
k8sTeardownWorkloads(declared) == {Plain} \cup declared

insertPendingDestructiveOp(kind, target) == pending \cup {[kind |-> kind, target |-> target]}

insertK8sTeardown(declared) ==
    IF cluster = "up"
    THEN insertPendingDestructiveOp("k8s.remove", k8sTeardownWorkloads(declared))
    ELSE pending

\* The delete takes the deployments along and queues the teardown in the same
\* transaction.
DeleteClusterResource ==
    /\ app.state = "live"
    /\ app' = [app EXCEPT !.state = "deleted"] /\ release' = NoRelease
    /\ pending' = insertK8sTeardown(app.declared)
    /\ UNCHANGED <<cluster, registry, pushed, tokens, clusterPassVars, nodeVars, outcomes>>

\* Refused while a resource is deployed into the cluster (ErrClusterWorkloads).
DeleteCluster ==
    /\ cluster = "up" /\ app.state # "live"
    /\ cluster' = "deleted"
    /\ UNCHANGED <<app, registry, release, pushed, destroyVars, clusterPassVars, nodeVars, outcomes>>

\* Phase one of a volume removal: a token for one volume, valid for a while.
IssueConfirmToken(v) ==
    /\ tokens[v] = "none"
    /\ tokens' = [tokens EXCEPT ![v] = "valid"]
    /\ UNCHANGED <<appVars, release, pushed, pending, clusterPassVars, nodeVars, outcomes>>

ConfirmTokenExpires(v) ==
    /\ tokens[v] = "valid"
    /\ tokens' = [tokens EXCEPT ![v] = "expired"]
    /\ UNCHANGED <<appVars, release, pushed, pending, clusterPassVars, nodeVars, outcomes>>

\* Phase two: the token is spent and the row inserted in one transaction.  A
\* token for another target rolls back, so that it stays valid.
ConfirmDestructiveOp(v) ==
    /\ tokens[v] = "valid"
    /\ tokens' = [tokens EXCEPT ![v] = "used"]
    /\ pending' = insertPendingDestructiveOp("volume.remove", {v})
    /\ UNCHANGED <<appVars, release, pushed, clusterPassVars, nodeVars, outcomes>>

(***************************************************************************)
(* Rendering.                                                              *)
(***************************************************************************)
Built(w) == w \notin Prebuilt

\* Nothing renders while a build is in flight or if nothing can build; a
\* target without a deployment needs no build.
clusterImageReady ==
    \/ release.status \in {"none", "failed"}
    \/ registry /\ release.status # "queued"

\* Mutant: the first build that lands opens the gate for all services.
GateOnRelease(w) == release.status \in {"deploying", "success"}

\* The gate of one Compose service: its own build has reported.
ServiceBuilt(w) == release.svc[w] \in {"deploying", "success"}

renderClusterComposeOps ==
    IF (\E w \in app.declared : Built(w)) /\ ~clusterImageReady THEN {}
    ELSE {ApplyOp(w) : w \in {s \in app.declared : ~Built(s) \/ ServiceBuilt(s)}}

\* A plain app that was deployed from git has no image of its own to fall back
\* on when its deployment failed.
renderClusterWorkloadOps ==
    IF app.state # "live" THEN {}
    ELSE IF app.declared # {Plain} THEN renderClusterComposeOps
    ELSE IF clusterImageReady /\ release.status \in {"deploying", "success"}
         THEN {ApplyOp(Plain)} ELSE {}

\* The ops a service waits for: the node, and of its depends_on the services
\* that are in the same document.
K8sDeps(op) ==
    IF op.kind # "k8s.apply" THEN {}
    ELSE {NodeOp} \cup {ApplyOp(d) : d \in UNION {AfterService[w] \ {w} :
                                                  w \in op.target \cap Services}}

renderClusterNodeOp == IF cluster = "up" THEN {NodeOp} ELSE {}

\* ClusterMembershipForServer, then the workloads of the cluster: a server
\* that is in no cluster renders none.
ReadWorkloads == IF cluster = "up" THEN renderClusterWorkloadOps ELSE {}

\* The first read of a pass (PendingDestructiveOpsForServer).
PendingDestructiveOpsForServer ==
    /\ pass = NoPass
    /\ pass' = [pc |-> "workloads", removals |-> pending]
    /\ UNCHANGED <<appVars, release, pushed, destroyVars, k8sDoc, issued, retry, nodeVars, outcomes>>

\* The later reads, the render and StoreDSD: the document is stored when it
\* differs or when the last apply of the same one failed.
RenderAndStore ==
    LET ops == renderClusterNodeOp \cup ReadWorkloads \cup pass.removals
    IN  /\ pass.pc = "workloads" /\ pass' = NoPass
        /\ k8sDoc' = ops
        /\ issued' = (issued \/ ops # k8sDoc \/ retry) /\ retry' = FALSE
        /\ UNCHANGED <<appVars, release, pushed, destroyVars, nodeVars, outcomes>>

(***************************************************************************)
(* The build server.  Its document holds a clone and a build for each      *)
(* service that builds, while the deployment is in flight.                 *)
(***************************************************************************)
ClusterBuildSpecsForServer ==
    IF app.state = "live" /\ registry /\ release.status \in InFlightRelease
    THEN {w \in app.declared : Built(w)} ELSE {}

\* setDeploymentStatusTx: a finished deployment keeps its status.
SetRelease(svc, status) ==
    release' = [svc |-> svc,
                status |-> IF release.status \in InFlightRelease THEN status ELSE release.status]

\* AdvanceDeploymentService, and AdvanceDeploymentForResource of a plain app,
\* for a batch of results: a service that succeeded does not go back.
AdvanceServices(failed, moved, to) ==
    LET svc == [w \in Workloads |->
                  IF release.svc[w] = "success" THEN "success"
                  ELSE IF w \in failed THEN "failed"
                  ELSE IF w \in moved THEN to ELSE release.svc[w]]
    IN  SetRelease(svc, IF \E w \in Workloads : svc[w] = "failed" THEN "failed"
                        ELSE IF \A w \in app.declared : svc[w] = "success" THEN "success"
                        ELSE "deploying")

\* One build pushed its image, or failed, and the build server's report came.
renderClusterBuildOps(w) ==
    /\ w \in ClusterBuildSpecsForServer /\ release.svc[w] = "none"
    /\ \/ pushed' = pushed \cup {w} /\ AdvanceServices({}, {w}, "deploying") /\ UNCHANGED k8sFails
       \/ /\ k8sFails < MaxK8sFails /\ k8sFails' = k8sFails + 1
          /\ AdvanceServices({w}, {}, "failed") /\ UNCHANGED pushed
    /\ UNCHANGED <<appVars, destroyVars, clusterPassVars, host, k3s, manifests, disks, outcomes>>

(***************************************************************************)
(* The agent of the control-plane node.                                    *)
(***************************************************************************)
FetchK8sDoc ==
    /\ issued /\ host.todo = {}
    /\ host' = [todo |-> k8sDoc, done |-> {}, results |-> {}] /\ issued' = FALSE
    /\ UNCHANGED <<appVars, release, pushed, destroyVars, pass, k8sDoc, retry, k3s, manifests, disks,
                   k8sFails, outcomes>>

Finish(op, ok) ==
    host' = [todo |-> host.todo \ {op}, done |-> IF ok THEN host.done \cup {op} ELSE host.done,
             results |-> host.results \cup {[op |-> op, ok |-> ok]}]

\* An op whose prerequisite was not applied is skipped; else it is run, and
\* may fail.
Ready(op) == op \in host.todo /\ \A d \in K8sDeps(op) : d \notin host.todo
Skipped(op) == \E d \in K8sDeps(op) : d \notin host.done /\ \E r \in host.results : r.op = d
MayFail == k8sFails < MaxK8sFails /\ k8sFails' = k8sFails + 1

SkipOp ==
    \E op \in host.todo :
        /\ Ready(op) /\ Skipped(op) /\ Finish(op, FALSE)
        /\ UNCHANGED <<appVars, release, pushed, destroyVars, clusterPassVars, k3s, manifests, disks, k8sFails,
                       outcomes>>

\* An active service is left alone; else k3s is installed, which may fail.
applyNode ==
    /\ Ready(NodeOp)
    /\ \/ k3s' = TRUE /\ Finish(NodeOp, TRUE) /\ UNCHANGED k8sFails
       \/ ~k3s /\ MayFail /\ Finish(NodeOp, FALSE) /\ UNCHANGED k3s
    /\ UNCHANGED <<appVars, release, pushed, destroyVars, clusterPassVars, manifests, disks, outcomes>>

\* The files of the resource that the op's Workloads set does not name go.
pruneManifests == app.declared

\* kubectl rollout status: what has no image never becomes available.
gateRollout(w) == w \in pushed \/ ~Built(w)

\* The manifest is written first and stays whatever the gate says.  Failing
\* before the write (secrets, registry) leaves no file.
applyWorkload(w) ==
    LET op == ApplyOp(w)
    IN  /\ Ready(op) /\ ~Skipped(op)
        /\ \/ /\ manifests' = (manifests \cup {w}) \cap (pruneManifests \cup {w})
              /\ \/ gateRollout(w) /\ Finish(op, TRUE) /\ UNCHANGED k8sFails
                 \/ MayFail /\ Finish(op, FALSE)
           \/ MayFail /\ Finish(op, FALSE) /\ UNCHANGED manifests
        /\ UNCHANGED <<appVars, release, pushed, destroyVars, clusterPassVars, k3s, disks, outcomes>>

\* A file that is gone counts as removed; a failure may leave some behind.
removeWorkloads ==
    \E op \in host.todo \cap RemoveRow :
        /\ \/ manifests' = manifests \ op.target /\ Finish(op, TRUE) /\ UNCHANGED k8sFails
           \/ /\ MayFail /\ Finish(op, FALSE)
              /\ \E gone \in SUBSET op.target : manifests' = manifests \ gone
        /\ UNCHANGED <<appVars, release, pushed, destroyVars, clusterPassVars, k3s, disks, outcomes>>

\* A volume that does not exist is a success.
opVolumeRemove ==
    \E op \in host.todo \cap VolumeRow :
        /\ \/ disks' = disks \ op.target /\ Finish(op, TRUE) /\ UNCHANGED k8sFails
           \/ MayFail /\ Finish(op, FALSE) /\ UNCHANGED disks
        /\ UNCHANGED <<appVars, release, pushed, destroyVars, clusterPassVars, k3s, manifests, outcomes>>

\* The report of a finished document is sent; sending again changes nothing.
\* Of the earlier ones at most one is still on its way.
SendK8sStatus ==
    /\ host.todo = {} /\ host.results # {} /\ host.results \notin outcomes
    /\ \E late \in {{}} \cup {{r} : r \in outcomes} : outcomes' = late \cup {host.results}
    /\ UNCHANGED <<appVars, release, pushed, destroyVars, clusterPassVars, nodeVars>>

\* Mutant: a teardown that failed is retired as well.
RetiresAll(r) == r.op.kind \in {"k8s.remove", "volume.remove"}

\* A pending row is retired when its op is reported applied.
MarkDestructiveOpApplied(r) == r.ok /\ r.op.kind \in {"k8s.remove", "volume.remove"}

\* A report that arrives, for the first time or again, and any time later.
IngestK8sStatus ==
    \E rep \in outcomes :
        LET Rolled(ok) == UNION {r.op.target : r \in {x \in rep : x.op.kind = "k8s.apply" /\ x.ok = ok}}
        IN  /\ pending' = pending \ {r.op : r \in {x \in rep : MarkDestructiveOpApplied(x)}}
            /\ IF app.state = "live" /\ release.status \in InFlightRelease
                  /\ Rolled(TRUE) \cup Rolled(FALSE) # {}
               THEN AdvanceServices(Rolled(FALSE), Rolled(TRUE), "success")
               ELSE UNCHANGED release
            /\ retry' = IF rep = host.results /\ host.todo = {} /\ ~issued
                        THEN \E r \in rep : ~r.ok ELSE retry
            /\ UNCHANGED <<appVars, pushed, tokens, pass, k8sDoc, issued, nodeVars, outcomes>>

ClustersNext ==
    \/ CreateCluster \/ CreateClusterResource \/ DeployToCluster
    \/ DeleteClusterResource \/ DeleteCluster
    \/ \E v \in Volumes : IssueConfirmToken(v) \/ ConfirmTokenExpires(v) \/ ConfirmDestructiveOp(v)
    \/ PendingDestructiveOpsForServer \/ RenderAndStore
    \/ \E w \in Workloads : renderClusterBuildOps(w) \/ applyWorkload(w)
    \/ FetchK8sDoc \/ SkipOp \/ applyNode \/ removeWorkloads \/ opVolumeRemove
    \/ SendK8sStatus \/ IngestK8sStatus

ClustersSpec == ClustersInit /\ [][ClustersNext]_clusterVars

ClustersTypeOK ==
    /\ cluster \in {"none", "up", "deleted"} /\ registry \in BOOLEAN
    /\ app \in [state : {"none", "live", "deleted"}, declared : SUBSET Workloads]
    /\ release \in [status : {"none", "queued", "deploying", "success", "failed"},
                    svc : [Workloads -> {"none", "deploying", "success", "failed"}]]
    /\ pushed \subseteq Workloads /\ pending \subseteq RemoveRow \cup VolumeRow
    /\ tokens \in [Volumes -> {"none", "valid", "used", "expired"}]
    /\ k8sDoc \subseteq K8sOps /\ host.todo \subseteq K8sOps
    /\ manifests \subseteq Workloads /\ disks \subseteq Volumes /\ k8sFails \in 0..MaxK8sFails

\* No manifest on the node points at an image that nothing has built: builds
\* report per service from another server, and a service renders on its own
\* report only.
ImagesExist == \A w \in manifests : Built(w) => w \in pushed

\* Once the teardown of a deleted app is retired nothing of the app is on the
\* node, and nothing that is still to be applied brings it back: a pass reads
\* the pending rows before the workloads, and reports arrive late.
NoOrphans ==
    app.state = "deleted" /\ pending \cap RemoveRow = {}
    => manifests = {} /\ \A w \in Workloads : ApplyOp(w) \notin host.todo
=============================================================================
