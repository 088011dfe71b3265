---------------------------- MODULE Deployments ----------------------------
(***************************************************************************)
(* The release history of one git-deployed, single-container app           *)
(* (cp/internal/store/deployments.go) from the transaction that creates a  *)
(* deployment row to the op-status report that finishes it: creation and   *)
(* supersession, rendering into the documents of the build server and the  *)
(* deploy target (cp/internal/reconciler), the version stamp, the agents'  *)
(* reports and the handler that advances rows from them                    *)
(* (cp/internal/api/dsd.go).  Builder = Target is the app without a        *)
(* dedicated build server.                                                 *)
(*                                                                         *)
(* A transaction's statements, a reconcile's read, write and stamp, and a  *)
(* handler's read and write are separate steps, because the code holds     *)
(* nothing across them that would order them.  How one document is         *)
(* fetched, applied and journalled is module DesiredState; here applying   *)
(* it is one step.                                                         *)
(***************************************************************************)
EXTENDS Integers, FiniteSets

CONSTANTS
    Target,      \* deployments.server_id: the server that runs the app
    Builder,     \* deployments.build_server_id, Target when there is none
    Txns,        \* concurrent transactions that create deployments
    Handlers,    \* concurrent handleDSDStatus requests
    Triggers,    \* which ways of creating a deployment occur
    Drainers,    \* control-plane replicas running DrainDeployRequests
    MaxDeploys,  \* bound: deployment rows
    MaxPushes,   \* bound: commits pushed to the deployed branch
    MaxBumps,    \* bound: re-renders for reasons other than this app
    MaxReports,  \* bound: reports outstanding at a time
    MaxSends     \* bound: how often the agent sends one report

Servers  == {Target, Builder}
Building == {"git", "head", "redeploy"}   \* stored as git, manual, manual
Ids      == 1..MaxDeploys
Commits  == 0..MaxPushes

ASSUME ConstantsAssumption ==
    /\ Triggers \subseteq Building \cup {"rollback", "config"}
    /\ {Drainers, MaxDeploys, MaxPushes, MaxBumps, MaxReports, MaxSends} \subseteq Nat

VARIABLES
    head,     \* the branch head: how many commits were pushed
    queue,    \* deploy_requests still queued, by commit
    deps,     \* deployments: id -> row; a larger id has the later created_at
    nextId,   \* created_at is the BEGIN of a row's transaction, so ids are
              \* given out there
    alerts,   \* deploy_failed alerts, by deployment
    tx,       \* the open creating transactions
    doc,      \* server_dsd: version and what it holds of this app
    rec,      \* the reconcile in progress per server, under its advisory lock
    bumps,    \* how many other changes the documents carried
    applied,  \* per server, the last version its agent applied
    images,   \* pins whose image a build produced
    earned,   \* deployments whose rollout an agent really applied
    net,      \* status reports the control plane will still handle
    hnd       \* the handleDSDStatus requests in progress

rowVars   == <<deps, alerts>>
queueVars == <<head, queue>>
docVars   == <<doc, rec, bumps>>
agentVars == <<applied, images, earned>>
vars == <<rowVars, queueVars, nextId, tx, docVars, agentVars, net, hnd>>

InFlight == {"queued", "building", "deploying"}
Terminal == {"success", "failed", "superseded"}
Status   == InFlight \cup Terminal
Phases   == {"pull", "clone", "build", "rollout"}

Row == [trigger : Building \cup {"rollback", "config"}, commit : Commits,
        pin : Ids, status : Status, stamp : Nat]

NoTx  == [id |-> 0]
NoJob == [pc |-> "idle"]

----------------------------------------------------------------------------
(* Reading the table.                                                      *)

InFlightIds == {i \in DOMAIN deps : deps[i].status \in InFlight}

\* ORDER BY created_at DESC LIMIT 1; 0 when there is no row.
Newest(S) == IF S = {} THEN 0 ELSE CHOOSE i \in S : \A j \in S : j <= i

rank(s) == CASE s = "queued" -> 0 [] s = "building" -> 1
             [] s = "deploying" -> 2 [] s = "success" -> 3

(***************************************************************************)
(* Creating deployments.  A transaction reads what it copies, waits for    *)
(* the advisory lock of the resource, supersedes and inserts.  tx[t] holds *)
(* what it read.                                                           *)
(***************************************************************************)
Begin(t, trigger, commit, pin) ==
    /\ trigger \in Triggers
    /\ nextId <= MaxDeploys
    /\ nextId' = nextId + 1
    /\ tx' = [tx EXCEPT ![t] =
                 [id |-> nextId, trigger |-> trigger, commit |-> commit,
                  pin |-> IF pin = 0 THEN nextId ELSE pin]]
    /\ UNCHANGED <<rowVars, docVars, agentVars, net, hnd>>

\* A push arrives by webhook and queues a deploy request.
Push ==
    /\ head < MaxPushes
    /\ head' = head + 1
    /\ queue' = queue \cup {head + 1}
    /\ UNCHANGED <<rowVars, nextId, tx, docVars, agentVars, net, hnd>>

\* The oldest request no other replica has claimed (SKIP LOCKED).
OldestRequest == CHOOSE c \in queue : \A d \in queue : c <= d

BeginDrain(t) ==
    /\ tx[t] = NoTx /\ queue # {}
    /\ Cardinality({u \in Txns : tx[u] # NoTx /\ tx[u].trigger = "git"}) < Drainers
    /\ Begin(t, "git", OldestRequest, 0)
    /\ queue' = queue \ {OldestRequest}
    /\ UNCHANGED head

\* The Deploy button of an app with no deployment to replay asks the git
\* provider for the branch head, and then starts its transaction.
ResolveHead(t) ==
    /\ "head" \in Triggers /\ tx[t] = NoTx /\ DOMAIN deps = {}
    /\ tx' = [tx EXCEPT ![t] = [id |-> 0, trigger |-> "head", commit |-> head, pin |-> 0]]
    /\ UNCHANGED <<rowVars, queueVars, nextId, docVars, agentVars, net, hnd>>

BeginHead(t) ==
    /\ tx[t] # NoTx /\ tx[t].id = 0
    /\ Begin(t, "head", tx[t].commit, 0)
    /\ UNCHANGED queueVars

\* Copies the commit of the newest deployment, whatever became of it.
BeginRedeploy(t) ==
    /\ tx[t] = NoTx /\ DOMAIN deps # {}
    /\ Begin(t, "redeploy", deps[Newest(DOMAIN deps)].commit, 0)
    /\ UNCHANGED queueVars

\* Re-ships the image of a successful release.
BeginRollback(t) ==
    /\ tx[t] = NoTx
    /\ \E i \in DOMAIN deps :
          /\ deps[i].status = "success"
          /\ Begin(t, "rollback", deps[i].commit, deps[i].pin)
    /\ UNCHANGED queueVars

\* Mutant: a config deployment copies whatever the newest row pins.
ConfigCopiesLatest ==
    LET latest == Newest(DOMAIN deps)
    IN  [commit |-> deps[latest].commit, pin |-> deps[latest].pin]

\* What a config deployment ships, as [commit, pin]: the newest release if it
\* succeeded, else the last one that did, else the failed attempt's commit
\* under a pin of its own (pin 0).
ConfigSource ==
    LET latest == Newest(DOMAIN deps)
        ok     == Newest({i \in DOMAIN deps : deps[i].status = "success"})
    IN  IF ok # 0 THEN [commit |-> deps[ok].commit, pin |-> deps[ok].pin]
                  ELSE [commit |-> deps[latest].commit, pin |-> 0]

BeginConfig(t) ==
    /\ tx[t] = NoTx /\ DOMAIN deps # {}
    /\ deps[Newest(DOMAIN deps)].status \notin InFlight
    /\ Begin(t, "config", ConfigSource.commit, ConfigSource.pin)
    /\ UNCHANGED queueVars

\* Mutant: whatever has not failed is superseded, a serving release too.
SupersedeServing ==
    [i \in DOMAIN deps |->
        IF deps[i].status # "failed"
        THEN [deps[i] EXCEPT !.status = "superseded"] ELSE deps[i]]

SupersedeInFlight ==
    [i \in DOMAIN deps |->
        IF deps[i].status \in InFlight
        THEN [deps[i] EXCEPT !.status = "superseded"] ELSE deps[i]]

Insert(t, rows) ==
    /\ deps' = [i \in DOMAIN rows \cup {tx[t].id} |->
                  IF i \in DOMAIN rows THEN rows[i]
                  ELSE [trigger |-> tx[t].trigger, commit |-> tx[t].commit,
                        pin |-> tx[t].pin, status |-> "queued", stamp |-> 0]]
    /\ tx' = [tx EXCEPT ![t] = NoTx]
    /\ UNCHANGED <<alerts, queueVars, nextId, docVars, agentVars, net, hnd>>

\* supersedeInFlightTx and INSERT: the advisory lock is held from the first
\* to the commit, so together they are one step.
InsertLocked(t) ==
    /\ tx[t].id # 0 /\ tx[t].trigger # "config"
    /\ Insert(t, SupersedeInFlight)

\* CreateConfigDeployments neither locks nor supersedes.
InsertConfig(t) ==
    /\ tx[t].id # 0 /\ tx[t].trigger = "config"
    /\ Insert(t, deps)

----------------------------------------------------------------------------
(* setDeploymentStatusTx on a set of rows: a terminal row is frozen, and a *)
(* row that fails raises its alert in the same transaction.                *)

SetDeploymentStatus(S, status) ==
    LET moved == {i \in S : deps[i].status \notin Terminal}
    IN  /\ deps' = [i \in DOMAIN deps |->
                      IF i \in moved THEN [deps[i] EXCEPT !.status = status]
                      ELSE deps[i]]
        /\ alerts' = IF status = "failed" THEN alerts \cup moved ELSE alerts

\* The sweeper fails the rows it finds in flight for too long.
TimeoutStaleDeployments ==
    \E S \in SUBSET InFlightIds \ {{}} :
        /\ SetDeploymentStatus(S, "failed")
        /\ UNCHANGED <<queueVars, nextId, tx, docVars, agentVars, net, hnd>>

(***************************************************************************)
(* Rendering.  DeployTargetsForServer picks the newest row that is in      *)
(* flight or succeeded; renderDeployOps turns it into ops.  With a         *)
(* dedicated build server the clone and build go to its document and the   *)
(* target's pull and rollout wait until the row is past building.          *)
(***************************************************************************)
DeployTarget ==
    Newest({i \in DOMAIN deps : deps[i].status \in InFlight \cup {"success"}})

\* reshipsRetainedImage: a rollback or a config deployment that has a pin, and
\* every creator gives its row one, skips clone and build.
Reships(i) == deps[i].trigger \in {"rollback", "config"}

RenderDeployOps(s, i) ==
    IF Builder = Target
    THEN IF Reships(i) THEN {"rollout"} ELSE {"clone", "build", "rollout"}
    ELSE IF s = Builder
    THEN IF Reships(i) THEN {} ELSE {"clone", "build"}
    ELSE IF ~Reships(i) /\ deps[i].status \in {"queued", "building"} THEN {}
    ELSE {"pull", "rollout"}

\* The part of the document that is about this app; `force` rebuilds on a
\* manual deploy for as long as it is in flight.
NoOps == [dep |-> 0, ops |-> {}, force |-> FALSE]

Render(s) ==
    LET i == DeployTarget
    IN  IF i = 0 \/ RenderDeployOps(s, i) = {} THEN NoOps
        ELSE [dep |-> i, ops |-> RenderDeployOps(s, i),
              force |-> /\ "build" \in RenderDeployOps(s, i)
                        /\ deps[i].trigger \in {"head", "redeploy"}
                        /\ deps[i].status \in InFlight]

\* Reconcile, up to StoreDSD: the reads.  A render equal to the stored
\* document changes nothing and is not modelled; `other` is a difference
\* elsewhere in the document.
ReadTargets(s) ==
    /\ rec[s] = NoJob
    /\ \E other \in BOOLEAN :
          /\ IF other THEN bumps < MaxBumps ELSE Render(s) # doc[s].app
          /\ rec' = [rec EXCEPT ![s] = [pc |-> "store", app |-> Render(s),
                                        target |-> DeployTarget]]
          /\ bumps' = IF other THEN bumps + 1 ELSE bumps
    /\ UNCHANGED <<rowVars, queueVars, nextId, tx, doc, agentVars, net, hnd>>

StoreDSD(s) ==
    /\ rec[s].pc = "store"
    /\ doc' = [doc EXCEPT ![s] = [version |-> @.version + 1, app |-> rec[s].app]]
    /\ rec' = [rec EXCEPT ![s].pc = "stamp"]
    /\ UNCHANGED <<rowVars, queueVars, nextId, tx, bumps, agentVars, net, hnd>>

\* The version that first rendered a deployment; a statement of its own.
StampDeploymentDSDVersion(s) ==
    /\ rec[s].pc = "stamp"
    /\ deps' = [i \in DOMAIN deps |->
                  IF /\ i = rec[s].target
                     /\ deps[i].stamp = 0 /\ deps[i].status \in InFlight
                  THEN [deps[i] EXCEPT !.stamp = doc[s].version] ELSE deps[i]]
    /\ rec' = [rec EXCEPT ![s] = NoJob]
    /\ UNCHANGED <<alerts, queueVars, nextId, tx, doc, bumps, agentVars, net, hnd>>

\* The stamp is logged and dropped when it fails, or the process dies.
StampFails(s) ==
    /\ rec[s].pc = "stamp"
    /\ rec' = [rec EXCEPT ![s] = NoJob]
    /\ UNCHANGED <<rowVars, queueVars, nextId, tx, doc, bumps, agentVars, net, hnd>>

(***************************************************************************)
(* The agent of server s applies the current document and reports.         *)
(***************************************************************************)
Needs(op) == CASE op = "clone" -> {} [] op = "pull" -> {}
               [] op = "build" -> {"clone"} [] op = "rollout" -> {"build", "pull"}

\* What applying app can report: an op is skipped when one it depends on
\* was not applied; a pull or a rollout needs the image to exist.
Outcomes(app) ==
    {r \in [app.ops -> {"applied", "failed", "skipped"}] :
        \A op \in app.ops :
           LET met == \A p \in Needs(op) \cap app.ops : r[p] = "applied"
               img == \/ deps[app.dep].pin \in images
                      \/ "build" \in app.ops /\ r["build"] = "applied"
           IN  /\ r[op] = "skipped" <=> ~met
               /\ r[op] = "applied" /\ op \in {"pull", "rollout"} => img}

Apply(s) ==
    /\ applied[s] < doc[s].version
    /\ applied' = [applied EXCEPT ![s] = doc[s].version]
    /\ IF doc[s].app.ops = {}
       THEN UNCHANGED <<images, earned, net>>
       ELSE /\ Cardinality(net) < MaxReports
            /\ \E r \in Outcomes(doc[s].app) :
              LET did(op) == op \in DOMAIN r /\ r[op] = "applied"
                  d       == doc[s].app.dep
              IN  /\ images' = IF did("build") THEN images \cup {deps[d].pin} ELSE images
                  /\ earned' = IF did("rollout") THEN earned \cup {d} ELSE earned
                  /\ net' = net \cup {[server |-> s, version |-> doc[s].version,
                                       dep |-> d, res |-> r, sends |-> MaxSends]}
    /\ UNCHANGED <<rowVars, queueVars, nextId, tx, docVars, hnd>>

(***************************************************************************)
(* handleDSDStatus: a failed prerequisite first, then the phases in order, *)
(* each one read of the newest in-flight row and one conditional write.    *)
(***************************************************************************)
Todo(r) == {p \in DOMAIN r : p = "pull" => r[p] = "failed"}

\* Failed prerequisites go before the phases that the handler sorts.
deployPhaseRank == [pull |-> -1, clone |-> 0, build |-> 1, rollout |-> 2]

NextPhase(todo) ==
    CHOOSE p \in todo : \A q \in todo : deployPhaseRank[p] <= deployPhaseRank[q]

\* The agent may send a report again that it got no answer to.
Receive(h, m) ==
    /\ hnd[h] = NoJob
    /\ net' \in {net \ {m}} \cup
               {(net \ {m}) \cup {[m EXCEPT !.sends = @ - 1]} : n \in 2..m.sends}
    /\ hnd' = [hnd EXCEPT ![h] = [pc |-> "read", msg |-> m, todo |-> Todo(m.res)]]
    /\ UNCHANGED <<rowVars, queueVars, nextId, tx, docVars, agentVars>>

\* The SIGMA-134 guard: a report older than the stamp is another row's.
Stale(reported, stamp) == reported > 0 /\ stamp > 0 /\ reported < stamp

\* The status a phase's outcome asks for.
AsksFor(phase, state) ==
    CASE state # "applied" -> "failed"
      [] phase = "clone"   -> "building"
      [] phase = "build"   -> "deploying"
      [] phase = "rollout" -> "success"

\* Mutant: one phase at a time, so that a rollback's rollout does not finish it.
ForwardByOne(from, to) == to = "failed" \/ rank(to) = rank(from) + 1

Forward(from, to) == to = "failed" \/ rank(to) > rank(from)

\* The handler after it finished with one phase.
Done(job) ==
    LET rest == job.todo \ {NextPhase(job.todo)}
    IN  IF rest = {} THEN NoJob ELSE [pc |-> "read", msg |-> job.msg, todo |-> rest]

AdvanceRead(h) ==
    /\ hnd[h].pc = "read"
    /\ LET phase == NextPhase(hnd[h].todo)
           i     == Newest(InFlightIds)
           to    == AsksFor(phase, hnd[h].msg.res[phase])
       IN  hnd' = [hnd EXCEPT ![h] =
                     IF \/ i = 0
                        \/ Stale(@.msg.version, deps[i].stamp)
                        \/ ~Forward(deps[i].status, to)
                     THEN Done(@)
                     ELSE [pc |-> "write", msg |-> @.msg, todo |-> @.todo,
                           dep |-> i, to |-> to, stamp |-> deps[i].stamp]]
    /\ UNCHANGED <<rowVars, queueVars, nextId, tx, docVars, agentVars, net>>

AdvanceWrite(h) ==
    /\ hnd[h].pc = "write"
    /\ SetDeploymentStatus({hnd[h].dep}, hnd[h].to)
    /\ hnd' = [hnd EXCEPT ![h] = Done(@)]
    /\ UNCHANGED <<queueVars, nextId, tx, docVars, agentVars, net>>

----------------------------------------------------------------------------
Init ==
    /\ head = 0 /\ queue = {}
    /\ deps = <<>> /\ nextId = 1 /\ alerts = {}
    /\ tx = [t \in Txns |-> NoTx]
    /\ doc = [s \in Servers |-> [version |-> 0, app |-> NoOps]]
    /\ rec = [s \in Servers |-> NoJob]
    /\ bumps = 0
    /\ applied = [s \in Servers |-> 0]
    /\ images = {} /\ earned = {}
    /\ net = {}
    /\ hnd = [h \in Handlers |-> NoJob]

Next ==
    \/ Push \/ TimeoutStaleDeployments
    \/ \E t \in Txns : \/ BeginDrain(t) \/ ResolveHead(t) \/ BeginHead(t)
                       \/ BeginRedeploy(t)
                       \/ BeginRollback(t) \/ BeginConfig(t)
                       \/ InsertLocked(t) \/ InsertConfig(t)
    \/ \E s \in Servers : \/ ReadTargets(s) \/ StoreDSD(s)
                          \/ StampDeploymentDSDVersion(s) \/ StampFails(s)
                          \/ Apply(s)
    \/ \E h \in Handlers : \/ \E m \in net : Receive(h, m)
                           \/ AdvanceRead(h) \/ AdvanceWrite(h)

Spec == Init /\ [][Next]_vars

\* The reconcile loop, the agents and the HTTP server keep running, and an
\* opened transaction ends.  Nothing is assumed of users or of the sweeper.
Fairness ==
    /\ \A t \in Txns : WF_vars(InsertLocked(t)) /\ WF_vars(InsertConfig(t))
    /\ \A s \in Servers : /\ WF_vars(ReadTargets(s)) /\ WF_vars(StoreDSD(s))
                          /\ WF_vars(StampDeploymentDSDVersion(s))
                          /\ WF_vars(Apply(s))
    /\ \A h \in Handlers : /\ WF_vars(\E m \in net : Receive(h, m))
                           /\ WF_vars(AdvanceRead(h)) /\ WF_vars(AdvanceWrite(h))

FairSpec == Spec /\ Fairness

----------------------------------------------------------------------------
(* Properties.                                                             *)

App == [dep : Ids \cup {0}, ops : SUBSET Phases,
        force : BOOLEAN]

\* Every variable keeps its type.
TypeOK ==
    /\ head \in Commits /\ queue \subseteq 1..head
    /\ DOMAIN deps \subseteq Ids /\ \A i \in DOMAIN deps : deps[i] \in Row
    /\ nextId \in 1..(MaxDeploys + 1) /\ alerts \subseteq DOMAIN deps
    /\ \A t \in Txns : tx[t] = NoTx \/ tx[t].id \in (0..(nextId - 1)) \ DOMAIN deps
    /\ \A s \in Servers : doc[s].version \in Nat /\ doc[s].app \in App
    /\ \A s \in Servers : rec[s].pc \in {"idle", "store", "stamp"}
    /\ applied \in [Servers -> Nat] /\ bumps \in 0..MaxBumps
    /\ images \subseteq Ids /\ earned \subseteq DOMAIN deps
    /\ \A h \in Handlers : hnd[h].pc \in {"idle", "read", "write"}

\* A deploy_failed alert stands for exactly the deployments that failed: a
\* failure is never overwritten after it paged, and never goes unpaged.
AlertsMatchFailures == alerts = {i \in DOMAIN deps : deps[i].status = "failed"}

\* The advisory lock and the supersession leave one deployment in flight among
\* the creators that use them, however their transactions interleave.
OneLockedInFlight ==
    \A i, j \in InFlightIds :
        deps[i].trigger # "config" /\ deps[j].trigger # "config" => i = j

\* The single-in-flight invariant as supersedeInFlightTx states it.
OneInFlight == Cardinality(InFlightIds) <= 1

\* A re-shipped pin is the pin of the build that made it and that build's
\* deployment succeeded, however long the chain of rollbacks and config
\* deployments that copied it.
PinIsARelease ==
    \A i \in DOMAIN deps :
        LET p == deps[i].pin
        IN  p # i => p \in DOMAIN deps /\ deps[p].pin = p /\ deps[p].status = "success"

\* A deployment is a success only if some agent rolled it out.
SuccessIsEarned == \A i \in DOMAIN deps : deps[i].status = "success" => i \in earned

\* "a server that RENDERS a deployment's ops has to be allowed to REPORT on
\* them": what an agent reports of its server's current document is not taken
\* for stale by the deployment in flight that it is about.
CurrentReportCounts ==
    \A m \in net :
        m.dep \in InFlightIds /\ m.version = doc[m.server].version
        => ~Stale(m.version, deps[m.dep].stamp)

\* When nothing has ever served, a config deployment rebuilds: no document
\* asks for a rollout of an image that no build made or is asked to make.
RebuildWhenNothingServed ==
    \A s \in Servers :
        LET app == doc[s].app
        IN  app.dep # 0 /\ deps[app.dep].trigger = "config" /\ deps[app.dep].pin = app.dep
            => "build" \in app.ops \/ app.dep \in images

\* "only a forward move applies, never a regression".
NeverRegresses ==
    [][\A i \in InFlightIds :
          deps'[i].status \in InFlight => rank(deps'[i].status) >= rank(deps[i].status)]_vars

\* A redeploy "copies the git coordinates of the resource's most recent
\* deployment".
RedeployCopiesLatest ==
    [][\A i \in DOMAIN deps' \ DOMAIN deps :
          deps'[i].trigger = "redeploy"
          => deps'[i].commit = deps[Newest(DOMAIN deps)].commit]_vars

\* A deployment does not stay in flight: the reports alone settle it, without
\* the sweeper.
DeploysSettle ==
    \A i \in Ids :
        i \in InFlightIds ~> i \in DOMAIN deps /\ deps[i].status \in Terminal
=============================================================================
