-------------------------------- MODULE Fleet --------------------------------
(***************************************************************************)
(* The servers of one organisation: enrolment, heartbeats, the              *)
(* compatibility gate, placement of resources on them, and the ways out.    *)
(*                                                                          *)
(*   cp/internal/store/registry.go       provisioning and registration      *)
(*   cp/internal/store/heartbeat.go, compat.go   liveness and the gate      *)
(*   cp/internal/store/domain.go, host_ports.go, databases.go,              *)
(*   compose_placement.go                resources and what they bind       *)
(*   cp/internal/store/lifecycle.go, decommission.go   force, graceful and  *)
(*                                       timed-out removal                  *)
(*   agent/internal/uninstall            what the host does about it        *)
(*                                                                          *)
(* One environment and one cluster stand for all.  A transaction that holds *)
(* a row lock from its first statement is one action; one that only reads   *)
(* first, or takes a shared lock, has one action per statement that another *)
(* transaction can come between.                                            *)
(***************************************************************************)
EXTENDS Integers, FiniteSets, FiniteSetsExt

CONSTANTS
    Machines, ServerTypes, NeedsGPU,    \* the server catalogue
    Resources, AllowedServerTypes,      \* for each resource, the types its kind may run on
    Wanted,                             \* the host port each asks for first
    PortCeiling                         \* highest port that is handed out

ASSUME FleetAssumption ==
    /\ NeedsGPU \subseteq ServerTypes
    /\ AllowedServerTypes \in [Resources -> SUBSET ServerTypes]
    /\ PortCeiling \in Nat /\ Wanted \in [Resources -> 1..PortCeiling]

VARIABLES
    servers,    \* servers: the row of each
    agentToken, \* agent_tokens: "none", "live", "revoked"
    bootToken,  \* bootstrap_tokens: "none", "live", "used"
    hostDoc,    \* what the current document asks of the host
    hostState,  \* the agent's process on the machine
    load,       \* workloads run on the machine
    env,        \* the environment exists
    attached,   \* env_servers
    nodes,      \* cluster_nodes
    res,        \* resources: home, port and the transaction that creates it
    placing,    \* open SetComposePlacements: <<resource, server>>
    placed,     \* resource_service_placements
    building,   \* build servers of branches and of deployments in flight
    joining,    \* open AddClusterNode: servers checked and not yet inserted
    decomAlert, \* servers a decommission timeout was alerted for
    beat,       \* the status that the update of a heartbeat in flight has in its snapshot, or "no"
    undone      \* history: servers whose decommission a heartbeat wrote an older status over

fleetVars == <<servers, agentToken, bootToken, hostDoc, hostState, load, env, attached, nodes,
               res, placing, placed, building, joining, decomAlert, beat, undone>>
rowVars  == <<env, attached, nodes, res, placing, placed, building, joining>>
machineVars == <<hostDoc, hostState, load>>
noteVars == <<decomAlert, beat, undone>>

NoServer == [status |-> "none", deleted |-> "no", enrolled |-> FALSE, seen |-> "never",
             started |-> "no", type |-> "none", gpu |-> "unknown"]
NoRes == [state |-> "none", home |-> "none", port |-> 0]

FleetInit ==
    /\ servers = [s \in Machines |-> NoServer]
    /\ agentToken = [s \in Machines |-> "none"] /\ bootToken = [s \in Machines |-> "none"]
    /\ hostDoc = [s \in Machines |-> "none"] /\ hostState = [s \in Machines |-> "bare"]
    /\ load = [s \in Machines |-> FALSE]
    /\ env = TRUE /\ attached = {} /\ nodes = {} /\ placed = {} /\ placing = {}
    /\ building = {} /\ joining = {} /\ decomAlert = {}
    /\ beat = [s \in Machines |-> "no"] /\ undone = {}
    /\ res = [r \in Resources |-> NoRes]

FleetTypeOK ==
    /\ servers \in [Machines ->
          [status : {"none", "provisioning", "running", "unreachable", "incompatible",
                     "decommissioning"},
           deleted : {"no", "clean", "errors", "timeout", "forced", "never enrolled"},
           enrolled : BOOLEAN, seen : {"never", "recent", "old"},
           started : {"no", "recent", "old"}, type : ServerTypes \cup {"none"},
           gpu : {"unknown", "absent", "present"}]]
    /\ agentToken \in [Machines -> {"none", "live", "revoked"}]
    /\ bootToken \in [Machines -> {"none", "live", "used"}]
    /\ hostDoc \in [Machines -> {"none", "work", "uninstall"}]
    /\ hostState \in [Machines -> {"bare", "up", "tearing", "failed", "gone"}]
    /\ load \in [Machines -> BOOLEAN] /\ env \in BOOLEAN
    /\ {attached, nodes, building, joining, decomAlert, undone} \subseteq SUBSET Machines
    /\ beat \in [Machines -> {"no", "provisioning", "running", "unreachable", "incompatible",
                             "decommissioning"}]
    /\ {placing, placed} \subseteq SUBSET (Resources \X Machines)
    /\ res \in [Resources -> [state : {"none", "open", "resolved", "live"},
                              home : Machines \cup {"none"}, port : 0..PortCeiling]]

Live(s) == servers[s].status # "none" /\ servers[s].deleted = "no"
\* Whose requests requireAgent lets through.
ServerByAgentToken(s) == agentToken[s] = "live" /\ Live(s)

-----------------------------------------------------------------------------
(* Row locks.                                                                *)

\* Mutant: CreateResource reads the server without FOR SHARE.
ForUpdateIgnoresCreates(s) == TRUE

\* FOR UPDATE on the server waits for the creates that hold it FOR SHARE.
ForUpdate(s) == \A r \in Resources : res[r].home = s => res[r].state \notin {"open", "resolved"}

\* Mutant: no advisory lock around the choice of a port.
NoPortLock(s) == TRUE

\* pg_advisory_xact_lock(dbport:server), held to the end of the create.
PortLock(s) == \A r \in Resources : ~(res[r].home = s /\ res[r].state = "resolved")

-----------------------------------------------------------------------------
(* Enrolment.                                                                *)

precreateServerTx(s, t) ==
    servers' = [servers EXCEPT ![s] = [NoServer EXCEPT !.status = "provisioning", !.type = t]]

issueTokenTx(s) == bootToken' = [bootToken EXCEPT ![s] = "live"]

\* IssueBootstrapToken, and ProvisionServer, which also makes the key pair.
ProvisionServer(s, t) ==
    /\ servers[s].status = "none"
    /\ precreateServerTx(s, t) /\ issueTokenTx(s)
    /\ UNCHANGED <<agentToken, machineVars, rowVars, noteVars>>

\* The old token is deleted, a new one issued.
ReissueBootstrapToken(s) ==
    /\ Live(s) /\ ForUpdate(s) /\ servers[s].status = "provisioning"
    /\ issueTokenTx(s)
    /\ UNCHANGED <<servers, agentToken, machineVars, rowVars, noteVars>>

CheckServerCompatibility(type, gpu) == type \in NeedsGPU => gpu # "absent"

\* Mutant: the gate has no regard for a decommission in flight.
RegradeAlways(prev, ok, checkedIn) ==
    IF ~ok THEN "incompatible"
    ELSE IF checkedIn /\ prev \in {"provisioning", "unreachable", "incompatible"} THEN "running"
    ELSE IF ~checkedIn /\ prev = "incompatible" THEN "provisioning"
    ELSE prev

compatibilityStatus(prev, ok, checkedIn) ==
    IF prev = "decommissioning" THEN prev
    ELSE IF ~ok THEN "incompatible"
    ELSE IF checkedIn /\ prev \in {"provisioning", "unreachable", "incompatible"} THEN "running"
    ELSE IF ~checkedIn /\ prev = "incompatible" THEN "provisioning"
    ELSE prev

\* normalizeFacts and the || of the update: a fact that is not reported keeps
\* the value on record.
MergeFact(old, reported) == IF reported = "unknown" THEN old ELSE reported

\* The agent trades its bootstrap token for an agent token, with its facts.
RegisterServer(s, gpu) ==
    /\ bootToken[s] = "live" /\ Live(s) /\ ForUpdate(s) /\ hostState[s] = "bare"
    /\ LET g == MergeFact(servers[s].gpu, gpu)
           ok == CheckServerCompatibility(servers[s].type, g)
       IN  servers' = [servers EXCEPT ![s].enrolled = TRUE, ![s].gpu = g,
                     ![s].status = compatibilityStatus(@, ok, FALSE)]
    /\ bootToken' = [bootToken EXCEPT ![s] = "used"]
    /\ agentToken' = [agentToken EXCEPT ![s] = "live"]
    /\ hostState' = [hostState EXCEPT ![s] = "up"]
    /\ UNCHANGED <<hostDoc, load, rowVars, noteVars>>

-----------------------------------------------------------------------------
(* Liveness and the gate.                                                    *)

\* The update of RecordHeartbeat joins the row with itself to learn the status
\* before: it finds `old' in the snapshot it starts with.
BeginHeartbeat(s) ==
    /\ beat[s] = "no" /\ hostState[s] \in {"up", "tearing", "failed"} /\ ServerByAgentToken(s)
    /\ beat' = [beat EXCEPT ![s] = servers[s].status]
    /\ UNCHANGED <<servers, agentToken, bootToken, machineVars, rowVars, decomAlert, undone>>

\* It has the row's lock.  If another transaction changed the row meanwhile it
\* is looked at again, and updated, in its new version; `old' stays what it was.
\* The verdict on the merged facts is written over whatever the status is now.
RecordHeartbeat(s, gpu) ==
    /\ beat[s] # "no" /\ ForUpdate(s)
    /\ LET g == MergeFact(servers[s].gpu, gpu)
           ok == CheckServerCompatibility(servers[s].type, g)
           status == compatibilityStatus(beat[s], ok, TRUE)
       IN  IF Live(s)
           THEN /\ servers' = [servers EXCEPT ![s].seen = "recent", ![s].gpu = g, ![s].status = status]
                /\ undone' = IF servers[s].status = "decommissioning" /\ beat[s] # "decommissioning"
                             THEN undone \cup {s} ELSE undone
           ELSE UNCHANGED <<servers, undone>>
    /\ beat' = [beat EXCEPT ![s] = "no"]
    /\ UNCHANGED <<agentToken, bootToken, machineVars, rowVars, decomAlert>>

\* Time: no heartbeat for StaleAfter.
GoesStale(s) ==
    /\ Live(s) /\ servers[s].seen = "recent"
    /\ servers' = [servers EXCEPT ![s].seen = "old"]
    /\ UNCHANGED <<agentToken, bootToken, machineVars, rowVars, noteVars>>

\* The sweeper; the alert it enqueues is in module Alerts.
MarkStaleUnreachable(s) ==
    /\ Live(s) /\ ForUpdate(s) /\ servers[s].status = "running" /\ servers[s].seen = "old"
    /\ servers' = [servers EXCEPT ![s].status = "unreachable"]
    /\ UNCHANGED <<agentToken, bootToken, machineVars, rowVars, noteVars>>

statusAfterTypeChange(prev, ok, seen) ==
    IF prev = "decommissioning" THEN prev
    ELSE IF ~ok THEN "incompatible"
    ELSE IF prev # "incompatible" THEN prev
    ELSE IF seen = "never" THEN "provisioning"
    ELSE IF seen = "old" THEN "unreachable" ELSE "running"

CanHost(type, r) == type \in AllowedServerTypes[r]

SetServerType(s, t) ==
    /\ Live(s) /\ ForUpdate(s) /\ servers[s].type # t
    /\ servers[s].status # "decommissioning" /\ s \notin nodes
    /\ \A r \in Resources : (res[r].state = "live" /\ res[r].home = s) => CanHost(t, r)
    /\ LET ok == CheckServerCompatibility(t, servers[s].gpu)
       IN  servers' = [servers EXCEPT ![s].type = t,
                     ![s].status = statusAfterTypeChange(@, ok, servers[s].seen)]
    /\ UNCHANGED <<agentToken, bootToken, machineVars, rowVars, noteVars>>

-----------------------------------------------------------------------------
(* Environments, clusters and resources.                                     *)

\* The server is only looked up, whatever its status.  (Without a lock: one that
\* is removed in between leaves a row that nothing reads.)
AttachServer(s) ==
    /\ env /\ Live(s)
    /\ attached' = attached \cup {s}
    /\ UNCHANGED <<servers, agentToken, bootToken, machineVars, env, nodes, res, placing, placed, building,
                   joining, noteVars>>

DetachServer(s) ==
    /\ s \in attached
    /\ attached' = attached \ {s}
    /\ UNCHANGED <<servers, agentToken, bootToken, machineVars, env, nodes, res, placing, placed, building,
                   joining, noteVars>>

\* assertServerInOrg, without a lock.
assertServerInOrg(s) == Live(s)

BeginClusterJoin(s) ==
    /\ assertServerInOrg(s) /\ s \notin nodes
    /\ joining' = joining \cup {s}
    /\ UNCHANGED <<servers, agentToken, bootToken, machineVars, env, attached, nodes, res, placing, placed,
                   building, noteVars>>

CommitClusterJoin(s) ==
    /\ s \in joining
    /\ nodes' = nodes \cup {s} /\ joining' = joining \ {s}
    /\ UNCHANGED <<servers, agentToken, bootToken, machineVars, env, attached, res, placing, placed,
                   building, noteVars>>

LeaveCluster(s) ==
    /\ s \in nodes
    /\ nodes' = nodes \ {s}
    /\ UNCHANGED <<servers, agentToken, bootToken, machineVars, env, attached, res, placing, placed,
                   building, joining, noteVars>>

\* CreateResource up to the shared lock: the status, the type and the
\* attachment of the server.
CreateResource(r, s) ==
    /\ res[r].state = "none" /\ env /\ Live(s)
    /\ servers[s].status \notin {"incompatible", "decommissioning"}
    /\ CanHost(servers[s].type, r) /\ s \in attached
    /\ res' = [res EXCEPT ![r] = [state |-> "open", home |-> s, port |-> 0]]
    /\ UNCHANGED <<servers, agentToken, bootToken, machineVars, env, attached, nodes, placing, placed,
                   building, joining, noteVars>>

\* boundHostPortsTx, and the same union in allocateMeshPort: committed ports.
boundHostPortsTx(s) == {res[r].port : r \in {q \in Resources : res[q].home = s /\ res[q].state = "live"}}

\* The first free one from `from' on, 0 for none: a mesh port from MeshPortBase,
\* an application's from the one it asks for.
allocateMeshPort(s, from) ==
    LET free == (from..PortCeiling) \ boundHostPortsTx(s)
    IN  IF free = {} THEN 0 ELSE Min(free)

\* Without a free port the create rolls back.
ResolvePort(r) ==
    LET s == res[r].home
        port == allocateMeshPort(s, Wanted[r])
    IN  /\ res[r].state = "open" /\ PortLock(s)
        /\ res' = [res EXCEPT ![r] = IF port = 0 THEN NoRes
                                     ELSE [@ EXCEPT !.state = "resolved", !.port = port]]
        /\ UNCHANGED <<servers, agentToken, bootToken, machineVars, env, attached, nodes, placing, placed,
                       building, joining, noteVars>>

\* The insert needs its environment; the commit ends every lock.
CommitResource(r) ==
    /\ res[r].state = "resolved"
    /\ res' = IF env THEN [res EXCEPT ![r].state = "live"] ELSE [res EXCEPT ![r] = NoRes]
    /\ UNCHANGED <<servers, agentToken, bootToken, machineVars, env, attached, nodes, placing, placed,
                   building, joining, noteVars>>

DeleteResource(r) ==
    /\ res[r].state = "live"
    /\ res' = [res EXCEPT ![r] = NoRes]
    /\ placed' = {p \in placed : p[1] # r} /\ placing' = {p \in placing : p[1] # r}
    /\ UNCHANGED <<servers, agentToken, bootToken, machineVars, env, attached, nodes, building, joining,
                   noteVars>>

\* The resources of the environment, as the cascade leaves them.
cascadeResourceCleanupTx == [r \in Resources |-> IF res[r].state = "live" THEN NoRes ELSE res[r]]

\* DeleteEnvironment, DeleteProject: the cascade takes resources, placements
\* and attachments along; creates in flight fail at their insert.
DeleteEnvironment ==
    /\ env /\ env' = FALSE
    /\ res' = cascadeResourceCleanupTx
    /\ attached' = {} /\ placed' = {} /\ placing' = {}
    /\ UNCHANGED <<servers, agentToken, bootToken, machineVars, nodes, building, joining, noteVars>>

\* SetComposePlacements: looks the server up, then writes; no lock on it.
BeginPlacement(r, s) ==
    /\ res[r].state = "live" /\ Live(s) /\ placing = {}
    /\ placing' = {<<r, s>>}
    /\ UNCHANGED <<servers, agentToken, bootToken, machineVars, env, attached, nodes, res, placed, building,
                   joining, noteVars>>

\* A rewrite of the resource's placements, not a merge.
syncServicePlacementsTx(r, s) == placed' = {p \in placed : p[1] # r} \cup {<<r, s>>}

SetComposePlacements(r, s) ==
    /\ <<r, s>> \in placing
    /\ placing' = placing \ {<<r, s>>}
    /\ syncServicePlacementsTx(r, s)
    /\ UNCHANGED <<servers, agentToken, bootToken, machineVars, env, attached, nodes, res, building, joining,
                   noteVars>>

\* External to this module: a branch map or a deployment names a build server
\* (module Deployments), or no longer does.
BuildServer(s) ==
    /\ Live(s)
    /\ building' = IF s \in building THEN building \ {s} ELSE building \cup {s}
    /\ UNCHANGED <<servers, agentToken, bootToken, machineVars, env, attached, nodes, res, placing, placed,
                   joining, noteVars>>

-----------------------------------------------------------------------------
(* The ways out.                                                             *)

\* ResourceHostedHere: at home on the server or with a service placed on it.
boundResourcesTx(s) == {r \in Resources : /\ res[r].state = "live"
                                          /\ res[r].home = s \/ <<r, s>> \in placed}

refuseIfBuildServerTx(s) == s \in building

\* Sets the tombstone, revokes the tokens, leaves environment and cluster.
tombstoneServerTx(s, how) ==
    /\ servers' = [servers EXCEPT ![s].deleted = how]
    /\ agentToken' = [agentToken EXCEPT ![s] = IF @ = "live" THEN "revoked" ELSE @]
    /\ attached' = attached \ {s} /\ nodes' = nodes \ {s}
    /\ UNCHANGED <<bootToken, machineVars, env, res, placing, placed, building, joining>>

\* The force disconnect.
DeleteServer(s) ==
    /\ Live(s) /\ ForUpdate(s) /\ boundResourcesTx(s) = {} /\ ~refuseIfBuildServerTx(s)
    /\ tombstoneServerTx(s, "forced")
    /\ UNCHANGED noteVars

\* A server whose agent never registered is removed at once; a second request
\* keeps the time of the first.
BeginDecommission(s) ==
    /\ Live(s) /\ ForUpdate(s) /\ s \notin nodes
    /\ boundResourcesTx(s) = {} /\ ~refuseIfBuildServerTx(s)
    /\ IF servers[s].enrolled
       THEN /\ servers' = [servers EXCEPT ![s].status = "decommissioning",
                                  ![s].started = IF @ = "no" THEN "recent" ELSE @]
            /\ UNCHANGED <<agentToken, bootToken, machineVars, rowVars>>
       ELSE tombstoneServerTx(s, "never enrolled")
    /\ UNCHANGED noteVars

RevokeAgentToken(s) ==
    /\ Live(s) /\ agentToken[s] = "live"
    /\ agentToken' = [agentToken EXCEPT ![s] = "revoked"]
    /\ UNCHANGED <<servers, bootToken, machineVars, rowVars, noteVars>>

\* Time: the decommission is older than DecommissionTimeout.
TeardownOverdue(s) ==
    /\ Live(s) /\ servers[s].started = "recent"
    /\ servers' = [servers EXCEPT ![s].started = "old"]
    /\ UNCHANGED <<agentToken, bootToken, machineVars, rowVars, noteVars>>

\* Leaves cluster_nodes as it is.
TimeoutStaleDecommissions(s) ==
    /\ Live(s) /\ ForUpdate(s)
    /\ servers[s].status = "decommissioning" /\ servers[s].started = "old"
    /\ servers' = [servers EXCEPT ![s].deleted = "timeout"]
    /\ agentToken' = [agentToken EXCEPT ![s] = IF @ = "live" THEN "revoked" ELSE @]
    /\ attached' = attached \ {s}
    /\ decomAlert' = decomAlert \cup {s}
    /\ UNCHANGED <<bootToken, machineVars, env, nodes, res, placing, placed, building, joining, beat, undone>>

-----------------------------------------------------------------------------
(* The host.                                                                 *)

\* The reconciler's document: a decommissioning server's is the uninstall
\* alone (renderUninstallOps).
RenderDocument(s) ==
    LET new == IF servers[s].status = "decommissioning" THEN "uninstall"
               ELSE IF boundResourcesTx(s) # {} THEN "work" ELSE "none"
    IN  /\ Live(s) /\ hostDoc[s] # new
        /\ hostDoc' = [hostDoc EXCEPT ![s] = new]
        /\ UNCHANGED <<servers, agentToken, bootToken, hostState, load, rowVars, noteVars>>

\* The agent fetches its document and applies it.
ApplyWorkloads(s) ==
    /\ hostState[s] = "up" /\ ServerByAgentToken(s) /\ hostDoc[s] # "uninstall"
    /\ load[s] # (hostDoc[s] = "work")
    /\ load' = [load EXCEPT ![s] = hostDoc[s] = "work"]
    /\ UNCHANGED <<servers, agentToken, bootToken, hostDoc, hostState, rowVars, noteVars>>

\* Mutant: the agent says goodbye before it removed the workloads.
AckBeforeTeardown(s, ok) ==
    /\ hostState[s] = "up" /\ ServerByAgentToken(s) /\ hostDoc[s] = "uninstall"
    /\ hostState' = [hostState EXCEPT ![s] = IF ok THEN "tearing" ELSE "failed"]
    /\ UNCHANGED <<servers, agentToken, bootToken, hostDoc, load, rowVars, noteVars>>

\* Uninstaller.Handle up to the ack: the workloads go, or a step fails.
RemoveWorkloads(s, ok) ==
    /\ hostState[s] = "up" /\ ServerByAgentToken(s) /\ hostDoc[s] = "uninstall"
    /\ hostState' = [hostState EXCEPT ![s] = IF ok THEN "tearing" ELSE "failed"]
    /\ load' = [load EXCEPT ![s] = @ /\ ~ok]
    /\ UNCHANGED <<servers, agentToken, bootToken, hostDoc, rowVars, noteVars>>

CompleteDecommission(s, ok) ==
    /\ ForUpdate(s) /\ servers[s].started # "no"
    /\ tombstoneServerTx(s, IF ok THEN "clean" ELSE "errors")

\* Completes whatever the agent says.  A server that the timeout or a force
\* disconnect settled has its token revoked and changes no more.
handleAgentUninstallAck(s) ==
    /\ hostState[s] \in {"tearing", "failed"} /\ ServerByAgentToken(s)
    /\ CompleteDecommission(s, hostState[s] = "tearing")
    /\ UNCHANGED noteVars

\* The rest of Handle: with or without an answer to the ack, the agent removes
\* itself and exits.
RemoveAgent(s) ==
    /\ hostState[s] \in {"tearing", "failed"}
    /\ hostState' = [hostState EXCEPT ![s] = "gone"]
    /\ UNCHANGED <<servers, agentToken, bootToken, hostDoc, load, rowVars, noteVars>>

\* The agent dies in the middle and the unit restarts it.
AgentRestarts(s) ==
    /\ hostState[s] \in {"tearing", "failed"}
    /\ hostState' = [hostState EXCEPT ![s] = "up"]
    /\ UNCHANGED <<servers, agentToken, bootToken, hostDoc, load, rowVars, noteVars>>

-----------------------------------------------------------------------------
Sweep(s) == MarkStaleUnreachable(s) \/ TimeoutStaleDecommissions(s)
CreateGoesOn(r) == ResolvePort(r) \/ CommitResource(r)

FleetNext ==
    \/ \E s \in Machines :
         \/ \E t \in ServerTypes : ProvisionServer(s, t) \/ SetServerType(s, t)
         \/ \E g \in {"unknown", "absent", "present"} : RegisterServer(s, g) \/ RecordHeartbeat(s, g)
         \/ BeginHeartbeat(s) \/ ReissueBootstrapToken(s) \/ GoesStale(s) \/ TeardownOverdue(s) \/ Sweep(s)
         \/ AttachServer(s) \/ DetachServer(s)
         \/ BeginClusterJoin(s) \/ CommitClusterJoin(s) \/ LeaveCluster(s)
         \/ BuildServer(s) \/ DeleteServer(s) \/ BeginDecommission(s) \/ RevokeAgentToken(s)
         \/ RenderDocument(s) \/ ApplyWorkloads(s)
         \/ \E ok \in BOOLEAN : RemoveWorkloads(s, ok)
         \/ handleAgentUninstallAck(s) \/ RemoveAgent(s) \/ AgentRestarts(s)
         \/ \E r \in Resources : CreateResource(r, s) \/ BeginPlacement(r, s)
                                 \/ SetComposePlacements(r, s)
    \/ \E r \in Resources : CreateGoesOn(r) \/ DeleteResource(r)
    \/ DeleteEnvironment

\* The sweeper runs every tick, time passes, and a transaction ends.
FleetFairness ==
    /\ \A s \in Machines : /\ WF_fleetVars(TimeoutStaleDecommissions(s))
                           /\ WF_fleetVars(TeardownOverdue(s))
    /\ \A r \in Resources : WF_fleetVars(CreateGoesOn(r))

FleetSpec == FleetInit /\ [][FleetNext]_fleetVars /\ FleetFairness

-----------------------------------------------------------------------------
(* Properties.                                                               *)

\* CreateResource against DeleteServer, BeginDecommission, the timeout and
\* SetServerType: a resource never lives on a server of a type its kind may not
\* run on, and never on one that was removed, unless a heartbeat had undone that
\* server's decommission while its agent went on with the uninstall.
HomeStands ==
    \A r \in Resources : res[r].state = "live" =>
       /\ CanHost(servers[res[r].home].type, r)
       /\ res[r].home \in undone \/ servers[res[r].home].deleted = "no"

\* resolveAppHostPortsTx, allocateMeshPort: two resources of one server never
\* share a host port, whichever allocators gave them out at the same time.
PortsDistinct ==
    \A q, r \in Resources :
       (q # r /\ res[q].state = "live" /\ res[r].state = "live" /\ res[q].home = res[r].home)
       => res[q].port # res[r].port

\* Uninstaller.Handle, CompleteDecommission: a server on record as cleanly
\* decommissioned runs no workload, whatever crashed on the way and whatever
\* document the agent had before.
CleanMeansClean == \A s \in Machines : servers[s].deleted = "clean" => ~load[s]

\* BeginDecommission, compatibilityStatus, TimeoutStaleDecommissions: a
\* decommission ends in a removal, whatever the host reports or fails to, and
\* one that the agent never confirmed is alerted; only a heartbeat that began
\* before the decommission can undo it.
DecommissionEnds ==
    \A s \in Machines : servers[s].status = "decommissioning"
       ~> \/ servers[s].deleted # "no" /\ (servers[s].deleted = "timeout" => s \in decomAlert)
          \/ s \in undone

\* compatibilityStatus: "A decommissioning server outranks the gate": no
\* heartbeat takes a server whose decommission has begun out of the status that
\* the timeout scan looks for.
DecommissionStands ==
    \A s \in Machines : servers[s].started # "no" => servers[s].status = "decommissioning"

=============================================================================
