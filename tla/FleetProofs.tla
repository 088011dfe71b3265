------------------------------ MODULE FleetProofs ------------------------------
(***************************************************************************)
(* Proofs about the servers of an organisation (Fleet) and about an app in *)
(* a cluster (Clusters), for every set of machines, types, resources,      *)
(* ports, services and volumes.                                            *)
(***************************************************************************)
EXTENDS Fleet, Clusters, WellFoundedInduction, NaturalsInduction, TLAPS

-----------------------------------------------------------------------------
(* Fleet: the inductive invariant.                                          *)

ServerRow == [status : {"none", "provisioning", "running", "unreachable", "incompatible",
                        "decommissioning"},
              deleted : {"no", "clean", "errors", "timeout", "forced", "never enrolled"},
              enrolled : BOOLEAN, seen : {"never", "recent", "old"},
              started : {"no", "recent", "old"}, type : ServerTypes \cup {"none"},
              gpu : {"unknown", "absent", "present"}]
Beats == {"no", "provisioning", "running", "unreachable", "incompatible", "decommissioning"}
ResRow == [state : {"none", "open", "resolved", "live"},
           home : Machines \cup {"none"}, port : 0..PortCeiling]

\* A server that may hold resource r, as CreateResource found it; of a server
\* in U, whose decommission was undone, only the type is certain.
Admits(s, row, r, U) ==
    /\ CanHost(row.type, r) /\ row.status # "none"
    /\ s \in U \/ (row.status # "decommissioning" /\ row.deleted = "no")

\* From the shared lock of its create to its end, a resource is at home on a
\* live server of an allowed type that no decommission has begun on.
HomeInv == \A r \in Resources : res[r].state # "none" =>
              res[r].home \in Machines /\ Admits(res[r].home, servers[res[r].home], r, undone)

\* A decommission keeps its status, whatever the host reports, unless the
\* report was under way before it began.
StartedInv == \A s \in Machines : servers[s].started # "no" => servers[s].status = "decommissioning" \/ s \in undone

\* A heartbeat that found a decommission is not the one to overtake it.
BeatInv == \A s \in Machines : beat[s] = "decommissioning" => servers[s].status = "decommissioning"

\* The advisory lock covers the choice of a port up to its commit.
PortInv ==
    \A q, r \in Resources :
       /\ q # r /\ res[q].home = res[r].home
       /\ res[q].state \in {"resolved", "live"} /\ res[r].state \in {"resolved", "live"}
       => res[q].port # res[r].port

\* An agent on its way out with every step done has removed the workloads.
HostInv == \A s \in Machines : hostState[s] = "tearing" \/ servers[s].deleted = "clean" => ~load[s]

\* The type invariant by the groups of variables that change together.
TokenTypes == agentToken \in [Machines -> {"none", "live", "revoked"}] /\ bootToken \in [Machines -> {"none", "live", "used"}]
HostTypes  == /\ hostDoc \in [Machines -> {"none", "work", "uninstall"}]
              /\ hostState \in [Machines -> {"bare", "up", "tearing", "failed", "gone"}]
              /\ load \in [Machines -> BOOLEAN]
SetTypes   == /\ env \in BOOLEAN /\ attached \subseteq Machines /\ nodes \subseteq Machines
              /\ building \subseteq Machines /\ joining \subseteq Machines /\ decomAlert \subseteq Machines
              /\ placing \subseteq Resources \X Machines /\ placed \subseteq Resources \X Machines
              /\ undone \subseteq Machines /\ beat \in [Machines -> Beats]
RowTypes   == servers \in [Machines -> ServerRow] /\ res \in [Resources -> ResRow]

FleetTypes == RowTypes /\ TokenTypes /\ HostTypes /\ SetTypes

FleetInv == FleetTypes /\ HomeInv /\ StartedInv /\ BeatInv /\ PortInv /\ HostInv

-----------------------------------------------------------------------------
(* Lemmas.                                                                  *)

\* A set of naturals has a least member.
LEMMA LeastExists ==
  ASSUME NEW S, S \subseteq Nat, S # {}
  PROVE  \E m \in S : \A k \in S : m <= k
<1>1. PICK m \in S : \A k \in S : ~ (<<k, m>> \in OpToRel(<, Nat))
  BY NatLessThanWellFounded, WFMin, Zenon
<1>2. \A k \in S : ~ (k < m)
  BY <1>1 DEF OpToRel
<1> QED BY <1>2

\* The groups make up the type invariant of the module.
LEMMA FleetTypesAll == FleetTypes => FleetTypeOK
<1> SUFFICES ASSUME FleetTypes PROVE FleetTypeOK
  OBVIOUS
<1>1. servers \in [Machines -> ServerRow] /\ res \in [Resources -> ResRow]
  BY DEF FleetTypes, RowTypes
<1>2. {attached, nodes, building, joining, decomAlert, undone} \subseteq SUBSET Machines
  BY DEF FleetTypes, SetTypes
<1>3. {placing, placed} \subseteq SUBSET (Resources \X Machines) /\ env \in BOOLEAN
  BY DEF FleetTypes, SetTypes
<1>4. TokenTypes /\ HostTypes /\ beat \in [Machines -> Beats]
  BY DEF FleetTypes, SetTypes
<1> QED BY <1>1, <1>2, <1>3, <1>4, Zenon DEF FleetTypeOK, TokenTypes, HostTypes, ServerRow, ResRow, Beats

\* A port that is handed out is in the range and no live resource has it.
LEMMA PortIsFree ==
  ASSUME NEW s, NEW from \in 1..PortCeiling
  PROVE  /\ allocateMeshPort(s, from) \in 0..PortCeiling
         /\ allocateMeshPort(s, from) # 0 => allocateMeshPort(s, from) \notin boundHostPortsTx(s)
<1> USE FleetAssumption
<1> DEFINE free == (from..PortCeiling) \ boundHostPortsTx(s)
<1>1. allocateMeshPort(s, from) = IF free = {} THEN 0 ELSE Min(free)
  BY DEF allocateMeshPort
<1>2. free \subseteq Nat /\ free \subseteq 0..PortCeiling /\ free \cap boundHostPortsTx(s) = {}
  OBVIOUS
<1> HIDE DEF free
<1>3. free # {} => Min(free) \in free
  <2> SUFFICES ASSUME free # {} PROVE Min(free) \in free
    OBVIOUS
  <2>1. \E m \in free : \A k \in free : m <= k
    BY <1>2, LeastExists, Zenon
  <2> QED BY <2>1 DEF Min
<1>4. 0 \in 0..PortCeiling
  OBVIOUS
<1> QED BY <1>1, <1>2, <1>3, <1>4

\* A change to the row of one server that no resource stands in the way of.
LEMMA RowChange ==
  ASSUME FleetInv, NEW s \in Machines, NEW row \in ServerRow, servers' = [servers EXCEPT ![s] = row],
         UNCHANGED res, undone \subseteq undone', undone' \subseteq undone \cup {s},
         row.started # "no" => row.status = "decommissioning" \/ s \in undone',
         \A r \in Resources : res[r].state # "none" /\ res[r].home = s => Admits(s, row, r, undone')
  PROVE  /\ servers' \in [Machines -> ServerRow] /\ HomeInv' /\ StartedInv' /\ PortInv'
         /\ servers'[s] = row /\ \A m \in Machines : m # s => servers'[m] = servers[m]
<1>1. servers \in [Machines -> ServerRow]
  BY DEF FleetInv, FleetTypes, RowTypes
<1>2. servers' \in [Machines -> ServerRow] /\ servers'[s] = row /\ \A m \in Machines : m # s => servers'[m] = servers[m]
  BY <1>1
<1>3. HomeInv'
  <2> SUFFICES ASSUME NEW r \in Resources, res[r].state # "none"
               PROVE  res[r].home \in Machines /\ Admits(res[r].home, servers'[res[r].home], r, undone')
    BY DEF HomeInv, Admits
  <2>1. res[r].home \in Machines /\ Admits(res[r].home, servers[res[r].home], r, undone)
    BY DEF FleetInv, HomeInv
  <2>2. CASE res[r].home = s
    BY <1>2, <2>1, <2>2
  <2>3. CASE res[r].home # s
    BY <1>2, <2>1, <2>3 DEF Admits
  <2> QED BY <2>2, <2>3
<1>4. StartedInv'
  BY <1>2 DEF FleetInv, StartedInv
<1>5. PortInv'
  BY DEF FleetInv, PortInv
<1> QED BY <1>2, <1>3, <1>4, <1>5

\* FOR UPDATE leaves no create in flight on the server.
LEMMA LockHeld ==
  ASSUME FleetInv, NEW s \in Machines, ForUpdate(s), NEW r \in Resources, res[r].state # "none", res[r].home = s
  PROVE  res[r].state = "live" /\ Admits(s, servers[s], r, undone)
<1>1. res[r] \in ResRow /\ res[r].state \notin {"open", "resolved"}
  BY DEF FleetInv, FleetTypes, RowTypes, ForUpdate
<1>2. res[r].state = "live"
  BY <1>1 DEF ResRow
<1> QED BY <1>2 DEF FleetInv, HomeInv

\* Steps that touch no server row, no resource and no workload.
LEMMA RestUnchanged ==
  ASSUME FleetInv, UNCHANGED <<servers, res, load, undone>>,
         \A s \in Machines : hostState'[s] = "tearing" => hostState[s] = "tearing",
         \A s \in Machines : beat'[s] \in {beat[s], servers[s].status}
  PROVE  HomeInv' /\ StartedInv' /\ BeatInv' /\ PortInv' /\ HostInv'
<1>1. HomeInv' /\ StartedInv' /\ PortInv' /\ HostInv'
  BY DEF FleetInv, HomeInv, StartedInv, PortInv, HostInv, Admits, CanHost
<1>2. BeatInv'
  BY DEF FleetInv, BeatInv
<1> QED BY <1>1, <1>2

\* The initial state satisfies the invariant.
LEMMA FleetInitInv == FleetInit => FleetInv
<1> SUFFICES ASSUME FleetInit PROVE FleetInv
  OBVIOUS
<1> USE FleetAssumption DEF FleetInit
<1>1. NoServer \in ServerRow /\ NoServer.started = "no" /\ NoServer.deleted = "no"
  BY DEF NoServer, ServerRow
<1>2. NoRes \in ResRow /\ NoRes.state = "none"
  <2>1. 0 \in 0..PortCeiling
    OBVIOUS
  <2> QED BY <2>1 DEF NoRes, ResRow
<1>3. FleetTypes
  BY <1>1, <1>2 DEF FleetTypes, RowTypes, TokenTypes, HostTypes, SetTypes, Beats
<1> QED BY <1>1, <1>2, <1>3 DEF FleetInv, HomeInv, StartedInv, BeatInv, PortInv, HostInv

-----------------------------------------------------------------------------
(* The steps.                                                               *)

\* Steps that leave servers, resources and workloads: tokens, attachments,
\* cluster nodes, placements, build servers, the document, and the first half
\* of a heartbeat.
LEMMA SideSteps ==
  ASSUME FleetInv, NEW s \in Machines,
         \/ BeginHeartbeat(s) \/ ReissueBootstrapToken(s) \/ AttachServer(s) \/ DetachServer(s)
         \/ BeginClusterJoin(s) \/ CommitClusterJoin(s) \/ LeaveCluster(s)
         \/ BuildServer(s) \/ RevokeAgentToken(s) \/ RenderDocument(s)
         \/ RemoveAgent(s) \/ AgentRestarts(s)
         \/ \E r \in Resources : BeginPlacement(r, s) \/ SetComposePlacements(r, s)
  PROVE  FleetInv'
<1> USE DEF FleetInv, FleetTypes, rowVars, machineVars, noteVars
<1>1. UNCHANGED <<servers, res, load, undone>> /\ \A m \in Machines : hostState'[m] = "tearing" => hostState[m] = "tearing"
  <2>1. CASE RemoveAgent(s) \/ AgentRestarts(s)
    BY <2>1 DEF RemoveAgent, AgentRestarts, HostTypes
  <2>2. CASE ~(RemoveAgent(s) \/ AgentRestarts(s))
    BY <2>2 DEF BeginHeartbeat, ReissueBootstrapToken, AttachServer, DetachServer, BeginClusterJoin, CommitClusterJoin,
                LeaveCluster, BuildServer, RevokeAgentToken, RenderDocument, BeginPlacement, SetComposePlacements
  <2> QED BY <2>1, <2>2
<1>2. RowTypes'
  BY <1>1 DEF RowTypes
<1>4. /\ beat' \in [Machines -> Beats] /\ \A m \in Machines : beat'[m] \in {beat[m], servers[m].status}
      /\ ~BeginHeartbeat(s) => beat' = beat
  <2>1. CASE BeginHeartbeat(s)
    <3>1. beat' = [beat EXCEPT ![s] = servers[s].status] /\ Live(s)
      BY <2>1 DEF BeginHeartbeat, ServerByAgentToken
    <3>2. servers[s].status \in Beats
      BY <3>1 DEF Live, RowTypes, ServerRow, Beats
    <3> QED BY <2>1, <3>1, <3>2 DEF SetTypes
  <2>2. CASE ~BeginHeartbeat(s)
    <3>1. beat' = beat
      BY <2>2 DEF ReissueBootstrapToken, AttachServer, DetachServer, BeginClusterJoin, CommitClusterJoin,
                  LeaveCluster, BuildServer, RevokeAgentToken, RenderDocument, BeginPlacement, SetComposePlacements,
                  RemoveAgent, AgentRestarts
    <3> QED BY <3>1, <2>2 DEF SetTypes
  <2> QED BY <2>1, <2>2
<1>3. TokenTypes' /\ HostTypes' /\ SetTypes'
  <2>0. CASE BeginHeartbeat(s)
    BY <1>4, <2>0 DEF BeginHeartbeat, TokenTypes, HostTypes, SetTypes
  <2>1. CASE ReissueBootstrapToken(s)
    BY <2>1 DEF ReissueBootstrapToken, issueTokenTx, TokenTypes, HostTypes, SetTypes
  <2>2. CASE RevokeAgentToken(s)
    BY <2>2 DEF RevokeAgentToken, TokenTypes, HostTypes, SetTypes
  <2>3. CASE AttachServer(s) \/ DetachServer(s)
    BY <2>3 DEF AttachServer, DetachServer, TokenTypes, HostTypes, SetTypes
  <2>4. CASE BuildServer(s)
    BY <2>4 DEF BuildServer, TokenTypes, HostTypes, SetTypes
  <2>5. CASE BeginClusterJoin(s) \/ CommitClusterJoin(s) \/ LeaveCluster(s)
    BY <2>5 DEF BeginClusterJoin, CommitClusterJoin, LeaveCluster, TokenTypes, HostTypes, SetTypes
  <2>6. CASE RenderDocument(s)
    <3>1. hostDoc' \in [Machines -> {"none", "work", "uninstall"}] /\ UNCHANGED <<hostState, load>>
      BY <2>6 DEF RenderDocument, HostTypes
    <3> QED BY <2>6, <3>1 DEF RenderDocument, TokenTypes, HostTypes, SetTypes
  <2>7. CASE RemoveAgent(s) \/ AgentRestarts(s)
    BY <2>7 DEF RemoveAgent, AgentRestarts, TokenTypes, HostTypes, SetTypes
  <2>8. ASSUME NEW r \in Resources, BeginPlacement(r, s) \/ SetComposePlacements(r, s)
        PROVE  TokenTypes' /\ HostTypes' /\ SetTypes'
    <3>1. UNCHANGED <<agentToken, bootToken, hostDoc, hostState, load, env, attached, nodes, building, joining, decomAlert,
                    beat, undone>>
      BY <2>8 DEF BeginPlacement, SetComposePlacements
    <3>2. placing' \subseteq Resources \X Machines /\ placed' \subseteq Resources \X Machines
      <4>1. CASE BeginPlacement(r, s)
        BY <4>1 DEF BeginPlacement, SetTypes
      <4>2. CASE SetComposePlacements(r, s)
        BY <4>2 DEF SetComposePlacements, syncServicePlacementsTx, SetTypes
      <4> QED BY <2>8, <4>1, <4>2
    <3> QED BY <3>1, <3>2 DEF TokenTypes, HostTypes, SetTypes
  <2> QED BY <2>0, <2>1, <2>2, <2>3, <2>4, <2>5, <2>6, <2>7, <2>8
<1> QED BY <1>1, <1>2, <1>3, <1>4, RestUnchanged

\* The gate never ends a decommission and never begins one.
LEMMA StatusKept ==
  ASSUME NEW prev \in {"provisioning", "running", "unreachable", "incompatible", "decommissioning"},
         NEW ok, NEW x, NEW seen
  PROVE  /\ compatibilityStatus(prev, ok, x) \in {"provisioning", "running", "unreachable", "incompatible", "decommissioning"}
         /\ compatibilityStatus(prev, ok, x) = "decommissioning" <=> prev = "decommissioning"
         /\ statusAfterTypeChange(prev, ok, seen) \in {"provisioning", "running", "unreachable", "incompatible", "decommissioning"}
         /\ statusAfterTypeChange(prev, ok, seen) = "decommissioning" <=> prev = "decommissioning"
BY DEF compatibilityStatus, statusAfterTypeChange

\* A step that changes the row of one server and no resource.
LEMMA RowStep ==
  ASSUME FleetInv, NEW s \in Machines, NEW row \in ServerRow, servers' = [servers EXCEPT ![s] = row],
         UNCHANGED <<res, load>>, TokenTypes', HostTypes', SetTypes',
         \A m \in Machines : hostState'[m] = "tearing" => hostState[m] = "tearing",
         undone \subseteq undone', undone' \subseteq undone \cup {s},
         \A m \in Machines : m # s => beat'[m] = beat[m],
         beat'[s] = "decommissioning" => row.status = "decommissioning",
         row.started # "no" => row.status = "decommissioning" \/ s \in undone',
         row.deleted = "clean" => hostState[s] = "tearing" \/ servers[s].deleted = "clean",
         \A r \in Resources : res[r].state # "none" /\ res[r].home = s => Admits(s, row, r, undone')
  PROVE  FleetInv'
<1>1. /\ servers' \in [Machines -> ServerRow] /\ HomeInv' /\ StartedInv' /\ PortInv'
      /\ servers'[s] = row /\ \A m \in Machines : m # s => servers'[m] = servers[m]
  BY RowChange
<1>2. HostInv' /\ BeatInv'
  BY <1>1 DEF HostInv, BeatInv, FleetInv
<1>3. RowTypes'
  BY <1>1 DEF RowTypes, FleetInv, FleetTypes
<1> QED BY <1>1, <1>2, <1>3 DEF FleetInv, FleetTypes

\* What the row of a live server is.
LEMMA LiveRow ==
  ASSUME FleetInv, NEW s \in Machines
  PROVE  /\ servers[s] \in ServerRow
         /\ Live(s) => /\ servers[s].status \in {"provisioning", "running", "unreachable", "incompatible", "decommissioning"}
                       /\ servers[s].deleted = "no"
         /\ servers[s].started # "no" => servers[s].status = "decommissioning" \/ s \in undone
         /\ beat[s] = "decommissioning" => servers[s].status = "decommissioning"
         /\ \/ servers[s].status = "none"
            \/ s \notin undone /\ (servers[s].status = "decommissioning" \/ servers[s].deleted # "no")
            => \A r \in Resources : ~(res[r].state # "none" /\ res[r].home = s)
<1>1. servers[s] \in ServerRow
  BY DEF FleetInv, FleetTypes, RowTypes
<1>2. Live(s) => /\ servers[s].status \in {"provisioning", "running", "unreachable", "incompatible", "decommissioning"}
                 /\ servers[s].deleted = "no"
  BY <1>1 DEF Live, ServerRow
<1>3. /\ servers[s].started # "no" => servers[s].status = "decommissioning" \/ s \in undone
      /\ beat[s] = "decommissioning" => servers[s].status = "decommissioning"
  BY DEF FleetInv, StartedInv, BeatInv
<1> QED BY <1>1, <1>2, <1>3 DEF FleetInv, HomeInv, Admits

\* A server is provisioned.
LEMMA ProvisionStep == ASSUME FleetInv, NEW s \in Machines, NEW t \in ServerTypes, ProvisionServer(s, t) PROVE FleetInv'
<1>1. PICK row : row = [NoServer EXCEPT !.status = "provisioning", !.type = t]
  OBVIOUS
<1>2. row \in ServerRow /\ row.started = "no" /\ row.deleted = "no"
  BY <1>1 DEF NoServer, ServerRow
<1>3. servers' = [servers EXCEPT ![s] = row] /\ servers[s].status = "none"
      /\ UNCHANGED <<res, load, hostState, beat, undone>>
  BY <1>1 DEF ProvisionServer, precreateServerTx, rowVars, machineVars, noteVars
<1>4. TokenTypes' /\ HostTypes' /\ SetTypes'
  BY DEF ProvisionServer, issueTokenTx, rowVars, machineVars, noteVars, TokenTypes, HostTypes, SetTypes, FleetInv, FleetTypes
<1>5. beat[s] # "decommissioning" /\ \A r \in Resources : ~(res[r].state # "none" /\ res[r].home = s)
  BY <1>3, LiveRow
<1> QED BY <1>2, <1>3, <1>4, <1>5, RowStep

\* A server of another type: what lives on it may run there.
LEMMA SetTypeStep == ASSUME FleetInv, NEW s \in Machines, NEW t \in ServerTypes, SetServerType(s, t) PROVE FleetInv'
<1>1. PICK ok : ok = CheckServerCompatibility(t, servers[s].gpu)
  OBVIOUS
<1>2. PICK st : st = statusAfterTypeChange(servers[s].status, ok, servers[s].seen)
  OBVIOUS
<1>3. PICK row : row = [servers[s] EXCEPT !.type = t, !.status = st]
  OBVIOUS
<1>4. /\ servers[s] \in ServerRow /\ Live(s) /\ ForUpdate(s) /\ servers[s].status # "decommissioning"
      /\ servers[s].status \in {"provisioning", "running", "unreachable", "incompatible", "decommissioning"}
      /\ servers[s].deleted = "no" /\ (servers[s].started # "no" => s \in undone) /\ beat[s] # "decommissioning"
      /\ \A r \in Resources : (res[r].state = "live" /\ res[r].home = s) => CanHost(t, r)
      /\ UNCHANGED <<res, load, hostState, beat, undone>>
  BY LiveRow DEF SetServerType, rowVars, machineVars, noteVars
<1>5. st \in {"provisioning", "running", "unreachable", "incompatible"}
  BY <1>2, <1>4, StatusKept
<1>6. row \in ServerRow /\ row.status = st /\ row.type = t /\ row.deleted = "no" /\ row.started = servers[s].started
  BY <1>3, <1>4, <1>5 DEF ServerRow
<1>7. servers' = [servers EXCEPT ![s] = row]
  <2>1. servers \in [Machines -> ServerRow]
    BY DEF FleetInv, FleetTypes, RowTypes
  <2>2. servers' = [servers EXCEPT ![s].type = t,
                     ![s].status = statusAfterTypeChange(@, ok, servers[s].seen)]
    BY <1>1 DEF SetServerType
  <2> QED BY <1>2, <1>3, <1>4, <2>1, <2>2
<1>8. TokenTypes' /\ HostTypes' /\ SetTypes'
  BY DEF SetServerType, rowVars, machineVars, noteVars, TokenTypes, HostTypes, SetTypes, FleetInv, FleetTypes
<1>9. \A r \in Resources : res[r].state # "none" /\ res[r].home = s => Admits(s, row, r, undone)
  BY <1>4, <1>5, <1>6, LockHeld DEF Admits
<1> QED BY <1>4, <1>6, <1>7, <1>8, <1>9, RowStep

\* Registration grades the server and leaves its tenants.
LEMMA RegisterStep ==
  ASSUME FleetInv, NEW s \in Machines, NEW g \in {"unknown", "absent", "present"}, RegisterServer(s, g)
  PROVE  FleetInv'
<1>1. PICK gpu : gpu = MergeFact(servers[s].gpu, g)
  OBVIOUS
<1>2. PICK ok : ok = CheckServerCompatibility(servers[s].type, gpu)
  OBVIOUS
<1>3. /\ servers[s] \in ServerRow /\ Live(s)
      /\ servers[s].status \in {"provisioning", "running", "unreachable", "incompatible", "decommissioning"}
      /\ servers[s].deleted = "no"
      /\ (servers[s].started # "no" => servers[s].status = "decommissioning" \/ s \in undone)
      /\ (beat[s] = "decommissioning" => servers[s].status = "decommissioning")
      /\ UNCHANGED <<res, load, beat, undone>>
  BY LiveRow DEF RegisterServer, rowVars, machineVars, noteVars
<1>4. gpu \in {"unknown", "absent", "present"}
  BY <1>1, <1>3 DEF MergeFact, ServerRow
<1>5. servers \in [Machines -> ServerRow]
  BY DEF FleetInv, FleetTypes, RowTypes
<1>6. PICK st : st = compatibilityStatus(servers[s].status, ok, FALSE)
  OBVIOUS
<1>7. /\ st \in {"provisioning", "running", "unreachable", "incompatible", "decommissioning"}
      /\ st = "decommissioning" <=> servers[s].status = "decommissioning"
  BY <1>3, <1>6, StatusKept
<1>8. PICK row : row = [servers[s] EXCEPT !.enrolled = TRUE, !.gpu = gpu, !.status = st]
  OBVIOUS
<1>9. /\ row \in ServerRow /\ row.status = st /\ row.deleted = "no" /\ row.started = servers[s].started
      /\ row.type = servers[s].type
  BY <1>3, <1>4, <1>7, <1>8 DEF ServerRow
<1>10. servers' = [servers EXCEPT ![s].enrolled = TRUE, ![s].gpu = gpu,
                     ![s].status = compatibilityStatus(@, ok, FALSE)]
  BY <1>1, <1>2 DEF RegisterServer
<1>11. servers' = [servers EXCEPT ![s] = row]
  BY <1>3, <1>5, <1>6, <1>8, <1>10
<1>12. TokenTypes' /\ HostTypes' /\ SetTypes' /\ \A m \in Machines : hostState'[m] = "tearing" => hostState[m] = "tearing"
  BY DEF RegisterServer, rowVars, machineVars, noteVars, TokenTypes, HostTypes, SetTypes, FleetInv, FleetTypes
<1>13. \A r \in Resources : res[r].state # "none" /\ res[r].home = s => Admits(s, row, r, undone)
  BY <1>7, <1>9 DEF FleetInv, HomeInv, Admits
<1> QED BY <1>3, <1>7, <1>9, <1>11, <1>12, <1>13, RowStep

\* A heartbeat grades the server by the status it found when it began: over a
\* decommission that began since, it writes and so undoes it.
LEMMA HeartbeatStep ==
  ASSUME FleetInv, NEW s \in Machines, NEW g \in {"unknown", "absent", "present"}, RecordHeartbeat(s, g)
  PROVE  FleetInv'
<1>1. /\ beat[s] # "no" /\ beat' = [beat EXCEPT ![s] = "no"] /\ beat \in [Machines -> Beats]
      /\ UNCHANGED <<agentToken, bootToken, hostDoc, hostState, load, env, attached, nodes, res, placing, placed,
                     building, joining, decomAlert>>
  BY DEF RecordHeartbeat, rowVars, machineVars, FleetInv, FleetTypes, SetTypes
<1>2. beat' \in [Machines -> Beats] /\ beat'[s] = "no" /\ \A m \in Machines : m # s => beat'[m] = beat[m]
  BY <1>1 DEF Beats
<1>3. TokenTypes' /\ HostTypes'
  BY <1>1 DEF TokenTypes, HostTypes, FleetInv, FleetTypes
<1>4. undone \subseteq undone' /\ undone' \subseteq undone \cup {s} /\ undone' \subseteq Machines
  BY DEF RecordHeartbeat, FleetInv, FleetTypes, SetTypes
<1>5. SetTypes'
  BY <1>1, <1>2, <1>4 DEF SetTypes, FleetInv, FleetTypes
<1>6. CASE ~Live(s)
  <2>1. UNCHANGED <<servers, undone>>
    BY <1>6 DEF RecordHeartbeat
  <2>2. BeatInv'
    BY <1>2, <2>1 DEF FleetInv, BeatInv
  <2>3. RowTypes' /\ HomeInv' /\ StartedInv' /\ PortInv' /\ HostInv'
    BY <1>1, <2>1 DEF FleetInv, FleetTypes, RowTypes, HomeInv, StartedInv, PortInv, HostInv, Admits, CanHost
  <2> QED BY <1>3, <1>5, <2>2, <2>3 DEF FleetInv, FleetTypes
<1>7. CASE Live(s)
  <2>1. PICK gpu : gpu = MergeFact(servers[s].gpu, g)
    OBVIOUS
  <2>2. PICK ok : ok = CheckServerCompatibility(servers[s].type, gpu)
    OBVIOUS
  <2>3. PICK st : st = compatibilityStatus(beat[s], ok, TRUE)
    OBVIOUS
  <2>4. /\ servers[s] \in ServerRow
        /\ servers[s].status # "none" /\ servers[s].deleted = "no"
        /\ (servers[s].started # "no" => servers[s].status = "decommissioning" \/ s \in undone)
        /\ (beat[s] = "decommissioning" => servers[s].status = "decommissioning")
    BY <1>7, LiveRow DEF Live
  <2>5. gpu \in {"unknown", "absent", "present"}
    BY <2>1, <2>4 DEF MergeFact, ServerRow
  <2>6. beat[s] \in {"provisioning", "running", "unreachable", "incompatible", "decommissioning"}
    BY <1>1 DEF Beats
  <2>7. /\ st \in {"provisioning", "running", "unreachable", "incompatible", "decommissioning"}
        /\ st = "decommissioning" <=> beat[s] = "decommissioning"
    BY <2>3, <2>6, StatusKept
  <2>8. PICK row : row = [servers[s] EXCEPT !.seen = "recent", !.gpu = gpu, !.status = st]
    OBVIOUS
  <2>9. /\ row \in ServerRow /\ row.status = st /\ row.deleted = "no" /\ row.started = servers[s].started
        /\ row.type = servers[s].type
    BY <2>4, <2>5, <2>7, <2>8 DEF ServerRow
  <2>10. /\ servers' = [servers EXCEPT ![s].seen = "recent", ![s].gpu = gpu, ![s].status = st]
         /\ servers[s].status = "decommissioning" /\ beat[s] # "decommissioning" => s \in undone'
    BY <1>7, <2>1, <2>2, <2>3 DEF RecordHeartbeat
  <2>11. servers \in [Machines -> ServerRow]
    BY DEF FleetInv, FleetTypes, RowTypes
  <2>12. servers' = [servers EXCEPT ![s] = row]
    BY <2>4, <2>8, <2>10, <2>11
  <2>13. row.started # "no" => row.status = "decommissioning" \/ s \in undone'
    BY <1>4, <2>4, <2>7, <2>9, <2>10
  <2>14. ASSUME NEW r \in Resources, res[r].state # "none", res[r].home = s PROVE Admits(s, row, r, undone')
    <3>1. Admits(s, servers[s], r, undone)
      BY <2>14 DEF FleetInv, HomeInv
    <3> QED BY <1>4, <2>4, <2>7, <2>9, <2>10, <3>1 DEF Admits
  <2>15. UNCHANGED <<res, load, hostState>>
    BY <1>1
  <2> QED BY <1>2, <1>3, <1>4, <1>5, <2>9, <2>12, <2>13, <2>14, <2>15, RowStep
<1> QED BY <1>6, <1>7

\* Time passes for a server, and the sweeper marks one unreachable.
LEMMA TimeStep ==
  ASSUME FleetInv, NEW s \in Machines, GoesStale(s) \/ MarkStaleUnreachable(s) \/ TeardownOverdue(s)
  PROVE  FleetInv'
<1>1. /\ servers[s] \in ServerRow /\ Live(s) /\ servers[s].deleted = "no"
      /\ UNCHANGED <<res, load, hostState, beat, undone>>
      /\ (servers[s].started # "no" => servers[s].status = "decommissioning" \/ s \in undone)
      /\ (beat[s] = "decommissioning" => servers[s].status = "decommissioning")
  BY LiveRow DEF GoesStale, MarkStaleUnreachable, TeardownOverdue, rowVars, machineVars, noteVars
<1>2. PICK row : \/ GoesStale(s) /\ row = [servers[s] EXCEPT !.seen = "old"]
                 \/ MarkStaleUnreachable(s) /\ row = [servers[s] EXCEPT !.status = "unreachable"]
                 \/ TeardownOverdue(s) /\ row = [servers[s] EXCEPT !.started = "old"]
  OBVIOUS
<1>3. row \in ServerRow /\ row.deleted = "no" /\ row.type = servers[s].type
  BY <1>1, <1>2 DEF ServerRow
<1>4. servers' = [servers EXCEPT ![s] = row]
  BY <1>2 DEF GoesStale, MarkStaleUnreachable, TeardownOverdue
<1>5. \/ row.status = servers[s].status /\ row.started = servers[s].started
      \/ row.status = servers[s].status /\ servers[s].started # "no"
      \/ row.status = "unreachable" /\ row.started = servers[s].started /\ servers[s].status = "running"
  BY <1>1, <1>2 DEF ServerRow, GoesStale, MarkStaleUnreachable, TeardownOverdue
<1>6. TokenTypes' /\ HostTypes' /\ SetTypes'
  BY DEF GoesStale, MarkStaleUnreachable, TeardownOverdue, rowVars, machineVars, noteVars,
         TokenTypes, HostTypes, SetTypes, FleetInv, FleetTypes
<1>7. \A r \in Resources : res[r].state # "none" /\ res[r].home = s => Admits(s, row, r, undone)
  BY <1>3, <1>5 DEF FleetInv, HomeInv, Admits
<1>8. /\ row.started # "no" => row.status = "decommissioning" \/ s \in undone
      /\ beat[s] = "decommissioning" => row.status = "decommissioning"
  BY <1>1, <1>5
<1> QED BY <1>1, <1>3, <1>4, <1>6, <1>7, <1>8, RowStep

\* Every way out leaves behind a server without tenants, or one whose
\* decommission was undone.
LEMMA TombstoneStep ==
  ASSUME FleetInv, NEW s \in Machines, NEW how \in {"clean", "errors", "timeout", "forced", "never enrolled"},
         servers' = [servers EXCEPT ![s].deleted = how],
         agentToken' = [agentToken EXCEPT ![s] = IF @ = "live" THEN "revoked" ELSE @],
         attached' \subseteq attached, nodes' \subseteq nodes, decomAlert' \subseteq decomAlert \cup {s},
         UNCHANGED <<bootToken, machineVars, env, res, placing, placed, building, joining, beat, undone>>,
         how = "clean" => hostState[s] = "tearing",
         s \in undone \/ \A r \in Resources : ~(res[r].state # "none" /\ res[r].home = s)
  PROVE  FleetInv'
<1>1. /\ servers[s] \in ServerRow
      /\ (servers[s].started # "no" => servers[s].status = "decommissioning" \/ s \in undone)
      /\ (beat[s] = "decommissioning" => servers[s].status = "decommissioning")
  BY LiveRow
<1>2. PICK row : row = [servers[s] EXCEPT !.deleted = how]
  OBVIOUS
<1>3. /\ row \in ServerRow /\ row.deleted = how /\ row.started = servers[s].started
      /\ row.status = servers[s].status /\ row.type = servers[s].type
  BY <1>1, <1>2 DEF ServerRow
<1>4. servers' = [servers EXCEPT ![s] = row] /\ UNCHANGED <<res, load, hostState, beat, undone>>
  BY <1>2 DEF machineVars
<1>5. TokenTypes' /\ HostTypes' /\ SetTypes'
  BY DEF machineVars, TokenTypes, HostTypes, SetTypes, FleetInv, FleetTypes
<1>6. /\ row.deleted = "clean" => hostState[s] = "tearing" \/ servers[s].deleted = "clean"
      /\ row.started # "no" => row.status = "decommissioning" \/ s \in undone
      /\ beat[s] = "decommissioning" => row.status = "decommissioning"
      /\ \A m \in Machines : hostState'[m] = "tearing" => hostState[m] = "tearing"
  BY <1>1, <1>3, <1>4
<1>7. ASSUME NEW r \in Resources, res[r].state # "none", res[r].home = s PROVE Admits(s, row, r, undone)
  <2>1. Admits(s, servers[s], r, undone) /\ s \in undone
    BY <1>7 DEF FleetInv, HomeInv
  <2> QED BY <1>3, <2>1 DEF Admits
<1>8. /\ UNCHANGED <<res, load>> /\ undone \subseteq undone' /\ undone' \subseteq undone \cup {s}
      /\ \A m \in Machines : m # s => beat'[m] = beat[m]
      /\ beat'[s] = "decommissioning" => row.status = "decommissioning"
      /\ row.started # "no" => row.status = "decommissioning" \/ s \in undone'
  BY <1>4, <1>6
<1>9. \A r \in Resources : res[r].state # "none" /\ res[r].home = s => Admits(s, row, r, undone')
  BY <1>4, <1>7
<1>10. servers' = [servers EXCEPT ![s] = row]
  BY <1>4
<1> QED BY <1>3, <1>5, <1>6, <1>8, <1>9, <1>10, RowStep

\* A server with no bound resource and no create in flight has no tenant.
LEMMA Vacant ==
  ASSUME FleetInv, NEW s \in Machines, ForUpdate(s), boundResourcesTx(s) = {}
  PROVE  \A r \in Resources : ~(res[r].state # "none" /\ res[r].home = s)
BY LockHeld DEF boundResourcesTx

\* Force, timeout, acknowledgement.
LEMMA RemovalStep ==
  ASSUME FleetInv, NEW s \in Machines, DeleteServer(s) \/ TimeoutStaleDecommissions(s) \/ handleAgentUninstallAck(s)
  PROVE  FleetInv'
<1>1. CASE DeleteServer(s)
  <2>1. \A r \in Resources : ~(res[r].state # "none" /\ res[r].home = s)
    BY <1>1, Vacant DEF DeleteServer
  <2>2. PICK how : how = "forced"
    OBVIOUS
  <2>3. tombstoneServerTx(s, how) /\ UNCHANGED <<decomAlert, beat, undone>>
    BY <1>1, <2>2 DEF DeleteServer, noteVars
  <2> QED BY <2>1, <2>2, <2>3, TombstoneStep DEF tombstoneServerTx
<1>2. CASE TimeoutStaleDecommissions(s)
  <2>1. s \in undone \/ \A r \in Resources : ~(res[r].state # "none" /\ res[r].home = s)
    BY <1>2, LiveRow DEF TimeoutStaleDecommissions
  <2> QED BY <1>2, <2>1, TombstoneStep DEF TimeoutStaleDecommissions
<1>3. CASE handleAgentUninstallAck(s)
  <2>1. PICK how : how = IF hostState[s] = "tearing" THEN "clean" ELSE "errors"
    OBVIOUS
  <2>2. how \in {"clean", "errors"} /\ (how = "clean" => hostState[s] = "tearing")
    BY <2>1
  <2>3. servers[s].started # "no" /\ tombstoneServerTx(s, how) /\ UNCHANGED <<decomAlert, beat, undone>>
    BY <1>3, <2>1 DEF handleAgentUninstallAck, CompleteDecommission, noteVars
  <2>4. s \in undone \/ \A r \in Resources : ~(res[r].state # "none" /\ res[r].home = s)
    BY <2>3, LiveRow
  <2> QED BY <2>2, <2>3, <2>4, TombstoneStep DEF tombstoneServerTx
<1> QED BY <1>1, <1>2, <1>3

\* A decommission begins on a vacant server, or ends at once.
LEMMA BeginDecommissionStep == ASSUME FleetInv, NEW s \in Machines, BeginDecommission(s) PROVE FleetInv'
<1>1. \A r \in Resources : ~(res[r].state # "none" /\ res[r].home = s)
  BY Vacant DEF BeginDecommission
<1>2. CASE ~servers[s].enrolled
  <2>1. PICK how : how = "never enrolled"
    OBVIOUS
  <2>2. tombstoneServerTx(s, how) /\ UNCHANGED <<decomAlert, beat, undone>>
    BY <1>2, <2>1 DEF BeginDecommission, noteVars
  <2> QED BY <1>1, <2>1, <2>2, TombstoneStep DEF tombstoneServerTx
<1>3. CASE servers[s].enrolled
  <2>1. servers[s] \in ServerRow /\ Live(s) /\ servers[s].deleted = "no"
    BY LiveRow DEF BeginDecommission
  <2>2. PICK row : row = [servers[s] EXCEPT !.status = "decommissioning",
                                            !.started = IF @ = "no" THEN "recent" ELSE @]
    OBVIOUS
  <2>3. row \in ServerRow /\ row.deleted = "no" /\ row.status = "decommissioning"
    BY <2>1, <2>2 DEF ServerRow
  <2>4. servers' = [servers EXCEPT ![s] = row]
    <3>1. servers \in [Machines -> ServerRow]
      BY DEF FleetInv, FleetTypes, RowTypes
    <3>2. servers' = [servers EXCEPT ![s].status = "decommissioning",
                                     ![s].started = IF @ = "no" THEN "recent" ELSE @]
      BY <1>3 DEF BeginDecommission
    <3> QED BY <2>1, <2>2, <3>1, <3>2
  <2>5. UNCHANGED <<res, load, hostState, beat, undone>> /\ TokenTypes' /\ HostTypes' /\ SetTypes'
    BY <1>3 DEF BeginDecommission, rowVars, machineVars, noteVars, TokenTypes, HostTypes, SetTypes, FleetInv, FleetTypes
  <2> QED BY <1>1, <2>3, <2>4, <2>5, RowStep
<1> QED BY <1>2, <1>3

\* The workloads of a host: applied, or removed on the way out.
LEMMA HostStep ==
  ASSUME FleetInv, NEW s \in Machines, ApplyWorkloads(s) \/ \E ok \in BOOLEAN : RemoveWorkloads(s, ok)
  PROVE  FleetInv'
<1> USE DEF FleetInv, FleetTypes, rowVars, noteVars
<1>1. UNCHANGED <<servers, agentToken, bootToken, hostDoc, env, attached, nodes, res, placing, placed, building,
                  joining, decomAlert, beat, undone>>
  BY DEF ApplyWorkloads, RemoveWorkloads
<1>2. RowTypes' /\ TokenTypes' /\ SetTypes' /\ HomeInv' /\ StartedInv' /\ BeatInv' /\ PortInv'
  BY <1>1 DEF RowTypes, TokenTypes, SetTypes, HomeInv, StartedInv, BeatInv, PortInv, Admits, CanHost
<1>3. Live(s) /\ servers[s].deleted # "clean" /\ hostState[s] = "up"
  BY DEF ApplyWorkloads, RemoveWorkloads, ServerByAgentToken, Live
<1>4. CASE ApplyWorkloads(s)
  <2>1. load' = [load EXCEPT ![s] = hostDoc[s] = "work"] /\ hostState' = hostState
    BY <1>4 DEF ApplyWorkloads
  <2>2. (hostDoc[s] = "work") \in BOOLEAN
    OBVIOUS
  <2>3. load' \in [Machines -> BOOLEAN] /\ \A m \in Machines : m # s => load'[m] = load[m]
    BY <2>1, <2>2 DEF HostTypes
  <2>4. HostTypes'
    BY <1>1, <2>1, <2>3 DEF HostTypes
  <2>5. HostInv'
    BY <1>1, <1>3, <2>1, <2>3 DEF HostInv
  <2> QED BY <1>2, <2>4, <2>5
<1>5. ASSUME NEW ok \in BOOLEAN, RemoveWorkloads(s, ok) PROVE FleetInv'
  <2>1. /\ load' = [load EXCEPT ![s] = @ /\ ~ok]
        /\ hostState' = [hostState EXCEPT ![s] = IF ok THEN "tearing" ELSE "failed"]
    BY <1>5 DEF RemoveWorkloads
  <2>2. (load[s] /\ ~ok) \in BOOLEAN /\ (ok => ~(load[s] /\ ~ok))
    OBVIOUS
  <2>3. PICK b : b = (load[s] /\ ~ok)
    OBVIOUS
  <2>4. load' = [load EXCEPT ![s] = b]
    BY <2>1, <2>3
  <2>5. b \in BOOLEAN /\ (ok => ~b)
    BY <2>2, <2>3
  <2>6. load' \in [Machines -> BOOLEAN] /\ load'[s] = b /\ \A m \in Machines : m # s => load'[m] = load[m]
    BY <2>4, <2>5 DEF HostTypes
  <2>7. /\ hostState' \in [Machines -> {"bare", "up", "tearing", "failed", "gone"}]
        /\ (hostState'[s] = "tearing" => ok) /\ \A m \in Machines : m # s => hostState'[m] = hostState[m]
    BY <2>1 DEF HostTypes
  <2>8. HostTypes'
    BY <1>1, <2>6, <2>7 DEF HostTypes
  <2>9. HostInv'
    BY <1>1, <1>3, <2>5, <2>6, <2>7 DEF HostInv
  <2> QED BY <1>2, <2>8, <2>9
<1> QED BY <1>4, <1>5

\* A step that changes one resource.
LEMMA ResStep ==
  ASSUME FleetInv, NEW r \in Resources, NEW row \in ResRow, res' = [res EXCEPT ![r] = row],
         row.state # "none" => row.home \in Machines /\ Admits(row.home, servers[row.home], r, undone),
         row.state \in {"resolved", "live"} =>
            \A q \in Resources : q # r /\ res[q].home = row.home /\ res[q].state \in {"resolved", "live"}
                                 => res[q].port # row.port,
         UNCHANGED <<servers, agentToken, bootToken, hostDoc, hostState, load, beat, undone>>, SetTypes'
  PROVE  FleetInv'
<1> USE DEF FleetInv, FleetTypes
<1>1. res \in [Resources -> ResRow]
  BY DEF RowTypes
<1>2. res' \in [Resources -> ResRow] /\ res'[r] = row /\ \A q \in Resources : q # r => res'[q] = res[q]
  BY <1>1
<1>3. RowTypes' /\ TokenTypes' /\ HostTypes' /\ StartedInv' /\ BeatInv' /\ HostInv'
  BY <1>2 DEF RowTypes, TokenTypes, HostTypes, StartedInv, BeatInv, HostInv
<1>4. HomeInv'
  <2> SUFFICES ASSUME NEW q \in Resources, res'[q].state # "none"
               PROVE  res'[q].home \in Machines /\ Admits(res'[q].home, servers[res'[q].home], q, undone)
    BY DEF HomeInv, Admits
  <2>1. CASE q = r
    BY <1>2, <2>1
  <2>2. CASE q # r
    BY <1>2, <2>2 DEF HomeInv
  <2> QED BY <2>1, <2>2
<1>5. PortInv'
  <2> SUFFICES ASSUME NEW q \in Resources, NEW p \in Resources, q # p, res'[q].home = res'[p].home,
                      res'[q].state \in {"resolved", "live"}, res'[p].state \in {"resolved", "live"}
               PROVE  res'[q].port # res'[p].port
    BY DEF PortInv
  <2>1. CASE q = r
    BY <1>2, <2>1
  <2>2. CASE p = r
    BY <1>2, <2>2
  <2>3. CASE q # r /\ p # r
    BY <1>2, <2>3 DEF PortInv
  <2> QED BY <2>1, <2>2, <2>3
<1> QED BY <1>3, <1>4, <1>5

\* A create reads its server under the shared lock.
LEMMA CreateStep == ASSUME FleetInv, NEW r \in Resources, NEW s \in Machines, CreateResource(r, s) PROVE FleetInv'
<1>1. PICK row : row = [state |-> "open", home |-> s, port |-> 0]
  OBVIOUS
<1>2. 0 \in 0..PortCeiling
  BY FleetAssumption
<1>3. row \in ResRow /\ row.state = "open" /\ row.home = s
  BY <1>1, <1>2 DEF ResRow
<1>4. Admits(s, servers[s], r, undone)
  BY DEF CreateResource, Live, Admits
<1>5. SetTypes' /\ res' = [res EXCEPT ![r] = row] /\ UNCHANGED <<servers, agentToken, bootToken, hostDoc, hostState, load, beat, undone>>
  BY <1>1 DEF CreateResource, machineVars, noteVars, SetTypes, FleetInv, FleetTypes
<1> QED BY <1>3, <1>4, <1>5, ResStep

\* A resource that does not exist.
LEMMA NoResource == NoRes \in ResRow /\ NoRes.state = "none"
<1>1. 0 \in 0..PortCeiling
  BY FleetAssumption
<1> QED BY <1>1 DEF NoRes, ResRow

\* A port is chosen under the advisory lock.
LEMMA ResolveStep == ASSUME FleetInv, NEW r \in Resources, ResolvePort(r) PROVE FleetInv'
<1>1. PICK port : port = allocateMeshPort(res[r].home, Wanted[r])
  OBVIOUS
<1>2. Wanted[r] \in 1..PortCeiling
  BY FleetAssumption
<1>3. port \in 0..PortCeiling /\ (port # 0 => port \notin boundHostPortsTx(res[r].home))
  BY <1>1, <1>2, PortIsFree
<1>4. /\ SetTypes' /\ UNCHANGED <<servers, agentToken, bootToken, hostDoc, hostState, load, beat, undone>>
      /\ res[r].state = "open" /\ PortLock(res[r].home)
  BY DEF ResolvePort, machineVars, noteVars, SetTypes, FleetInv, FleetTypes
<1>5. CASE port = 0
  <2>1. PICK row : row = NoRes
    OBVIOUS
  <2>2. res' = [res EXCEPT ![r] = row]
    BY <1>1, <1>5, <2>1 DEF ResolvePort
  <2> QED BY <1>4, <2>1, <2>2, NoResource, ResStep
<1>6. CASE port # 0
  <2>1. PICK row : row = [res[r] EXCEPT !.state = "resolved", !.port = port]
    OBVIOUS
  <2>2. res[r] \in ResRow /\ Admits(res[r].home, servers[res[r].home], r, undone) /\ res[r].home \in Machines
    BY <1>4 DEF FleetInv, FleetTypes, RowTypes, HomeInv
  <2>3. row \in ResRow /\ row.state = "resolved" /\ row.port = port /\ row.home = res[r].home
    BY <1>3, <2>1, <2>2 DEF ResRow
  <2>4. res' = [res EXCEPT ![r] = row]
    BY <1>1, <1>6, <2>1 DEF ResolvePort
  <2>5. ASSUME NEW q \in Resources, q # r, res[q].home = row.home, res[q].state \in {"resolved", "live"}
        PROVE  res[q].port # row.port
    <3>1. res[q].state = "live"
      BY <1>4, <2>3, <2>5 DEF PortLock
    <3>2. res[q].port \in boundHostPortsTx(res[r].home)
      BY <2>3, <2>5, <3>1 DEF boundHostPortsTx
    <3> QED BY <1>3, <1>6, <2>3, <3>2
  <2> QED BY <1>4, <2>2, <2>3, <2>4, <2>5, ResStep
<1> QED BY <1>5, <1>6

\* The create commits, or finds its environment gone.
LEMMA CommitStep == ASSUME FleetInv, NEW r \in Resources, CommitResource(r) PROVE FleetInv'
<1>1. /\ SetTypes' /\ UNCHANGED <<servers, agentToken, bootToken, hostDoc, hostState, load, beat, undone>>
      /\ res[r].state = "resolved"
  BY DEF CommitResource, machineVars, noteVars, SetTypes, FleetInv, FleetTypes
<1>2. CASE ~env
  <2>1. PICK row : row = NoRes
    OBVIOUS
  <2>2. res' = [res EXCEPT ![r] = row]
    BY <1>2, <2>1 DEF CommitResource
  <2> QED BY <1>1, <2>1, <2>2, NoResource, ResStep
<1>3. CASE env
  <2>1. PICK row : row = [res[r] EXCEPT !.state = "live"]
    OBVIOUS
  <2>2. res[r] \in ResRow /\ Admits(res[r].home, servers[res[r].home], r, undone) /\ res[r].home \in Machines
    BY <1>1 DEF FleetInv, FleetTypes, RowTypes, HomeInv
  <2>3. row \in ResRow /\ row.state = "live" /\ row.port = res[r].port /\ row.home = res[r].home
    BY <2>1, <2>2 DEF ResRow
  <2>4. res' = [res EXCEPT ![r] = row]
    BY <1>3, <2>1 DEF CommitResource
  <2>5. \A q \in Resources : q # r /\ res[q].home = row.home /\ res[q].state \in {"resolved", "live"}
                             => res[q].port # row.port
    BY <1>1, <2>3 DEF FleetInv, PortInv
  <2> QED BY <1>1, <2>2, <2>3, <2>4, <2>5, ResStep
<1> QED BY <1>2, <1>3

\* Resources go, one or all.
LEMMA DeleteStep ==
  ASSUME FleetInv, DeleteEnvironment \/ \E r \in Resources : DeleteResource(r)
  PROVE  FleetInv'
<1>1. ASSUME NEW r \in Resources, DeleteResource(r) PROVE FleetInv'
  <2>1. PICK row : row = NoRes
    OBVIOUS
  <2>2. res' = [res EXCEPT ![r] = row] /\ SetTypes' /\ UNCHANGED <<servers, agentToken, bootToken, hostDoc, hostState, load, beat, undone>>
    BY <1>1, <2>1 DEF DeleteResource, machineVars, noteVars, SetTypes, FleetInv, FleetTypes
  <2> QED BY <2>1, <2>2, NoResource, ResStep
<1>2. CASE DeleteEnvironment
  <2>1. SetTypes' /\ UNCHANGED <<servers, agentToken, bootToken, hostDoc, hostState, load, beat, undone>>
    BY <1>2 DEF DeleteEnvironment, machineVars, noteVars, SetTypes, FleetInv, FleetTypes
  <2>2. res' = [r \in Resources |-> IF res[r].state = "live" THEN NoRes ELSE res[r]]
    BY <1>2 DEF DeleteEnvironment, cascadeResourceCleanupTx
  <2>3. RowTypes' /\ \A r \in Resources : res'[r].state = "none" \/ res'[r] = res[r]
    BY <2>1, <2>2, NoResource DEF RowTypes, FleetInv, FleetTypes
  <2>4. TokenTypes' /\ HostTypes' /\ StartedInv' /\ BeatInv' /\ HostInv'
    BY <2>1 DEF TokenTypes, HostTypes, StartedInv, BeatInv, HostInv, FleetInv, FleetTypes
  <2>5. HomeInv' /\ PortInv'
    BY <2>1, <2>3 DEF HomeInv, PortInv, Admits, CanHost, FleetInv
  <2> QED BY <2>1, <2>3, <2>4, <2>5 DEF FleetInv, FleetTypes
<1> QED BY <1>1, <1>2

-----------------------------------------------------------------------------
(* Theorems of Fleet.                                                       *)

\* Every step keeps the invariant.
LEMMA FleetStep == FleetInv /\ [FleetNext]_fleetVars => FleetInv'
<1> SUFFICES ASSUME FleetInv, [FleetNext]_fleetVars PROVE FleetInv'
  OBVIOUS
<1>1. CASE UNCHANGED fleetVars
  BY <1>1 DEF fleetVars, FleetInv, FleetTypes, RowTypes, TokenTypes, HostTypes, SetTypes,
              HomeInv, StartedInv, BeatInv, PortInv, HostInv, Admits, CanHost
<1>2. ASSUME NEW s \in Machines, NEW t \in ServerTypes, ProvisionServer(s, t) \/ SetServerType(s, t) PROVE FleetInv'
  BY <1>2, ProvisionStep, SetTypeStep
<1>3. ASSUME NEW s \in Machines, NEW g \in {"unknown", "absent", "present"}, RegisterServer(s, g) \/ RecordHeartbeat(s, g)
      PROVE  FleetInv'
  BY <1>3, RegisterStep, HeartbeatStep
<1>4. ASSUME NEW s \in Machines, GoesStale(s) \/ TeardownOverdue(s) \/ Sweep(s) PROVE FleetInv'
  BY <1>4, TimeStep, RemovalStep DEF Sweep
<1>5. ASSUME NEW s \in Machines, DeleteServer(s) \/ BeginDecommission(s) \/ handleAgentUninstallAck(s) PROVE FleetInv'
  BY <1>5, RemovalStep, BeginDecommissionStep
<1>6. ASSUME NEW s \in Machines, ApplyWorkloads(s) \/ \E ok \in BOOLEAN : RemoveWorkloads(s, ok) PROVE FleetInv'
  BY <1>6, HostStep
<1>7. ASSUME NEW s \in Machines,
             \/ BeginHeartbeat(s) \/ ReissueBootstrapToken(s) \/ AttachServer(s) \/ DetachServer(s)
             \/ BeginClusterJoin(s) \/ CommitClusterJoin(s) \/ LeaveCluster(s)
             \/ BuildServer(s) \/ RevokeAgentToken(s) \/ RenderDocument(s)
             \/ RemoveAgent(s) \/ AgentRestarts(s)
             \/ \E r \in Resources : BeginPlacement(r, s) \/ SetComposePlacements(r, s)
      PROVE  FleetInv'
  BY <1>7, SideSteps
<1>8. ASSUME NEW s \in Machines, NEW r \in Resources, CreateResource(r, s) PROVE FleetInv'
  BY <1>8, CreateStep
<1>9. ASSUME NEW r \in Resources, CreateGoesOn(r) PROVE FleetInv'
  BY <1>9, ResolveStep, CommitStep DEF CreateGoesOn
<1>10. CASE DeleteEnvironment \/ \E r \in Resources : DeleteResource(r)
  BY <1>10, DeleteStep
<1> QED BY <1>1, <1>2, <1>3, <1>4, <1>5, <1>6, <1>7, <1>8, <1>9, <1>10, Zenon DEF FleetNext

\* The invariant holds in every state of every behaviour.
LEMMA FleetInvHolds == FleetSpec => []FleetInv
BY FleetInitInv, FleetStep, PTL DEF FleetSpec

\* Every variable of the fleet holds a value of its kind.
THEOREM FleetTypeCorrect == FleetSpec => []FleetTypeOK
BY FleetInvHolds, FleetTypesAll, PTL DEF FleetInv

\* A resource lives on a server whose type its kind may run on and, unless a
\* heartbeat undid that server's decommission, that was not removed, whatever
\* creates, removals, timeouts, type changes and heartbeats overlap.
THEOREM HomeStandsCorrect == FleetSpec => []HomeStands
<1>1. FleetInv => HomeStands
  BY DEF FleetInv, HomeInv, HomeStands, Admits
<1> QED BY <1>1, FleetInvHolds, PTL

\* The heartbeat that began before a decommission is the only thing that takes
\* the server out of it: where none does, the status stands to the end.
THEOREM OnlyHeartbeatsUndo == FleetSpec => [](undone = {} => DecommissionStands)
<1>1. FleetInv => (undone = {} => DecommissionStands)
  BY DEF FleetInv, StartedInv, DecommissionStands
<1> QED BY <1>1, FleetInvHolds, PTL

\* Two live resources of one server have different host ports.
THEOREM PortsDistinctCorrect == FleetSpec => []PortsDistinct
<1>1. FleetInv => PortsDistinct
  BY DEF FleetInv, PortInv, PortsDistinct
<1> QED BY <1>1, FleetInvHolds, PTL

\* A server on record as cleanly decommissioned runs no workload.
THEOREM CleanMeansCleanCorrect == FleetSpec => []CleanMeansClean
<1>1. FleetInv => CleanMeansClean
  BY DEF FleetInv, HostInv, CleanMeansClean
<1> QED BY <1>1, FleetInvHolds, PTL

-----------------------------------------------------------------------------
(* Clusters: the inductive invariant.                                       *)

Results == [op : K8sOps, ok : BOOLEAN]
Rows    == RemoveRow \cup VolumeRow

\* The outcomes that the agent or a report still knows of.
Reported == host.results \cup UNION outcomes

\* Ops the agent has come to know, and all that are about, from the rows to
\* the reports.
AgentOps == host.todo \cup {r.op : r \in Reported}
AllOps   == pending \cup pass.removals \cup k8sDoc \cup AgentOps

ClusterTypes ==
    /\ ClustersTypeOK
    /\ app.state = "none" => app.declared = {} /\ release.status = "none"
    /\ app.state # "none" => app.declared \in AppSpecs
    /\ app.state = "live" => cluster = "up"
    /\ pass \in [pc : {"idle", "workloads"}, removals : SUBSET Rows]
    /\ host \in [todo : SUBSET K8sOps, done : SUBSET K8sOps, results : SUBSET Results]
    /\ outcomes \subseteq SUBSET Results

\* The one teardown there is, and only once the app is deleted.
RemovalInv == \A op \in AllOps \cap RemoveRow :
                 app.state = "deleted" /\ op.target = k8sTeardownWorkloads(app.declared)

\* What is applied was declared, and its image is there if one is built.
ApplyInv == \A w \in Workloads : ApplyOp(w) \in AllOps => w \in app.declared /\ (Built(w) => w \in pushed)

\* A service reports as rolled out or rolling only with its image there.
BuiltInv ==
    /\ \A w \in Workloads : release.svc[w] \in {"deploying", "success"} /\ Built(w) => w \in pushed
    /\ app.declared = {Plain} /\ release.status \in {"deploying", "success"} => Plain \in pushed

\* An agent that knows of the teardown, or a row that is retired, comes after
\* the last document with a workload in it.
NoApply(ops) == \A w \in Workloads : ApplyOp(w) \notin ops
Seen == AgentOps \cap RemoveRow # {}
Retired == app.state = "deleted" /\ pending \cap RemoveRow = {}

LastDocInv ==
    /\ Seen \/ Retired \/ k8sDoc \cap RemoveRow # {} => NoApply(k8sDoc)
    /\ Seen \/ Retired => NoApply(host.todo)

\* A manifest on the node is of the app and has its image; a teardown that
\* succeeded leaves none.
ManifestInv ==
    /\ manifests \subseteq app.declared /\ ImagesExist
    /\ Retired \/ (\E r \in Reported : r.ok /\ r.op \in RemoveRow) => manifests = {}

ClustersInv == ClusterTypes /\ RemovalInv /\ ApplyInv /\ BuiltInv /\ LastDocInv /\ ManifestInv

-----------------------------------------------------------------------------
(* Lemmas.                                                                  *)

\* The kinds of ops are told apart, and applies by their workload.
LEMMA OpKinds ==
  /\ \A op \in RemoveRow : op.kind = "k8s.remove"
  /\ \A op \in VolumeRow : op.kind = "volume.remove" /\ op \notin RemoveRow
  /\ \A w : ApplyOp(w).kind = "k8s.apply" /\ ApplyOp(w) \notin Rows /\ ApplyOp(w) # NodeOp /\ ApplyOp(w).target = {w}
  /\ \A v, w : ApplyOp(v) = ApplyOp(w) => v = w
  /\ NodeOp.kind = "k8s.node" /\ NodeOp \notin Rows
  /\ Rows \subseteq K8sOps /\ NodeOp \in K8sOps /\ \A w \in Workloads : ApplyOp(w) \in K8sOps
  /\ \A op \in K8sOps : op \in Rows \/ op = NodeOp \/ \E w \in Workloads : op = ApplyOp(w)
<1>1. \A op \in RemoveRow : op.kind = "k8s.remove"
  BY DEF RemoveRow
<1>2. \A op \in VolumeRow : op.kind = "volume.remove"
  BY DEF VolumeRow
<1>3. \A w : ApplyOp(w).kind = "k8s.apply" /\ ApplyOp(w).target = {w}
  BY DEF ApplyOp
<1>4. NodeOp.kind = "k8s.node"
  BY DEF NodeOp
<1>5. \A v, w : ApplyOp(v) = ApplyOp(w) => v = w
  BY <1>3
<1>6. /\ Rows \subseteq K8sOps /\ NodeOp \in K8sOps /\ \A w \in Workloads : ApplyOp(w) \in K8sOps
      /\ \A op \in K8sOps : op \in Rows \/ op = NodeOp \/ \E w \in Workloads : op = ApplyOp(w)
  BY DEF K8sOps, Rows
<1> QED BY <1>1, <1>2, <1>3, <1>4, <1>5, <1>6 DEF Rows

\* Where no op is new, what holds of all of them stays true.
LEMMA OpsShrink ==
  ASSUME ClustersInv, AllOps' \subseteq AllOps, app'.declared = app.declared,
         app.state = "deleted" => app'.state = "deleted", pushed \subseteq pushed'
  PROVE  RemovalInv' /\ ApplyInv'
<1>1. RemovalInv'
  BY DEF ClustersInv, RemovalInv, k8sTeardownWorkloads
<1>2. ApplyInv'
  <2> SUFFICES ASSUME NEW w \in Workloads, (ApplyOp(w) \in AllOps)'
               PROVE  w \in app'.declared /\ (Built(w) => w \in pushed')
    BY DEF ApplyInv, Built
  <2>1. ApplyOp(w) \in AllOps
    BY DEF ApplyOp
  <2> QED BY <2>1 DEF ClustersInv, ApplyInv
<1> QED BY <1>1, <1>2

\* Before the app is deleted nobody knows of a teardown.
LEMMA NoTeardownYet ==
  ASSUME ClustersInv, app.state # "deleted"
  PROVE  ~Seen /\ ~Retired /\ AllOps \cap RemoveRow = {} /\ pending \cap RemoveRow = {}
BY DEF ClustersInv, RemovalInv, Seen, Retired, AllOps

\* The initial state satisfies the invariant.
LEMMA ClustersInitInv == ClustersInit => ClustersInv
<1> SUFFICES ASSUME ClustersInit PROVE ClustersInv
  OBVIOUS
<1> USE ClustersAssumption DEF ClustersInit
<1>1. ClustersTypeOK
  <2>1. 0 \in 0..MaxK8sFails
    OBVIOUS
  <2> QED BY <2>1 DEF ClustersTypeOK, NoRelease
<1>2. ClusterTypes
  BY <1>1 DEF ClusterTypes, NoPass, NoRelease
<1>3. AllOps = {} /\ AgentOps = {} /\ Reported = {}
  BY DEF AllOps, AgentOps, Reported, NoPass
<1>4. BuiltInv
  BY DEF BuiltInv, NoRelease
<1> QED BY <1>2, <1>3, <1>4 DEF ClustersInv, RemovalInv, ApplyInv, LastDocInv, ManifestInv, Seen, Retired, ImagesExist

\* What a step of the rows leaves of the document and of the node.
LEMMA NodeKept ==
  ASSUME ClustersInv, UNCHANGED <<k8sDoc, host, outcomes, manifests>>, Retired' => Retired,
         app'.declared = app.declared, pushed \subseteq pushed'
  PROVE  LastDocInv' /\ ManifestInv' /\ (Seen' <=> Seen) /\ AgentOps' = AgentOps
<1>1. AgentOps' = AgentOps /\ Reported' = Reported
  BY DEF AgentOps, Reported
<1>2. Seen' <=> Seen
  BY <1>1 DEF Seen
<1>3. LastDocInv'
  BY <1>2 DEF ClustersInv, LastDocInv, NoApply
<1>4. ManifestInv'
  BY <1>1 DEF ClustersInv, ManifestInv, ImagesExist, Built
<1> QED BY <1>1, <1>2, <1>3, <1>4

-----------------------------------------------------------------------------
(* The rows.                                                                *)

\* The cluster is created or deleted.
LEMMA ClusterRowStep == ASSUME ClustersInv, CreateCluster \/ DeleteCluster PROVE ClustersInv'
<1>1. /\ UNCHANGED <<app, registry, release, pushed, pending, tokens, pass, k8sDoc, issued, retry, host, k3s, manifests,
                     disks, k8sFails, outcomes>>
      /\ cluster' \in {"up", "deleted"} /\ (app.state = "live" => cluster' = "up")
  BY DEF CreateCluster, DeleteCluster, destroyVars, clusterPassVars, nodeVars, ClustersInv, ClusterTypes
<1>2. ClusterTypes'
  BY <1>1 DEF ClustersInv, ClusterTypes, ClustersTypeOK
<1>3. AllOps' = AllOps /\ Retired' = Retired
  BY <1>1 DEF AllOps, AgentOps, Reported, Retired
<1>4. RemovalInv' /\ ApplyInv'
  BY <1>1, <1>3, OpsShrink
<1>5. LastDocInv' /\ ManifestInv'
  BY <1>1, <1>3, NodeKept
<1>6. BuiltInv'
  BY <1>1 DEF ClustersInv, BuiltInv
<1> QED BY <1>2, <1>4, <1>5, <1>6 DEF ClustersInv

\* The app is created: nothing of it is about yet.
LEMMA CreateAppStep == ASSUME ClustersInv, CreateClusterResource PROVE ClustersInv'
<1>1. PICK declared \in AppSpecs : app' = [state |-> "live", declared |-> declared]
  BY DEF CreateClusterResource
<1>2. /\ UNCHANGED <<cluster, registry, release, pushed, pending, tokens, pass, k8sDoc, issued, retry, host, k3s,
                     manifests, disks, k8sFails, outcomes>>
      /\ cluster = "up" /\ app.state = "none" /\ app.declared = {} /\ release.status = "none"
  BY DEF CreateClusterResource, destroyVars, clusterPassVars, nodeVars, ClustersInv, ClusterTypes
<1>3. app'.state = "live" /\ app'.declared = declared /\ declared \subseteq Workloads
  BY <1>1, ClustersAssumption DEF Workloads
<1>4. ClusterTypes'
  BY <1>1, <1>2, <1>3 DEF ClustersInv, ClusterTypes, ClustersTypeOK
<1>5. AllOps' = AllOps /\ AgentOps' = AgentOps /\ Reported' = Reported
  BY <1>2 DEF AllOps, AgentOps, Reported
<1>6. ~Seen /\ AllOps \cap RemoveRow = {} /\ k8sDoc \cap RemoveRow = {}
  BY <1>2, NoTeardownYet DEF AllOps
<1>7. RemovalInv'
  BY <1>5, <1>6 DEF RemovalInv
<1>8. \A w \in Workloads : ApplyOp(w) \notin AllOps
  BY <1>2 DEF ClustersInv, ApplyInv
<1>9. ApplyInv'
  BY <1>5, <1>8 DEF ApplyInv, ApplyOp
<1>10. BuiltInv'
  BY <1>2 DEF ClustersInv, BuiltInv, Built
<1>11. LastDocInv'
  BY <1>2, <1>3, <1>5, <1>6 DEF LastDocInv, Seen, Retired
<1>12. ManifestInv'
  <2>1. manifests = {}
    BY <1>2 DEF ClustersInv, ManifestInv
  <2> QED BY <1>2, <2>1 DEF ManifestInv, ImagesExist
<1> QED BY <1>4, <1>7, <1>9, <1>10, <1>11, <1>12 DEF ClustersInv

\* Steps that touch the tokens or queue the one deployment.
LEMMA QuietStep ==
  ASSUME ClustersInv, DeployToCluster \/ \E v \in Volumes : IssueConfirmToken(v) \/ ConfirmTokenExpires(v)
  PROVE  ClustersInv'
<1>1. /\ UNCHANGED <<cluster, app, registry, pushed, pending, pass, k8sDoc, issued, retry, host, k3s, manifests,
                     disks, k8sFails, outcomes>>
      /\ tokens' \in [Volumes -> {"none", "valid", "used", "expired"}]
      /\ release' \in [status : {"none", "queued", "deploying", "success", "failed"},
                       svc : [Workloads -> {"none", "deploying", "success", "failed"}]]
      /\ release'.svc = release.svc
      /\ release'.status = release.status \/ (release'.status = "queued" /\ app.state = "live")
  BY DEF DeployToCluster, IssueConfirmToken, ConfirmTokenExpires, appVars, destroyVars, clusterPassVars, nodeVars,
         ClustersInv, ClusterTypes, ClustersTypeOK
<1>2. ClusterTypes'
  BY <1>1 DEF ClustersInv, ClusterTypes, ClustersTypeOK
<1>3. AllOps' = AllOps /\ Retired' = Retired
  BY <1>1 DEF AllOps, AgentOps, Reported, Retired
<1>4. RemovalInv' /\ ApplyInv'
  BY <1>1, <1>3, OpsShrink
<1>5. LastDocInv' /\ ManifestInv'
  BY <1>1, <1>3, NodeKept
<1>6. BuiltInv'
  BY <1>1 DEF ClustersInv, BuiltInv, Built
<1> QED BY <1>2, <1>4, <1>5, <1>6 DEF ClustersInv

\* The delete of the app queues its teardown in the same transaction.
LEMMA DeleteAppStep == ASSUME ClustersInv, DeleteClusterResource PROVE ClustersInv'
<1>1. PICK row : row = [kind |-> "k8s.remove", target |-> k8sTeardownWorkloads(app.declared)]
  OBVIOUS
<1>2. /\ UNCHANGED <<cluster, registry, pushed, tokens, pass, k8sDoc, issued, retry, host, k3s,
                     manifests, disks, k8sFails, outcomes>>
      /\ app.state = "live" /\ cluster = "up" /\ app' = [app EXCEPT !.state = "deleted"] /\ release' = NoRelease
      /\ app \in [state : {"none", "live", "deleted"}, declared : SUBSET Workloads]
  BY DEF DeleteClusterResource, clusterPassVars, nodeVars, ClustersInv, ClusterTypes, ClustersTypeOK
<1>3. pending' = pending \cup {row}
  BY <1>1, <1>2 DEF DeleteClusterResource, insertK8sTeardown, insertPendingDestructiveOp
<1>4. app'.state = "deleted" /\ app'.declared = app.declared /\ app.declared \subseteq Workloads /\ app.declared \in AppSpecs
  BY <1>2 DEF ClustersInv, ClusterTypes
<1>5. row \in RemoveRow /\ row.target = k8sTeardownWorkloads(app.declared)
  BY <1>1, <1>4 DEF RemoveRow, k8sTeardownWorkloads, Workloads
<1>6. ClusterTypes'
  BY <1>2, <1>3, <1>4, <1>5 DEF ClustersInv, ClusterTypes, ClustersTypeOK, NoRelease, Rows
<1>7. /\ AllOps' = AllOps \cup {row} /\ AgentOps' = AgentOps /\ Reported' = Reported
  BY <1>2, <1>3 DEF AllOps, AgentOps, Reported
<1>8. ~Seen /\ AllOps \cap RemoveRow = {} /\ k8sDoc \cap RemoveRow = {}
  BY <1>2, NoTeardownYet DEF AllOps
<1>9. RemovalInv'
  BY <1>4, <1>5, <1>7, <1>8 DEF RemovalInv, k8sTeardownWorkloads
<1>10. ApplyInv'
  <2> SUFFICES ASSUME NEW w \in Workloads, ApplyOp(w) \in AllOps \cup {row}
               PROVE  w \in app.declared /\ (Built(w) => w \in pushed)
    BY <1>2, <1>4, <1>7 DEF ApplyInv, ApplyOp, Built
  <2>1. ApplyOp(w) # row
    BY <1>5, OpKinds DEF Rows
  <2> QED BY <2>1 DEF ClustersInv, ApplyInv
<1>11. BuiltInv'
  BY <1>2 DEF BuiltInv, NoRelease
<1>12. ~Retired' /\ ~Seen'
  BY <1>3, <1>5, <1>7, <1>8 DEF Retired, Seen
<1>13. LastDocInv'
  BY <1>2, <1>8, <1>12 DEF LastDocInv
<1>14. ManifestInv'
  <2>1. \A r \in Reported : r.op \notin RemoveRow
    BY <1>8 DEF Seen, AgentOps
  <2> QED BY <1>2, <1>4, <1>7, <1>12, <2>1 DEF ClustersInv, ManifestInv, ImagesExist, Built
<1> QED BY <1>6, <1>9, <1>10, <1>11, <1>13, <1>14 DEF ClustersInv

\* A volume removal is confirmed, or the pending rows are read.
LEMMA RowsReadStep ==
  ASSUME ClustersInv, PendingDestructiveOpsForServer \/ \E v \in Volumes : ConfirmDestructiveOp(v)
  PROVE  ClustersInv'
<1>1. /\ UNCHANGED <<cluster, app, registry, release, pushed, k8sDoc, issued, retry, host, k3s, manifests,
                     disks, k8sFails, outcomes>>
  BY DEF PendingDestructiveOpsForServer, ConfirmDestructiveOp, appVars, destroyVars, clusterPassVars, nodeVars
<1>2. /\ pending' \subseteq Rows /\ pending' \cap RemoveRow = pending \cap RemoveRow
      /\ tokens' \in [Volumes -> {"none", "valid", "used", "expired"}]
      /\ pass' \in [pc : {"idle", "workloads"}, removals : SUBSET Rows]
      /\ \A op \in AllOps' : op \in AllOps \/ op \in VolumeRow
  <2>1. CASE PendingDestructiveOpsForServer
    BY <1>1, <2>1 DEF PendingDestructiveOpsForServer, destroyVars, ClustersInv, ClusterTypes, ClustersTypeOK, Rows,
                      AllOps, AgentOps, Reported
  <2>2. ASSUME NEW v \in Volumes, ConfirmDestructiveOp(v)
        PROVE  /\ pending' \subseteq Rows /\ pending' \cap RemoveRow = pending \cap RemoveRow
               /\ tokens' \in [Volumes -> {"none", "valid", "used", "expired"}]
               /\ pass' \in [pc : {"idle", "workloads"}, removals : SUBSET Rows]
               /\ \A op \in AllOps' : op \in AllOps \/ op \in VolumeRow
    <3>1. PICK row : row = [kind |-> "volume.remove", target |-> {v}]
      OBVIOUS
    <3>2. row \in VolumeRow /\ row \notin RemoveRow
      <4>1. row \in VolumeRow
        BY <3>1 DEF VolumeRow
      <4> QED BY <4>1, OpKinds
    <3>3. pending' = pending \cup {row} /\ pass' = pass
      BY <2>2, <3>1 DEF ConfirmDestructiveOp, insertPendingDestructiveOp, clusterPassVars
    <3>4. tokens' \in [Volumes -> {"none", "valid", "used", "expired"}]
      BY <2>2 DEF ConfirmDestructiveOp, ClustersInv, ClusterTypes, ClustersTypeOK
    <3>5. pending \subseteq Rows /\ pass \in [pc : {"idle", "workloads"}, removals : SUBSET Rows]
      BY DEF ClustersInv, ClusterTypes, ClustersTypeOK, Rows
    <3>6. \A op \in AllOps' : op \in AllOps \/ op = row
      BY <1>1, <3>3 DEF AllOps, AgentOps, Reported
    <3> QED BY <3>2, <3>3, <3>4, <3>5, <3>6 DEF Rows
  <2> QED BY <2>1, <2>2
<1>3. ClusterTypes'
  BY <1>1, <1>2 DEF ClustersInv, ClusterTypes, ClustersTypeOK, Rows
<1>4. RemovalInv'
  BY <1>1, <1>2, OpKinds DEF ClustersInv, RemovalInv, k8sTeardownWorkloads
<1>5. ApplyInv'
  <2> SUFFICES ASSUME NEW w \in Workloads, (ApplyOp(w) \in AllOps)'
               PROVE  w \in app.declared /\ (Built(w) => w \in pushed)
    BY <1>1 DEF ApplyInv, Built
  <2>1. ApplyOp(w) \in AllOps
    BY <1>2, OpKinds DEF ApplyOp, Rows
  <2> QED BY <2>1 DEF ClustersInv, ApplyInv
<1>6. Retired' = Retired
  BY <1>1, <1>2 DEF Retired
<1>7. LastDocInv' /\ ManifestInv'
  BY <1>1, <1>6, NodeKept
<1>8. BuiltInv'
  BY <1>1 DEF ClustersInv, BuiltInv
<1> QED BY <1>3, <1>4, <1>5, <1>7, <1>8 DEF ClustersInv

-----------------------------------------------------------------------------
(* Rendering and the build server.                                          *)

\* What a render puts into a document was declared and has its image.
LEMMA WorkloadsRendered ==
  ASSUME ClustersInv, NEW op \in ReadWorkloads
  PROVE  /\ app.state = "live"
         /\ \E w \in Workloads : op = ApplyOp(w) /\ w \in app.declared /\ (Built(w) => w \in pushed)
<1>1. app.state = "live" /\ op \in renderClusterWorkloadOps /\ app.declared \subseteq Workloads
  BY DEF ReadWorkloads, renderClusterWorkloadOps, ClustersInv, ClusterTypes, ClustersTypeOK
<1>2. CASE app.declared = {Plain}
  <2>1. op = ApplyOp(Plain) /\ release.status \in {"deploying", "success"}
    BY <1>1, <1>2 DEF renderClusterWorkloadOps
  <2>2. Plain \in pushed /\ Plain \in Workloads
    BY <1>2, <2>1 DEF ClustersInv, BuiltInv, Workloads
  <2> QED BY <1>1, <1>2, <2>1, <2>2
<1>3. CASE app.declared # {Plain}
  <2>1. op \in renderClusterComposeOps
    BY <1>1, <1>3 DEF renderClusterWorkloadOps
  <2>2. PICK w \in app.declared : op = ApplyOp(w) /\ (~Built(w) \/ ServiceBuilt(w))
    BY <2>1 DEF renderClusterComposeOps
  <2>3. w \in Workloads
    BY <1>1, <2>2
  <2>4. Built(w) => w \in pushed
    BY <2>2, <2>3 DEF ServiceBuilt, ClustersInv, BuiltInv
  <2> QED BY <1>1, <2>2, <2>3, <2>4
<1> QED BY <1>2, <1>3

\* A document stored after the delete has no workload in it; before it no op
\* of a document is the teardown.
LEMMA RenderStep == ASSUME ClustersInv, RenderAndStore PROVE ClustersInv'
<1>1. /\ UNCHANGED <<cluster, app, registry, release, pushed, pending, tokens, host, k3s, manifests, disks, k8sFails, outcomes>>
      /\ pass' = NoPass /\ k8sDoc' = renderClusterNodeOp \cup ReadWorkloads \cup pass.removals
  BY DEF RenderAndStore, appVars, destroyVars, nodeVars
<1>2. pass.removals \subseteq Rows /\ renderClusterNodeOp \subseteq {NodeOp}
  BY DEF ClustersInv, ClusterTypes, renderClusterNodeOp
<1>3. \A op \in k8sDoc' : op = NodeOp \/ op \in ReadWorkloads \/ op \in pass.removals
  BY <1>1, <1>2
<1>4. k8sDoc' \subseteq K8sOps
  BY <1>2, <1>3, OpKinds, WorkloadsRendered
<1>5. NoPass \in [pc : {"idle", "workloads"}, removals : SUBSET Rows] /\ NoPass.removals = {}
  BY DEF NoPass
<1>6. ClusterTypes'
  BY <1>1, <1>4, <1>5 DEF ClustersInv, ClusterTypes, ClustersTypeOK
<1>7. \A op \in AllOps' : op \in AllOps \/ op = NodeOp \/ op \in ReadWorkloads
  BY <1>1, <1>3, <1>5 DEF AllOps, AgentOps, Reported
<1>8. \A op \in ReadWorkloads : op \notin RemoveRow
  BY WorkloadsRendered, OpKinds DEF Rows
<1>9. RemovalInv'
  BY <1>1, <1>7, <1>8, OpKinds DEF ClustersInv, RemovalInv, k8sTeardownWorkloads, Rows
<1>10. ApplyInv'
  <2> SUFFICES ASSUME NEW w \in Workloads, (ApplyOp(w) \in AllOps)'
               PROVE  w \in app.declared /\ (Built(w) => w \in pushed)
    BY <1>1 DEF ApplyInv, Built
  <2>1. ApplyOp(w) \in AllOps \/ ApplyOp(w) \in ReadWorkloads
    BY <1>7, OpKinds DEF ApplyOp
  <2>2. CASE ApplyOp(w) \in AllOps
    BY <2>2 DEF ClustersInv, ApplyInv
  <2>3. CASE ApplyOp(w) \in ReadWorkloads
    <3>1. PICK v \in Workloads : ApplyOp(w) = ApplyOp(v) /\ v \in app.declared /\ (Built(v) => v \in pushed)
      BY <2>3, WorkloadsRendered
    <3> QED BY <3>1, OpKinds
  <2> QED BY <2>1, <2>2, <2>3
<1>11. BuiltInv'
  BY <1>1 DEF ClustersInv, BuiltInv
<1>12. AgentOps' = AgentOps /\ Reported' = Reported /\ (Seen' <=> Seen) /\ (Retired' <=> Retired)
  BY <1>1 DEF AgentOps, Reported, Seen, Retired
<1>13. LastDocInv'
  <2>1. CASE app.state = "deleted"
    <3>1. ReadWorkloads = {}
      BY <2>1, WorkloadsRendered
    <3>2. NoApply(k8sDoc)'
      <4> SUFFICES ASSUME NEW w \in Workloads, ApplyOp(w) \in k8sDoc' PROVE FALSE
        BY DEF NoApply, ApplyOp
      <4> QED BY <1>2, <1>3, <3>1, OpKinds
    <3>3. Seen \/ Retired => NoApply(host.todo)
      BY DEF ClustersInv, LastDocInv
    <3> QED BY <1>1, <1>12, <3>2, <3>3 DEF LastDocInv, NoApply
  <2>2. CASE app.state # "deleted"
    <3>1. ~Seen /\ ~Retired /\ pass.removals \cap RemoveRow = {}
      BY <2>2, NoTeardownYet DEF AllOps
    <3>2. k8sDoc' \cap RemoveRow = {}
      BY <1>3, <1>8, <3>1, OpKinds DEF Rows
    <3> QED BY <1>12, <3>1, <3>2 DEF LastDocInv
  <2> QED BY <2>1, <2>2
<1>14. ManifestInv'
  BY <1>1, <1>12 DEF ClustersInv, ManifestInv, ImagesExist, Built
<1> QED BY <1>6, <1>9, <1>10, <1>11, <1>13, <1>14 DEF ClustersInv

\* AdvanceServices moves a service only where its image is there.
LEMMA ServicesAdvance ==
  ASSUME ClustersInv, app.state # "none", NEW failed, NEW moved, NEW to \in {"deploying", "success", "failed"},
         AdvanceServices(failed, moved, to), pushed \subseteq pushed',
         to # "failed" => \A w \in moved \ failed : Built(w) => w \in pushed',
         app.declared = {Plain} => Plain \in pushed' \/ Plain \in failed,
         UNCHANGED app
  PROVE  /\ BuiltInv'
         /\ release' \in [status : {"none", "queued", "deploying", "success", "failed"},
                          svc : [Workloads -> {"none", "deploying", "success", "failed"}]]
<1> DEFINE svc == [w \in Workloads |->
                     IF release.svc[w] = "success" THEN "success"
                     ELSE IF w \in failed THEN "failed"
                     ELSE IF w \in moved THEN to ELSE release.svc[w]]
           st == IF \E w \in Workloads : svc[w] = "failed" THEN "failed"
                 ELSE IF \A w \in app.declared : svc[w] = "success" THEN "success" ELSE "deploying"
           new == IF release.status \in InFlightRelease THEN st ELSE release.status
<1>1. release' = [svc |-> svc, status |-> new]
  BY DEF AdvanceServices, SetRelease
<1>2. release \in [status : {"none", "queued", "deploying", "success", "failed"},
                   svc : [Workloads -> {"none", "deploying", "success", "failed"}]]
  BY DEF ClustersInv, ClusterTypes, ClustersTypeOK
<1>3. svc \in [Workloads -> {"none", "deploying", "success", "failed"}]
  BY <1>2
<1>4. \A w \in Workloads : svc[w] \in {"deploying", "success"} =>
         release.svc[w] \in {"deploying", "success"} \/ (w \in moved \ failed /\ to # "failed")
  BY <1>2
<1>5. Plain \in failed => release.svc[Plain] = "success" \/ svc[Plain] = "failed"
  BY DEF Workloads
<1> HIDE DEF svc
<1>6. st \in {"failed", "success", "deploying"} /\ (svc[Plain] = "failed" => st = "failed")
  BY DEF Workloads
<1>7. release'.svc = svc /\ release'.status = new
  BY <1>1
<1> HIDE DEF st
<1>8. new \in {"none", "queued", "deploying", "success", "failed"}
  BY <1>2, <1>6
<1>9. \A w \in Workloads : release'.svc[w] \in {"deploying", "success"} /\ Built(w) => w \in pushed'
  BY <1>4, <1>7 DEF ClustersInv, BuiltInv
<1>10. app.declared = {Plain} /\ release'.status \in {"deploying", "success"} => Plain \in pushed'
  <2> SUFFICES ASSUME app.declared = {Plain}, new \in {"deploying", "success"} PROVE Plain \in pushed'
    BY <1>7
  <2>1. CASE Plain \in pushed'
    BY <2>1
  <2>2. CASE Plain \in failed /\ release.svc[Plain] = "success"
    BY <2>2, ClustersAssumption DEF ClustersInv, BuiltInv, Workloads, Built
  <2>3. CASE svc[Plain] = "failed" /\ release.status \in InFlightRelease
    BY <1>6, <2>3
  <2>4. CASE release.status \notin InFlightRelease
    BY <2>4 DEF ClustersInv, BuiltInv
  <2> QED BY <1>5, <2>1, <2>2, <2>3, <2>4
<1>11. BuiltInv'
  BY <1>9, <1>10 DEF BuiltInv, Built
<1> QED BY <1>1, <1>3, <1>8, <1>11

\* A build reports.
LEMMA BuildStep == ASSUME ClustersInv, NEW w \in Workloads, renderClusterBuildOps(w) PROVE ClustersInv'
<1>1. /\ UNCHANGED <<cluster, app, registry, pending, tokens, pass, k8sDoc, issued, retry, host, k3s, manifests,
                     disks, outcomes>>
      /\ app.state = "live" /\ w \in app.declared
  BY DEF renderClusterBuildOps, ClusterBuildSpecsForServer, appVars, destroyVars, clusterPassVars
<1>2. k8sFails \in 0..MaxK8sFails /\ pushed \subseteq Workloads
  BY DEF ClustersInv, ClusterTypes, ClustersTypeOK
<1>3. /\ pushed \subseteq pushed' /\ pushed' \subseteq Workloads /\ k8sFails' \in 0..MaxK8sFails /\ BuiltInv'
      /\ release' \in [status : {"none", "queued", "deploying", "success", "failed"},
                       svc : [Workloads -> {"none", "deploying", "success", "failed"}]]
  <2>1. CASE pushed' = pushed \cup {w} /\ AdvanceServices({}, {w}, "deploying") /\ UNCHANGED k8sFails
    <3>1. app.declared = {Plain} => Plain \in pushed'
      BY <1>1, <2>1
    <3>2. pushed \subseteq pushed' /\ \A v \in {w} \ {} : Built(v) => v \in pushed'
      BY <2>1
    <3> QED BY <1>1, <1>2, <2>1, <3>1, <3>2, ServicesAdvance
  <2>2. CASE k8sFails < MaxK8sFails /\ k8sFails' = k8sFails + 1 /\ AdvanceServices({w}, {}, "failed") /\ UNCHANGED pushed
    <3>1. app.declared = {Plain} => Plain \in {w}
      BY <1>1
    <3>2. k8sFails' \in 0..MaxK8sFails
      BY <1>2, <2>2, ClustersAssumption
    <3> QED BY <1>1, <1>2, <2>2, <3>1, <3>2, ServicesAdvance
  <2> QED BY <2>1, <2>2 DEF renderClusterBuildOps
<1>4. ClusterTypes'
  BY <1>1, <1>3 DEF ClustersInv, ClusterTypes, ClustersTypeOK
<1>5. AllOps' = AllOps /\ Retired' = Retired
  BY <1>1 DEF AllOps, AgentOps, Reported, Retired
<1>6. RemovalInv' /\ ApplyInv'
  BY <1>1, <1>3, <1>5, OpsShrink
<1>7. LastDocInv' /\ ManifestInv'
  BY <1>1, <1>3, <1>5, NodeKept
<1> QED BY <1>3, <1>4, <1>6, <1>7 DEF ClustersInv

-----------------------------------------------------------------------------
(* The node.                                                                *)

\* The agent takes a document.
LEMMA FetchStep == ASSUME ClustersInv, FetchK8sDoc PROVE ClustersInv'
<1>1. /\ UNCHANGED <<cluster, app, registry, release, pushed, pending, tokens, pass, k8sDoc, retry, k3s, manifests,
                     disks, k8sFails, outcomes>>
      /\ host' = [todo |-> k8sDoc, done |-> {}, results |-> {}]
  BY DEF FetchK8sDoc, appVars, destroyVars
<1>2. k8sDoc \subseteq K8sOps
  BY DEF ClustersInv, ClusterTypes, ClustersTypeOK
<1>3. host'.todo = k8sDoc /\ host'.results = {}
  BY <1>1
<1>4. ClusterTypes'
  BY <1>1, <1>2 DEF ClustersInv, ClusterTypes, ClustersTypeOK
<1>5. AllOps' \subseteq AllOps /\ Reported' \subseteq Reported
  BY <1>1, <1>3 DEF AllOps, AgentOps, Reported
<1>6. RemovalInv' /\ ApplyInv'
  BY <1>1, <1>5, OpsShrink
<1>7. BuiltInv'
  BY <1>1 DEF ClustersInv, BuiltInv
<1>8. (Seen' => Seen \/ k8sDoc \cap RemoveRow # {}) /\ (Retired' <=> Retired)
  BY <1>1, <1>3, <1>5 DEF Seen, AgentOps, Retired
<1>9. LastDocInv'
  BY <1>1, <1>3, <1>8 DEF ClustersInv, LastDocInv, NoApply
<1>10. ManifestInv'
  BY <1>1, <1>5, <1>8 DEF ClustersInv, ManifestInv, ImagesExist, Built
<1> QED BY <1>4, <1>6, <1>7, <1>9, <1>10 DEF ClustersInv

\* An op of the document is done with, whatever it did to the node.
LEMMA FinishStep ==
  ASSUME ClustersInv, NEW op \in host.todo, NEW ok \in BOOLEAN, Finish(op, ok),
         UNCHANGED <<appVars, release, pushed, destroyVars, clusterPassVars, outcomes>>,
         manifests' \subseteq app.declared, \A w \in manifests' : Built(w) => w \in pushed,
         ok /\ op \in RemoveRow => manifests' = {},
         manifests' \subseteq manifests \/ (~Seen /\ ~Retired /\ op \notin RemoveRow),
         disks' \subseteq Volumes, k8sFails' \in 0..MaxK8sFails
  PROVE  ClustersInv'
<1>1. /\ UNCHANGED <<cluster, app, registry, release, pushed, pending, tokens, pass, k8sDoc, issued, retry, outcomes>>
      /\ host \in [todo : SUBSET K8sOps, done : SUBSET K8sOps, results : SUBSET Results] /\ app.declared \subseteq Workloads
  BY DEF appVars, destroyVars, clusterPassVars, ClustersInv, ClusterTypes, ClustersTypeOK
<1>2. PICK r : r = [op |-> op, ok |-> ok]
  OBVIOUS
<1>3. r \in Results /\ r.op = op /\ r.ok = ok
  BY <1>1, <1>2 DEF Results
<1>4. /\ host' \in [todo : SUBSET K8sOps, done : SUBSET K8sOps, results : SUBSET Results]
      /\ host'.todo = host.todo \ {op} /\ host'.results = host.results \cup {r}
  BY <1>1, <1>2, <1>3 DEF Finish
<1>5. ClusterTypes'
  BY <1>1, <1>4 DEF ClustersInv, ClusterTypes, ClustersTypeOK
<1>6. Reported' = Reported \cup {r}
  BY <1>1, <1>4 DEF Reported
<1>7. AgentOps' \subseteq AgentOps
  BY <1>3, <1>4, <1>6 DEF AgentOps
<1>8. AllOps' \subseteq AllOps
  BY <1>1, <1>7 DEF AllOps
<1>9. RemovalInv' /\ ApplyInv'
  BY <1>1, <1>8, OpsShrink
<1>10. BuiltInv'
  BY <1>1 DEF ClustersInv, BuiltInv
<1>11. (Seen' => Seen) /\ (Retired' <=> Retired) /\ (op \in RemoveRow => Seen)
  BY <1>1, <1>7 DEF Seen, Retired, AgentOps
<1>12. LastDocInv'
  BY <1>1, <1>4, <1>11 DEF ClustersInv, LastDocInv, NoApply
<1>13. ManifestInv'
  <2>1. ImagesExist'
    BY <1>1 DEF ImagesExist, Built
  <2>2. ASSUME Retired' \/ \E x \in Reported' : x.ok /\ x.op \in RemoveRow PROVE manifests' = {}
    <3>1. CASE ok /\ op \in RemoveRow
      BY <3>1
    <3>2. CASE ~(ok /\ op \in RemoveRow)
      <4>1. Retired \/ \E x \in Reported : x.ok /\ x.op \in RemoveRow
        BY <1>3, <1>6, <1>11, <2>2, <3>2
      <4>2. Seen \/ Retired
        BY <4>1 DEF Seen, AgentOps
      <4> QED BY <4>1, <4>2 DEF ClustersInv, ManifestInv
    <3> QED BY <3>1, <3>2
  <2> QED BY <1>1, <2>1, <2>2 DEF ManifestInv
<1> QED BY <1>5, <1>9, <1>10, <1>12, <1>13 DEF ClustersInv

\* The ops of a document, one by one.
LEMMA NodeStep ==
  ASSUME ClustersInv,
         SkipOp \/ applyNode \/ removeWorkloads \/ opVolumeRemove \/ \E w \in Workloads : applyWorkload(w)
  PROVE  ClustersInv'
<1>1. /\ manifests \subseteq app.declared /\ \A w \in manifests : Built(w) => w \in pushed
      /\ disks \subseteq Volumes /\ k8sFails \in 0..MaxK8sFails
  BY DEF ClustersInv, ManifestInv, ImagesExist, ClusterTypes, ClustersTypeOK
<1>2. MayFail => k8sFails' \in 0..MaxK8sFails
  BY <1>1, ClustersAssumption DEF MayFail
<1>3. CASE SkipOp
  <2>1. PICK op \in host.todo : Finish(op, FALSE)
    BY <1>3 DEF SkipOp
  <2>2. UNCHANGED <<appVars, release, pushed, destroyVars, clusterPassVars, outcomes, manifests, disks, k8sFails>>
    BY <1>3 DEF SkipOp
  <2> QED BY <1>1, <2>1, <2>2, FinishStep
<1>4. CASE applyNode
  <2>0. PICK op : op = NodeOp
    OBVIOUS
  <2>1. PICK ok \in BOOLEAN : Finish(op, ok) /\ k8sFails' \in 0..MaxK8sFails
    BY <1>1, <1>2, <1>4, <2>0 DEF applyNode
  <2>2. op \in host.todo /\ op \notin RemoveRow
    BY <1>4, <2>0, OpKinds DEF applyNode, Ready, Rows
  <2>3. UNCHANGED <<appVars, release, pushed, destroyVars, clusterPassVars, outcomes, manifests, disks>>
    BY <1>4 DEF applyNode
  <2> QED BY <1>1, <2>1, <2>2, <2>3, FinishStep
<1>5. CASE opVolumeRemove
  <2>1. PICK op \in host.todo \cap VolumeRow :
           \E ok \in BOOLEAN : Finish(op, ok) /\ k8sFails' \in 0..MaxK8sFails /\ disks' \subseteq disks
    BY <1>1, <1>2, <1>5 DEF opVolumeRemove
  <2>2. op \notin RemoveRow
    BY <2>1, OpKinds
  <2>3. UNCHANGED <<appVars, release, pushed, destroyVars, clusterPassVars, outcomes, manifests>>
    BY <1>5 DEF opVolumeRemove
  <2>4. disks' \subseteq Volumes
    BY <1>1, <2>1
  <2> QED BY <1>1, <2>1, <2>2, <2>3, <2>4, FinishStep
<1>6. CASE removeWorkloads
  <2>1. PICK op \in host.todo \cap RemoveRow :
           \/ manifests' = manifests \ op.target /\ Finish(op, TRUE) /\ UNCHANGED k8sFails
           \/ MayFail /\ Finish(op, FALSE) /\ \E gone \in SUBSET op.target : manifests' = manifests \ gone
    BY <1>6 DEF removeWorkloads
  <2>2. UNCHANGED <<appVars, release, pushed, destroyVars, clusterPassVars, outcomes, disks>>
    BY <1>6 DEF removeWorkloads
  <2>3. op.target = k8sTeardownWorkloads(app.declared)
    BY <2>1 DEF ClustersInv, RemovalInv, AllOps, AgentOps
  <2>4. manifests \ op.target = {}
    BY <1>1, <2>3 DEF k8sTeardownWorkloads
  <2>5. CASE manifests' = manifests \ op.target /\ Finish(op, TRUE) /\ UNCHANGED k8sFails
    BY <1>1, <2>1, <2>2, <2>4, <2>5, FinishStep
  <2>6. CASE MayFail /\ Finish(op, FALSE) /\ \E gone \in SUBSET op.target : manifests' = manifests \ gone
    <3>1. manifests' \subseteq manifests
      BY <2>6
    <3> QED BY <1>1, <1>2, <2>1, <2>2, <2>6, <3>1, FinishStep
  <2> QED BY <2>1, <2>5, <2>6
<1>7. ASSUME NEW w \in Workloads, applyWorkload(w) PROVE ClustersInv'
  <2>1. PICK op : op = ApplyOp(w)
    OBVIOUS
  <2>2. op \in host.todo /\ op \notin RemoveRow
    BY <1>7, <2>1, OpKinds DEF applyWorkload, Ready, Rows
  <2>3. w \in app.declared /\ (Built(w) => w \in pushed)
    BY <2>1, <2>2 DEF ClustersInv, ApplyInv, AllOps, AgentOps
  <2>4. ~Seen /\ ~Retired
    BY <2>1, <2>2 DEF ClustersInv, LastDocInv, NoApply
  <2>5. UNCHANGED <<appVars, release, pushed, destroyVars, clusterPassVars, outcomes, disks>>
    BY <1>7 DEF applyWorkload
  <2>6. manifests' \subseteq manifests \cup {w}
    BY <1>7 DEF applyWorkload
  <2>7. PICK ok \in BOOLEAN : Finish(op, ok) /\ k8sFails' \in 0..MaxK8sFails
    BY <1>1, <1>2, <1>7, <2>1 DEF applyWorkload
  <2>8. manifests' \subseteq app.declared /\ \A v \in manifests' : Built(v) => v \in pushed
    BY <1>1, <2>3, <2>6
  <2> QED BY <1>1, <2>2, <2>4, <2>5, <2>7, <2>8, FinishStep
<1> QED BY <1>3, <1>4, <1>5, <1>6, <1>7

\* A report is sent.
LEMMA SendStep == ASSUME ClustersInv, SendK8sStatus PROVE ClustersInv'
<1>1. /\ UNCHANGED <<cluster, app, registry, release, pushed, pending, tokens, pass, k8sDoc, issued, retry, host, k3s,
                     manifests, disks, k8sFails>>
  BY DEF SendK8sStatus, appVars, destroyVars, clusterPassVars, nodeVars
<1>2. \A rep \in outcomes' : rep \in outcomes \/ rep = host.results
  BY DEF SendK8sStatus
<1>3. host \in [todo : SUBSET K8sOps, done : SUBSET K8sOps, results : SUBSET Results] /\ outcomes \subseteq SUBSET Results
  BY DEF ClustersInv, ClusterTypes
<1>4. outcomes' \subseteq SUBSET Results
  BY <1>2, <1>3
<1>5. ClusterTypes'
  BY <1>1, <1>4 DEF ClustersInv, ClusterTypes, ClustersTypeOK
<1>6. Reported' \subseteq Reported
  BY <1>1, <1>2 DEF Reported
<1>7. AgentOps' \subseteq AgentOps /\ AllOps' \subseteq AllOps
  BY <1>1, <1>6 DEF AgentOps, AllOps
<1>8. RemovalInv' /\ ApplyInv'
  BY <1>1, <1>7, OpsShrink
<1>9. BuiltInv'
  BY <1>1 DEF ClustersInv, BuiltInv
<1>10. (Seen' => Seen) /\ (Retired' <=> Retired)
  BY <1>1, <1>7 DEF Seen, Retired
<1>11. LastDocInv'
  BY <1>1, <1>10 DEF ClustersInv, LastDocInv, NoApply
<1>12. ManifestInv'
  BY <1>1, <1>6, <1>10 DEF ClustersInv, ManifestInv, ImagesExist, Built
<1> QED BY <1>5, <1>8, <1>9, <1>11, <1>12 DEF ClustersInv

\* A report is ingested, for the first time or again.
LEMMA IngestStep == ASSUME ClustersInv, IngestK8sStatus PROVE ClustersInv'
<1> DEFINE Rolled(rep, ok) == UNION {r.op.target : r \in {x \in rep : x.op.kind = "k8s.apply" /\ x.ok = ok}}
<1>1. PICK rep \in outcomes :
         /\ pending' = pending \ {r.op : r \in {x \in rep : MarkDestructiveOpApplied(x)}}
         /\ IF app.state = "live" /\ release.status \in InFlightRelease
               /\ Rolled(rep, TRUE) \cup Rolled(rep, FALSE) # {}
            THEN AdvanceServices(Rolled(rep, FALSE), Rolled(rep, TRUE), "success")
            ELSE UNCHANGED release
  BY DEF IngestK8sStatus
<1>2. /\ UNCHANGED <<cluster, app, registry, pushed, tokens, pass, k8sDoc, issued, host, k3s, manifests,
                     disks, k8sFails, outcomes>>
  BY DEF IngestK8sStatus, appVars, nodeVars
<1>3. rep \subseteq Reported /\ rep \subseteq Results
  BY <1>1 DEF Reported, ClustersInv, ClusterTypes
<1>4. \A b \in BOOLEAN : \A w \in Rolled(rep, b) : w \in app.declared /\ (Built(w) => w \in pushed)
  <2> SUFFICES ASSUME NEW b \in BOOLEAN, NEW x \in rep, x.op.kind = "k8s.apply", NEW w \in x.op.target
               PROVE  w \in app.declared /\ (Built(w) => w \in pushed)
    OBVIOUS
  <2>1. x.op \in AllOps /\ x.op \in K8sOps
    BY <1>3 DEF AllOps, AgentOps, Results
  <2>2. PICK v \in Workloads : x.op = ApplyOp(v)
    BY <2>1, OpKinds DEF Rows
  <2>3. w = v
    BY <2>2, OpKinds
  <2> QED BY <2>1, <2>2, <2>3 DEF ClustersInv, ApplyInv
<1>5. /\ BuiltInv'
      /\ release' \in [status : {"none", "queued", "deploying", "success", "failed"},
                       svc : [Workloads -> {"none", "deploying", "success", "failed"}]]
      /\ app.state = "none" => release'.status = "none"
  <2>1. CASE app.state = "live" /\ Rolled(rep, TRUE) \cup Rolled(rep, FALSE) # {}
             /\ AdvanceServices(Rolled(rep, FALSE), Rolled(rep, TRUE), "success")
    <3>1. PICK failed, moved : failed = Rolled(rep, FALSE) /\ moved = Rolled(rep, TRUE)
      OBVIOUS
    <3>2. \A w \in moved \cup failed : w \in app.declared /\ (Built(w) => w \in pushed)
      BY <1>4, <3>1
    <3>3. AdvanceServices(failed, moved, "success") /\ moved \cup failed # {}
      BY <2>1, <3>1
    <3> HIDE DEF Rolled
    <3>4. app.declared = {Plain} => Plain \in pushed
      BY <3>2, <3>3, ClustersAssumption DEF Built
    <3>5. pushed' = pushed /\ app' = app /\ app.state # "none"
      BY <1>2, <2>1
    <3> QED BY <2>1, <3>2, <3>3, <3>4, <3>5, ServicesAdvance
  <2>2. CASE UNCHANGED release
    BY <1>2, <2>2 DEF ClustersInv, BuiltInv, ClusterTypes, ClustersTypeOK
  <2> QED BY <1>1, <2>1, <2>2
<1> HIDE DEF Rolled
<1>6. pending' \subseteq pending
  BY <1>1
<1>7. ClusterTypes'
  BY <1>2, <1>5, <1>6 DEF ClustersInv, ClusterTypes, ClustersTypeOK
<1>8. AgentOps' = AgentOps /\ Reported' = Reported /\ AllOps' \subseteq AllOps
  BY <1>2, <1>6 DEF AllOps, AgentOps, Reported
<1>9. RemovalInv' /\ ApplyInv'
  BY <1>2, <1>8, OpsShrink
<1>10. Retired' => Retired \/ \E r \in Reported : r.ok /\ r.op \in RemoveRow
  <2> SUFFICES ASSUME Retired', ~Retired PROVE \E r \in Reported : r.ok /\ r.op \in RemoveRow
    OBVIOUS
  <2>1. PICK op \in pending \cap RemoveRow : op \notin pending'
    BY <1>2 DEF Retired
  <2>2. PICK x \in rep : MarkDestructiveOpApplied(x) /\ x.op = op
    BY <1>1, <2>1
  <2> QED BY <1>3, <2>1, <2>2 DEF MarkDestructiveOpApplied
<1>11. Retired' => Retired \/ Seen
  BY <1>10 DEF Seen, AgentOps
<1>12. LastDocInv'
  BY <1>2, <1>8, <1>11 DEF ClustersInv, LastDocInv, NoApply, Seen
<1>13. ManifestInv'
  BY <1>2, <1>8, <1>10 DEF ClustersInv, ManifestInv, ImagesExist, Built
<1> QED BY <1>5, <1>7, <1>9, <1>12, <1>13 DEF ClustersInv

-----------------------------------------------------------------------------
(* Theorems of Clusters.                                                    *)

\* Every step keeps the invariant.
LEMMA ClustersStep == ClustersInv /\ [ClustersNext]_clusterVars => ClustersInv'
<1> SUFFICES ASSUME ClustersInv, [ClustersNext]_clusterVars PROVE ClustersInv'
  OBVIOUS
<1>1. CASE UNCHANGED clusterVars
  <2>1. UNCHANGED <<cluster, app, registry, release, pushed, pending, tokens, pass, k8sDoc, issued,
                    host, k3s, manifests, disks, outcomes, retry, k8sFails>>
    BY <1>1 DEF clusterVars
  <2>2. AgentOps' = AgentOps /\ Reported' = Reported /\ AllOps' = AllOps /\ Retired' = Retired
    BY <2>1 DEF AllOps, AgentOps, Reported, Retired
  <2>3. ClusterTypes' /\ BuiltInv'
    BY <2>1 DEF ClustersInv, ClusterTypes, ClustersTypeOK, BuiltInv
  <2>4. RemovalInv' /\ ApplyInv'
    BY <2>1, <2>2, OpsShrink
  <2>5. LastDocInv' /\ ManifestInv'
    BY <2>1, <2>2, NodeKept
  <2> QED BY <2>3, <2>4, <2>5 DEF ClustersInv
<1>2. CASE ClustersNext
  BY <1>2, ClusterRowStep, CreateAppStep, QuietStep, DeleteAppStep, RowsReadStep, RenderStep, BuildStep, FetchStep,
     NodeStep, SendStep, IngestStep DEF ClustersNext
<1> QED BY <1>1, <1>2

\* The invariant holds in every state of every behaviour.
LEMMA ClustersInvHolds == ClustersSpec => []ClustersInv
BY ClustersInitInv, ClustersStep, PTL DEF ClustersSpec

\* Every variable of the cluster holds a value of its kind.
THEOREM ClustersTypeCorrect == ClustersSpec => []ClustersTypeOK
BY ClustersInvHolds, PTL DEF ClustersInv, ClusterTypes

\* Whatever app and whatever order of builds, reports and passes, a manifest on
\* the node has its image in the registry.
THEOREM ImagesExistCorrect == ClustersSpec => []ImagesExist
BY ClustersInvHolds, PTL DEF ClustersInv, ManifestInv

\* Once the teardown of a deleted app is retired nothing of it is on the node
\* and nothing that is still to be applied brings it back.
THEOREM NoOrphansCorrect == ClustersSpec => []NoOrphans
<1>1. ClustersInv => NoOrphans
  BY DEF ClustersInv, ManifestInv, LastDocInv, NoApply, Retired, NoOrphans
<1> QED BY <1>1, ClustersInvHolds, PTL
=============================================================================
