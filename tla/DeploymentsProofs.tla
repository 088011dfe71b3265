------------------------- MODULE DeploymentsProofs -------------------------
(***************************************************************************)
(* Proofs that Deployments keeps its safety properties for any number of   *)
(* transactions, handlers, replicas, deployments and reports, with or      *)
(* without a dedicated build server.                                       *)
(***************************************************************************)
EXTENDS DeploymentsRefinement, WellFoundedInduction, NaturalsInduction, TLAPS

(* The largest and the least of a set of numbers: what ORDER BY created_at *)
(* LIMIT 1 and the queue's FIFO order rest on.                             *)

\* A set of naturals has a least member.
LEMMA LeastExists ==
  ASSUME NEW S, S \subseteq Nat, S # {}
  PROVE  \E m \in S : \A k \in S : m <= k
<1>1. PICK m \in S : \A k \in S : ~ (<<k, m>> \in OpToRel(<, Nat))
  BY NatLessThanWellFounded, WFMin, Zenon
<1>2. \A k \in S : ~ (k < m)
  BY <1>1 DEF OpToRel
<1> QED BY <1>2

\* A bounded set of naturals has a largest member.
LEMMA LargestExists ==
  ASSUME NEW n \in Nat, NEW S, S \subseteq 0..n, S # {}
  PROVE  \E m \in S : \A k \in S : k <= m
<1> DEFINE D == {n - i : i \in S}
<1>1. \A k \in S : k \in Int /\ n - k \in Nat
  OBVIOUS
<1>2. D \subseteq Nat
  BY <1>1
<1>3. PICK i \in S : TRUE
  OBVIOUS
<1>4. n - i \in D
  BY <1>3
<1>5. \A k \in S : n - k \in D
  OBVIOUS
<1>6. \A d \in D : \E k \in S : d = n - k
  OBVIOUS
<1> HIDE DEF D
<1>7. PICK m \in D : \A k \in D : m <= k
  BY <1>2, <1>4, LeastExists, Zenon
<1>8. PICK j \in S : m = n - j
  BY <1>6
<1>9. \A k \in S : n - j <= n - k
  BY <1>5, <1>7, <1>8
<1>10. \A k \in S : k <= j
  BY <1>1, <1>9
<1> QED BY <1>10

\* Newest answers a row of the set it searches, or 0 when that is empty.
LEMMA NewestIsMember ==
  ASSUME NEW S, S \subseteq Ids, MaxDeploys \in Nat
  PROVE  IF S = {} THEN Newest(S) = 0
         ELSE Newest(S) \in S /\ Newest(S) # 0 /\ \A j \in S : j <= Newest(S)
<1>1. CASE S = {}
  BY <1>1 DEF Newest
<1>2. CASE S # {}
  <2>1. S \subseteq 0..MaxDeploys
    BY DEF Ids
  <2>2. \E i \in S : \A j \in S : j <= i
    BY <1>2, <2>1, LargestExists, Zenon
  <2>3. Newest(S) \in S /\ \A j \in S : j <= Newest(S)
    BY <1>2, <2>2 DEF Newest
  <2>4. Newest(S) # 0
    BY <2>3 DEF Ids
  <2> QED BY <1>2, <2>3, <2>4
<1> QED BY <1>1, <1>2

\* A handler with work left has a next phase (the sort of handleDSDStatus).
LEMMA NextPhaseIsLeft ==
  ASSUME NEW todo, todo \subseteq Phases, todo # {}
  PROVE  NextPhase(todo) \in todo
<1>1. \E p \in todo : \A q \in todo : deployPhaseRank[p] <= deployPhaseRank[q]
  <2>1. CASE "pull" \in todo
    BY <2>1 DEF Phases, deployPhaseRank
  <2>2. CASE "pull" \notin todo /\ "clone" \in todo
    BY <2>2 DEF Phases, deployPhaseRank
  <2>3. CASE "pull" \notin todo /\ "clone" \notin todo /\ "build" \in todo
    BY <2>3 DEF Phases, deployPhaseRank
  <2>4. CASE todo = {"rollout"}
    BY <2>4 DEF deployPhaseRank
  <2> QED BY <2>1, <2>2, <2>3, <2>4 DEF Phases
<1> QED BY <1>1 DEF NextPhase

----------------------------------------------------------------------------
(* The inductive invariant: the rows, the counters, the open transactions, *)
(* the documents and the reconciles that made them, the agents, and the    *)
(* reports under way each keep to rows that exist.                         *)

RowsInv == DOMAIN deps \subseteq Ids /\ deps \in [DOMAIN deps -> Row]

CountInv ==
    /\ head \in Commits /\ queue \subseteq 1..head
    /\ nextId \in 1..(MaxDeploys + 1) /\ bumps \in 0..MaxBumps
    /\ DOMAIN deps \subseteq 1..(nextId - 1)

Opened == [id : 0..MaxDeploys, trigger : Building \cup {"rollback", "config"},
           commit : Commits, pin : 0..MaxDeploys]

\* Open transactions have ids of their own, given out and not yet inserted.
TxInv ==
    /\ tx \in [Txns -> {NoTx} \cup Opened]
    /\ \A t \in Txns : tx[t].id \in 0..(nextId - 1) /\ tx[t].id \notin DOMAIN deps
    /\ \A t \in Txns : tx[t].id # 0 => tx[t] \in Opened /\ tx[t].pin # 0
    /\ \A t, u \in Txns : tx[t].id = tx[u].id /\ tx[t].id # 0 => t = u

\* A pull is never the only op: its rollout comes with it.
WholeJob(ops) == ops \subseteq Phases /\ ("pull" \in ops => "rollout" \in ops)

AboutARow(app) ==
    /\ app \in App /\ WholeJob(app.ops)
    /\ app.dep \in DOMAIN deps \cup {0} /\ (app.ops # {} => app.dep # 0)

Reconcile == [pc : {"store", "stamp"}, app : App, target : Ids \cup {0}]

DocInv ==
    /\ doc \in [Servers -> [version : Nat, app : App]]
    /\ \A s \in Servers : AboutARow(doc[s].app)
    /\ rec \in [Servers -> {NoJob} \cup Reconcile]
    /\ \A s \in Servers : rec[s].pc # "idle" => AboutARow(rec[s].app)

AgentInv ==
    /\ applied \in [Servers -> Nat]
    /\ images \subseteq Ids /\ earned \subseteq DOMAIN deps

Reported(r) == WholeJob(DOMAIN r) /\ DOMAIN r # {}

\* What a phase's outcome can ask for.
Asked == {"building", "deploying", "success", "failed"}

\* A handler has a phase left to do, and writes a status of a row it has read.
Working(job) ==
    /\ Reported(job.msg.res)
    /\ job.todo \subseteq Todo(job.msg.res) /\ job.todo # {}
    /\ job.pc = "write" => job.dep \in DOMAIN deps /\ job.to \in Asked

ReportInv ==
    /\ \A m \in net : Reported(m.res)
    /\ hnd = [h \in Handlers |-> hnd[h]]
    /\ \A h \in Handlers : /\ hnd[h].pc \in {"idle", "read", "write"}
                           /\ hnd[h].pc # "idle" => Working(hnd[h])

TypeInv == RowsInv /\ CountInv /\ TxInv /\ DocInv /\ AgentInv /\ ReportInv

\* A pin that a row, or a transaction about to insert one, took from another
\* row is the pin of a successful build.
Released(p) == p \in DOMAIN deps /\ deps[p].pin = p /\ deps[p].status = "success"

PinInv ==
    /\ PinIsARelease
    /\ \A t \in Txns : tx[t].id # 0 => tx[t].pin = tx[t].id \/ Released(tx[t].pin)

Safe == AlertsMatchFailures /\ OneLockedInFlight /\ PinInv

----------------------------------------------------------------------------
(* What a step may do to the rows that exist.                              *)

\* A row keeps what it deploys; a finished row keeps its status; nothing comes
\* back into flight.
RowKept(i) ==
    /\ i \in DOMAIN deps'
    /\ deps'[i].trigger = deps[i].trigger /\ deps'[i].commit = deps[i].commit
    /\ deps'[i].pin = deps[i].pin
    /\ deps[i].status \in Terminal => deps'[i].status = deps[i].status

RowsKept == \A i \in DOMAIN deps : RowKept(i)

\* setDeploymentStatusTx rewrites the status of rows in flight only.
LEMMA SetStatusRows ==
  ASSUME RowsInv, NEW S, S \subseteq DOMAIN deps, NEW to \in Status, SetDeploymentStatus(S, to)
  PROVE  /\ RowsInv' /\ RowsKept /\ DOMAIN deps' = DOMAIN deps
         /\ \A i \in DOMAIN deps : deps'[i].status = deps[i].status
                \/ (i \in S /\ deps[i].status \in InFlight /\ deps'[i].status = to)
<1>1. DOMAIN deps' = DOMAIN deps
  BY DEF SetDeploymentStatus
<1>2. \A i \in DOMAIN deps :
        \/ deps'[i] = deps[i]
        \/ /\ i \in S /\ deps[i].status \notin Terminal
           /\ deps'[i] = [deps[i] EXCEPT !.status = to]
  BY DEF SetDeploymentStatus
<1>3. \A i \in DOMAIN deps : deps[i] \in Row
  BY DEF RowsInv
<1>4. \A i \in DOMAIN deps : RowKept(i) /\ deps'[i] \in Row
  BY <1>1, <1>2, <1>3 DEF RowKept, Row
<1>5. deps' = [i \in DOMAIN deps' |-> deps'[i]]
  BY DEF SetDeploymentStatus
<1>6. \A i \in DOMAIN deps : deps'[i].status = deps[i].status
         \/ (i \in S /\ deps[i].status \in InFlight /\ deps'[i].status = to)
  <2>1. \A i \in DOMAIN deps : deps[i].status \in InFlight \cup Terminal
    BY <1>3 DEF Row, Status
  <2>2. \A i \in DOMAIN deps : [deps[i] EXCEPT !.status = to].status = to
    BY <1>3 DEF Row
  <2> QED BY <1>2, <2>1, <2>2
<1> QED BY <1>1, <1>4, <1>5, <1>6 DEF RowsInv, RowsKept

\* Inserting adds the transaction's row and leaves the ones given to Insert.
LEMMA InsertRows ==
  ASSUME TypeInv, NEW t \in Txns, tx[t].id # 0, NEW rows, Insert(t, rows),
         DOMAIN rows = DOMAIN deps,
         \A i \in DOMAIN deps :
            \/ rows[i] = deps[i]
            \/ /\ deps[i].status \in InFlight
               /\ rows[i] = [deps[i] EXCEPT !.status = "superseded"]
  PROVE  /\ RowsInv' /\ RowsKept
         /\ DOMAIN deps' = DOMAIN deps \cup {tx[t].id}
         /\ \A i \in DOMAIN deps : deps'[i] = rows[i]
         /\ deps'[tx[t].id] = [trigger |-> tx[t].trigger, commit |-> tx[t].commit,
                               pin |-> tx[t].pin, status |-> "queued", stamp |-> 0]
<1>0. /\ tx[t].id \in Ids /\ tx[t].id \notin DOMAIN deps /\ tx[t].pin \in Ids
      /\ tx[t] \in Opened
  BY ConstantsAssumption DEF TypeInv, TxInv, CountInv, Opened, Ids
<1>1. DOMAIN deps' = DOMAIN deps \cup {tx[t].id}
  BY DEF Insert
<1>2. \A i \in DOMAIN deps : deps'[i] = rows[i]
  BY DEF Insert
<1>3. deps'[tx[t].id] = [trigger |-> tx[t].trigger, commit |-> tx[t].commit,
                         pin |-> tx[t].pin, status |-> "queued", stamp |-> 0]
  BY <1>0 DEF Insert
<1>4. \A i \in DOMAIN deps : deps[i] \in Row
  BY DEF TypeInv, RowsInv
<1>5. \A i \in DOMAIN deps : RowKept(i) /\ deps'[i] \in Row
  BY <1>1, <1>2, <1>4 DEF RowKept, Row, InFlight, Terminal, Status
<1>6. deps'[tx[t].id] \in Row
  BY <1>0, <1>3 DEF Row, Opened, Status, InFlight
<1>7. deps' = [i \in DOMAIN deps' |-> deps'[i]]
  BY DEF Insert
<1>8. DOMAIN deps' \subseteq Ids
  BY <1>0, <1>1 DEF TypeInv, RowsInv
<1>9. RowsInv'
  BY <1>1, <1>5, <1>6, <1>7, <1>8 DEF RowsInv
<1> QED BY <1>1, <1>2, <1>3, <1>5, <1>9 DEF RowsKept

\* supersedeInFlightTx leaves no row of the resource in flight.
LEMMA SupersedeRows ==
  ASSUME RowsInv
  PROVE  /\ DOMAIN SupersedeInFlight = DOMAIN deps
         /\ \A i \in DOMAIN deps :
              /\ \/ SupersedeInFlight[i] = deps[i]
                 \/ /\ deps[i].status \in InFlight
                    /\ SupersedeInFlight[i] = [deps[i] EXCEPT !.status = "superseded"]
              /\ SupersedeInFlight[i].status \notin InFlight
              /\ SupersedeInFlight[i].status = "failed" <=> deps[i].status = "failed"
<1>1. \A i \in DOMAIN deps : deps[i] \in Row
  BY DEF RowsInv
<1>2. DOMAIN SupersedeInFlight = DOMAIN deps
  BY DEF SupersedeInFlight
<1>3. \A i \in DOMAIN deps :
         SupersedeInFlight[i] = IF deps[i].status \in InFlight
                                THEN [deps[i] EXCEPT !.status = "superseded"] ELSE deps[i]
  BY DEF SupersedeInFlight
<1> HIDE DEF SupersedeInFlight
<1> QED BY <1>1, <1>2, <1>3 DEF Row, InFlight, Terminal, Status

\* The version stamp changes no row's status.
LEMMA StampRows ==
  ASSUME TypeInv, NEW s \in Servers, StampDeploymentDSDVersion(s)
  PROVE  /\ RowsInv' /\ RowsKept /\ DOMAIN deps' = DOMAIN deps
         /\ \A i \in DOMAIN deps : deps'[i].status = deps[i].status
<1>1. DOMAIN deps' = DOMAIN deps
  BY DEF StampDeploymentDSDVersion
<1>2. \A i \in DOMAIN deps :
         deps'[i] = deps[i] \/ deps'[i] = [deps[i] EXCEPT !.stamp = doc[s].version]
  BY DEF StampDeploymentDSDVersion
<1>3. (\A i \in DOMAIN deps : deps[i] \in Row) /\ doc[s].version \in Nat
  BY DEF TypeInv, RowsInv, DocInv
<1>4. \A i \in DOMAIN deps : RowKept(i) /\ deps'[i] \in Row /\ deps'[i].status = deps[i].status
  BY <1>1, <1>2, <1>3 DEF RowKept, Row
<1>5. deps' = [i \in DOMAIN deps' |-> deps'[i]]
  BY DEF StampDeploymentDSDVersion
<1> QED BY <1>1, <1>4, <1>5 DEF TypeInv, RowsInv, RowsKept

----------------------------------------------------------------------------
(* Types.                                                                  *)

\* The initial state satisfies every part of the invariant.
LEMMA InitInv == Init => TypeInv /\ Safe
<1> SUFFICES ASSUME Init PROVE TypeInv /\ Safe
  OBVIOUS
<1> USE ConstantsAssumption DEF Init
<1>1. DOMAIN deps = {}
  OBVIOUS
<1>2. RowsInv
  BY <1>1 DEF RowsInv
<1>3. CountInv
  BY DEF CountInv, Commits
<1>4. TxInv
  BY <1>1 DEF TxInv, NoTx
<1>5. NoOps \in App /\ AboutARow(NoOps)
  BY DEF NoOps, App, AboutARow, WholeJob, Phases
<1>6. DocInv
  BY <1>5 DEF DocInv, NoJob
<1>7. AgentInv
  BY DEF AgentInv
<1>8. ReportInv
  BY DEF ReportInv, NoJob
<1>9. Safe
  BY <1>1 DEF Safe, AlertsMatchFailures, OneLockedInFlight, InFlightIds, PinInv,
              PinIsARelease, NoTx
<1> QED BY <1>2, <1>3, <1>4, <1>6, <1>7, <1>8, <1>9 DEF TypeInv

\* Rows that stay keep the documents, the agents and the reports about rows.
LEMMA AboutRowsKept ==
  ASSUME TypeInv, DOMAIN deps \subseteq DOMAIN deps',
         UNCHANGED <<docVars, agentVars, net, hnd>>
  PROVE  DocInv' /\ AgentInv' /\ ReportInv'
<1>1. DocInv'
  BY DEF TypeInv, DocInv, AboutARow, docVars
<1>2. AgentInv'
  BY DEF TypeInv, AgentInv, agentVars
<1>3. ReportInv'
  BY DEF TypeInv, ReportInv, Working
<1> QED BY <1>1, <1>2, <1>3

\* A transaction that begins gets an id nobody has.
LEMMA BeginTypes ==
  ASSUME TypeInv, NEW t \in Txns, NEW trigger, NEW commit \in Commits,
         NEW pin \in Ids \cup {0}, Begin(t, trigger, commit, pin), tx[t].id = 0
  PROVE  TxInv' /\ nextId' \in 1..(MaxDeploys + 1)
<1> USE ConstantsAssumption
<1>1. nextId \in Ids /\ nextId' = nextId + 1 /\ nextId \notin DOMAIN deps
  BY DEF TypeInv, CountInv, Ids, Begin
<1>2. DOMAIN deps' = DOMAIN deps
  BY DEF Begin, rowVars
<1> DEFINE row == [id |-> nextId, trigger |-> trigger, commit |-> commit,
                   pin |-> IF pin = 0 THEN nextId ELSE pin]
<1>3. row \in Opened /\ row.id = nextId /\ row.pin # 0
  BY <1>1 DEF Begin, Opened, Ids
<1>4. tx' = [tx EXCEPT ![t] = row]
  BY DEF Begin
<1> HIDE DEF row
<1>5. tx' \in [Txns -> {NoTx} \cup Opened]
  BY <1>3, <1>4 DEF TypeInv, TxInv
<1>6. \A u \in Txns : IF u = t THEN tx'[u] = row ELSE tx'[u] = tx[u]
  BY <1>4 DEF TypeInv, TxInv
<1>7. \A u \in Txns : tx[u].id \in 0..(nextId - 1) /\ tx[u].id \notin DOMAIN deps
  BY DEF TypeInv, TxInv
<1>8. \A u \in Txns : tx'[u].id \in 0..(nextId' - 1) /\ tx'[u].id \notin DOMAIN deps'
  <2> TAKE u \in Txns
  <2>1. CASE u = t
    BY <1>1, <1>2, <1>3, <1>6, <2>1 DEF Ids
  <2>2. CASE u # t
    BY <1>1, <1>2, <1>6, <1>7, <2>2 DEF Ids
  <2> QED BY <2>1, <2>2
<1>9. \A u \in Txns : tx'[u].id # 0 => tx'[u] \in Opened /\ tx'[u].pin # 0
  BY <1>3, <1>6 DEF TypeInv, TxInv
<1>10. \A u, w \in Txns : tx'[u].id = tx'[w].id /\ tx'[u].id # 0 => u = w
  <2>1. \A u \in Txns : u # t => tx[u].id # nextId
    BY <1>1, <1>7 DEF Ids
  <2> QED BY <1>3, <1>6, <2>1 DEF TypeInv, TxInv
<1> QED BY <1>1, <1>5, <1>8, <1>9, <1>10 DEF TxInv, Ids

\* Each way of beginning a transaction reads a commit and a pin that exist.
LEMMA BeginsWith ==
  ASSUME TypeInv, NEW t \in Txns,
         \/ BeginDrain(t) \/ BeginHead(t) \/ BeginRedeploy(t)
         \/ BeginRollback(t) \/ BeginConfig(t)
  PROVE  /\ tx[t].id = 0 /\ head' = head /\ queue' \subseteq queue
         /\ \E trigger \in Triggers, commit \in Commits, pin \in Ids \cup {0} :
               /\ Begin(t, trigger, commit, pin)
               /\ pin # 0 => \E i \in DOMAIN deps :
                    deps[i].status = "success" /\ deps[i].pin = pin /\ deps[i].commit = commit
<1> USE ConstantsAssumption
<1>0. /\ DOMAIN deps \subseteq Ids /\ \A i \in DOMAIN deps : deps[i] \in Row
      /\ head \in Commits /\ queue \subseteq 1..head
  BY DEF TypeInv, RowsInv, CountInv
<1>1. CASE BeginDrain(t)
  <2>1. queue \subseteq Nat /\ queue # {}
    BY <1>0, <1>1 DEF BeginDrain, Commits
  <2>2. OldestRequest \in queue
    BY <2>1, LeastExists DEF OldestRequest
  <2>3. OldestRequest \in Commits
    BY <1>0, <2>2 DEF Commits
  <2>4. Begin(t, "git", OldestRequest, 0) /\ "git" \in Triggers
    BY <1>1 DEF BeginDrain, Begin
  <2> QED BY <1>1, <2>3, <2>4 DEF BeginDrain, NoTx
<1>2. CASE BeginHead(t)
  <2>1. tx[t] \in Opened
    BY <1>2 DEF BeginHead, TypeInv, TxInv
  <2>2. Begin(t, "head", tx[t].commit, 0) /\ "head" \in Triggers /\ tx[t].commit \in Commits
    BY <1>2, <2>1 DEF BeginHead, Begin, Opened
  <2> QED BY <1>2, <2>2 DEF BeginHead, queueVars
<1>3. CASE BeginRedeploy(t)
  <2>1. Newest(DOMAIN deps) \in DOMAIN deps
    BY <1>0, <1>3, NewestIsMember DEF BeginRedeploy
  <2>2. deps[Newest(DOMAIN deps)].commit \in Commits
    BY <1>0, <2>1 DEF Row
  <2>3. Begin(t, "redeploy", deps[Newest(DOMAIN deps)].commit, 0) /\ "redeploy" \in Triggers
    BY <1>3 DEF BeginRedeploy, Begin
  <2> QED BY <1>3, <2>2, <2>3 DEF BeginRedeploy, NoTx, queueVars
<1>4. CASE BeginRollback(t)
  <2>1. PICK i \in DOMAIN deps : deps[i].status = "success"
                                 /\ Begin(t, "rollback", deps[i].commit, deps[i].pin)
    BY <1>4 DEF BeginRollback
  <2>2. deps[i].commit \in Commits /\ deps[i].pin \in Ids /\ "rollback" \in Triggers
    BY <1>0, <2>1 DEF Row, Begin
  <2> QED BY <1>4, <2>1, <2>2 DEF BeginRollback, NoTx, queueVars
<1>5. CASE BeginConfig(t)
  <2> DEFINE latest == Newest(DOMAIN deps)
             ok     == Newest({i \in DOMAIN deps : deps[i].status = "success"})
  <2>1. latest \in DOMAIN deps
    BY <1>0, <1>5, NewestIsMember DEF BeginConfig
  <2>2. ok # 0 => ok \in DOMAIN deps /\ deps[ok].status = "success"
    <3>1. {i \in DOMAIN deps : deps[i].status = "success"} \subseteq Ids
      BY <1>0
    <3>2. ok # 0 => ok \in {i \in DOMAIN deps : deps[i].status = "success"}
      BY <3>1, NewestIsMember
    <3> QED BY <3>2
  <2>3. ConfigSource = IF ok # 0 THEN [commit |-> deps[ok].commit, pin |-> deps[ok].pin]
                       ELSE [commit |-> deps[latest].commit, pin |-> 0]
    BY DEF ConfigSource
  <2>4. Begin(t, "config", ConfigSource.commit, ConfigSource.pin) /\ "config" \in Triggers
        /\ tx[t].id = 0 /\ head' = head /\ queue' = queue
    BY <1>5 DEF BeginConfig, Begin, NoTx, queueVars
  <2> HIDE DEF latest, ok
  <2>5. CASE ok # 0
    <3>1. ConfigSource.commit = deps[ok].commit /\ ConfigSource.pin = deps[ok].pin
      BY <2>3, <2>5
    <3>2. deps[ok].commit \in Commits /\ deps[ok].pin \in Ids
      BY <1>0, <2>2, <2>5 DEF Row
    <3> QED BY <2>2, <2>4, <2>5, <3>1, <3>2
  <2>6. CASE ok = 0
    <3>1. ConfigSource.commit = deps[latest].commit /\ ConfigSource.pin = 0
      BY <2>3, <2>6
    <3>2. deps[latest].commit \in Commits
      BY <1>0, <2>1 DEF Row
    <3> QED BY <2>4, <3>1, <3>2
  <2> QED BY <2>5, <2>6
<1> QED BY <1>1, <1>2, <1>3, <1>4, <1>5

\* What a reconcile renders is about a row that exists (renderDeployOps).
LEMMA RenderAboutARow ==
  ASSUME RowsInv, NEW s \in Servers
  PROVE  AboutARow(Render(s)) /\ DeployTarget \in DOMAIN deps \cup {0}
<1> USE ConstantsAssumption
<1>1. DeployTarget \in DOMAIN deps \cup {0}
  <2>1. {i \in DOMAIN deps : deps[i].status \in InFlight \cup {"success"}} \subseteq Ids
    BY DEF RowsInv
  <2> QED BY <2>1, NewestIsMember DEF DeployTarget
<1>2. \A i : WholeJob(RenderDeployOps(s, i))
  BY DEF RenderDeployOps, WholeJob, Phases
<1>3. CASE DeployTarget = 0 \/ RenderDeployOps(s, DeployTarget) = {}
  <2>1. Render(s) = NoOps
    BY <1>3 DEF Render
  <2> QED BY <1>1, <2>1 DEF NoOps, AboutARow, App, WholeJob, Phases
<1>4. CASE ~(DeployTarget = 0 \/ RenderDeployOps(s, DeployTarget) = {})
  <2> DEFINE i == DeployTarget
             ops == RenderDeployOps(s, i)
             force == /\ "build" \in RenderDeployOps(s, i)
                      /\ deps[i].trigger \in {"head", "redeploy"}
                      /\ deps[i].status \in InFlight
  <2>1. Render(s) = [dep |-> i, ops |-> ops, force |-> force]
    BY <1>4, Zenon DEF Render
  <2>2. force \in BOOLEAN
    BY Zenon
  <2>3. WholeJob(ops) /\ i \in DOMAIN deps /\ i \in Ids
    BY <1>1, <1>2, <1>4 DEF RowsInv
  <2> HIDE DEF i, ops, force
  <2>4. ops \in SUBSET Phases
    BY <2>3 DEF WholeJob
  <2>5. Render(s) \in App /\ Render(s).ops = ops /\ Render(s).dep = i
    BY <2>1, <2>2, <2>3, <2>4 DEF App
  <2>6. i # 0
    BY <1>4 DEF i
  <2> QED BY <1>1, <2>3, <2>5, <2>6 DEF AboutARow
<1> QED BY <1>1, <1>3, <1>4

\* A handler that finished with a phase has another to do, or is done.
LEMMA DoneTypes ==
  ASSUME NEW job, Working(job)
  PROVE  Done(job).pc \in {"idle", "read"} /\ (Done(job).pc # "idle" => Working(Done(job)))
<1> DEFINE rest == job.todo \ {NextPhase(job.todo)}
<1>1. CASE rest = {}
  BY <1>1 DEF Done, NoJob
<1>2. CASE rest # {}
  <2>1. Done(job) = [pc |-> "read", msg |-> job.msg, todo |-> rest]
    BY <1>2 DEF Done
  <2>2. rest \subseteq job.todo
    OBVIOUS
  <2> HIDE DEF rest
  <2> QED BY <1>2, <2>1, <2>2 DEF Working
<1> QED BY <1>1, <1>2

\* What a phase's outcome asks for (AdvanceDeploymentForResource).
LEMMA AskedStatus ==
  ASSUME NEW job, Working(job)
  PROVE  AsksFor(NextPhase(job.todo), job.msg.res[NextPhase(job.todo)]) \in Asked
<1>1. NextPhase(job.todo) \in job.todo /\ NextPhase(job.todo) \in Phases
  BY NextPhaseIsLeft DEF Working, Todo, Reported, WholeJob
<1>2. NextPhase(job.todo) = "pull" => job.msg.res[NextPhase(job.todo)] = "failed"
  BY <1>1 DEF Working, Todo
<1> QED BY <1>1, <1>2 DEF AsksFor, Phases, Asked

\* Creating a deployment keeps the types.
LEMMA CreateTypes ==
  ASSUME TypeInv, NEW t \in Txns,
         \/ BeginDrain(t) \/ BeginHead(t) \/ BeginRedeploy(t)
         \/ BeginRollback(t) \/ BeginConfig(t) \/ ResolveHead(t)
         \/ InsertLocked(t) \/ InsertConfig(t)
  PROVE  TypeInv' /\ RowsKept
<1>1. CASE \/ BeginDrain(t) \/ BeginHead(t) \/ BeginRedeploy(t)
           \/ BeginRollback(t) \/ BeginConfig(t)
  <2>1. PICK trigger \in Triggers, commit \in Commits, pin \in Ids \cup {0} :
               Begin(t, trigger, commit, pin)
    BY <1>1, BeginsWith
  <2>2. tx[t].id = 0 /\ head' = head /\ queue' \subseteq queue
    BY <1>1, BeginsWith
  <2>3. UNCHANGED <<deps, alerts, doc, rec, bumps, applied, images, earned, net, hnd>>
    BY <2>1 DEF Begin, rowVars, docVars, agentVars
  <2>4. TxInv' /\ nextId' \in 1..(MaxDeploys + 1) /\ nextId' = nextId + 1
    BY <2>1, <2>2, BeginTypes DEF Begin
  <2>5. CountInv'
    BY <2>2, <2>3, <2>4 DEF TypeInv, CountInv
  <2>6. DocInv' /\ AgentInv' /\ ReportInv'
    BY <2>3, AboutRowsKept DEF docVars, agentVars
  <2>7. RowsInv' /\ RowsKept
    BY <2>3 DEF TypeInv, RowsInv, RowsKept, RowKept
  <2> QED BY <2>4, <2>5, <2>6, <2>7 DEF TypeInv
<1>2. CASE ResolveHead(t)
  <2> USE ConstantsAssumption
  <2>1. UNCHANGED <<deps, alerts, doc, rec, bumps, applied, images, earned, net, hnd, head, queue, nextId>>
    BY <1>2 DEF ResolveHead, rowVars, docVars, agentVars, queueVars
  <2>2. [id |-> 0, trigger |-> "head", commit |-> head, pin |-> 0] \in Opened
    BY DEF Opened, Building, TypeInv, CountInv
  <2>3. TxInv'
    <3>1. tx' = [tx EXCEPT ![t] = [id |-> 0, trigger |-> "head", commit |-> head, pin |-> 0]]
      BY <1>2 DEF ResolveHead
    <3>2. \A u \in Txns : tx'[u] = tx[u] \/ tx'[u].id = 0
      BY <3>1 DEF TypeInv, TxInv
    <3>3. nextId \in Nat /\ nextId > 0 /\ 0 \notin DOMAIN deps
      BY DEF TypeInv, CountInv
    <3>4. tx' \in [Txns -> {NoTx} \cup Opened]
      BY <2>2, <3>1 DEF TypeInv, TxInv
    <3> QED BY <2>1, <3>2, <3>3, <3>4 DEF TypeInv, TxInv
  <2>4. DocInv' /\ AgentInv' /\ ReportInv'
    BY <2>1, AboutRowsKept DEF docVars, agentVars
  <2> QED BY <2>1, <2>3, <2>4 DEF TypeInv, RowsInv, CountInv, RowsKept, RowKept
<1>3. CASE InsertLocked(t) \/ InsertConfig(t)
  <2>1. PICK rows : /\ Insert(t, rows) /\ DOMAIN rows = DOMAIN deps
                    /\ \A i \in DOMAIN deps :
                         \/ rows[i] = deps[i]
                         \/ /\ deps[i].status \in InFlight
                            /\ rows[i] = [deps[i] EXCEPT !.status = "superseded"]
    <3>1. CASE InsertLocked(t)
      BY <3>1, SupersedeRows DEF InsertLocked, TypeInv
    <3>2. CASE InsertConfig(t)
      BY <3>2 DEF InsertConfig
    <3> QED BY <1>3, <3>1, <3>2
  <2>2. tx[t].id # 0
    BY <1>3 DEF InsertLocked, InsertConfig
  <2>3. RowsInv' /\ RowsKept /\ DOMAIN deps' = DOMAIN deps \cup {tx[t].id}
    BY <2>1, <2>2, InsertRows
  <2>4. /\ UNCHANGED <<head, queue, nextId, doc, rec, bumps, applied, images, earned, net, hnd>>
        /\ tx' = [tx EXCEPT ![t] = NoTx]
    BY <2>1 DEF Insert, docVars, agentVars, queueVars
  <2>5. DocInv' /\ AgentInv' /\ ReportInv'
    BY <2>3, <2>4, AboutRowsKept DEF docVars, agentVars
  <2>6. CountInv'
    <3>1. tx[t].id \in 1..(nextId - 1)
      BY <2>2 DEF TypeInv, TxInv
    <3> QED BY <2>3, <2>4, <3>1 DEF TypeInv, CountInv
  <2>7. TxInv'
    <3>1. \A u \in Txns : IF u = t THEN tx'[u] = NoTx ELSE tx'[u] = tx[u]
      BY <2>4 DEF TypeInv, TxInv
    <3>2. tx' \in [Txns -> {NoTx} \cup Opened]
      BY <2>4 DEF TypeInv, TxInv
    <3>3. NoTx.id = 0
      BY DEF NoTx
    <3>4. 0 \notin DOMAIN deps' /\ nextId \in Nat /\ nextId > 0
      BY <2>2, <2>3 DEF TypeInv, CountInv
    <3>5. \A u \in Txns : tx'[u].id \in 0..(nextId' - 1) /\ tx'[u].id \notin DOMAIN deps'
      BY <2>2, <2>3, <2>4, <3>1, <3>3, <3>4 DEF TypeInv, TxInv
    <3> QED BY <3>1, <3>2, <3>3, <3>5 DEF TypeInv, TxInv
  <2> QED BY <2>3, <2>5, <2>6, <2>7 DEF TypeInv
<1> QED BY <1>1, <1>2, <1>3

\* Setting statuses keeps the types (the sweeper and the handlers).
LEMMA StatusTypes ==
  ASSUME TypeInv, NEW S, S \subseteq DOMAIN deps, NEW to \in Status, SetDeploymentStatus(S, to),
         UNCHANGED <<queueVars, nextId, tx, docVars, agentVars>>
  PROVE  RowsInv' /\ CountInv' /\ TxInv' /\ DocInv' /\ AgentInv' /\ RowsKept
<1>1. RowsInv' /\ RowsKept /\ DOMAIN deps' = DOMAIN deps
  BY SetStatusRows DEF TypeInv
<1>2. UNCHANGED <<head, queue, nextId, tx, doc, rec, bumps, applied, images, earned>>
  BY DEF queueVars, docVars, agentVars
<1>3. CountInv' /\ TxInv'
  BY <1>1, <1>2 DEF TypeInv, CountInv, TxInv
<1>4. DocInv' /\ AgentInv'
  BY <1>1, <1>2 DEF TypeInv, DocInv, AboutARow, AgentInv
<1> QED BY <1>1, <1>3, <1>4

\* Reconciles, the stamp included, keep the types.
LEMMA RenderTypes ==
  ASSUME TypeInv, NEW s \in Servers,
         ReadTargets(s) \/ StoreDSD(s) \/ StampDeploymentDSDVersion(s) \/ StampFails(s)
  PROVE  TypeInv' /\ RowsKept
<1> USE DEF rowVars, queueVars, agentVars
<1>0. /\ doc \in [Servers -> [version : Nat, app : App]]
      /\ rec \in [Servers -> {NoJob} \cup Reconcile]
      /\ \A r \in Servers : AboutARow(doc[r].app) /\ (rec[r].pc # "idle" => AboutARow(rec[r].app))
  BY DEF TypeInv, DocInv
<1>1. CASE ReadTargets(s)
  <2>1. UNCHANGED <<deps, head, queue, nextId, tx, doc, applied, images, earned, net, hnd>>
    BY <1>1 DEF ReadTargets
  <2>2. AboutARow(Render(s)) /\ DeployTarget \in Ids \cup {0}
    BY RenderAboutARow DEF TypeInv, RowsInv
  <2> DEFINE new == [pc |-> "store", app |-> Render(s), target |-> DeployTarget]
  <2>3. rec' = [rec EXCEPT ![s] = new]
    BY <1>1 DEF ReadTargets
  <2>4. new \in Reconcile /\ AboutARow(new.app)
    BY <2>2 DEF Reconcile, AboutARow
  <2> HIDE DEF new
  <2>5. /\ rec' \in [Servers -> {NoJob} \cup Reconcile]
        /\ \A r \in Servers : rec'[r].pc # "idle" => AboutARow(rec'[r].app)
    BY <1>0, <2>3, <2>4
  <2>6. DocInv'
    BY <1>0, <2>1, <2>5 DEF DocInv, AboutARow
  <2>7. bumps' \in 0..MaxBumps
    BY <1>1, ConstantsAssumption DEF ReadTargets, TypeInv, CountInv
  <2> QED BY <2>1, <2>6, <2>7 DEF TypeInv, RowsInv, CountInv, TxInv, AgentInv, ReportInv,
                                  Working, RowsKept, RowKept
<1>2. CASE StoreDSD(s)
  <2>1. UNCHANGED <<deps, head, queue, nextId, tx, bumps, applied, images, earned, net, hnd>>
    BY <1>2 DEF StoreDSD
  <2>2. rec[s] \in Reconcile /\ rec[s].pc # "idle"
    BY <1>0, <1>2 DEF StoreDSD, NoJob
  <2>3. /\ doc' = [doc EXCEPT ![s] = [version |-> doc[s].version + 1, app |-> rec[s].app]]
        /\ rec' = [rec EXCEPT ![s] = [rec[s] EXCEPT !.pc = "stamp"]]
    BY <1>0, <1>2 DEF StoreDSD
  <2>4. [version |-> doc[s].version + 1, app |-> rec[s].app] \in [version : Nat, app : App]
    BY <1>0, <2>2 DEF Reconcile
  <2>5. doc' \in [Servers -> [version : Nat, app : App]]
    BY <1>0, <2>3, <2>4
  <2>6. [rec[s] EXCEPT !.pc = "stamp"] \in Reconcile /\ [rec[s] EXCEPT !.pc = "stamp"].app = rec[s].app
    BY <2>2 DEF Reconcile
  <2>7. rec' \in [Servers -> {NoJob} \cup Reconcile]
    BY <1>0, <2>3, <2>6
  <2>8. \A r \in Servers : AboutARow(doc'[r].app) /\ (rec'[r].pc # "idle" => AboutARow(rec'[r].app))
    BY <1>0, <2>2, <2>3, <2>6
  <2>9. DocInv'
    BY <2>1, <2>5, <2>7, <2>8 DEF DocInv, AboutARow
  <2> QED BY <2>1, <2>9 DEF TypeInv, RowsInv, CountInv, TxInv, AgentInv, ReportInv,
                            Working, RowsKept, RowKept
<1>3. CASE StampDeploymentDSDVersion(s) \/ StampFails(s)
  <2>1. UNCHANGED <<head, queue, nextId, tx, doc, bumps, applied, images, earned, net, hnd>>
    BY <1>3 DEF StampDeploymentDSDVersion, StampFails
  <2>2. RowsInv' /\ RowsKept /\ DOMAIN deps' = DOMAIN deps
    <3>1. CASE StampDeploymentDSDVersion(s)
      BY <3>1, StampRows
    <3>2. CASE StampFails(s)
      BY <3>2 DEF StampFails, TypeInv, RowsInv, RowsKept, RowKept
    <3> QED BY <1>3, <3>1, <3>2
  <2>3. rec' = [rec EXCEPT ![s] = NoJob]
    BY <1>3 DEF StampDeploymentDSDVersion, StampFails
  <2>4. /\ rec' \in [Servers -> {NoJob} \cup Reconcile]
        /\ \A r \in Servers : rec'[r].pc # "idle" => AboutARow(rec'[r].app)
    BY <1>0, <2>3 DEF NoJob
  <2>5. DocInv'
    BY <1>0, <2>1, <2>2, <2>4 DEF DocInv, AboutARow
  <2> QED BY <2>1, <2>2, <2>5 DEF TypeInv, CountInv, TxInv, AgentInv, ReportInv, Working
<1> QED BY <1>1, <1>2, <1>3

\* Applying a document keeps the types.
LEMMA ApplyTypes ==
  ASSUME TypeInv, NEW s \in Servers, Apply(s)
  PROVE  TypeInv' /\ RowsKept
<1>1. UNCHANGED <<deps, head, queue, nextId, tx, doc, rec, bumps, hnd>>
  BY DEF Apply, rowVars, queueVars, docVars
<1>2. applied' \in [Servers -> Nat]
  BY DEF Apply, TypeInv, AgentInv, DocInv
<1>3. images' \subseteq Ids /\ earned' \subseteq DOMAIN deps /\ \A m \in net' : Reported(m.res)
  <2>1. CASE doc[s].app.ops = {}
    BY <2>1 DEF Apply, TypeInv, AgentInv, ReportInv
  <2>2. CASE doc[s].app.ops # {}
    <3> DEFINE d == doc[s].app.dep
    <3>1. d \in DOMAIN deps /\ WholeJob(doc[s].app.ops)
      BY <2>2 DEF TypeInv, DocInv, AboutARow
    <3>2. PICK r \in Outcomes(doc[s].app) :
             /\ images' \subseteq images \cup {deps[d].pin}
             /\ earned' \subseteq earned \cup {d}
             /\ net' = net \cup {[server |-> s, version |-> doc[s].version,
                                  dep |-> d, res |-> r, sends |-> MaxSends]}
      BY <2>2 DEF Apply
    <3>3. DOMAIN r = doc[s].app.ops
      BY <3>2 DEF Outcomes
    <3>4. Reported(r)
      BY <2>2, <3>1, <3>3 DEF Reported
    <3>5. deps[d].pin \in Ids
      BY <3>1 DEF TypeInv, RowsInv, Row
    <3> HIDE DEF d
    <3> QED BY <3>1, <3>2, <3>4, <3>5 DEF TypeInv, AgentInv, ReportInv
  <2> QED BY <2>1, <2>2
<1> QED BY <1>1, <1>2, <1>3 DEF TypeInv, RowsInv, CountInv, TxInv, DocInv, AboutARow, AgentInv,
                                ReportInv, Working, RowsKept, RowKept

\* Handling a report keeps the types.
LEMMA ReportTypes ==
  ASSUME TypeInv, NEW h \in Handlers,
         (\E m \in net : Receive(h, m)) \/ AdvanceRead(h) \/ AdvanceWrite(h)
  PROVE  TypeInv' /\ RowsKept
<1> USE DEF rowVars, queueVars, docVars, agentVars
<1>0. /\ \A m \in net : Reported(m.res)
      /\ hnd = [g \in Handlers |-> hnd[g]]
      /\ \A g \in Handlers : hnd[g].pc \in {"idle", "read", "write"}
                             /\ (hnd[g].pc # "idle" => Working(hnd[g]))
  BY DEF TypeInv, ReportInv
<1>1. CASE \E m \in net : Receive(h, m)
  <2>1. PICK m \in net : Receive(h, m)
    BY <1>1
  <2>2. UNCHANGED <<deps, head, queue, nextId, tx, doc, rec, bumps, applied, images, earned>>
    BY <2>1 DEF Receive
  <2>3. Reported(m.res)
    BY <1>0
  <2>4. Todo(m.res) # {}
    BY <2>3 DEF Reported, WholeJob, Todo, Phases
  <2> DEFINE job == [pc |-> "read", msg |-> m, todo |-> Todo(m.res)]
  <2>5. hnd' = [hnd EXCEPT ![h] = job]
    BY <2>1 DEF Receive
  <2>6. Working(job) /\ job.pc = "read"
    BY <2>3, <2>4 DEF Working
  <2> HIDE DEF job
  <2>7. /\ hnd' = [g \in Handlers |-> hnd'[g]]
        /\ \A g \in Handlers : hnd'[g].pc \in {"idle", "read", "write"}
                               /\ (hnd'[g].pc # "idle" => Working(hnd'[g]))
    BY <1>0, <2>5, <2>6
  <2>8. \A k \in net' : Reported(k.res)
    <3>1. \A n : [m EXCEPT !.sends = n].res = m.res
      OBVIOUS
    <3>2. \A k \in net' : k \in net \/ \E n : k = [m EXCEPT !.sends = n]
      BY <2>1 DEF Receive
    <3> QED BY <1>0, <2>3, <3>1, <3>2
  <2>9. ReportInv'
    BY <2>2, <2>7, <2>8 DEF ReportInv, Working
  <2> QED BY <2>2, <2>9 DEF TypeInv, RowsInv, CountInv, TxInv, DocInv, AboutARow, AgentInv,
                            RowsKept, RowKept
<1>2. CASE AdvanceRead(h)
  <2>1. UNCHANGED <<deps, head, queue, nextId, tx, doc, rec, bumps, applied, images, earned, net>>
    BY <1>2 DEF AdvanceRead
  <2>2. Working(hnd[h]) /\ hnd[h].pc = "read"
    BY <1>0, <1>2 DEF AdvanceRead
  <2> DEFINE i == Newest(InFlightIds)
             to == AsksFor(NextPhase(hnd[h].todo), hnd[h].msg.res[NextPhase(hnd[h].todo)])
             job == [pc |-> "write", msg |-> hnd[h].msg, todo |-> hnd[h].todo,
                     dep |-> i, to |-> to, stamp |-> deps[i].stamp]
  <2>3. to \in Asked
    BY <2>2, AskedStatus
  <2>4. i # 0 => i \in DOMAIN deps
    <3>1. InFlightIds \subseteq Ids /\ InFlightIds \subseteq DOMAIN deps /\ MaxDeploys \in Nat
      BY ConstantsAssumption DEF InFlightIds, TypeInv, RowsInv
    <3> QED BY <3>1, NewestIsMember
  <2>5. \/ hnd' = [hnd EXCEPT ![h] = Done(hnd[h])]
        \/ hnd' = [hnd EXCEPT ![h] = job] /\ i # 0
    BY <1>2 DEF AdvanceRead
  <2> HIDE DEF i, to
  <2>6. i # 0 => Working(job)
    BY <2>2, <2>3, <2>4 DEF Working
  <2>7. job.pc = "write"
    OBVIOUS
  <2> HIDE DEF job
  <2>8. /\ hnd' = [g \in Handlers |-> hnd'[g]]
        /\ \A g \in Handlers : hnd'[g].pc \in {"idle", "read", "write"}
                               /\ (hnd'[g].pc # "idle" => Working(hnd'[g]))
    BY <1>0, <2>2, <2>5, <2>6, <2>7, DoneTypes
  <2>9. ReportInv'
    BY <1>0, <2>1, <2>8 DEF ReportInv, Working
  <2> QED BY <2>1, <2>9 DEF TypeInv, RowsInv, CountInv, TxInv, DocInv, AboutARow, AgentInv,
                            RowsKept, RowKept
<1>3. CASE AdvanceWrite(h)
  <2>1. Working(hnd[h]) /\ hnd[h].pc = "write"
    BY <1>0, <1>3 DEF AdvanceWrite
  <2>2. {hnd[h].dep} \subseteq DOMAIN deps /\ hnd[h].to \in Status
    BY <2>1 DEF Working, Asked, Status, InFlight, Terminal
  <2>3. SetDeploymentStatus({hnd[h].dep}, hnd[h].to)
        /\ UNCHANGED <<queueVars, nextId, tx, docVars, agentVars, net>>
    BY <1>3 DEF AdvanceWrite
  <2>4. RowsInv' /\ CountInv' /\ TxInv' /\ DocInv' /\ AgentInv' /\ RowsKept
    BY <2>2, <2>3, StatusTypes
  <2>5. hnd' = [hnd EXCEPT ![h] = Done(hnd[h])]
    BY <1>3 DEF AdvanceWrite
  <2>6. /\ hnd' = [g \in Handlers |-> hnd'[g]]
        /\ \A g \in Handlers : hnd'[g].pc \in {"idle", "read", "write"}
                               /\ (hnd'[g].pc # "idle" => Working(hnd'[g]))
    BY <1>0, <2>1, <2>5, DoneTypes
  <2>7. DOMAIN deps' = DOMAIN deps
    BY <2>2, <2>3, SetStatusRows DEF TypeInv
  <2>8. ReportInv'
    BY <1>0, <2>3, <2>6, <2>7 DEF ReportInv, Working
  <2> QED BY <2>4, <2>8 DEF TypeInv
<1> QED BY <1>1, <1>2, <1>3

\* Every step keeps the types, and the rows that exist.
LEMMA TypeStep == TypeInv /\ [Next]_vars => TypeInv' /\ RowsKept
<1> SUFFICES ASSUME TypeInv, [Next]_vars PROVE TypeInv' /\ RowsKept
  OBVIOUS
<1>1. CASE UNCHANGED vars
  BY <1>1 DEF vars, rowVars, queueVars, docVars, agentVars, TypeInv, RowsInv, CountInv, TxInv,
              DocInv, AboutARow, AgentInv, ReportInv, Working, RowsKept, RowKept
<1>2. CASE Push
  <2>1. UNCHANGED <<deps, nextId, tx, doc, rec, bumps, applied, images, earned, net, hnd>>
    BY <1>2 DEF Push, rowVars, docVars, agentVars
  <2>2. CountInv'
    BY <1>2, <2>1, ConstantsAssumption DEF Push, TypeInv, CountInv, Commits
  <2> QED BY <2>1, <2>2 DEF TypeInv, RowsInv, TxInv,
              DocInv, AboutARow, AgentInv, ReportInv, Working, RowsKept, RowKept
<1>3. CASE TimeoutStaleDeployments
  <2>1. PICK S \in SUBSET InFlightIds \ {{}} : SetDeploymentStatus(S, "failed")
    BY <1>3 DEF TimeoutStaleDeployments
  <2>2. S \subseteq DOMAIN deps /\ "failed" \in Status
    BY DEF InFlightIds, Status, Terminal
  <2>3. UNCHANGED <<queueVars, nextId, tx, docVars, agentVars, net, hnd>>
    BY <1>3 DEF TimeoutStaleDeployments
  <2>4. RowsInv' /\ CountInv' /\ TxInv' /\ DocInv' /\ AgentInv' /\ RowsKept
    BY <2>1, <2>2, <2>3, StatusTypes
  <2>5. DOMAIN deps' = DOMAIN deps
    BY <2>1, <2>2, SetStatusRows DEF TypeInv
  <2>6. ReportInv'
    BY <2>3, <2>5 DEF TypeInv, ReportInv, Working
  <2> QED BY <2>4, <2>6 DEF TypeInv
<1> QED BY <1>1, <1>2, <1>3, CreateTypes, RenderTypes, ApplyTypes, ReportTypes DEF Next

----------------------------------------------------------------------------
(* The properties.                                                         *)

\* Rows that keep their status, with the alerts unchanged, keep everything
\* that is said of rows; a transaction may forget what it read.
LEMMA SafeFrame ==
  ASSUME TypeInv, Safe, RowsKept, DOMAIN deps' = DOMAIN deps, UNCHANGED alerts,
         \A i \in DOMAIN deps : deps'[i].status = deps[i].status,
         \A t \in Txns : tx'[t] = tx[t] \/ tx'[t].id = 0
  PROVE  Safe'
<1>1. AlertsMatchFailures'
  BY DEF Safe, AlertsMatchFailures
<1>2. OneLockedInFlight'
  BY DEF Safe, OneLockedInFlight, InFlightIds, RowsKept, RowKept
<1>3. \A p : Released(p) => Released(p)'
  BY DEF Released, RowsKept, RowKept
<1>4. PinIsARelease'
  BY <1>3 DEF Safe, PinInv, PinIsARelease, Released, RowsKept, RowKept
<1>5. PinInv'
  BY <1>3, <1>4 DEF Safe, PinInv
<1> QED BY <1>1, <1>2, <1>5 DEF Safe

\* A transaction begins with its own id for a pin, or with the pin of a
\* successful row, and every such pin is a build's.
LEMMA SafeBegin ==
  ASSUME TypeInv, Safe, NEW t \in Txns,
         \/ BeginDrain(t) \/ BeginHead(t) \/ BeginRedeploy(t)
         \/ BeginRollback(t) \/ BeginConfig(t)
  PROVE  Safe'
<1>1. PICK trigger \in Triggers, commit \in Commits, pin \in Ids \cup {0} :
         /\ Begin(t, trigger, commit, pin)
         /\ pin # 0 => \E i \in DOMAIN deps : deps[i].status = "success" /\ deps[i].pin = pin
  BY BeginsWith
<1>2. UNCHANGED <<deps, alerts>>
  BY <1>1 DEF Begin, rowVars
<1>3. pin # 0 => Released(pin)
  BY <1>1 DEF Safe, PinInv, PinIsARelease, Released
<1> DEFINE row == [id |-> nextId, trigger |-> trigger, commit |-> commit,
                   pin |-> IF pin = 0 THEN nextId ELSE pin]
<1>4. tx' = [tx EXCEPT ![t] = row]
  BY <1>1 DEF Begin
<1>5. row.pin = row.id \/ Released(row.pin)
  BY <1>3
<1> HIDE DEF row
<1>6. \A u \in Txns : tx'[u] = tx[u] \/ tx'[u] = row
  BY <1>4 DEF TypeInv, TxInv
<1>7. \A u \in Txns : tx'[u].id # 0 => tx'[u].pin = tx'[u].id \/ Released(tx'[u].pin)
  BY <1>5, <1>6 DEF Safe, PinInv
<1>8. PinInv'
  BY <1>2, <1>7 DEF Safe, PinInv, PinIsARelease, Released
<1> QED BY <1>2, <1>8 DEF Safe, AlertsMatchFailures, OneLockedInFlight, InFlightIds

\* A new row is the only one in flight when it was inserted under the lock, and
\* is itself a config deployment when it was not.
LEMMA SafeInsert ==
  ASSUME TypeInv, Safe, NEW t \in Txns, InsertLocked(t) \/ InsertConfig(t)
  PROVE  Safe'
<1> DEFINE id == tx[t].id
<1>1. id # 0 /\ id \notin DOMAIN deps
  BY DEF InsertLocked, InsertConfig, TypeInv, TxInv
<1>2. PICK rows : /\ Insert(t, rows) /\ DOMAIN rows = DOMAIN deps
                  /\ \A i \in DOMAIN deps :
                       /\ \/ rows[i] = deps[i]
                          \/ /\ deps[i].status \in InFlight
                             /\ rows[i] = [deps[i] EXCEPT !.status = "superseded"]
                       /\ rows[i].status = "failed" <=> deps[i].status = "failed"
                       /\ tx[t].trigger # "config" => rows[i].status \notin InFlight
                       /\ rows[i].status \in InFlight => deps[i].status \in InFlight
  <2>1. CASE InsertLocked(t)
    BY <2>1, SupersedeRows DEF InsertLocked, TypeInv
  <2>2. CASE InsertConfig(t)
    BY <2>2 DEF InsertConfig
  <2> QED BY <2>1, <2>2
<1>3. /\ RowsKept /\ DOMAIN deps' = DOMAIN deps \cup {id}
      /\ \A i \in DOMAIN deps : deps'[i] = rows[i]
      /\ deps'[id] = [trigger |-> tx[t].trigger, commit |-> tx[t].commit,
                      pin |-> tx[t].pin, status |-> "queued", stamp |-> 0]
  BY <1>1, <1>2, InsertRows
<1>4. alerts' = alerts /\ tx' = [tx EXCEPT ![t] = NoTx]
  BY <1>2 DEF Insert
<1> HIDE DEF id
<1>5. deps'[id].status = "queued" /\ deps'[id].trigger = tx[t].trigger /\ deps'[id].pin = tx[t].pin
  BY <1>3
<1>6. AlertsMatchFailures'
  <2>1. \A i \in DOMAIN deps' : deps'[i].status = "failed"
                                <=> i \in DOMAIN deps /\ deps[i].status = "failed"
    BY <1>1, <1>2, <1>3, <1>5
  <2> QED BY <1>4, <2>1, <1>3 DEF Safe, AlertsMatchFailures
<1>7. OneLockedInFlight'
  <2>1. \A i \in InFlightIds' : i = id \/ (i \in InFlightIds /\ tx[t].trigger = "config")
    BY <1>2, <1>3 DEF InFlightIds
  <2>2. \A i \in InFlightIds : deps'[i].trigger = deps[i].trigger
    BY <1>3 DEF InFlightIds, RowsKept, RowKept
  <2>3. \A i \in InFlightIds' : deps'[i].trigger # "config" =>
           IF tx[t].trigger = "config" THEN i \in InFlightIds /\ deps[i].trigger # "config"
           ELSE i = id
    BY <1>5, <2>1, <2>2
  <2> QED BY <2>3 DEF Safe, OneLockedInFlight
<1>8. \A p : Released(p) => Released(p)'
  BY <1>3 DEF Released, RowsKept, RowKept, Terminal
<1>9. PinIsARelease'
  <2> SUFFICES ASSUME NEW i \in DOMAIN deps', NEW p, deps'[i].pin = p, p # i PROVE Released(p)'
    BY DEF PinIsARelease, Released
  <2>1. CASE i = id
    BY <1>1, <1>5, <1>8, <2>1 DEF Safe, PinInv, id
  <2>2. CASE i \in DOMAIN deps
    BY <1>3, <1>8, <2>2 DEF Safe, PinInv, PinIsARelease, Released, RowsKept, RowKept
  <2> QED BY <1>3, <2>1, <2>2
<1>10. \A u \in Txns : tx'[u] = tx[u] \/ tx'[u].id = 0
  BY <1>4 DEF TypeInv, TxInv, NoTx
<1>11. PinInv'
  BY <1>8, <1>9, <1>10 DEF Safe, PinInv
<1> QED BY <1>6, <1>7, <1>11 DEF Safe

\* setDeploymentStatusTx pages for exactly the rows it fails.
LEMMA SafeStatus ==
  ASSUME TypeInv, Safe, NEW S, S \subseteq DOMAIN deps, NEW to \in Status,
         SetDeploymentStatus(S, to), UNCHANGED tx
  PROVE  Safe'
<1>1. /\ RowsKept /\ DOMAIN deps' = DOMAIN deps
      /\ \A i \in DOMAIN deps : deps'[i].status = deps[i].status
             \/ (i \in S /\ deps[i].status \in InFlight /\ deps'[i].status = to)
  BY SetStatusRows DEF TypeInv
<1>2. AlertsMatchFailures'
  <2> DEFINE moved == {i \in S : deps[i].status \notin Terminal}
  <2>1. /\ deps' = [i \in DOMAIN deps |->
                      IF i \in moved THEN [deps[i] EXCEPT !.status = to] ELSE deps[i]]
        /\ alerts' = IF to = "failed" THEN alerts \cup moved ELSE alerts
    BY DEF SetDeploymentStatus
  <2>2. moved \subseteq DOMAIN deps /\ \A i \in moved : deps[i].status # "failed"
    BY DEF Terminal
  <2> HIDE DEF moved
  <2>3. \A i \in DOMAIN deps : deps[i] \in Row
    BY DEF TypeInv, RowsInv
  <2>4. \A i \in DOMAIN deps : deps'[i].status = IF i \in moved THEN to ELSE deps[i].status
    BY <2>1, <2>3 DEF Row
  <2>5. \A i \in DOMAIN deps : i \in alerts <=> deps[i].status = "failed"
    BY DEF Safe, AlertsMatchFailures
  <2>6. alerts \subseteq DOMAIN deps
    BY DEF Safe, AlertsMatchFailures
  <2>7. CASE to = "failed"
    BY <1>1, <2>1, <2>2, <2>4, <2>5, <2>6, <2>7 DEF AlertsMatchFailures
  <2>8. CASE to # "failed"
    BY <1>1, <2>1, <2>2, <2>4, <2>5, <2>6, <2>8 DEF AlertsMatchFailures
  <2> QED BY <2>7, <2>8
<1>3. OneLockedInFlight'
  <2>1. InFlightIds' \subseteq InFlightIds
    BY <1>1 DEF InFlightIds
  <2> QED BY <1>1, <2>1 DEF Safe, OneLockedInFlight, InFlightIds, RowsKept, RowKept
<1>4. \A p : Released(p) => Released(p)'
  BY <1>1 DEF Released, RowsKept, RowKept, Terminal
<1>5. PinInv'
  BY <1>1, <1>4 DEF Safe, PinInv, PinIsARelease, Released, RowsKept, RowKept
<1> QED BY <1>2, <1>3, <1>5 DEF Safe

\* Every step keeps the properties.
LEMMA SafeStep == TypeInv /\ Safe /\ [Next]_vars => Safe'
<1> SUFFICES ASSUME TypeInv, Safe, [Next]_vars PROVE Safe'
  OBVIOUS
<1>0. RowsKept
  BY TypeStep
<1> USE DEF rowVars, queueVars, docVars, agentVars
<1>1. CASE UNCHANGED <<deps, alerts>> /\ \A t \in Txns : tx'[t] = tx[t] \/ tx'[t].id = 0
  BY <1>0, <1>1, SafeFrame
<1>2. CASE UNCHANGED vars
  BY <1>1, <1>2 DEF vars
<1>3. CASE Push
  BY <1>1, <1>3 DEF Push
<1>4. CASE TimeoutStaleDeployments
  <2>1. PICK S \in SUBSET InFlightIds \ {{}} : SetDeploymentStatus(S, "failed") /\ UNCHANGED tx
    BY <1>4 DEF TimeoutStaleDeployments
  <2>2. S \subseteq DOMAIN deps /\ "failed" \in Status
    BY DEF InFlightIds, Status, Terminal
  <2> QED BY <2>1, <2>2, SafeStatus
<1>5. ASSUME NEW t \in Txns, ResolveHead(t) PROVE Safe'
  <2>1. UNCHANGED <<deps, alerts>>
        /\ tx' = [tx EXCEPT ![t] = [id |-> 0, trigger |-> "head", commit |-> head, pin |-> 0]]
    BY <1>5 DEF ResolveHead
  <2>2. \A u \in Txns : tx'[u] = tx[u] \/ tx'[u].id = 0
    BY <2>1 DEF TypeInv, TxInv
  <2> QED BY <1>1, <2>1, <2>2
<1>6. ASSUME NEW s \in Servers,
             ReadTargets(s) \/ StoreDSD(s) \/ StampDeploymentDSDVersion(s) \/ StampFails(s) \/ Apply(s)
      PROVE  Safe'
  <2>1. CASE StampDeploymentDSDVersion(s)
    <3>1. DOMAIN deps' = DOMAIN deps /\ \A i \in DOMAIN deps : deps'[i].status = deps[i].status
      BY <2>1, StampRows
    <3>2. UNCHANGED <<alerts, tx>>
      BY <2>1 DEF StampDeploymentDSDVersion
    <3> QED BY <1>0, <3>1, <3>2, SafeFrame
  <2>2. CASE ~ StampDeploymentDSDVersion(s)
    <3>1. UNCHANGED <<deps, alerts, tx>>
      BY <1>6, <2>2 DEF ReadTargets, StoreDSD, StampFails, Apply
    <3> QED BY <1>1, <3>1
  <2> QED BY <2>1, <2>2
<1>7. ASSUME NEW h \in Handlers, (\E m \in net : Receive(h, m)) \/ AdvanceRead(h)
      PROVE  Safe'
  BY <1>1, <1>7 DEF Receive, AdvanceRead
<1>8. ASSUME NEW h \in Handlers, AdvanceWrite(h)
      PROVE  Safe'
  <2>1. {hnd[h].dep} \subseteq DOMAIN deps /\ hnd[h].to \in Status
    BY <1>8 DEF AdvanceWrite, TypeInv, ReportInv, Working, Asked, Status, InFlight, Terminal
  <2> QED BY <1>8, <2>1, SafeStatus DEF AdvanceWrite
<1> QED BY <1>2, <1>3, <1>4, <1>5, <1>6, <1>7, <1>8, SafeBegin, SafeInsert DEF Next

\* Every behaviour keeps the inductive invariant.
LEMMA InvHolds == Spec => [](TypeInv /\ Safe)
<1>1. TypeInv /\ Safe /\ [Next]_vars => (TypeInv /\ Safe)'
  BY TypeStep, SafeStep
<1> QED BY <1>1, InitInv, PTL DEF Spec

\* Every variable keeps its type.
THEOREM TypeCorrect == Spec => []TypeOK
<1>1. TypeInv /\ Safe => TypeOK
  <2> SUFFICES ASSUME TypeInv, Safe PROVE TypeOK
    OBVIOUS
  <2>1. alerts \subseteq DOMAIN deps
    BY DEF Safe, AlertsMatchFailures
  <2>2. \A t \in Txns : tx[t].id \in (0..(nextId - 1)) \ DOMAIN deps
    BY DEF TypeInv, TxInv
  <2>3. \A s \in Servers : doc[s].version \in Nat /\ doc[s].app \in App
    BY DEF TypeInv, DocInv
  <2>4. \A s \in Servers : rec[s].pc \in {"idle", "store", "stamp"}
    BY DEF TypeInv, DocInv, NoJob, Reconcile
  <2> QED BY <2>1, <2>2, <2>3, <2>4
          DEF TypeInv, RowsInv, CountInv, AgentInv, ReportInv, TypeOK
<1> QED BY <1>1, InvHolds, PTL

\* For every interleaving of the sweeper, the handlers and the creating
\* transactions, a deploy_failed alert stands for exactly the deployments that
\* failed (setDeploymentStatusTx).
THEOREM AlertsMatchFailuresCorrect == Spec => []AlertsMatchFailures
BY InvHolds, PTL DEF Safe

\* However many transactions create deployments at once, the advisory lock and
\* supersedeInFlightTx leave at most one of theirs in flight.
THEOREM OneLockedInFlightCorrect == Spec => []OneLockedInFlight
BY InvHolds, PTL DEF Safe

\* However long the chain of rollbacks and config deployments, a re-shipped pin
\* is the pin of a build whose deployment succeeded.
THEOREM PinIsAReleaseCorrect == Spec => []PinIsARelease
<1>1. Safe => PinIsARelease
  BY DEF Safe, PinInv
<1> QED BY <1>1, InvHolds, PTL

\* No step takes a deployment back out of a terminal status, or changes what it
\* deploys: its trigger, its commit and its pin.
THEOREM RowsFrozen == Spec => [][RowsKept]_vars
<1>1. TypeInv /\ [Next]_vars => RowsKept
  BY TypeStep
<1> QED BY <1>1, InvHolds, PTL DEF Spec

----------------------------------------------------------------------------
(* Deployments implements ReleaseHistory.                                  *)

\* A row whose pin is another row's, or is about to be, has its commit.
SourceInv ==
    /\ \A i \in DOMAIN deps : deps[i].pin \in DOMAIN deps
                              /\ deps[deps[i].pin].commit = deps[i].commit
    /\ \A t \in Txns : tx[t].id # 0 /\ tx[t].pin # tx[t].id
                       => deps[tx[t].pin].commit = tx[t].commit

\* Rows stay, and a transaction may forget what it read.
LEMMA SourceFrame ==
  ASSUME TypeInv, Safe, SourceInv, RowsKept, DOMAIN deps' = DOMAIN deps,
         \A t \in Txns : tx'[t] = tx[t] \/ tx'[t].id = 0
  PROVE  SourceInv'
<1>1. \A i \in DOMAIN deps : deps'[i].pin = deps[i].pin /\ deps'[i].commit = deps[i].commit
  BY DEF RowsKept, RowKept
<1>2. \A t \in Txns : tx[t].id # 0 /\ tx[t].pin # tx[t].id => tx[t].pin \in DOMAIN deps
  BY DEF Safe, PinInv, Released
<1> QED BY <1>1, <1>2 DEF SourceInv

\* A rollback and a config deployment take pin and commit from the same row.
LEMMA SourceBegin ==
  ASSUME TypeInv, SourceInv, NEW t \in Txns,
         \/ BeginDrain(t) \/ BeginHead(t) \/ BeginRedeploy(t)
         \/ BeginRollback(t) \/ BeginConfig(t)
  PROVE  SourceInv'
<1>1. PICK trigger \in Triggers, commit \in Commits, pin \in Ids \cup {0} :
         /\ Begin(t, trigger, commit, pin)
         /\ pin # 0 => \E i \in DOMAIN deps :
               deps[i].status = "success" /\ deps[i].pin = pin /\ deps[i].commit = commit
  BY BeginsWith
<1>2. UNCHANGED deps
  BY <1>1 DEF Begin, rowVars
<1>3. pin # 0 => deps[pin].commit = commit
  BY <1>1 DEF SourceInv
<1> DEFINE row == [id |-> nextId, trigger |-> trigger, commit |-> commit,
                   pin |-> IF pin = 0 THEN nextId ELSE pin]
<1>4. tx' = [tx EXCEPT ![t] = row]
  BY <1>1 DEF Begin
<1>5. row.pin # row.id => deps[row.pin].commit = row.commit
  BY <1>3
<1> HIDE DEF row
<1>6. \A u \in Txns : tx'[u] = tx[u] \/ tx'[u] = row
  BY <1>4 DEF TypeInv, TxInv
<1> QED BY <1>2, <1>5, <1>6 DEF SourceInv

\* The new row's pin is its own, or a row's with the same commit.
LEMMA SourceInsert ==
  ASSUME TypeInv, Safe, SourceInv, NEW t \in Txns, InsertLocked(t) \/ InsertConfig(t)
  PROVE  SourceInv'
<1> DEFINE id == tx[t].id
<1>1. id # 0 /\ id \notin DOMAIN deps
  BY DEF InsertLocked, InsertConfig, TypeInv, TxInv
<1>2. PICK rows : /\ Insert(t, rows) /\ DOMAIN rows = DOMAIN deps
                  /\ \A i \in DOMAIN deps :
                       \/ rows[i] = deps[i]
                       \/ /\ deps[i].status \in InFlight
                          /\ rows[i] = [deps[i] EXCEPT !.status = "superseded"]
  <2>1. CASE InsertLocked(t)
    BY <2>1, SupersedeRows DEF InsertLocked, TypeInv
  <2>2. CASE InsertConfig(t)
    BY <2>2 DEF InsertConfig
  <2> QED BY <2>1, <2>2
<1>3. /\ RowsKept /\ DOMAIN deps' = DOMAIN deps \cup {id}
      /\ deps'[id] = [trigger |-> tx[t].trigger, commit |-> tx[t].commit,
                      pin |-> tx[t].pin, status |-> "queued", stamp |-> 0]
  BY <1>1, <1>2, InsertRows
<1>4. tx' = [tx EXCEPT ![t] = NoTx]
  BY <1>2 DEF Insert
<1>5. \A u \in Txns : tx'[u] = tx[u] \/ tx'[u].id = 0
  BY <1>4 DEF TypeInv, TxInv, NoTx
<1>6. \A u \in Txns : tx[u].id # 0 => tx[u].pin = tx[u].id \/ tx[u].pin \in DOMAIN deps
  BY DEF Safe, PinInv, Released
<1>7. \A i \in DOMAIN deps : deps'[i].pin = deps[i].pin /\ deps'[i].commit = deps[i].commit
  BY <1>3 DEF RowsKept, RowKept
<1>8. deps'[id].pin = tx[t].pin /\ deps'[id].commit = tx[t].commit
  BY <1>3
<1>9. deps'[id].pin \in DOMAIN deps' /\ deps'[deps'[id].pin].commit = deps'[id].commit
  BY <1>1, <1>3, <1>6, <1>7, <1>8 DEF SourceInv
<1>10. \A i \in DOMAIN deps : deps'[i].pin \in DOMAIN deps'
                              /\ deps'[deps'[i].pin].commit = deps'[i].commit
  BY <1>3, <1>7 DEF SourceInv
<1>11. \A u \in Txns : tx'[u].id # 0 /\ tx'[u].pin # tx'[u].id
                       => deps'[tx'[u].pin].commit = tx'[u].commit
  BY <1>5, <1>6, <1>7 DEF SourceInv
<1> QED BY <1>3, <1>9, <1>10, <1>11 DEF SourceInv

\* The kinds of step there are for the table: a transaction begins, a row is
\* inserted, a status is set, or rows keep their status.
Quiet ==
    /\ DOMAIN deps' = DOMAIN deps /\ UNCHANGED alerts
    /\ \A i \in DOMAIN deps : deps'[i].status = deps[i].status
    /\ \A t \in Txns : tx'[t] = tx[t] \/ tx'[t].id = 0

\* Every step is of one of these kinds.
LEMMA TableSteps ==
  ASSUME TypeInv, [Next]_vars
  PROVE  \/ Quiet
         \/ \E t \in Txns : /\ \/ BeginDrain(t) \/ BeginHead(t) \/ BeginRedeploy(t)
                               \/ BeginRollback(t) \/ BeginConfig(t)
                            /\ UNCHANGED <<deps, alerts>>
         \/ \E t \in Txns : InsertLocked(t) \/ InsertConfig(t)
         \/ \E S \in SUBSET DOMAIN deps, to \in Asked :
               /\ SetDeploymentStatus(S, to) /\ UNCHANGED tx
               /\ to = "failed" \/ \E i \in DOMAIN deps : S = {i}
<1> USE DEF rowVars, queueVars, docVars, agentVars
<1>1. UNCHANGED <<deps, alerts>> /\ (\A t \in Txns : tx'[t] = tx[t] \/ tx'[t].id = 0) => Quiet
  BY DEF Quiet
<1>2. CASE UNCHANGED vars
  BY <1>1, <1>2 DEF vars
<1>3. CASE Push
  BY <1>1, <1>3 DEF Push
<1>4. CASE TimeoutStaleDeployments
  <2>1. PICK S \in SUBSET InFlightIds \ {{}} : SetDeploymentStatus(S, "failed") /\ UNCHANGED tx
    BY <1>4 DEF TimeoutStaleDeployments
  <2>2. S \in SUBSET DOMAIN deps /\ "failed" \in Asked
    BY DEF InFlightIds, Asked
  <2> QED BY <2>1, <2>2
<1>5. ASSUME NEW t \in Txns, ResolveHead(t) PROVE Quiet
  <2>1. UNCHANGED <<deps, alerts>>
        /\ tx' = [tx EXCEPT ![t] = [id |-> 0, trigger |-> "head", commit |-> head, pin |-> 0]]
    BY <1>5 DEF ResolveHead
  <2>2. \A u \in Txns : tx'[u] = tx[u] \/ tx'[u].id = 0
    BY <2>1 DEF TypeInv, TxInv
  <2> QED BY <1>1, <2>1, <2>2
<1>6. ASSUME NEW s \in Servers,
             ReadTargets(s) \/ StoreDSD(s) \/ StampDeploymentDSDVersion(s) \/ StampFails(s) \/ Apply(s)
      PROVE  Quiet
  <2>1. CASE StampDeploymentDSDVersion(s)
    <3>1. DOMAIN deps' = DOMAIN deps /\ \A i \in DOMAIN deps : deps'[i].status = deps[i].status
      BY <2>1, StampRows
    <3>2. UNCHANGED <<alerts, tx>>
      BY <2>1 DEF StampDeploymentDSDVersion
    <3> QED BY <3>1, <3>2 DEF Quiet
  <2>2. CASE ~ StampDeploymentDSDVersion(s)
    <3>1. UNCHANGED <<deps, alerts, tx>>
      BY <1>6, <2>2 DEF ReadTargets, StoreDSD, StampFails, Apply
    <3> QED BY <1>1, <3>1
  <2> QED BY <2>1, <2>2
<1>7. ASSUME NEW h \in Handlers, (\E m \in net : Receive(h, m)) \/ AdvanceRead(h)
      PROVE  Quiet
  BY <1>1, <1>7 DEF Receive, AdvanceRead
<1>8. ASSUME NEW h \in Handlers, AdvanceWrite(h)
      PROVE  \E i \in DOMAIN deps, to \in Asked : SetDeploymentStatus({i}, to) /\ UNCHANGED tx
  <2>1. hnd[h].dep \in DOMAIN deps /\ hnd[h].to \in Asked
    BY <1>8 DEF AdvanceWrite, TypeInv, ReportInv, Working
  <2> QED BY <1>8, <2>1 DEF AdvanceWrite
<1>9. ASSUME NEW t \in Txns,
             \/ BeginDrain(t) \/ BeginHead(t) \/ BeginRedeploy(t)
             \/ BeginRollback(t) \/ BeginConfig(t)
      PROVE  UNCHANGED <<deps, alerts>>
  <2>1. \E trigger, commit, pin : Begin(t, trigger, commit, pin)
    BY <1>9, BeginsWith
  <2> QED BY <2>1 DEF Begin
<1> QED BY <1>2, <1>3, <1>4, <1>5, <1>6, <1>7, <1>8, <1>9 DEF Next

\* Every step keeps commits with their pins.
LEMMA SourceStep == TypeInv /\ Safe /\ SourceInv /\ [Next]_vars => SourceInv'
<1> SUFFICES ASSUME TypeInv, Safe, SourceInv, [Next]_vars PROVE SourceInv'
  OBVIOUS
<1>0. RowsKept
  BY TypeStep
<1>1. CASE Quiet
  BY <1>0, <1>1, SourceFrame DEF Quiet
<1>2. ASSUME NEW S \in SUBSET DOMAIN deps, NEW to \in Asked, SetDeploymentStatus(S, to), UNCHANGED tx
      PROVE  SourceInv'
  <2>1. DOMAIN deps' = DOMAIN deps
    BY <1>2 DEF SetDeploymentStatus
  <2> QED BY <1>0, <1>2, <2>1, SourceFrame
<1> QED BY <1>1, <1>2, TableSteps, SourceBegin, SourceInsert

\* What ReleaseHistory sees of the table.
FateOf == [i \in DOMAIN deps |-> Fate(i)]
WhatOf == [i \in DOMAIN deps |-> Ships(i)]

\* An app starts without a history.
LEMMA HistoryStarts == Init => SourceInv /\ History!HistoryInit
<1> SUFFICES ASSUME Init PROVE SourceInv /\ History!HistoryInit
  OBVIOUS
<1>1. DOMAIN deps = {} /\ alerts = {} /\ \A t \in Txns : tx[t].id = 0
  BY DEF Init, NoTx
<1>2. [i \in DOMAIN deps |-> Fate(i)] = [r \in {} |-> "open"]
      /\ [i \in DOMAIN deps |-> Ships(i)] = [r \in {} |-> r]
  BY <1>1
<1> QED BY <1>1, <1>2 DEF SourceInv, History!HistoryInit

\* What is open is in flight, and what has served is a successful build.
LEMMA OpenIsInFlight ==
  ASSUME RowsInv
  PROVE  /\ \A i \in DOMAIN deps : Fate(i) = "open" <=> deps[i].status \in InFlight
         /\ History!Open = InFlightIds
         /\ \A p : Released(p) => History!Served(p)
<1>1. \A i \in DOMAIN deps : deps[i].status \in Status
  BY DEF RowsInv, Row
<1>2. \A i \in DOMAIN deps : Fate(i) = "open" <=> deps[i].status \in InFlight
  BY <1>1 DEF Fate, Status, InFlight, Terminal
<1>3. History!Open = InFlightIds
  BY <1>2 DEF History!Open, InFlightIds
<1>4. \A p : Released(p) => History!Served(p)
  BY DEF Released, History!Served, Fate, Ships, InFlight
<1> QED BY <1>2, <1>3, <1>4

\* setDeploymentStatusTx ends rows that are open, or leaves the history as it is.
LEMMA StatusRefines ==
  ASSUME TypeInv, NEW S \in SUBSET DOMAIN deps, NEW to \in Asked, SetDeploymentStatus(S, to),
         to = "failed" \/ \E i \in DOMAIN deps : S = {i}
  PROVE  History!HistoryNext \/ UNCHANGED History!historyVars
<1> DEFINE moved == {i \in S : deps[i].status \notin Terminal}
<1>1. RowsInv /\ RowsInv' /\ RowsKept /\ DOMAIN deps' = DOMAIN deps
  BY SetStatusRows DEF TypeInv, Asked, Status, InFlight, Terminal
<1>2. /\ deps' = [i \in DOMAIN deps |->
                    IF i \in moved THEN [deps[i] EXCEPT !.status = to] ELSE deps[i]]
      /\ alerts' = IF to = "failed" THEN alerts \cup moved ELSE alerts
  BY DEF SetDeploymentStatus
<1>3. \A i \in DOMAIN deps : deps[i] \in Row
  BY <1>1 DEF RowsInv
<1>4. moved \subseteq InFlightIds
  BY <1>3 DEF InFlightIds, Row, Status
<1>5. moved = {} \/ to = "failed" \/ \E i \in DOMAIN deps : moved = {i}
  OBVIOUS
<1> HIDE DEF moved
<1>6. \A i \in DOMAIN deps : deps'[i].status = IF i \in moved THEN to ELSE deps[i].status
  BY <1>2, <1>3 DEF Row
<1>7. \A i \in DOMAIN deps : Fate(i)' = IF i \in moved THEN (IF to \in InFlight THEN "open" ELSE to)
                                        ELSE Fate(i)
  BY <1>6 DEF Fate
<1>8. \A i \in moved : Fate(i) = "open"
  BY <1>1, <1>4, OpenIsInFlight DEF InFlightIds
<1>9. WhatOf' = WhatOf
  BY <1>1 DEF WhatOf, Ships, RowsKept, RowKept
<1>10. CASE to = "failed"
  <2>1. FateOf' = [q \in DOMAIN FateOf |-> IF q \in moved THEN "failed" ELSE FateOf[q]]
    BY <1>1, <1>7, <1>10 DEF FateOf, InFlight
  <2>2. History!Fail(moved)
    BY <1>2, <1>9, <1>10, <2>1 DEF History!Fail, FateOf, WhatOf
  <2>3. moved \in SUBSET History!Open
    BY <1>1, <1>4, OpenIsInFlight
  <2> QED BY <2>2, <2>3 DEF History!HistoryNext
<1>11. CASE to # "failed" /\ (to \in InFlight \/ moved = {})
  <2>1. FateOf' = FateOf
    BY <1>1, <1>7, <1>8, <1>11 DEF FateOf
  <2> QED BY <1>2, <1>9, <1>11, <2>1 DEF History!historyVars, FateOf, WhatOf
<1>12. CASE to # "failed" /\ to \notin InFlight /\ moved # {}
  <2>1. to = "success"
    BY <1>12 DEF Asked, InFlight
  <2>2. PICK i \in DOMAIN deps : moved = {i}
    BY <1>5, <1>12
  <2>3. FateOf' = [FateOf EXCEPT ![i] = "success"]
    BY <1>1, <1>7, <1>12, <2>1, <2>2 DEF FateOf
  <2>4. History!Succeed(i)
    BY <1>2, <1>9, <1>12, <2>3 DEF History!Succeed, FateOf, WhatOf
  <2>5. i \in History!Open
    BY <1>1, <1>4, <2>2, OpenIsInFlight
  <2> QED BY <2>4, <2>5 DEF History!HistoryNext
<1> QED BY <1>10, <1>11, <1>12

\* A creating transaction's commit creates a release, and ends the open ones
\* unless it is a config deployment's.
LEMMA InsertRefines ==
  ASSUME TypeInv, Safe, SourceInv, NEW t \in Txns, InsertLocked(t) \/ InsertConfig(t)
  PROVE  History!HistoryNext
<1>0. PICK id, w : /\ id = tx[t].id
                   /\ w = [image |-> tx[t].pin, source |-> tx[t].commit, how |-> tx[t].trigger]
  OBVIOUS
<1>1. id # 0 /\ id \notin DOMAIN deps /\ tx[t] \in Opened /\ tx[t].pin # 0 /\ id \in Ids
  BY <1>0, ConstantsAssumption DEF InsertLocked, InsertConfig, TypeInv, TxInv, Opened, Ids
<1>2. PICK rows : /\ Insert(t, rows) /\ DOMAIN rows = DOMAIN deps
                  /\ \A i \in DOMAIN deps :
                       /\ \/ rows[i] = deps[i]
                          \/ /\ deps[i].status \in InFlight
                             /\ rows[i] = [deps[i] EXCEPT !.status = "superseded"]
                       /\ tx[t].trigger # "config" => rows[i].status \notin InFlight
                       /\ tx[t].trigger = "config" => rows[i] = deps[i]
  <2>1. CASE InsertLocked(t)
    BY <2>1, SupersedeRows DEF InsertLocked, TypeInv
  <2>2. CASE InsertConfig(t)
    BY <2>2 DEF InsertConfig
  <2> QED BY <2>1, <2>2
<1>3. /\ RowsInv' /\ RowsKept /\ DOMAIN deps' = DOMAIN deps \cup {id}
      /\ \A i \in DOMAIN deps : deps'[i] = rows[i]
      /\ deps'[id] = [trigger |-> tx[t].trigger, commit |-> tx[t].commit,
                      pin |-> tx[t].pin, status |-> "queued", stamp |-> 0]
  <2>1. tx[t].id # 0
    BY <1>0, <1>1
  <2>2. \A i \in DOMAIN deps : \/ rows[i] = deps[i]
                               \/ /\ deps[i].status \in InFlight
                                  /\ rows[i] = [deps[i] EXCEPT !.status = "superseded"]
    BY <1>2
  <2>3. Insert(t, rows) /\ DOMAIN rows = DOMAIN deps
    BY <1>2
  <2>4. /\ RowsInv' /\ RowsKept
        /\ DOMAIN deps' = DOMAIN deps \cup {tx[t].id}
        /\ \A i \in DOMAIN deps : deps'[i] = rows[i]
        /\ deps'[tx[t].id] = [trigger |-> tx[t].trigger, commit |-> tx[t].commit,
                              pin |-> tx[t].pin, status |-> "queued", stamp |-> 0]
    BY <2>1, <2>2, <2>3, InsertRows
  <2> QED BY <1>0, <2>4
<1>4. alerts' = alerts
  BY <1>2 DEF Insert
<1>5. Fate(id)' = "open" /\ Ships(id)' = w
  BY <1>0, <1>3 DEF Fate, Ships, InFlight
<1>6. w \in History!What
  BY <1>0, <1>1, ConstantsAssumption DEF History!What, Opened, Ids
<1>7. w.image = id \/ (History!Served(w.image) /\ w.source = WhatOf[w.image].source)
  <2>1. tx[t].pin = id \/ Released(tx[t].pin)
    BY <1>0, <1>1 DEF Safe, PinInv
  <2>2. CASE tx[t].pin = id
    BY <1>0, <2>2
  <2>3. CASE tx[t].pin # id
    <3>1. Released(tx[t].pin) /\ deps[tx[t].pin].commit = tx[t].commit
      BY <1>0, <1>1, <2>1, <2>3 DEF SourceInv
    <3>2. History!Served(tx[t].pin) /\ tx[t].pin \in DOMAIN deps
      BY <3>1, OpenIsInFlight DEF TypeInv, Released
    <3> QED BY <1>0, <3>1, <3>2 DEF WhatOf, Ships
  <2> QED BY <2>2, <2>3
<1>8. w.how = tx[t].trigger
  BY <1>0
<1>9. \A i \in DOMAIN deps : Ships(i)' = Ships(i)
  BY <1>3 DEF Ships, RowsKept, RowKept
<1>10. \A i \in DOMAIN deps :
         Fate(i)' = IF i \in History!Open /\ w.how # "config" THEN "superseded" ELSE Fate(i)
  <2>1. RowsInv /\ History!Open = InFlightIds
    BY OpenIsInFlight DEF TypeInv
  <2>2. \A i \in DOMAIN deps : deps[i] \in Row
    BY <2>1 DEF RowsInv
  <2>3. \A i \in DOMAIN deps : [deps[i] EXCEPT !.status = "superseded"].status = "superseded"
    BY <2>2 DEF Row
  <2>4. SUFFICES ASSUME NEW i \in DOMAIN deps
                 PROVE  Fate(i)' = IF i \in InFlightIds /\ w.how # "config" THEN "superseded"
                                   ELSE Fate(i)
    BY <2>1
  <2>5. deps'[i] = rows[i]
    BY <1>3
  <2>6. CASE i \in InFlightIds /\ w.how # "config"
    BY <1>2, <1>8, <2>3, <2>5, <2>6 DEF Fate, InFlightIds, InFlight
  <2>7. CASE ~(i \in InFlightIds /\ w.how # "config")
    BY <1>2, <1>8, <2>5, <2>7 DEF Fate, InFlightIds
  <2> QED BY <2>6, <2>7
<1>11. FateOf' = [q \in DOMAIN FateOf \cup {id} |->
                    IF q = id THEN "open"
                    ELSE IF q \in History!Open /\ w.how # "config" THEN "superseded"
                    ELSE FateOf[q]]
  BY <1>1, <1>3, <1>5, <1>10 DEF FateOf
<1>12. WhatOf' = [q \in DOMAIN FateOf \cup {id} |-> IF q = id THEN w ELSE WhatOf[q]]
  BY <1>1, <1>3, <1>5, <1>9 DEF FateOf, WhatOf
<1>13. History!Create(id, w)
  <2>1. id \notin DOMAIN FateOf
    BY <1>1 DEF FateOf
  <2> QED BY <1>4, <1>7, <1>11, <1>12, <2>1 DEF History!Create, FateOf, WhatOf
<1>14. id \in Ids
  BY <1>1
<1> QED BY <1>6, <1>13, <1>14 DEF History!HistoryNext

\* Every step is a step of the history or leaves it as it is.
LEMMA HistoryStep ==
  TypeInv /\ Safe /\ SourceInv /\ [Next]_vars => [History!HistoryNext]_(History!historyVars)
<1> SUFFICES ASSUME TypeInv, Safe, SourceInv, [Next]_vars
             PROVE  History!HistoryNext \/ UNCHANGED History!historyVars
  OBVIOUS
<1>0. RowsKept
  BY TypeStep
<1>1. CASE DOMAIN deps' = DOMAIN deps /\ UNCHANGED alerts
           /\ \A i \in DOMAIN deps : deps'[i].status = deps[i].status
  <2>1. FateOf' = FateOf /\ WhatOf' = WhatOf
    BY <1>0, <1>1 DEF FateOf, WhatOf, Fate, Ships, RowsKept, RowKept
  <2> QED BY <1>1, <2>1 DEF History!historyVars, FateOf, WhatOf
<1>2. CASE UNCHANGED <<deps, alerts>>
  BY <1>1, <1>2
<1>3. CASE Quiet
  BY <1>1, <1>3 DEF Quiet
<1> QED BY <1>2, <1>3, TableSteps, StatusRefines, InsertRefines

\* However transactions, reports, replicas and the sweeper interleave, the table
\* of deployments is a release history: each is created once, ends once and is
\* paged for if it failed, and what it ships was built for it or has served with
\* the same commit.
THEOREM KeepsHistoryCorrect == Spec => KeepsHistory
<1>1. Spec => [](TypeInv /\ Safe /\ SourceInv)
  <2>1. TypeInv /\ Safe /\ SourceInv /\ [Next]_vars => (TypeInv /\ Safe /\ SourceInv)'
    BY TypeStep, SafeStep, SourceStep
  <2> QED BY <2>1, InitInv, HistoryStarts, PTL DEF Spec
<1> QED BY <1>1, HistoryStarts, HistoryStep, PTL DEF Spec, KeepsHistory, History!HistorySpec
=============================================================================
