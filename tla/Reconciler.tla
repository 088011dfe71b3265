----------------------------- MODULE Reconciler -----------------------------
(***************************************************************************)
(* How a change of the configuration becomes a new document and wakes the  *)
(* agent that waits for it: the reconcile passes of several control-plane  *)
(* replicas (cp/internal/reconciler/reconciler.go), the per-server         *)
(* advisory lock and the connection pool (LockServerReconcile in           *)
(* cp/internal/store/dsd_store.go), the NOTIFY bus between replicas        *)
(* (cp/internal/store/dsd_notify.go) and the agents' long poll             *)
(* (handleGetDSD in cp/internal/api/dsd.go).                               *)
(*                                                                         *)
(* A pass needs two pool connections at a time: one keeps the advisory     *)
(* lock to its end, each query takes a second one.  A query is one step,   *)
(* possible only while the replica's pool has a free connection.           *)
(***************************************************************************)
EXTENDS Integers, FiniteSets

CONSTANTS
    Servers,    \* managed servers, each with one agent
    Replicas,   \* control-plane processes
    Passes,     \* goroutines that may run a reconcile pass
    Home,       \* Home[p]: the replica pass p runs in
    Slots,      \* reconcileConcurrency, per replica
    PoolSize,   \* pool connections, per replica
    MaxEdits,   \* bound: configuration changes
    MaxFaults,  \* bound: passes that fail and notifications that are lost
    Nobody      \* neither a replica nor a server

\* The tables a pass reads one after the other, the first and the last
\* standing for the dozen queries of Reconcile.
Tables == {"specs", "targets"}

ASSUME ConstantsAssumption ==
    /\ IsFiniteSet(Passes) /\ Home \in [Passes -> Replicas]
    /\ Nobody \notin Replicas \cup Servers
    /\ {Slots, PoolSize, MaxEdits, MaxFaults} \subseteq Nat
    /\ Slots < PoolSize

VARIABLES
    config,    \* config[s][t]: how often table t changed for server s
    edits,     \* changes made so far
    version,   \* server_dsd.version
    content,   \* content[s][t]: the config that s's document was rendered from
    pc,        \* where each pass is
    srv,       \* the server a pass works on
    snap,      \* what a pass has read
    maker,     \* the replica whose pass stored the document and goes on to
               \* announce it
    poll,      \* the agent's long poll: where it is
    at,        \* the replica that serves the poll
    after,     \* the ?after= of the poll: the version the agent has
    woken,     \* the poll's channel was closed
    listening, \* replicas whose LISTEN connection is up
    bus,       \* notifications not yet delivered: <<replica, server>>
    lost,      \* some notification may have been lost
    faults     \* failures so far

docVars  == <<version, content, maker>>
passVars == <<pc, srv, snap>>
pollVars == <<poll, at, after, woken>>
busVars  == <<listening, bus, lost>>
cfgVars  == <<config, edits>>
envVars  == <<cfgVars, faults>>
vars == <<cfgVars, docVars, passVars, pollVars, busVars, faults>>

Zero == [t \in Tables |-> 0]

HoldsSlot == {"lock", "specs", "targets", "store", "stamp", "notify", "publish"}
HoldsLock == HoldsSlot \ {"lock"}

\* The pass that has the advisory lock of s, and so a connection.
Locked(s)  == \E p \in Passes : srv[p] = s /\ pc[p] \in HoldsLock
SlotsUsed(r) == Cardinality({p \in Passes : Home[p] = r /\ pc[p] \in HoldsSlot})
ConnsUsed(r) == Cardinality({p \in Passes : Home[p] = r /\ pc[p] \in HoldsLock})
FreeConn(r)  == ConnsUsed(r) < PoolSize

----------------------------------------------------------------------------
(* The configuration, edited through the API.                              *)

Edit(s, t) ==
    /\ edits < MaxEdits
    /\ edits' = edits + 1
    /\ config' = [config EXCEPT ![s][t] = @ + 1]
    /\ UNCHANGED <<docVars, passVars, pollVars, busVars, faults>>

(***************************************************************************)
(* A reconcile pass.  ReconcileAsync and resyncPass both start by waiting  *)
(* for a slot; dropping the pass there, or when the lock stays taken, is   *)
(* made up for by the next resync.                                         *)
(***************************************************************************)
Goto(p, label) == pc' = [pc EXCEPT ![p] = label] /\ UNCHANGED <<srv, snap>>

\* The pass returns: its deferred unlock and release run.
End(p) ==
    /\ pc'   = [pc EXCEPT ![p] = "idle"]
    /\ srv'  = [srv EXCEPT ![p] = Nobody]
    /\ snap' = [snap EXCEPT ![p] = Zero]

StartPass(p, s) ==
    /\ pc[p] = "idle"
    /\ pc' = [pc EXCEPT ![p] = "slot"]
    /\ srv' = [srv EXCEPT ![p] = s]
    /\ UNCHANGED <<envVars, docVars, snap, pollVars, busVars>>

\* Mutant: no limit on concurrent passes.
AcquireUnlimited(p) ==
    /\ pc[p] = "slot"
    /\ Goto(p, "lock")
    /\ UNCHANGED <<envVars, docVars, pollVars, busVars>>

AcquireSlot(p) ==
    /\ pc[p] = "slot"
    /\ SlotsUsed(Home[p]) < Slots
    /\ Goto(p, "lock")
    /\ UNCHANGED <<envVars, docVars, pollVars, busVars>>

\* Mutant: the lock is not taken.
LockNothing(p) ==
    /\ pc[p] = "lock"
    /\ FreeConn(Home[p])
    /\ Goto(p, "specs")
    /\ UNCHANGED <<envVars, docVars, pollVars, busVars>>

\* The advisory lock is tried on a connection that is given back when the
\* lock is taken; a failed try leaves no trace.
LockServerReconcile(p) ==
    /\ pc[p] = "lock"
    /\ FreeConn(Home[p])
    /\ ~Locked(srv[p])
    /\ Goto(p, "specs")
    /\ UNCHANGED <<envVars, docVars, pollVars, busVars>>

\* No slot within reconcileQueueWait, or the lock still taken at its deadline.
DropPass(p) ==
    /\ \/ pc[p] = "slot" /\ SlotsUsed(Home[p]) >= Slots
       \/ pc[p] = "lock" /\ Locked(srv[p])
    /\ End(p)
    /\ UNCHANGED <<envVars, docVars, pollVars, busVars>>

ReadTable(p, t) ==
    /\ pc[p] = t
    /\ FreeConn(Home[p])
    /\ snap' = [snap EXCEPT ![p][t] = config[srv[p]][t]]
    /\ pc' = [pc EXCEPT ![p] = IF t = "specs" THEN "targets" ELSE "store"]
    /\ UNCHANGED <<envVars, docVars, srv, pollVars, busVars>>

\* Mutant: the hash leaves out what the last query read.
StorePartHash(p) ==
    /\ pc[p] = "store"
    /\ FreeConn(Home[p])
    /\ IF snap[p]["specs"] = content[srv[p]]["specs"]
       THEN /\ End(p)
            /\ UNCHANGED docVars
       ELSE /\ Goto(p, "stamp")
            /\ maker' = [maker EXCEPT ![srv[p]] = Home[p]]
            /\ version' = [version EXCEPT ![srv[p]] = @ + 1]
            /\ content' = [content EXCEPT ![srv[p]] = snap[p]]
    /\ UNCHANGED <<envVars, pollVars, busVars>>

\* An unchanged render ends the pass.
StoreDSD(p) ==
    /\ pc[p] = "store"
    /\ FreeConn(Home[p])
    /\ IF snap[p] = content[srv[p]]
       THEN /\ End(p)
            /\ UNCHANGED docVars
       ELSE /\ Goto(p, "stamp")
            /\ maker' = [maker EXCEPT ![srv[p]] = Home[p]]
            /\ version' = [version EXCEPT ![srv[p]] = @ + 1]
            /\ content' = [content EXCEPT ![srv[p]] = snap[p]]
    /\ UNCHANGED <<envVars, pollVars, busVars>>

\* Mutant: the pass returns the stamp's error before anybody is woken.
StampReturns(p) ==
    /\ pc[p] = "stamp"
    /\ End(p)
    /\ UNCHANGED <<envVars, docVars, pollVars, busVars>>

\* StampDeploymentDSDVersion (module Deployments); an error is only logged.
Stamp(p) ==
    /\ pc[p] = "stamp"
    /\ Goto(p, "notify")
    /\ UNCHANGED <<envVars, docVars, pollVars, busVars>>

\* WakeServer: close and forget the channels registered in replica r.
Wake(r, s) ==
    woken' = [woken EXCEPT ![s] = @ \/ (at[s] = r /\ poll[s] # "idle")]

NotifyLocal(p) ==
    /\ pc[p] = "notify"
    /\ Wake(Home[p], srv[p])
    /\ Goto(p, "publish")
    /\ UNCHANGED <<envVars, docVars, poll, at, after, busVars>>

PublishDSDChange(p) ==
    /\ pc[p] = "publish"
    /\ FreeConn(Home[p])
    /\ bus' = bus \cup (listening \X {srv[p]})
    /\ End(p)
    /\ UNCHANGED <<envVars, docVars, pollVars, listening, lost>>

Fault == faults < MaxFaults /\ faults' = faults + 1

\* reconcileTimeout, a failed query or a panic.  Past the commit only the
\* publish can be lost that way, for a failed stamp is only logged.
PassFails(p) ==
    /\ pc[p] \in {"lock", "specs", "targets", "store", "publish"}
    /\ End(p)
    /\ Fault
    /\ lost' = (lost \/ pc[p] = "publish")
    /\ UNCHANGED <<cfgVars, docVars, pollVars, listening, bus>>

\* Commit took effect and yet returned an error: nobody is woken.
CommitUnanswered(p) ==
    /\ pc[p] = "store"
    /\ snap[p] # content[srv[p]]
    /\ version' = [version EXCEPT ![srv[p]] = @ + 1]
    /\ content' = [content EXCEPT ![srv[p]] = snap[p]]
    /\ maker' = [maker EXCEPT ![srv[p]] = Nobody]
    /\ End(p) /\ Fault
    /\ UNCHANGED <<cfgVars, pollVars, busVars>>

----------------------------------------------------------------------------
(* The bus: best effort, a listener that is down misses what is sent.      *)

Deliver(r, s) ==
    /\ <<r, s>> \in bus
    /\ bus' = bus \ {<<r, s>>}
    /\ Wake(r, s)
    /\ UNCHANGED <<envVars, docVars, passVars, poll, at, after, listening, lost>>

ListenerDrops(r) ==
    /\ r \in listening
    /\ Fault /\ lost' = TRUE
    /\ listening' = listening \ {r}
    /\ bus' = {n \in bus : n[1] # r}
    /\ UNCHANGED <<cfgVars, docVars, passVars, pollVars>>

ListenerReconnects(r) ==
    /\ r \notin listening
    /\ listening' = listening \cup {r}
    /\ UNCHANGED <<envVars, docVars, passVars, pollVars, bus, lost>>

(***************************************************************************)
(* handleGetDSD: subscribe, read the version, answer or wait.              *)
(***************************************************************************)
Subscribe(s, r) ==
    /\ poll[s] = "idle"
    /\ poll' = [poll EXCEPT ![s] = "read"]
    /\ at' = [at EXCEPT ![s] = r]
    /\ UNCHANGED <<envVars, docVars, passVars, after, woken, busVars>>

\* The request is over, and its subscription with it.
EndPoll(s) ==
    /\ poll'  = [poll EXCEPT ![s] = "idle"]
    /\ at'    = [at EXCEPT ![s] = Nobody]
    /\ woken' = [woken EXCEPT ![s] = FALSE]

\* A newer document ends the poll with an answer.
ReadVersion(s) ==
    /\ poll[s] = "read"
    /\ FreeConn(at[s])
    /\ IF version[s] > after[s]
       THEN /\ EndPoll(s)
            /\ after' = [after EXCEPT ![s] = version[s]]
       ELSE /\ poll' = [poll EXCEPT ![s] = "wait"]
            /\ UNCHANGED <<at, after, woken>>
    /\ UNCHANGED <<envVars, docVars, passVars, busVars>>

\* The channel closed: subscribe again in the same replica, and read.
WakeUp(s) ==
    /\ poll[s] = "wait" /\ woken[s]
    /\ poll' = [poll EXCEPT ![s] = "read"]
    /\ woken' = [woken EXCEPT ![s] = FALSE]
    /\ UNCHANGED <<envVars, docVars, passVars, at, after, busVars>>

\* longPollTimeout, or the agent hung up.
PollTimeout(s) ==
    /\ poll[s] = "wait"
    /\ EndPoll(s)
    /\ UNCHANGED <<envVars, docVars, passVars, after, busVars>>

----------------------------------------------------------------------------
Init ==
    /\ config = [s \in Servers |-> Zero] /\ edits = 0
    /\ version = [s \in Servers |-> 0]
    /\ content = [s \in Servers |-> Zero]
    /\ maker = [s \in Servers |-> Nobody]
    /\ pc = [p \in Passes |-> "idle"]
    /\ srv = [p \in Passes |-> Nobody]
    /\ snap = [p \in Passes |-> Zero]
    /\ poll = [s \in Servers |-> "idle"]
    /\ at = [s \in Servers |-> Nobody]
    /\ after = [s \in Servers |-> 0]
    /\ woken = [s \in Servers |-> FALSE]
    /\ listening = Replicas /\ bus = {} /\ lost = FALSE
    /\ faults = 0

PassStep(p) ==
    \/ AcquireSlot(p) \/ LockServerReconcile(p)
    \/ \E t \in Tables : ReadTable(p, t)
    \/ StoreDSD(p) \/ Stamp(p) \/ NotifyLocal(p) \/ PublishDSDChange(p)

Next ==
    \/ \E s \in Servers, t \in Tables : Edit(s, t)
    \/ \E p \in Passes : \/ \E s \in Servers : StartPass(p, s)
                         \/ PassStep(p) \/ DropPass(p) \/ PassFails(p)
                         \/ CommitUnanswered(p)
    \/ \E r \in Replicas : \/ \E s \in Servers : Deliver(r, s)
                           \/ ListenerDrops(r) \/ ListenerReconnects(r)
    \/ \E s \in Servers : \/ \E r \in Replicas : Subscribe(s, r)
                          \/ ReadVersion(s) \/ WakeUp(s) \/ PollTimeout(s)

Spec == Init /\ [][Next]_vars

\* The resync starts passes for ever, a pass goes on, an agent polls for ever
\* and its wait times out.  Nothing is assumed of the bus or of users.
Fairness ==
    /\ \A p \in Passes : /\ WF_vars(\E s \in Servers : StartPass(p, s))
                         /\ WF_vars(PassStep(p))
    /\ \A s \in Servers : /\ WF_vars(\E r \in Replicas : Subscribe(s, r))
                          /\ WF_vars(ReadVersion(s)) /\ WF_vars(PollTimeout(s))

FairSpec == Spec /\ Fairness

----------------------------------------------------------------------------
(* Properties.                                                             *)

\* Every variable keeps its type.
TypeOK ==
    /\ config \in [Servers -> [Tables -> Nat]] /\ edits \in Nat
    /\ version \in [Servers -> Nat]
    /\ content \in [Servers -> [Tables -> Nat]]
    /\ maker \in [Servers -> Replicas \cup {Nobody}]
    /\ pc \in [Passes -> HoldsSlot \cup {"idle", "slot"}]
    /\ srv \in [Passes -> Servers \cup {Nobody}]
    /\ snap \in [Passes -> [Tables -> Nat]]
    /\ poll \in [Servers -> {"idle", "read", "wait"}]
    /\ at \in [Servers -> Replicas \cup {Nobody}]
    /\ after \in [Servers -> Nat]
    /\ woken \in [Servers -> BOOLEAN]
    /\ listening \subseteq Replicas /\ bus \subseteq Replicas \X Servers
    /\ lost \in BOOLEAN /\ faults \in Nat

\* "so an older snapshot can't overwrite a newer DSD" (SIGMA-94): whatever the
\* interleaving of passes and replicas, no table's part of a document is
\* replaced by an older reading of that table.
SnapshotNeverOlder ==
    [][\A s \in Servers, t \in Tables : content'[s][t] >= content[s][t]]_vars

\* SIGMA-288: the passes never hold every connection of a pool among them,
\* each waiting for the second one it needs.
PoolNotWedged == \A r \in Replicas : FreeConn(r)

\* A poll that waits although there is a newer document has its wake-up on the
\* way: always when its own replica stored the document, and from another
\* replica as long as no notification was lost.
NoLostWake ==
    \A s \in Servers :
        /\ poll[s] = "wait" /\ version[s] > after[s] /\ maker[s] # Nobody
        /\ maker[s] = at[s] \/ ~lost
        => \/ woken[s]
           \/ <<at[s], s>> \in bus
           \/ \E p \in Passes : /\ srv[p] = s
                               /\ \/ pc[p] \in {"stamp", "notify"}
                                  \/ pc[p] = "publish" /\ Home[p] # at[s]

\* Every change is eventually in a document that the agent has, whatever
\* wake-ups are lost and passes dropped.
EditReachesAgent ==
    \A s \in Servers, t \in Tables, n \in 1..MaxEdits :
        config[s][t] >= n ~> content[s][t] >= n /\ after[s] = version[s]
=============================================================================
