-------------------------- MODULE ReconcilerProofs --------------------------
(***************************************************************************)
(* Proofs about module Reconciler, for any number of servers, replicas,    *)
(* passes and edits: the advisory lock keeps documents from going back,    *)
(* the slots keep the pool from being exhausted by passes that wait for a  *)
(* second connection, and no wake-up is lost.                              *)
(***************************************************************************)
EXTENDS Reconciler, FiniteSetTheorems, TLAPS

\* At most one pass works on a server's document.
Mutex ==
    \A p, q \in Passes :
        pc[p] \in HoldsLock /\ pc[q] \in HoldsLock /\ srv[p] = srv[q] => p = q

\* A pass that is under way works on a server.
Busy == \A p \in Passes : pc[p] # "idle" => srv[p] \in Servers

\* What a pass has read so far lies between what its server's document holds
\* and what the configuration is now.
Between ==
    /\ \A s \in Servers, t \in Tables : content[s][t] <= config[s][t]
    /\ \A p \in Passes :
         /\ pc[p] \in {"targets", "store"} =>
              /\ content[srv[p]]["specs"] <= snap[p]["specs"]
              /\ snap[p]["specs"] <= config[srv[p]]["specs"]
         /\ pc[p] = "store" =>
              /\ content[srv[p]]["targets"] <= snap[p]["targets"]
              /\ snap[p]["targets"] <= config[srv[p]]["targets"]

SnapInv == TypeOK /\ Busy /\ Mutex /\ Between

USE DEF Tables

\* The initial state is well typed and no pass is under way.
LEMMA TypeInit == Init => TypeOK /\ Busy
<1> SUFFICES ASSUME Init PROVE TypeOK /\ Busy
  OBVIOUS
<1>1. Zero \in [Tables -> Nat]
  BY DEF Zero
<1>2. woken \in [Servers -> BOOLEAN] /\ lost \in BOOLEAN
  BY Zenon DEF Init
<1>3. bus \subseteq Replicas \X Servers /\ listening \subseteq Replicas
  BY DEF Init
<1>4. Busy
  BY DEF Init, Busy
<1> QED BY <1>1, <1>2, <1>3, <1>4 DEF Init, TypeOK, HoldsSlot

\* What a step of one pass that touches only the pass leaves well typed.
LEMMA PassTypes ==
  ASSUME TypeOK, Busy, NEW p \in Passes, End(p) \/ \E l \in HoldsSlot : Goto(p, l) /\ pc[p] # "idle"
  PROVE  /\ pc' \in [Passes -> HoldsSlot \cup {"idle", "slot"}]
         /\ srv' \in [Passes -> Servers \cup {Nobody}]
         /\ snap' \in [Passes -> [Tables -> Nat]]
         /\ Busy'
<1>1. Zero \in [Tables -> Nat]
  BY DEF Zero
<1>2. CASE End(p)
  BY <1>1, <1>2 DEF End, TypeOK, Busy
<1>3. CASE \E l \in HoldsSlot : Goto(p, l) /\ pc[p] # "idle"
  BY <1>3 DEF Goto, TypeOK, Busy
<1> QED BY <1>2, <1>3

\* A wake-up writes only Booleans.
LEMMA WakeTypes ==
  ASSUME TypeOK, NEW r, NEW s, Wake(r, s)
  PROVE  woken' \in [Servers -> BOOLEAN]
<1>1. woken \in [Servers -> BOOLEAN]
  BY DEF TypeOK
<1> QED BY <1>1, Zenon DEF Wake

\* Every step preserves the types.
LEMMA TypeStep == TypeOK /\ Busy /\ [Next]_vars => TypeOK' /\ Busy'
<1> SUFFICES ASSUME TypeOK, Busy, [Next]_vars PROVE TypeOK' /\ Busy'
  OBVIOUS
<1> USE DEF envVars, cfgVars, docVars, passVars, pollVars, busVars
<1>0. CASE UNCHANGED vars
  BY <1>0 DEF vars, TypeOK, Busy
<1>1. ASSUME NEW s \in Servers, NEW t \in Tables, Edit(s, t) PROVE TypeOK' /\ Busy'
  BY <1>1 DEF Edit, TypeOK, Busy
<1>2. ASSUME NEW p \in Passes, NEW s \in Servers, StartPass(p, s) PROVE TypeOK' /\ Busy'
  BY <1>2 DEF StartPass, TypeOK, Busy, HoldsSlot
<1>3. ASSUME NEW p \in Passes, AcquireSlot(p) \/ LockServerReconcile(p) \/ Stamp(p)
      PROVE  TypeOK' /\ Busy'
  <2>1. (\E l \in HoldsSlot : Goto(p, l)) /\ pc[p] # "idle"
    BY <1>3 DEF AcquireSlot, LockServerReconcile, Stamp, HoldsSlot
  <2> QED BY <1>3, <2>1, PassTypes DEF AcquireSlot, LockServerReconcile, Stamp, TypeOK
<1>4. ASSUME NEW p \in Passes, NEW t \in Tables, ReadTable(p, t) PROVE TypeOK' /\ Busy'
  <2>1. srv[p] \in Servers /\ config[srv[p]][t] \in Nat
    BY <1>4 DEF ReadTable, Busy, TypeOK
  <2>2. snap' \in [Passes -> [Tables -> Nat]]
    BY <1>4, <2>1 DEF ReadTable, TypeOK
  <2>3. pc' \in [Passes -> HoldsSlot \cup {"idle", "slot"}] /\ Busy'
    BY <1>4, <2>1 DEF ReadTable, TypeOK, HoldsSlot, Busy
  <2> QED BY <1>4, <2>2, <2>3 DEF ReadTable, TypeOK
<1>5. ASSUME NEW p \in Passes, StoreDSD(p) \/ CommitUnanswered(p) PROVE TypeOK' /\ Busy'
  <2>1. srv[p] \in Servers
    BY <1>5 DEF StoreDSD, CommitUnanswered, Busy
  <2>2. End(p) \/ ((\E l \in HoldsSlot : Goto(p, l)) /\ pc[p] # "idle")
    BY <1>5 DEF StoreDSD, CommitUnanswered, HoldsSlot
  <2>3. /\ version' \in [Servers -> Nat]
        /\ content' \in [Servers -> [Tables -> Nat]]
        /\ maker' \in [Servers -> Replicas \cup {Nobody}]
    <3>1. snap[p] \in [Tables -> Nat] /\ Home[p] \in Replicas \cup {Nobody}
      BY ConstantsAssumption DEF TypeOK
    <3>2. CASE UNCHANGED docVars
      BY <3>2 DEF TypeOK
    <3>3. ASSUME NEW r \in Replicas \cup {Nobody},
                 maker' = [maker EXCEPT ![srv[p]] = r],
                 version' = [version EXCEPT ![srv[p]] = @ + 1],
                 content' = [content EXCEPT ![srv[p]] = snap[p]]
          PROVE  /\ version' \in [Servers -> Nat]
                 /\ content' \in [Servers -> [Tables -> Nat]]
                 /\ maker' \in [Servers -> Replicas \cup {Nobody}]
      BY <2>1, <3>1, <3>3 DEF TypeOK
    <3> QED BY <1>5, <3>1, <3>2, <3>3 DEF StoreDSD, CommitUnanswered
  <2>4. UNCHANGED <<config, edits, poll, at, after, woken, listening, bus, lost>> /\ faults' \in Nat
    BY <1>5 DEF StoreDSD, CommitUnanswered, Fault, TypeOK
  <2> QED BY <2>2, <2>3, <2>4, PassTypes DEF TypeOK
<1>6. ASSUME NEW p \in Passes, NotifyLocal(p) PROVE TypeOK' /\ Busy'
  <2>1. (\E l \in HoldsSlot : Goto(p, l)) /\ pc[p] # "idle"
    BY <1>6 DEF NotifyLocal, HoldsSlot
  <2>2. woken' \in [Servers -> BOOLEAN]
    BY <1>6, WakeTypes DEF NotifyLocal
  <2> QED BY <1>6, <2>1, <2>2, PassTypes DEF NotifyLocal, TypeOK
<1>7. ASSUME NEW p \in Passes, PublishDSDChange(p) PROVE TypeOK' /\ Busy'
  <2>1. srv[p] \in Servers /\ bus' \subseteq Replicas \X Servers
    BY <1>7 DEF PublishDSDChange, Busy, TypeOK
  <2> QED BY <1>7, <2>1, PassTypes DEF PublishDSDChange, TypeOK
<1>8. ASSUME NEW p \in Passes, DropPass(p) \/ PassFails(p) PROVE TypeOK' /\ Busy'
  <2>1. lost' \in BOOLEAN
    <3>1. CASE DropPass(p) BY <3>1, Zenon DEF DropPass, TypeOK
    <3>2. CASE PassFails(p) BY <3>2, Zenon DEF PassFails, TypeOK
    <3> QED BY <1>8, <3>1, <3>2
  <2>2. End(p) /\ faults' \in Nat
    BY <1>8 DEF DropPass, PassFails, Fault, TypeOK
  <2> QED BY <1>8, <2>1, <2>2, PassTypes DEF DropPass, PassFails, TypeOK
<1>9. ASSUME NEW r \in Replicas, NEW s \in Servers, Deliver(r, s) PROVE TypeOK' /\ Busy'
  <2>1. woken' \in [Servers -> BOOLEAN]
    BY <1>9, WakeTypes DEF Deliver
  <2> QED BY <1>9, <2>1 DEF Deliver, TypeOK, Busy
<1>10. ASSUME NEW r \in Replicas, ListenerDrops(r) \/ ListenerReconnects(r) PROVE TypeOK' /\ Busy'
  <2>1. lost' \in BOOLEAN
    BY <1>10, Zenon DEF ListenerDrops, ListenerReconnects, TypeOK
  <2> QED BY <1>10, <2>1 DEF ListenerDrops, ListenerReconnects, Fault, TypeOK, Busy
<1>11. ASSUME NEW s \in Servers, NEW r \in Replicas, Subscribe(s, r) PROVE TypeOK' /\ Busy'
  BY <1>11 DEF Subscribe, TypeOK, Busy
<1>12. ASSUME NEW s \in Servers, ReadVersion(s) \/ WakeUp(s) \/ PollTimeout(s)
       PROVE  TypeOK' /\ Busy'
  <2>1. woken' \in [Servers -> BOOLEAN]
    <3>1. woken \in [Servers -> BOOLEAN] BY DEF TypeOK
    <3>2. UNCHANGED woken \/ woken' = [woken EXCEPT ![s] = FALSE]
      BY <1>12 DEF ReadVersion, WakeUp, PollTimeout, EndPoll
    <3> QED BY <3>1, <3>2, Zenon
  <2>2. poll' \in [Servers -> {"idle", "read", "wait"}] /\ at' \in [Servers -> Replicas \cup {Nobody}]
    BY <1>12 DEF ReadVersion, WakeUp, PollTimeout, EndPoll, TypeOK
  <2> QED BY <1>12, <2>1, <2>2 DEF ReadVersion, WakeUp, PollTimeout, EndPoll, TypeOK, Busy
<1> QED
  BY <1>0, <1>1, <1>2, <1>3, <1>4, <1>5, <1>6, <1>7, <1>8, <1>9, <1>10, <1>11, <1>12
  DEF Next, PassStep

\* Only LockServerReconcile lets a pass into the locked section, and a pass in
\* it keeps to its server.
LEMMA LockKept ==
  ASSUME TypeOK, Busy, [Next]_vars, NEW q \in Passes, pc'[q] \in HoldsLock
  PROVE  /\ srv'[q] = srv[q] /\ srv[q] \in Servers
         /\ pc[q] \in HoldsLock \/ LockServerReconcile(q)
<1> USE DEF envVars, docVars, passVars, HoldsLock, HoldsSlot
<1>0. pc \in [Passes -> HoldsSlot \cup {"idle", "slot"}] /\ srv \in [Passes -> Servers \cup {Nobody}]
  BY DEF TypeOK
<1>1. CASE UNCHANGED <<pc, srv>>
  BY <1>1 DEF Busy
<1>2. ASSUME NEW p \in Passes, NEW s \in Servers, StartPass(p, s)
      PROVE  srv'[q] = srv[q] /\ srv[q] \in Servers /\ pc[q] \in HoldsLock
  BY <1>0, <1>2 DEF StartPass, Busy
<1>3. ASSUME NEW p \in Passes, End(p)
      PROVE  srv'[q] = srv[q] /\ srv[q] \in Servers /\ pc[q] \in HoldsLock
  BY <1>0, <1>3 DEF End, Busy
<1>4. ASSUME NEW p \in Passes, NEW l, Goto(p, l), l = "lock" \/ pc[p] \in HoldsLock
      PROVE  srv'[q] = srv[q] /\ srv[q] \in Servers /\ pc[q] \in HoldsLock
  BY <1>0, <1>4 DEF Goto, Busy
<1>5. ASSUME NEW p \in Passes, LockServerReconcile(p)
      PROVE  /\ srv'[q] = srv[q] /\ srv[q] \in Servers
             /\ pc[q] \in HoldsLock \/ LockServerReconcile(q)
  BY <1>0, <1>5 DEF LockServerReconcile, Goto, Busy
<1>6. ASSUME NEW p \in Passes, NEW t \in Tables, ReadTable(p, t)
      PROVE  srv'[q] = srv[q] /\ srv[q] \in Servers /\ pc[q] \in HoldsLock
  BY <1>0, <1>6 DEF ReadTable, Busy
<1>7. ASSUME NEW p \in Passes, AcquireSlot(p)
      PROVE  Goto(p, "lock")
  BY <1>7 DEF AcquireSlot
<1>8. ASSUME NEW p \in Passes, StoreDSD(p) \/ Stamp(p) \/ NotifyLocal(p) \/ PublishDSDChange(p)
      PROVE  End(p) \/ \E l : Goto(p, l) /\ pc[p] \in HoldsLock
  BY <1>8 DEF StoreDSD, Stamp, NotifyLocal, PublishDSDChange
<1>9. ASSUME NEW p \in Passes, DropPass(p) \/ PassFails(p) \/ CommitUnanswered(p)
      PROVE  End(p)
  BY <1>9 DEF DropPass, PassFails, CommitUnanswered
<1>10. CASE UNCHANGED vars
  BY <1>1, <1>10 DEF vars
<1>11. ASSUME NEW s \in Servers, NEW t \in Tables, Edit(s, t) PROVE UNCHANGED <<pc, srv>>
  BY <1>11 DEF Edit
<1>12. ASSUME NEW s \in Servers, NEW r \in Replicas,
              Deliver(r, s) \/ Subscribe(s, r)
       PROVE  UNCHANGED <<pc, srv>>
  BY <1>12 DEF Deliver, Subscribe
<1>13. ASSUME NEW r \in Replicas, ListenerDrops(r) \/ ListenerReconnects(r)
       PROVE  UNCHANGED <<pc, srv>>
  BY <1>13 DEF ListenerDrops, ListenerReconnects
<1>14. ASSUME NEW s \in Servers, ReadVersion(s) \/ WakeUp(s) \/ PollTimeout(s)
       PROVE  UNCHANGED <<pc, srv>>
  BY <1>14 DEF ReadVersion, WakeUp, PollTimeout
<1> QED
  BY <1>1, <1>2, <1>3, <1>4, <1>5, <1>6, <1>7, <1>8, <1>9, <1>10, <1>11, <1>12, <1>13, <1>14
  DEF Next, PassStep

\* The advisory lock excludes a second pass over the same server.
LEMMA MutexStep == TypeOK /\ Busy /\ Mutex /\ [Next]_vars => Mutex'
<1> SUFFICES ASSUME TypeOK, Busy, Mutex, [Next]_vars,
                    NEW p \in Passes, NEW q \in Passes,
                    pc'[p] \in HoldsLock, pc'[q] \in HoldsLock, srv'[p] = srv'[q]
             PROVE  p = q
  BY DEF Mutex, HoldsLock, HoldsSlot
<1>1. /\ srv[p] = srv[q]
      /\ pc[p] \in HoldsLock \/ LockServerReconcile(p)
      /\ pc[q] \in HoldsLock \/ LockServerReconcile(q)
  BY LockKept
<1>2. CASE pc[p] \in HoldsLock /\ pc[q] \in HoldsLock
  BY <1>1, <1>2 DEF Mutex
<1>3. ASSUME NEW x \in Passes, NEW y \in Passes, LockServerReconcile(x), srv[x] = srv[y]
      PROVE  pc[y] \notin HoldsLock
  BY <1>3 DEF LockServerReconcile, Locked
<1>4. ASSUME LockServerReconcile(p), LockServerReconcile(q) PROVE p = q
  <2>1. pc[p] = "lock" /\ pc[q] = "lock" /\ pc' = [pc EXCEPT ![p] = "specs"]
    BY <1>4 DEF LockServerReconcile, Goto
  <2>2. pc'[q] # "lock"
    BY DEF HoldsLock
  <2> QED BY <2>1, <2>2 DEF TypeOK
<1> QED BY <1>1, <1>2, <1>3, <1>4

\* The steps that neither read a table nor store a document: a pass they move
\* is past its reading or has not begun it.
LEMMA BetweenFrame ==
  ASSUME TypeOK, Busy, Between, UNCHANGED <<config, content>>,
         \/ UNCHANGED <<pc, srv, snap>>
         \/ \E p \in Passes, s \in Servers : StartPass(p, s)
         \/ \E p \in Passes : End(p)
         \/ \E p \in Passes, l \in HoldsSlot \ {"targets", "store"} : Goto(p, l)
  PROVE  Between'
<1>0. /\ pc \in [Passes -> HoldsSlot \cup {"idle", "slot"}]
      /\ srv \in [Passes -> Servers \cup {Nobody}]
      /\ snap \in [Passes -> [Tables -> Nat]]
  BY DEF TypeOK
<1>1. SUFFICES ASSUME NEW q \in Passes, pc'[q] \in {"targets", "store"}
               PROVE  pc'[q] = pc[q] /\ srv'[q] = srv[q] /\ snap'[q] = snap[q]
  BY DEF Between
<1>2. CASE UNCHANGED <<pc, srv, snap>>
  BY <1>2
<1>3. ASSUME NEW p \in Passes, NEW s \in Servers, StartPass(p, s)
      PROVE  pc'[q] = pc[q] /\ srv'[q] = srv[q] /\ snap'[q] = snap[q]
  BY <1>0, <1>1, <1>3 DEF StartPass
<1>4. ASSUME NEW p \in Passes, End(p)
      PROVE  pc'[q] = pc[q] /\ srv'[q] = srv[q] /\ snap'[q] = snap[q]
  BY <1>0, <1>1, <1>4 DEF End
<1>5. ASSUME NEW p \in Passes, NEW l \in HoldsSlot \ {"targets", "store"}, Goto(p, l)
      PROVE  pc'[q] = pc[q] /\ srv'[q] = srv[q] /\ snap'[q] = snap[q]
  BY <1>0, <1>1, <1>5 DEF Goto
<1> QED BY <1>2, <1>3, <1>4, <1>5

\* Storing what a pass has read moves the document forward, and no other pass
\* has begun to read for that server.
LEMMA BetweenStore ==
  ASSUME SnapInv, NEW p \in Passes, pc[p] = "store",
         content' = [content EXCEPT ![srv[p]] = snap[p]], UNCHANGED config,
         End(p) \/ Goto(p, "stamp")
  PROVE  /\ Between'
         /\ \A s \in Servers, t \in Tables : content'[s][t] >= content[s][t]
<1>0. /\ pc \in [Passes -> HoldsSlot \cup {"idle", "slot"}]
      /\ srv \in [Passes -> Servers \cup {Nobody}]
      /\ snap \in [Passes -> [Tables -> Nat]]
      /\ content \in [Servers -> [Tables -> Nat]]
      /\ config \in [Servers -> [Tables -> Nat]]
  BY DEF SnapInv, TypeOK
<1>1. srv[p] \in Servers
  BY DEF SnapInv, Busy
<1>2. \A t \in Tables : content[srv[p]][t] <= snap[p][t] /\ snap[p][t] <= config[srv[p]][t]
  BY DEF SnapInv, Between
<1>3. \A s \in Servers, t \in Tables :
         content'[s][t] >= content[s][t] /\ content'[s][t] <= config'[s][t]
  BY <1>0, <1>1, <1>2 DEF SnapInv, Between
<1>4. ASSUME NEW q \in Passes, pc'[q] \in {"targets", "store"}
      PROVE  /\ pc'[q] = pc[q] /\ srv'[q] = srv[q] /\ snap'[q] = snap[q]
             /\ content'[srv[q]] = content[srv[q]]
  <2>1. q # p
    BY <1>0, <1>4 DEF End, Goto
  <2>2. pc'[q] = pc[q] /\ srv'[q] = srv[q] /\ snap'[q] = snap[q]
    BY <1>0, <2>1 DEF End, Goto
  <2>3. srv[q] # srv[p] /\ srv[q] \in Servers
    BY <1>4, <2>1, <2>2 DEF SnapInv, Mutex, Busy, HoldsLock, HoldsSlot
  <2> QED BY <1>0, <1>1, <2>2, <2>3
<1> QED BY <1>3, <1>4 DEF SnapInv, Between

\* Reading a table puts the reading between the document and the configuration.
LEMMA BetweenRead ==
  ASSUME SnapInv, NEW p \in Passes, NEW t \in Tables, ReadTable(p, t)
  PROVE  Between'
<1>0. /\ pc \in [Passes -> HoldsSlot \cup {"idle", "slot"}]
      /\ srv \in [Passes -> Servers \cup {Nobody}]
      /\ snap \in [Passes -> [Tables -> Nat]]
      /\ content \in [Servers -> [Tables -> Nat]]
      /\ config \in [Servers -> [Tables -> Nat]]
  BY DEF SnapInv, TypeOK
<1>1. /\ srv[p] \in Servers /\ UNCHANGED <<config, content, srv>>
      /\ snap' = [snap EXCEPT ![p][t] = config[srv[p]][t]]
      /\ pc' = [pc EXCEPT ![p] = IF t = "specs" THEN "targets" ELSE "store"]
      /\ pc[p] = t
  BY DEF SnapInv, Busy, ReadTable, envVars, cfgVars, docVars
<1>2. \A u \in Tables : content[srv[p]][u] <= config[srv[p]][u]
  BY <1>1 DEF SnapInv, Between
<1>3. ASSUME NEW q \in Passes, q # p
      PROVE  pc'[q] = pc[q] /\ srv'[q] = srv[q] /\ snap'[q] = snap[q]
  BY <1>0, <1>1, <1>3
<1>4. CASE t = "specs"
  <2>1. snap'[p]["specs"] = config[srv[p]]["specs"] /\ pc'[p] = "targets"
    BY <1>0, <1>1, <1>4
  <2> QED BY <1>0, <1>1, <1>2, <1>3, <2>1 DEF SnapInv, Between
<1>5. CASE t = "targets"
  <2>1. /\ snap'[p]["targets"] = config[srv[p]]["targets"] /\ pc'[p] = "store"
        /\ snap'[p]["specs"] = snap[p]["specs"] /\ pc[p] = "targets"
    BY <1>0, <1>1, <1>5
  <2> QED BY <1>0, <1>1, <1>2, <1>3, <2>1 DEF SnapInv, Between
<1> QED BY <1>4, <1>5

\* Documents grow with the configuration, and every reading lies between.
LEMMA SnapStep ==
  SnapInv /\ [Next]_vars =>
     SnapInv' /\ \A s \in Servers, t \in Tables : content'[s][t] >= content[s][t]
<1> SUFFICES ASSUME SnapInv, [Next]_vars
             PROVE  /\ Between'
                    /\ \A s \in Servers, t \in Tables : content'[s][t] >= content[s][t]
  BY TypeStep, MutexStep DEF SnapInv
<1> USE DEF envVars, cfgVars, docVars, passVars, HoldsSlot
<1>0. TypeOK /\ Busy /\ Between /\ content \in [Servers -> [Tables -> Nat]]
      /\ config \in [Servers -> [Tables -> Nat]]
  BY DEF SnapInv, TypeOK
<1>1. ASSUME UNCHANGED content
      PROVE  \A s \in Servers, t \in Tables : content'[s][t] >= content[s][t]
  BY <1>0, <1>1
<1>2. ASSUME NEW s \in Servers, NEW t \in Tables, Edit(s, t)
      PROVE  Between' /\ UNCHANGED content
  <2>1. \A x \in Servers, u \in Tables : config'[x][u] >= config[x][u] /\ config'[x][u] \in Nat
    BY <1>0, <1>2 DEF Edit
  <2>2. UNCHANGED <<content, pc, srv, snap>>
    BY <1>2 DEF Edit
  <2> QED BY <1>0, <2>1, <2>2 DEF Between, Busy, TypeOK
<1>3. ASSUME NEW p \in Passes, StoreDSD(p) \/ CommitUnanswered(p)
      PROVE  Between' /\ \A s \in Servers, t \in Tables : content'[s][t] >= content[s][t]
  <2>1. CASE snap[p] = content[srv[p]]
    <3>1. End(p) /\ UNCHANGED <<config, content>>
      BY <1>3, <2>1 DEF StoreDSD, CommitUnanswered
    <3> QED BY <1>0, <1>1, <3>1, BetweenFrame
  <2>2. CASE snap[p] # content[srv[p]]
    BY <1>3, <2>2, BetweenStore DEF StoreDSD, CommitUnanswered
  <2> QED BY <2>1, <2>2
<1>4. ASSUME NEW p \in Passes, NEW t \in Tables, ReadTable(p, t)
      PROVE  Between' /\ UNCHANGED content
  BY <1>4, BetweenRead DEF ReadTable
<1>5. ASSUME NEW p \in Passes,
             \/ AcquireSlot(p) \/ LockServerReconcile(p) \/ Stamp(p) \/ NotifyLocal(p)
             \/ PublishDSDChange(p) \/ DropPass(p) \/ PassFails(p)
      PROVE  Between' /\ UNCHANGED content
  <2>1. UNCHANGED <<config, content>>
        /\ (End(p) \/ \E l \in HoldsSlot \ {"targets", "store"} : Goto(p, l))
    BY <1>5 DEF AcquireSlot, LockServerReconcile, Stamp, NotifyLocal, PublishDSDChange,
                DropPass, PassFails
  <2> QED BY <1>0, <2>1, BetweenFrame
<1>6. ASSUME NEW p \in Passes, NEW s \in Servers, StartPass(p, s)
      PROVE  Between' /\ UNCHANGED content
  <2>1. UNCHANGED <<config, content>>
    BY <1>6 DEF StartPass
  <2> QED BY <1>0, <1>6, <2>1, BetweenFrame
<1>7. ASSUME \/ UNCHANGED vars
             \/ \E r \in Replicas : \/ \E s \in Servers : Deliver(r, s)
                                    \/ ListenerDrops(r) \/ ListenerReconnects(r)
             \/ \E s \in Servers : \/ \E r \in Replicas : Subscribe(s, r)
                                   \/ ReadVersion(s) \/ WakeUp(s) \/ PollTimeout(s)
      PROVE  Between' /\ UNCHANGED content
  <2>1. UNCHANGED <<config, content, pc, srv, snap>>
    BY <1>7 DEF vars, Deliver, ListenerDrops, ListenerReconnects, Subscribe, ReadVersion,
                WakeUp, PollTimeout
  <2> QED BY <1>0, <2>1, BetweenFrame
<1> QED BY <1>1, <1>2, <1>3, <1>4, <1>5, <1>6, <1>7 DEF Next, PassStep

\* The invariant holds initially.
LEMMA SnapInit == Init => SnapInv
<1>1. Init => Mutex /\ Between
  BY DEF Init, Mutex, Between, HoldsLock, HoldsSlot, Zero
<1> QED BY <1>1, TypeInit DEF SnapInv

\* The types hold in every reachable state.
THEOREM TypeCorrect == Spec => []TypeOK
<1>1. SnapInv => TypeOK
  BY DEF SnapInv
<1> QED BY <1>1, SnapInit, SnapStep, PTL DEF Spec

\* A document never goes back to an older reading of a table: the advisory lock
\* of LockServerReconcile covers every read and the store.
THEOREM SnapshotNeverOlderCorrect == Spec => SnapshotNeverOlder
<1>1. SnapInv /\ [Next]_vars =>
         [\A s \in Servers, t \in Tables : content'[s][t] >= content[s][t]]_vars
  BY SnapStep
<1> QED BY <1>1, SnapInit, SnapStep, PTL DEF Spec, SnapshotNeverOlder

-----------------------------------------------------------------------------
(* The pool *)

\* The passes of a replica that have a slot.
InSlot(r) == {p \in Passes : Home[p] = r /\ pc[p] \in HoldsSlot}

\* The slots of acquireSlot are never oversubscribed.
SlotsBounded == \A r \in Replicas : SlotsUsed(r) <= Slots

\* Only AcquireSlot takes a slot.
LEMMA SlotKept ==
  ASSUME TypeOK, Busy, [Next]_vars, NEW q \in Passes, pc'[q] \in HoldsSlot
  PROVE  pc[q] \in HoldsSlot \/ AcquireSlot(q)
<1> USE DEF envVars, docVars, passVars, HoldsSlot
<1>0. pc \in [Passes -> HoldsSlot \cup {"idle", "slot"}]
  BY DEF TypeOK
<1>1. CASE UNCHANGED pc
  BY <1>1
<1>2. ASSUME NEW p \in Passes, NEW s \in Servers, StartPass(p, s)
      PROVE  pc[q] \in HoldsSlot
  BY <1>0, <1>2 DEF StartPass
<1>3. ASSUME NEW p \in Passes, End(p)
      PROVE  pc[q] \in HoldsSlot
  BY <1>0, <1>3 DEF End
<1>4. ASSUME NEW p \in Passes, NEW l, Goto(p, l), pc[p] \in HoldsSlot
      PROVE  pc[q] \in HoldsSlot
  BY <1>0, <1>4 DEF Goto
<1>5. ASSUME NEW p \in Passes, AcquireSlot(p)
      PROVE  pc[q] \in HoldsSlot \/ AcquireSlot(q)
  BY <1>0, <1>5 DEF AcquireSlot, Goto
<1>6. ASSUME NEW p \in Passes, NEW t \in Tables, ReadTable(p, t)
      PROVE  pc[q] \in HoldsSlot
  BY <1>0, <1>6 DEF ReadTable
<1>7. ASSUME NEW p \in Passes,
             \/ LockServerReconcile(p) \/ StoreDSD(p) \/ Stamp(p) \/ NotifyLocal(p)
             \/ PublishDSDChange(p)
      PROVE  End(p) \/ \E l : Goto(p, l) /\ pc[p] \in HoldsSlot
  BY <1>7 DEF LockServerReconcile, StoreDSD, Stamp, NotifyLocal, PublishDSDChange
<1>8. ASSUME NEW p \in Passes, DropPass(p) \/ PassFails(p) \/ CommitUnanswered(p)
      PROVE  End(p)
  BY <1>8 DEF DropPass, PassFails, CommitUnanswered
<1>9. ASSUME \/ UNCHANGED vars
             \/ \E s \in Servers, t \in Tables : Edit(s, t)
             \/ \E r \in Replicas : \/ \E s \in Servers : Deliver(r, s)
                                    \/ ListenerDrops(r) \/ ListenerReconnects(r)
             \/ \E s \in Servers : \/ \E r \in Replicas : Subscribe(s, r)
                                   \/ ReadVersion(s) \/ WakeUp(s) \/ PollTimeout(s)
      PROVE  UNCHANGED pc
  BY <1>9 DEF vars, Edit, Deliver, ListenerDrops, ListenerReconnects, Subscribe,
              ReadVersion, WakeUp, PollTimeout
<1> QED
  BY <1>1, <1>2, <1>3, <1>4, <1>5, <1>6, <1>7, <1>8, <1>9 DEF Next, PassStep

\* Every step respects the slots.
LEMMA SlotsStep == TypeOK /\ Busy /\ SlotsBounded /\ [Next]_vars => SlotsBounded'
<1> SUFFICES ASSUME TypeOK, Busy, SlotsBounded, [Next]_vars, NEW r \in Replicas
             PROVE  SlotsUsed(r)' <= Slots
  BY DEF SlotsBounded
<1>0. /\ IsFiniteSet(InSlot(r)) /\ IsFiniteSet(InSlot(r)')
      /\ SlotsUsed(r) = Cardinality(InSlot(r)) /\ SlotsUsed(r)' = Cardinality(InSlot(r)')
      /\ SlotsUsed(r) \in Nat /\ SlotsUsed(r)' \in Nat /\ Slots \in Nat
  <2>1. IsFiniteSet(InSlot(r)) /\ IsFiniteSet(InSlot(r)')
    BY ConstantsAssumption, FS_Subset DEF InSlot
  <2> QED BY <2>1, ConstantsAssumption, FS_CardinalityType DEF SlotsUsed, InSlot
<1>1. CASE \E p \in Passes : AcquireSlot(p) /\ Home[p] = r
  <2> PICK p \in Passes : AcquireSlot(p) /\ Home[p] = r
    BY <1>1
  <2>1. pc[p] = "slot" /\ SlotsUsed(r) < Slots /\ pc' = [pc EXCEPT ![p] = "lock"]
    BY DEF AcquireSlot, Goto
  <2>2. InSlot(r)' = InSlot(r) \cup {p} /\ p \notin InSlot(r)
    BY <2>1 DEF InSlot, HoldsSlot, TypeOK
  <2>3. Cardinality(InSlot(r)') = Cardinality(InSlot(r)) + 1
    BY <1>0, <2>2, FS_AddElement
  <2> QED BY <1>0, <2>1, <2>3
<1>2. CASE ~ \E p \in Passes : AcquireSlot(p) /\ Home[p] = r
  <2>1. InSlot(r)' \subseteq InSlot(r)
    BY <1>2, SlotKept DEF InSlot
  <2>2. Cardinality(InSlot(r)') <= Cardinality(InSlot(r))
    BY <1>0, <2>1, FS_Subset
  <2> QED BY <1>0, <2>2 DEF SlotsBounded
<1> QED BY <1>1, <1>2

\* SIGMA-288, for any number of passes: as long as there are fewer slots than
\* connections, a pass that holds its lock's connection finds a second one.
THEOREM PoolNotWedgedCorrect == Spec => []PoolNotWedged
<1>1. Init => SlotsBounded
  <2> SUFFICES ASSUME Init, NEW r \in Replicas PROVE SlotsUsed(r) <= Slots
    BY DEF SlotsBounded
  <2>1. InSlot(r) = {}
    BY DEF Init, InSlot, HoldsSlot
  <2> QED BY <2>1, FS_EmptySet, ConstantsAssumption DEF SlotsUsed, InSlot
<1>2. TypeOK /\ SlotsBounded => PoolNotWedged
  <2> SUFFICES ASSUME SlotsBounded, NEW r \in Replicas PROVE FreeConn(r)
    BY DEF PoolNotWedged
  <2> DEFINE InLock == {p \in Passes : Home[p] = r /\ pc[p] \in HoldsLock}
  <2>1. IsFiniteSet(InSlot(r)) /\ InLock \subseteq InSlot(r)
    BY ConstantsAssumption, FS_Subset DEF InSlot, HoldsLock
  <2>2. /\ Cardinality(InLock) <= Cardinality(InSlot(r))
        /\ Cardinality(InLock) \in Nat /\ Cardinality(InSlot(r)) \in Nat
    BY <2>1, FS_Subset, FS_CardinalityType
  <2>3. Cardinality(InSlot(r)) <= Slots
    BY DEF SlotsBounded, SlotsUsed, InSlot
  <2>4. Cardinality(InLock) < PoolSize
    BY <2>2, <2>3, ConstantsAssumption
  <2> QED BY <2>4 DEF FreeConn, ConnsUsed
<1>3. Init => TypeOK /\ Busy
  BY TypeInit
<1> QED BY <1>1, <1>2, <1>3, TypeStep, SlotsStep, PTL DEF Spec

-----------------------------------------------------------------------------
(* The wake-up *)

Announcing == {"stamp", "notify", "publish"}

\* The pass that goes on to announce a document is the one that stored it.
MakerAnnounces == \A p \in Passes : pc[p] \in Announcing => maker[srv[p]] = Home[p]

\* Until a listener drops, every replica listens.
AllListen == ~lost => listening = Replicas

\* A poll that is open is served by a replica.
Served == \A s \in Servers : poll[s] # "idle" => at[s] \in Replicas

\* NoLostWake, told apart by who stored the document.  In the replica that did,
\* the wake-up does not depend on the bus.
Waiting(s) == poll[s] = "wait" /\ version[s] > after[s] /\ maker[s] # Nobody
Coming(s, labels) == \E p \in Passes : srv[p] = s /\ pc[p] \in labels
WakeComes ==
    \A s \in Servers : Waiting(s) =>
        /\ maker[s] = at[s] => woken[s] \/ Coming(s, {"stamp", "notify"})
        /\ maker[s] # at[s] /\ ~lost =>
              woken[s] \/ <<at[s], s>> \in bus \/ Coming(s, Announcing)

WakeInv == SnapInv /\ MakerAnnounces /\ AllListen /\ Served /\ WakeComes

\* The initial state satisfies it.
LEMMA WakeInit == Init => WakeInv
<1>1. Init => MakerAnnounces /\ AllListen /\ Served /\ WakeComes
  BY DEF Init, MakerAnnounces, AllListen, Served, WakeComes, Waiting, Announcing
<1> QED BY <1>1, SnapInit DEF WakeInv

\* WakeInv is as strong as NoLostWake.
LEMMA WakeImplies == WakeInv => NoLostWake
<1> SUFFICES ASSUME WakeInv, NEW s \in Servers,
                    poll[s] = "wait", version[s] > after[s], maker[s] # Nobody,
                    maker[s] = at[s] \/ ~lost
             PROVE  \/ woken[s]
                    \/ <<at[s], s>> \in bus
                    \/ \E p \in Passes : /\ srv[p] = s
                                        /\ \/ pc[p] \in {"stamp", "notify"}
                                           \/ pc[p] = "publish" /\ Home[p] # at[s]
  BY DEF NoLostWake
<1>1. Waiting(s)
  BY DEF Waiting
<1>2. CASE maker[s] = at[s]
  BY <1>1, <1>2 DEF WakeInv, WakeComes, Coming
<1>3. CASE maker[s] # at[s] /\ ~lost
  BY <1>1, <1>3 DEF WakeInv, WakeComes, Coming, MakerAnnounces, Announcing
<1> QED BY <1>2, <1>3

\* A pass stays between the store and the end of its announcement unless it ends.
LEMMA MakerStep == WakeInv /\ [Next]_vars => MakerAnnounces'
<1> SUFFICES ASSUME WakeInv, [Next]_vars, NEW q \in Passes, pc'[q] \in Announcing
             PROVE  maker'[srv'[q]] = Home[q]
  BY DEF MakerAnnounces
<1> USE DEF envVars, docVars, passVars, HoldsSlot, HoldsLock, Announcing
<1>0. /\ pc \in [Passes -> HoldsSlot \cup {"idle", "slot"}]
      /\ srv \in [Passes -> Servers \cup {Nobody}]
      /\ maker \in [Servers -> Replicas \cup {Nobody}]
      /\ TypeOK /\ Busy /\ Mutex
  BY DEF WakeInv, SnapInv, TypeOK
<1>1. srv'[q] = srv[q] /\ srv[q] \in Servers /\ (pc[q] \in HoldsLock \/ LockServerReconcile(q))
  BY <1>0, LockKept
<1>2. ASSUME NEW p \in Passes, p # q, pc[p] = "store", pc[q] \in HoldsLock
      PROVE  srv[p] # srv[q] /\ srv[p] \in Servers
  BY <1>0, <1>2 DEF Mutex, Busy
<1>3. ASSUME NEW p \in Passes, StoreDSD(p) PROVE maker'[srv'[q]] = Home[q]
  <2>1. CASE p = q
    BY <1>0, <1>1, <1>3, <2>1 DEF StoreDSD, End, Goto
  <2>2. CASE p # q
    <3>1. pc[q] = pc'[q] /\ pc[p] = "store"
      BY <1>0, <1>3, <2>2 DEF StoreDSD, End, Goto
    <3>2. maker'[srv[q]] = maker[srv[q]]
      BY <1>0, <1>1, <1>2, <1>3, <2>2, <3>1 DEF StoreDSD
    <3> QED BY <1>1, <3>1, <3>2 DEF WakeInv, MakerAnnounces
  <2> QED BY <2>1, <2>2
<1>4. ASSUME NEW p \in Passes, CommitUnanswered(p) PROVE maker'[srv'[q]] = Home[q]
  <2>1. p # q /\ pc[q] = pc'[q] /\ pc[p] = "store"
    BY <1>0, <1>4 DEF CommitUnanswered, End
  <2>2. maker'[srv[q]] = maker[srv[q]]
    BY <1>0, <1>1, <1>2, <1>4, <2>1 DEF CommitUnanswered
  <2> QED BY <1>1, <2>1, <2>2 DEF WakeInv, MakerAnnounces
<1>5. ASSUME UNCHANGED maker, pc[q] \in Announcing PROVE maker'[srv'[q]] = Home[q]
  BY <1>1, <1>5 DEF WakeInv, MakerAnnounces
<1>6. ASSUME NEW p \in Passes, NEW t \in Tables, ReadTable(p, t) PROVE maker'[srv'[q]] = Home[q]
  BY <1>0, <1>5, <1>6 DEF ReadTable
<1>7. ASSUME NEW p \in Passes, NEW s \in Servers, StartPass(p, s) PROVE maker'[srv'[q]] = Home[q]
  BY <1>0, <1>5, <1>7 DEF StartPass
<1>8. ASSUME NEW p \in Passes,
             \/ AcquireSlot(p) \/ LockServerReconcile(p) \/ Stamp(p) \/ NotifyLocal(p)
             \/ PublishDSDChange(p) \/ DropPass(p) \/ PassFails(p)
      PROVE  maker'[srv'[q]] = Home[q]
  <2>1. UNCHANGED maker
    BY <1>8 DEF AcquireSlot, LockServerReconcile, Stamp, NotifyLocal, PublishDSDChange,
                DropPass, PassFails
  <2>2. pc[q] \in Announcing
    BY <1>0, <1>8 DEF AcquireSlot, LockServerReconcile, Stamp, NotifyLocal, PublishDSDChange,
                DropPass, PassFails, Goto, End
  <2> QED BY <1>5, <2>1, <2>2
<1>9. ASSUME \/ UNCHANGED vars
             \/ \E s \in Servers, t \in Tables : Edit(s, t)
             \/ \E r \in Replicas : \/ \E s \in Servers : Deliver(r, s)
                                    \/ ListenerDrops(r) \/ ListenerReconnects(r)
             \/ \E s \in Servers : \/ \E r \in Replicas : Subscribe(s, r)
                                   \/ ReadVersion(s) \/ WakeUp(s) \/ PollTimeout(s)
      PROVE  maker'[srv'[q]] = Home[q]
  <2>1. UNCHANGED <<pc, maker>>
    BY <1>9 DEF vars, Edit, Deliver, ListenerDrops, ListenerReconnects, Subscribe,
                ReadVersion, WakeUp, PollTimeout
  <2> QED BY <1>5, <2>1
<1> QED BY <1>3, <1>4, <1>6, <1>7, <1>8, <1>9 DEF Next, PassStep

\* Listening and serving: a listener that drops leaves its mark, and only an
\* idle poll has no replica.
LEMMA ServedStep == WakeInv /\ [Next]_vars => AllListen' /\ Served'
<1> SUFFICES ASSUME WakeInv, [Next]_vars PROVE AllListen' /\ Served'
  OBVIOUS
<1> USE DEF envVars, docVars, passVars, pollVars, busVars
<1>0. /\ AllListen /\ Served /\ listening \subseteq Replicas
      /\ poll \in [Servers -> {"idle", "read", "wait"}] /\ at \in [Servers -> Replicas \cup {Nobody}]
  BY DEF WakeInv, SnapInv, TypeOK
<1>1. ASSUME UNCHANGED listening, lost' = lost \/ lost' = TRUE PROVE AllListen'
  BY <1>0, <1>1, Zenon DEF AllListen
<1>2. ASSUME UNCHANGED <<poll, at>> PROVE Served'
  BY <1>0, <1>2 DEF Served
<1>3. ASSUME NEW r \in Replicas, ListenerDrops(r) \/ ListenerReconnects(r)
      PROVE  AllListen' /\ Served'
  <2>1. UNCHANGED <<poll, at>>
    BY <1>3 DEF ListenerDrops, ListenerReconnects
  <2>2. AllListen'
    BY <1>0, <1>3 DEF ListenerDrops, ListenerReconnects, AllListen
  <2> QED BY <1>2, <2>1, <2>2
<1>4. ASSUME NEW s \in Servers, NEW r \in Replicas, Subscribe(s, r) PROVE AllListen' /\ Served'
  BY <1>0, <1>1, <1>4 DEF Subscribe, Served
<1>5. ASSUME NEW s \in Servers, ReadVersion(s) \/ WakeUp(s) \/ PollTimeout(s)
      PROVE  AllListen' /\ Served'
  <2>1. AllListen'
    BY <1>1, <1>5 DEF ReadVersion, WakeUp, PollTimeout
  <2>2. Served'
    BY <1>0, <1>5 DEF ReadVersion, WakeUp, PollTimeout, EndPoll, Served
  <2> QED BY <2>1, <2>2
<1>6. ASSUME \/ UNCHANGED vars
             \/ \E s \in Servers, t \in Tables : Edit(s, t)
             \/ \E p \in Passes : \/ \E s \in Servers : StartPass(p, s)
                                  \/ PassStep(p) \/ DropPass(p) \/ CommitUnanswered(p)
             \/ \E r \in Replicas, s \in Servers : Deliver(r, s)
      PROVE  AllListen' /\ Served'
  <2>1. UNCHANGED <<poll, at, listening, lost>>
    BY <1>6 DEF vars, Edit, StartPass, PassStep, DropPass, CommitUnanswered, Deliver,
        AcquireSlot, LockServerReconcile, ReadTable, StoreDSD, Stamp, NotifyLocal, PublishDSDChange
  <2> QED BY <1>1, <1>2, <2>1
<1>7. ASSUME NEW p \in Passes, PassFails(p) PROVE AllListen' /\ Served'
  <2>1. UNCHANGED <<poll, at, listening>> /\ lost' = (lost \/ pc[p] = "publish")
    BY <1>7 DEF PassFails
  <2>2. lost' = lost \/ lost' = TRUE
    BY <2>1, Zenon DEF WakeInv, SnapInv, TypeOK
  <2> QED BY <1>1, <1>2, <2>1, <2>2
<1> QED BY <1>3, <1>4, <1>5, <1>6, <1>7 DEF Next

\* What WakeComes says of one server.
WakeComesTo(s) ==
    Waiting(s) =>
        /\ maker[s] = at[s] => woken[s] \/ Coming(s, {"stamp", "notify"})
        /\ maker[s] # at[s] /\ ~lost =>
              woken[s] \/ <<at[s], s>> \in bus \/ Coming(s, Announcing)

\* A step that moves no pass out of its announcement of s, and leaves the poll,
\* the document and the bus of s alone, preserves it.
LEMMA WakeFrame ==
  ASSUME NEW s \in Servers, WakeComesTo(s),
         poll'[s] = poll[s], version'[s] = version[s], after'[s] = after[s],
         maker'[s] = maker[s], at'[s] = at[s], woken[s] => woken'[s],
         <<at[s], s>> \in bus => <<at[s], s>> \in bus', lost => lost',
         \A q \in Passes : srv[q] = s /\ pc[q] \in Announcing =>
            /\ srv'[q] = s
            /\ pc'[q] \in Announcing
            /\ pc[q] \in {"stamp", "notify"} => pc'[q] \in {"stamp", "notify"}
  PROVE  WakeComesTo(s)'
<1>1. Coming(s, {"stamp", "notify"}) => Coming(s, {"stamp", "notify"})'
  BY DEF Coming, Announcing
<1>2. Coming(s, Announcing) => Coming(s, Announcing)'
  BY DEF Coming
<1> QED BY <1>1, <1>2 DEF WakeComesTo, Waiting

\* No wake-up gets lost.
LEMMA WakeStep == WakeInv /\ [Next]_vars => WakeComes'
<1> SUFFICES ASSUME WakeInv, [Next]_vars, NEW s \in Servers PROVE WakeComesTo(s)'
  BY DEF WakeComes, WakeComesTo
<1> USE DEF envVars, cfgVars, docVars, passVars, pollVars, busVars
<1>0. /\ pc \in [Passes -> HoldsSlot \cup {"idle", "slot"}]
      /\ srv \in [Passes -> Servers \cup {Nobody}]
      /\ maker \in [Servers -> Replicas \cup {Nobody}]
      /\ version \in [Servers -> Nat] /\ after \in [Servers -> Nat]
      /\ poll \in [Servers -> {"idle", "read", "wait"}]
      /\ at \in [Servers -> Replicas \cup {Nobody}]
      /\ woken \in [Servers -> BOOLEAN]
      /\ TypeOK /\ Busy /\ Mutex /\ MakerAnnounces /\ AllListen /\ Served /\ WakeComesTo(s)
  BY DEF WakeInv, SnapInv, TypeOK, WakeComes, WakeComesTo
<1>1. ASSUME \/ UNCHANGED vars
             \/ \E x \in Servers, t \in Tables : Edit(x, t)
             \/ \E r \in Replicas : ListenerReconnects(r)
      PROVE  WakeComesTo(s)'
  <2>1. UNCHANGED <<docVars, passVars, pollVars, bus, lost>>
    BY <1>1 DEF vars, Edit, ListenerReconnects
  <2> QED BY <1>0, <2>1, WakeFrame
<1>2. ASSUME NEW p \in Passes,
             \/ \E x \in Servers : StartPass(p, x)
             \/ \E t \in Tables : ReadTable(p, t)
             \/ AcquireSlot(p) \/ LockServerReconcile(p) \/ DropPass(p) \/ Stamp(p)
      PROVE  WakeComesTo(s)'
  <2>1. UNCHANGED <<docVars, pollVars, bus, lost>>
    BY <1>2 DEF StartPass, ReadTable, AcquireSlot, LockServerReconcile, DropPass, Stamp
  <2>2. ASSUME NEW q \in Passes, srv[q] = s, pc[q] \in Announcing
        PROVE  /\ srv'[q] = s
               /\ pc'[q] \in Announcing
               /\ pc[q] \in {"stamp", "notify"} => pc'[q] \in {"stamp", "notify"}
    BY <1>0, <1>2, <2>2 DEF StartPass, ReadTable, AcquireSlot, LockServerReconcile, DropPass,
                            Stamp, Goto, End, Announcing
  <2> QED BY <1>0, <2>1, <2>2, WakeFrame
<1>3. ASSUME NEW p \in Passes, StoreDSD(p) \/ CommitUnanswered(p) PROVE WakeComesTo(s)'
  <2>1. srv[p] \in Servers /\ pc[p] = "store" /\ UNCHANGED <<pollVars, bus, lost>>
    BY <1>0, <1>3 DEF StoreDSD, CommitUnanswered, Busy
  <2>2. ASSUME NEW q \in Passes, srv[q] = s, pc[q] \in Announcing
        PROVE  srv'[q] = s /\ pc'[q] = pc[q]
    BY <1>0, <1>3, <2>2 DEF StoreDSD, CommitUnanswered, Goto, End, Announcing
  <2>3. CASE UNCHANGED docVars \/ srv[p] # s
    <3>1. version'[s] = version[s] /\ maker'[s] = maker[s]
      BY <1>0, <1>3, <2>1, <2>3 DEF StoreDSD, CommitUnanswered
    <3> QED BY <1>0, <2>1, <2>2, <3>1, WakeFrame
  <2>4. CASE srv[p] = s /\ CommitUnanswered(p)
    <3>1. maker'[s] = Nobody
      BY <1>0, <2>4 DEF CommitUnanswered
    <3> QED BY <3>1 DEF WakeComesTo, Waiting
  <2>5. CASE srv[p] = s /\ StoreDSD(p) /\ ~UNCHANGED docVars
    <3>1. Goto(p, "stamp")
      BY <2>5 DEF StoreDSD
    <3>2. srv'[p] = s /\ pc'[p] = "stamp"
      BY <1>0, <2>5, <3>1 DEF Goto
    <3>3. Coming(s, {"stamp", "notify"})' /\ Coming(s, Announcing)'
      BY <3>2 DEF Coming, Announcing
    <3> QED BY <3>3 DEF WakeComesTo
  <2> QED BY <1>3, <2>3, <2>4, <2>5
<1>4. ASSUME NEW p \in Passes, NotifyLocal(p) PROVE WakeComesTo(s)'
  <2>1. /\ UNCHANGED <<docVars, poll, at, after, bus, lost, srv>> /\ pc[p] = "notify"
        /\ pc' = [pc EXCEPT ![p] = "publish"]
        /\ woken' = [woken EXCEPT ![srv[p]] = @ \/ (at[srv[p]] = Home[p] /\ poll[srv[p]] # "idle")]
    BY <1>4 DEF NotifyLocal, Goto, Wake
  <2>2. woken[s] => woken'[s]
    BY <1>0, <2>1, Zenon
  <2>3. Coming(s, Announcing) => Coming(s, Announcing)'
    BY <1>0, <2>1 DEF Coming, Announcing
  <2>4. CASE srv[p] # s
    BY <1>0, <2>1, <2>2, <2>4, WakeFrame
  <2>5. CASE srv[p] = s /\ maker[s] # at[s]
    BY <1>0, <2>1, <2>2, <2>3, <2>5 DEF WakeComesTo, Waiting
  <2>6. CASE srv[p] = s /\ maker[s] = at[s]
    <3>1. maker[s] = Home[p]
      BY <1>0, <2>1, <2>6 DEF MakerAnnounces, Announcing
    <3>2. poll[s] # "idle" => woken'[s]
      BY <1>0, <2>1, <2>6, <3>1, Zenon
    <3> QED BY <1>0, <2>1, <2>6, <3>2 DEF WakeComesTo, Waiting
  <2> QED BY <2>4, <2>5, <2>6
<1>5. ASSUME NEW p \in Passes, PublishDSDChange(p) PROVE WakeComesTo(s)'
  <2>1. /\ UNCHANGED <<docVars, pollVars, lost>> /\ pc[p] = "publish"
        /\ bus' = bus \cup (listening \X {srv[p]}) /\ End(p)
    BY <1>5 DEF PublishDSDChange
  <2>2. ASSUME NEW q \in Passes, q # p PROVE srv'[q] = srv[q] /\ pc'[q] = pc[q]
    BY <1>0, <2>1, <2>2 DEF End
  <2>3. CASE srv[p] # s
    BY <1>0, <2>1, <2>2, <2>3, WakeFrame
  <2>4. CASE srv[p] = s
    <3>1. Coming(s, {"stamp", "notify"}) => Coming(s, {"stamp", "notify"})'
      BY <2>1, <2>2 DEF Coming
    <3>2. poll[s] = "wait" /\ ~lost => <<at[s], s>> \in bus'
      BY <1>0, <2>1, <2>4 DEF AllListen, Served
    <3> QED BY <1>0, <2>1, <3>1, <3>2 DEF WakeComesTo, Waiting
  <2> QED BY <2>3, <2>4
<1>6. ASSUME NEW p \in Passes, PassFails(p) PROVE WakeComesTo(s)'
  <2>1. /\ UNCHANGED <<docVars, pollVars, bus>> /\ lost' = (lost \/ pc[p] = "publish") /\ End(p)
        /\ pc[p] \notin {"stamp", "notify"}
    BY <1>6 DEF PassFails
  <2>2. ASSUME NEW q \in Passes, q # p PROVE srv'[q] = srv[q] /\ pc'[q] = pc[q]
    BY <1>0, <2>1, <2>2 DEF End
  <2>3. lost => lost'
    BY <2>1
  <2>4. CASE pc[p] # "publish"
    BY <1>0, <2>1, <2>2, <2>3, <2>4, WakeFrame DEF Announcing
  <2>5. CASE pc[p] = "publish"
    <3>1. Coming(s, {"stamp", "notify"}) => Coming(s, {"stamp", "notify"})'
      BY <2>1, <2>2 DEF Coming
    <3>2. lost'
      BY <2>1, <2>5
    <3> QED BY <1>0, <2>1, <3>1, <3>2 DEF WakeComesTo, Waiting
  <2> QED BY <2>4, <2>5
<1>7. ASSUME NEW r \in Replicas, NEW x \in Servers, Deliver(r, x) PROVE WakeComesTo(s)'
  <2>1. /\ UNCHANGED <<docVars, passVars, poll, at, after, lost>> /\ bus' = bus \ {<<r, x>>}
        /\ woken' = [woken EXCEPT ![x] = @ \/ (at[x] = r /\ poll[x] # "idle")]
    BY <1>7 DEF Deliver, Wake
  <2>2. woken[s] => woken'[s]
    BY <1>0, <2>1, Zenon
  <2>3. CASE <<r, x>> # <<at[s], s>>
    BY <1>0, <2>1, <2>2, <2>3, WakeFrame
  <2>4. CASE <<r, x>> = <<at[s], s>>
    <3>1. r = at[s] /\ x = s
      BY <2>4
    <3>2. poll[s] # "idle" => woken'[s]
      BY <1>0, <2>1, <3>1, Zenon
    <3> QED BY <2>1, <3>2 DEF WakeComesTo, Waiting
  <2> QED BY <2>3, <2>4
<1>8. ASSUME NEW r \in Replicas, ListenerDrops(r) PROVE WakeComesTo(s)'
  <2>1. UNCHANGED <<docVars, passVars, pollVars>> /\ lost'
    BY <1>8 DEF ListenerDrops
  <2>2. Coming(s, {"stamp", "notify"}) => Coming(s, {"stamp", "notify"})'
    BY <2>1 DEF Coming
  <2> QED BY <1>0, <2>1, <2>2 DEF WakeComesTo, Waiting
<1>9. ASSUME NEW x \in Servers,
             \/ \E r \in Replicas : Subscribe(x, r)
             \/ ReadVersion(x) \/ WakeUp(x) \/ PollTimeout(x)
      PROVE  WakeComesTo(s)'
  <2>1. UNCHANGED <<docVars, passVars, bus, lost>>
    BY <1>9 DEF Subscribe, ReadVersion, WakeUp, PollTimeout
  <2>2. CASE x = s
    <3>1. ~Waiting(s)'
      BY <1>0, <1>9, <2>1, <2>2
      DEF Subscribe, ReadVersion, WakeUp, PollTimeout, EndPoll, Waiting
    <3> QED BY <3>1 DEF WakeComesTo
  <2>3. CASE x # s
    <3>1. poll'[s] = poll[s] /\ at'[s] = at[s] /\ after'[s] = after[s]
      BY <1>0, <1>9, <2>3 DEF Subscribe, ReadVersion, WakeUp, PollTimeout, EndPoll
    <3>2. UNCHANGED woken \/ woken' = [woken EXCEPT ![x] = FALSE]
      BY <1>9 DEF Subscribe, ReadVersion, WakeUp, PollTimeout, EndPoll
    <3>3. woken[s] => woken'[s]
      BY <1>0, <2>3, <3>2, Zenon
    <3> QED BY <1>0, <2>1, <3>1, <3>3, WakeFrame
  <2> QED BY <2>2, <2>3
<1> QED
  BY <1>1, <1>2, <1>3, <1>4, <1>5, <1>6, <1>7, <1>8, <1>9 DEF Next, PassStep

\* A waiting agent is woken: always in the replica that stored the document,
\* and in the others as long as no notification was lost.
THEOREM NoLostWakeCorrect == Spec => []NoLostWake
<1>1. WakeInv /\ [Next]_vars => WakeInv'
  BY SnapStep, MakerStep, ServedStep, WakeStep DEF WakeInv
<1> QED BY <1>1, WakeInit, WakeImplies, PTL DEF Spec
=============================================================================
