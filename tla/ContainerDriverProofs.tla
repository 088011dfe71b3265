----------------------- MODULE ContainerDriverProofs -----------------------
(***************************************************************************)
(* Proofs about ContainerDriver, for every number of generations,          *)
(* documents and faults, and for every pair of windows.                    *)
(*                                                                         *)
(* The document loop and the reconcile loop share Docker, the record store *)
(* and one lock, and a swap does not hold that lock.  What keeps them apart*)
(* is the record store: a garbage collection under the lock forgets every  *)
(* other generation first, so that a repair which starts later can only be *)
(* about the generation the swap is about (Recorded), and a record is only *)
(* written when the others are gone (Lone).  The rest follows from those   *)
(* two: who may run (Exclusive), who may be drained for whom (GateKept),   *)
(* and what is left on the host (OnlyWhatIsDesired).                       *)
(***************************************************************************)
EXTENDS ContainerDriver, FiniteSetTheorems, NaturalsInduction, TLAPS

----------------------------------------------------------------------------
(* The inductive invariant.                                                *)

Procs == {"loop", "tick"}
Labels == {"idle", "prune", "reap", "lock", "inspect", "remove", "create", "start", "gate",
           "list", "listall", "drain", "drainall", "persist", "retain", "put"}
Places == [pc : Labels, gen : Gens \cup {Hold, Gone, None}, id : Nat]

lpc  == proc["loop"].pc
lgen == proc["loop"].gen
lid  == proc["loop"].id
tpc  == proc["tick"].pc
tgen == proc["tick"].gen
tid  == proc["tick"].id

DocShape == [v : 1..MaxDocs, gen : Gens \cup {Hold, Gone}]

PlaneShape ==
    /\ kind \in Kinds /\ good \subseteq Gens /\ head \in Gens
    /\ doc \in DocShape /\ cur \in DocShape
    /\ failed \subseteq Gens /\ released \subseteq Gens
    /\ failed \cap released = {} /\ 0 \in released

HostShape ==
    /\ cont \in [Gens -> [id : Nat, gen : Gens \cup {None}, running : BOOLEAN]]
    /\ nextId \in Nat /\ images \subseteq Gens
    /\ desired \in [Gens -> Gens \cup {None}]

AgentShape ==
    /\ mu \in {"free", "loop", "tick"} /\ proc \in [Procs -> Places]
    /\ applied \in Nat /\ faults \in Nat /\ todo \subseteq Gens
    /\ gated \subseteq Gens /\ orphaned \subseteq Gens
    /\ stuck \in BOOLEAN /\ settled \in BOOLEAN

\* A container that is there has an id of its own time.
Ids ==
    /\ nextId > 1 /\ lid < nextId /\ tid < nextId
    /\ \A n \in Gens : cont[n].id < nextId /\ (cont[n] # Absent => cont[n].id > 0)
    /\ \A i \in drain : i \in Nat /\ 0 < i /\ i < nextId
    /\ (lpc = "start" => lid > 0) /\ (tpc = "start" => tid > 0)

\* Where each kind of op gets to, who holds the lock there, and that an op is
\* about the generation of its document.
Control ==
    /\ tpc \in {"idle", "remove", "create", "start"} /\ (tpc # "idle" => mu = "tick")
    /\ lpc = "reap" => mu = "loop"
    /\ kind = "apply" /\ lpc \in {"remove", "create", "start", "put"} => mu = "loop"
    /\ lpc \in {"lock", "put"} => kind = "apply"
    /\ lpc \in {"inspect", "gate", "list", "listall", "drain", "drainall", "persist", "retain"}
         => kind # "apply"
    /\ lpc \in {"listall", "drainall"} => kind = "recreate"
    /\ lpc = "remove" => kind # "recreate"
    /\ lpc \in {"prune", "reap", "inspect", "lock"} => lid = 0
    /\ lpc # "idle" => lgen = cur.gen
    /\ lpc \notin {"idle", "prune", "reap"} => cur.gen \in Gens /\ cur.gen \in images
    /\ settled => lpc = "idle"

\* The record store has one name at most; once an op has collected garbage it
\* is the op's, and a repair under way is about it.
Recorded ==
    /\ kind = "apply" => \A n \in Gens : n # 0 => cont[n] = Absent /\ desired[n] = None
    /\ kind # "apply" => \A n \in Gens : desired[n] \in {n, None}
    /\ \A m, n \in Gens : desired[m] # None /\ desired[n] # None => m = n
    /\ tpc # "idle" => tgen \in Gens /\ desired[NameOf(tgen)] # None
    /\ lpc \notin {"idle", "prune"} \/ settled
         => \A n \in Gens : desired[n] # None => cur.gen \in Gens /\ n = NameOf(cur.gen)

\* The places of a swap where the other generations are gone.
Alone == \/ lpc \in {"persist", "retain"}
         \/ kind = "recreate" /\ (lpc \in {"create", "start"} \/ (lpc = "gate" /\ lid # 0))

Lone ==
    kind # "apply" /\ ~stuck =>
      /\ \A m, n \in Gens : desired[n] # None /\ cont[m] # Absent => m = n
      /\ Alone => \A m \in Gens : cont[m] # Absent => m = cur.gen
      /\ lpc \in {"drain", "drainall"}
           => \A m \in Gens : cont[m] # Absent => m = cur.gen \/ cont[m].id \in drain

\* A rollout's containers and records are of generations that passed a gate or
\* were left behind, but for the one the rollout is about to gate.
GateKept ==
    kind = "rollout" =>
      /\ \A n \in Gens : cont[n] # Absent =>
           \/ n \in gated \cup orphaned
           \/ lpc \in {"start", "gate"} /\ n = cur.gen /\ cont[n].id = lid
      /\ \A n \in Gens : desired[n] # None => n \in gated \cup orphaned
      /\ lpc \in {"remove", "list", "drain", "persist", "retain"} => cur.gen \in gated \cup orphaned
      /\ lpc \in {"start", "gate"} => lid > 0 /\ \A n \in Gens : cont[n].id = lid => n = cur.gen

\* Documents do not go back behind a release.
Forward ==
    /\ released \subseteq 0..head /\ images \subseteq 0..head
    /\ cur.gen \in Gens => cur.gen <= head
    /\ doc.gen \in Gens => doc.gen <= head
    /\ kind # "apply" =>
         /\ \A g \in released : /\ cur.gen \in Gens => g <= cur.gen
                                /\ doc.gen \in Gens => g <= doc.gen
         /\ cur.gen \in Gens \ failed /\ doc.gen \in Gens => cur.gen <= doc.gen

\* An image that went had Keep others and the one in use after it.
Retained ==
    kind # "apply" => \A g \in released \ images : g + Keep + 1 <= head

\* The two properties about which containers there are, at any place.
OneRuns ==
    kind = "recreate" /\ ~stuck
    => \A m, n \in Gens : cont[m].running /\ cont[n].running => m = n

SettledIsClean ==
    settled /\ ~stuck /\ cur.gen # Hold
    => \A n \in Gens : cont[n] # Absent => cur.gen \in Gens /\ n = NameOf(cur.gen)

DriverInv ==
    /\ PlaneShape /\ HostShape /\ AgentShape /\ Ids
    /\ Control /\ Recorded /\ Lone /\ OneRuns /\ SettledIsClean
    /\ GateKept /\ Forward /\ Retained


----------------------------------------------------------------------------
(* Constants, names, and how a step moves a goroutine.                     *)

LEMMA Numbers ==
    /\ MaxGen \in Nat /\ MaxDocs \in Nat /\ MaxDocs > 0 /\ Keep \in Nat /\ Keep > 0
    /\ Window \in Nat /\ Window > 0 /\ MaxFaults \in Nat
    /\ 0 \in Gens /\ Gens \subseteq Nat
    /\ Hold \notin Gens /\ Gone \notin Gens /\ None \notin Gens
    /\ Hold # Gone /\ Hold # None /\ Gone # None
  BY ConstantsAssumption DEF Gens, Hold, Gone, None

LEMMA AbsentIs ==
    /\ Absent.id = 0 /\ Absent.gen = None /\ Absent.running = FALSE
    /\ Absent \in [id : Nat, gen : Gens \cup {None}, running : BOOLEAN]
  BY Zenon DEF Absent

LEMMA NameIs ==
    ASSUME NEW g \in Gens PROVE NameOf(g) = (IF kind = "apply" THEN 0 ELSE g) /\ NameOf(g) \in Gens
  BY Numbers DEF NameOf

LEMMA NameStays ==
    ASSUME kind' = kind, NEW g PROVE NameOf(g)' = NameOf(g)
  BY DEF NameOf

LEMMA IdleIs == Idle \in Places /\ Idle.pc = "idle" /\ Idle.id = 0 /\ Idle.gen = None
  BY DEF Idle, Places, Labels

LEMMA LoopMoves ==
    ASSUME proc \in [Procs -> Places], NEW r \in Places, proc' = [proc EXCEPT !["loop"] = r]
    PROVE  /\ proc' \in [Procs -> Places]
           /\ lpc' = r.pc /\ lgen' = r.gen /\ lid' = r.id
           /\ tpc' = tpc /\ tgen' = tgen /\ tid' = tid
  BY DEF Procs, lpc, lgen, lid, tpc, tgen, tid

LEMMA TickMoves ==
    ASSUME proc \in [Procs -> Places], NEW r \in Places, proc' = [proc EXCEPT !["tick"] = r]
    PROVE  /\ proc' \in [Procs -> Places]
           /\ tpc' = r.pc /\ tgen' = r.gen /\ tid' = r.id
           /\ lpc' = lpc /\ lgen' = lgen /\ lid' = lid
  BY DEF Procs, lpc, lgen, lid, tpc, tgen, tid

LEMMA LoopGoes ==
    ASSUME proc \in [Procs -> Places], NEW l \in Labels, proc' = [proc EXCEPT !["loop"].pc = l]
    PROVE  /\ proc' \in [Procs -> Places]
           /\ lpc' = l /\ lgen' = lgen /\ lid' = lid
           /\ tpc' = tpc /\ tgen' = tgen /\ tid' = tid
  BY DEF Procs, Places, lpc, lgen, lid, tpc, tgen, tid

LEMMA TickGoes ==
    ASSUME proc \in [Procs -> Places], NEW l \in Labels, proc' = [proc EXCEPT !["tick"].pc = l]
    PROVE  /\ proc' \in [Procs -> Places]
           /\ tpc' = l /\ tgen' = tgen /\ tid' = tid
           /\ lpc' = lpc /\ lgen' = lgen /\ lid' = lid
  BY DEF Procs, Places, lpc, lgen, lid, tpc, tgen, tid

LEMMA LoopGoesWith ==
    ASSUME proc \in [Procs -> Places], NEW l \in Labels, NEW i \in Nat,
           proc' = [proc EXCEPT !["loop"].id = i, !["loop"].pc = l]
    PROVE  /\ proc' \in [Procs -> Places]
           /\ lpc' = l /\ lgen' = lgen /\ lid' = i
           /\ tpc' = tpc /\ tgen' = tgen /\ tid' = tid
  BY DEF Procs, Places, lpc, lgen, lid, tpc, tgen, tid

LEMMA GoesWith ==
    ASSUME proc \in [Procs -> Places], NEW p \in Procs, NEW l \in Labels, NEW i \in Nat,
           proc' = [proc EXCEPT ![p].pc = l, ![p].id = i]
    PROVE  /\ proc' \in [Procs -> Places]
           /\ p = "loop" => /\ lpc' = l /\ lgen' = lgen /\ lid' = i
                            /\ tpc' = tpc /\ tgen' = tgen /\ tid' = tid
           /\ p = "tick" => /\ tpc' = l /\ tgen' = tgen /\ tid' = i
                            /\ lpc' = lpc /\ lgen' = lgen /\ lid' = lid
  BY DEF Procs, Places, lpc, lgen, lid, tpc, tgen, tid

----------------------------------------------------------------------------
(* The control plane.                                                      *)

LEMMA LeastOf ==
    ASSUME NEW S \in SUBSET Nat, S # {} PROVE \E m \in S : \A k \in S : m <= k
  <1>1. PICK m \in S : \A k \in S : ~ (<<k, m>> \in OpToRel(<, Nat))
    BY NatLessThanWellFounded, WFMin, Zenon
  <1>2. \A k \in S : ~ (k < m) BY <1>1 DEF OpToRel
  <1> QED BY <1>2

\* Target is a generation that has not failed, and none after it is one.
LEMMA TargetIs ==
    ASSUME PlaneShape
    PROVE  /\ Target \in Gens /\ Target <= head
           /\ kind # "apply" => \A g \in (0..head) \ failed : g <= Target
  <1> DEFINE S == (0..head) \ failed
             Q == {k \in Nat : head - k \in S}
  <1>1. head \in Nat /\ head <= MaxGen /\ 0 \in S BY Numbers DEF PlaneShape, Gens
  <1>2. head \in Q BY <1>1
  <1>3. Q \in SUBSET Nat /\ Q # {} BY <1>2
  <1>4. PICK k \in Q : \A j \in Q : k <= j
    <2> HIDE DEF Q
    <2> QED BY <1>3, LeastOf
  <1>5. PICK m : m = head - k OBVIOUS
  <1>6. m \in S BY <1>5
  <1>7. \A g \in S : g <= m
    <2>1. ASSUME NEW g \in S PROVE g <= m
      <3>1. g \in Nat /\ g <= head BY <1>1
      <3>2. head - g \in Nat /\ head - (head - g) = g BY <1>1, <3>1
      <3>3. head - g \in Q BY <3>2
      <3>4. k <= head - g BY <1>4, <3>3
      <3> QED BY <1>1, <1>5, <3>1, <3>4
    <2> QED BY <2>1
  <1>8. \E x \in S : \A y \in S : x >= y
    <2>1. \A y \in S : m >= y BY <1>1, <1>6, <1>7
    <2> QED BY <1>6, <2>1
  <1>9. Max(S) \in S /\ \A y \in S : Max(S) >= y BY <1>8, Zenon DEF Max
  <1>10. CASE kind = "apply" BY <1>1, <1>10 DEF Target, PlaneShape
  <1>11. CASE kind # "apply"
    <2>1. Target = Max(S) BY <1>11 DEF Target
    <2>2. PICK x \in S : x = Target BY <1>9, <2>1
    <2>3. \A y \in S : x >= y BY <1>9, <2>1, <2>2
    <2>4. x \in 0..head BY <2>2
    <2>5. x \in Gens /\ x <= head BY <1>1, <2>4, Numbers DEF Gens
    <2>6. \A y \in S : y <= x BY <1>1, <2>3, <2>4
    <2> QED BY <2>2, <2>5, <2>6
  <1> QED BY <1>10, <1>11

LEMMA IssueKeeps ==
    ASSUME DriverInv, NEW g \in Gens \cup {Hold, Gone}, Issue(g),
           head' \in Gens, head <= head', g \in Gens => g <= head',
           kind # "apply" /\ g \in Gens => \A h \in (0..head) \ failed : h <= g,
           UNCHANGED <<fixed, failed, released, hostVars, desired, loopVars, mu, proc, todo, history, faults>>
    PROVE  DriverInv'
  <1>1. /\ doc.v < MaxDocs /\ doc' = [v |-> doc.v + 1, gen |-> g]
        /\ doc \in DocShape /\ head \in Gens /\ cur \in DocShape
    BY DEF Issue, DriverInv, PlaneShape
  <1>2. doc' \in DocShape /\ doc'.gen = g BY <1>1, Numbers DEF DocShape
  <1>3. PlaneShape' BY <1>2 DEF DriverInv, PlaneShape, fixed, loopVars
  <1>4. /\ HostShape' /\ AgentShape' /\ Ids' /\ Control' /\ Recorded' /\ Lone' /\ OneRuns'
        /\ SettledIsClean' /\ GateKept'
    BY NameStays
       DEF DriverInv, HostShape, AgentShape, Ids, Control, Recorded, Lone, Alone, OneRuns, SettledIsClean,
           GateKept, fixed, hostVars, loopVars, history, lpc, lgen, lid, tpc, tgen, tid, NameOf
  <1>5. head \in Nat /\ head' \in Nat /\ Gens \subseteq Nat BY <1>1, Numbers
  <1>6. UNCHANGED <<kind, released, failed, images, cur>> BY DEF fixed, hostVars, loopVars
  <1>7. released \subseteq 0..head /\ images \subseteq 0..head /\ released \cap failed = {}
    BY DEF DriverInv, Forward, PlaneShape
  <1>8. 0..head \subseteq 0..head' BY <1>5
  <1>9. cur.gen \in Gens => cur.gen \in Nat /\ cur.gen <= head /\ cur.gen <= head'
    <2>1. cur.gen \in Gens => cur.gen <= head BY DEF DriverInv, Forward
    <2>2. cur.gen \in Gens => cur.gen \in Nat BY <1>5
    <2>3. PICK c : c = cur.gen OBVIOUS
    <2> QED BY <1>5, <2>1, <2>2, <2>3
  <1>10. kind # "apply" => \A h \in released : h \in (0..head) \ failed BY <1>7
  <1>11. cur.gen \in Gens \ failed => cur.gen \in (0..head) \ failed BY <1>5, <1>9
  <1>12. Forward' BY <1>2, <1>6, <1>7, <1>8, <1>9, <1>10, <1>11 DEF DriverInv, Forward
  <1>13. Retained'
    <2>1. ASSUME kind # "apply", NEW h \in released \ images PROVE h + Keep + 1 <= head'
      <3>1. h \in Nat /\ h + Keep + 1 <= head BY <1>5, <1>7, <2>1 DEF DriverInv, Retained
      <3> QED BY <1>5, <3>1, Numbers
    <2> QED BY <1>6, <2>1 DEF Retained
  <1> QED BY <1>3, <1>4, <1>12, <1>13 DEF DriverInv

LEMMA PlaneKeeps ==
    ASSUME DriverInv, Deploy \/ Rerender \/ Delete PROVE DriverInv'
  <1>1. head \in Gens /\ PlaneShape BY DEF DriverInv, PlaneShape
  <1>2. head \in Nat BY <1>1, Numbers
  <1>3. CASE Deploy
    <2>1. head < MaxGen /\ head' = head + 1 BY <1>3 DEF Deploy
    <2>2. head' \in Gens /\ head <= head' /\ head + 1 \in Gens BY <1>2, <2>1, Numbers DEF Gens
    <2>3. \A h \in (0..head) \ failed : h <= head + 1 BY <1>2
    <2>4. CASE Issue(head + 1)
      <3>1. PICK g : g = head + 1 OBVIOUS
      <3>2. g \in Gens /\ g <= head' /\ Issue(g) /\ \A h \in (0..head) \ failed : h <= g
        BY <1>2, <2>1, <2>2, <2>3, <2>4, <3>1
      <3> QED BY <1>3, <2>2, <3>2, IssueKeeps DEF Deploy
    <2>5. CASE Issue(Hold) BY <1>3, <2>2, <2>5, IssueKeeps, Numbers DEF Deploy
    <2> QED BY <1>3, <2>4, <2>5 DEF Deploy
  <1>4. CASE Rerender
    <2>1. PICK g : g = Target OBVIOUS
    <2>2. Issue(g) /\ head' = head BY <1>4, <2>1 DEF Rerender
    <2>3. g \in Gens /\ g <= head /\ (kind # "apply" => \A h \in (0..head) \ failed : h <= g)
      BY <1>1, <2>1, TargetIs
    <2> QED BY <1>1, <1>2, <1>4, <2>2, <2>3, IssueKeeps DEF Rerender
  <1>5. CASE Delete
    <2>1. PICK g : g = Gone OBVIOUS
    <2>2. Issue(g) /\ head' = head BY <1>5, <2>1 DEF Delete
    <2>3. g \in Gens \cup {Hold, Gone} /\ g \notin Gens BY <2>1, Numbers
    <2>4. head <= head' BY <1>2, <2>2
    <2> QED BY <1>1, <1>5, <2>2, <2>3, <2>4, IssueKeeps DEF Delete
  <1> QED BY <1>3, <1>4, <1>5

----------------------------------------------------------------------------
(* The document loop: from a document to its op.                           *)

\* What a walk inside an op, with Docker and the records as they are, keeps.
LEMMA WalkKeeps ==
    ASSUME DriverInv, lpc \notin {"idle", "prune"}, lpc' # "idle", lpc' # "prune",
           UNCHANGED <<fixed, cpVars, hostVars, desired, cur, settled, stuck, tpc, tgen>>,
           AgentShape', Ids', Control', Lone', GateKept'
    PROVE  DriverInv'
  <1>1. PlaneShape' BY DEF DriverInv, PlaneShape, fixed, cpVars
  <1>2. HostShape' BY DEF DriverInv, HostShape, hostVars
  <1>3. OneRuns' /\ SettledIsClean'
    BY DEF DriverInv, OneRuns, SettledIsClean, fixed, hostVars, NameOf
  <1>4. Recorded' BY DEF DriverInv, Recorded, fixed, hostVars, NameOf
  <1>5. Forward' /\ Retained' BY DEF DriverInv, Forward, Retained, fixed, cpVars, hostVars
  <1> QED BY <1>1, <1>2, <1>3, <1>4, <1>5 DEF DriverInv

LEMMA FetchKeeps == ASSUME DriverInv, Fetch PROVE DriverInv'
  <1>1. /\ cur' = doc /\ settled' = FALSE /\ lpc = "idle"
        /\ UNCHANGED <<kind, good, head, doc, failed, released, cont, nextId, images, desired, drain, applied, mu,
                       todo, gated, orphaned, stuck, faults>>
    BY DEF Fetch, At, lpc, fixed, cpVars, hostVars, history
  <1>2. PICK r : r = [pc |-> "prune", gen |-> doc.gen, id |-> 0] OBVIOUS
  <1>3. r \in Places /\ r.pc = "prune" /\ r.gen = doc.gen /\ r.id = 0
    BY <1>2 DEF DriverInv, PlaneShape, DocShape, Places, Labels
  <1>4. proc' = [proc EXCEPT !["loop"] = r] BY <1>2 DEF Fetch
  <1>5. /\ proc' \in [Procs -> Places] /\ lpc' = "prune" /\ lgen' = doc.gen /\ lid' = 0
        /\ tpc' = tpc /\ tgen' = tgen /\ tid' = tid
    BY <1>3, <1>4, LoopMoves DEF DriverInv, AgentShape
  <1>6. PlaneShape' /\ HostShape' BY <1>1 DEF DriverInv, PlaneShape, HostShape
  <1>7. AgentShape' BY <1>1, <1>5 DEF DriverInv, AgentShape
  <1>8. Ids' BY <1>1, <1>5 DEF DriverInv, Ids, HostShape
  <1>9. Control' BY <1>1, <1>5 DEF DriverInv, Control
  <1>10. Recorded' BY <1>1, <1>5 DEF DriverInv, Recorded, NameOf
  <1>11. Lone' BY <1>1, <1>5 DEF DriverInv, Lone, Alone
  <1>12. OneRuns' /\ SettledIsClean' BY <1>1 DEF DriverInv, OneRuns, SettledIsClean
  <1>13. GateKept' BY <1>1, <1>5 DEF DriverInv, GateKept
  <1>14. doc.gen \in Gens => doc.gen \in Nat BY Numbers
  <1>15. Forward' /\ Retained' BY <1>1, <1>14 DEF DriverInv, Forward, Retained
  <1> QED BY <1>6, <1>7, <1>8, <1>9, <1>10, <1>11, <1>12, <1>13, <1>15 DEF DriverInv

LEMMA GCPruneKeeps == ASSUME DriverInv, GCPrune PROVE DriverInv'
  <1>1. /\ lpc = "prune" /\ mu = "free" /\ mu' = "loop"
        /\ desired' = [n \in Gens |-> IF cur.gen \in Gens /\ n = NameOf(cur.gen) THEN desired[n] ELSE None]
        /\ UNCHANGED <<kind, good, head, doc, failed, released, cont, nextId, images, cur, drain, applied, settled,
                       todo, gated, orphaned, stuck, faults>>
    BY DEF GCPrune, At, lpc, fixed, cpVars, hostVars, loopVars, history
  <1>2. /\ proc' \in [Procs -> Places] /\ lpc' = "reap" /\ lgen' = lgen /\ lid' = lid
        /\ tpc' = tpc /\ tgen' = tgen /\ tid' = tid
    <2>1. "reap" \in Labels BY DEF Labels
    <2> QED BY <2>1, LoopGoes DEF DriverInv, AgentShape, GCPrune, Go
  <1>3. desired' \in [Gens -> Gens \cup {None}] BY <1>1 DEF DriverInv, HostShape
  <1>4. \A n \in Gens : desired'[n] # None => /\ desired'[n] = desired[n] /\ desired[n] # None
                                             /\ cur.gen \in Gens /\ n = NameOf(cur.gen)
    BY <1>1
  <1>5. tpc = "idle" /\ ~settled BY <1>1 DEF DriverInv, Control
  <1>6. PlaneShape' /\ HostShape' BY <1>1, <1>3 DEF DriverInv, PlaneShape, HostShape
  <1>7. AgentShape' BY <1>1, <1>2 DEF DriverInv, AgentShape
  <1>8. Ids' BY <1>1, <1>2 DEF DriverInv, Ids
  <1>9. Control' BY <1>1, <1>2, <1>5 DEF DriverInv, Control
  <1>10. Recorded'
    <2>1. kind' # "apply" => \A n \in Gens : desired'[n] \in {n, None} BY <1>1 DEF DriverInv, Recorded
    <2>2. kind' = "apply" => \A n \in Gens : n # 0 => cont'[n] = Absent /\ desired'[n] = None
      BY <1>1 DEF DriverInv, Recorded
    <2>3. \A n \in Gens : desired'[n] # None => cur'.gen \in Gens /\ n = NameOf(cur.gen)' BY <1>1, <1>4 DEF NameOf
    <2>4. \A m, n \in Gens : desired'[m] # None /\ desired'[n] # None => m = n BY <1>4 DEF DriverInv, Recorded
    <2> QED BY <1>2, <1>5, <2>1, <2>2, <2>3, <2>4 DEF Recorded
  <1>11. Lone' BY <1>1, <1>2, <1>4 DEF DriverInv, Lone, Alone
  <1>12. OneRuns' /\ SettledIsClean' BY <1>1, <1>5 DEF DriverInv, OneRuns, SettledIsClean
  <1>13. GateKept' BY <1>1, <1>2, <1>4 DEF DriverInv, GateKept
  <1>14. Forward' /\ Retained' BY <1>1 DEF DriverInv, Forward, Retained
  <1> QED BY <1>6, <1>7, <1>8, <1>9, <1>10, <1>11, <1>12, <1>13, <1>14 DEF DriverInv

\* The op ends: what is left to show about an end of it.
LEMMA EndKeeps ==
    ASSUME DriverInv, NEW ok \in BOOLEAN, Finish(ok), lpc \notin {"idle", "prune"},
           UNCHANGED <<fixed, nextId, desired, todo>>,
           \A n \in Gens : cont'[n] = cont[n] \/ cont'[n] = Absent,
           cont' \in [Gens -> [id : Nat, gen : Gens \cup {None}, running : BOOLEAN]],
           images' \subseteq images, faults' \in Nat,
           mu' \in {"free", "loop", "tick"}, tpc # "idle" => mu' = "tick",
           gated \subseteq gated', orphaned \subseteq orphaned', gated' \cup orphaned' \subseteq Gens,
           stuck' \in BOOLEAN, stuck => stuck',
           kind = "rollout" => \A n \in Gens : cont'[n] # Absent => n \in gated' \cup orphaned',
           ok => SettledIsClean', Retained'
    PROVE  DriverInv'
  <1>1. /\ UNCHANGED <<kind, good, head, doc, cur, nextId, desired, todo>>
        /\ applied' = cur.v /\ settled' = ok /\ drain' = {}
        /\ released' = (IF ok /\ cur.gen \in Gens \ failed THEN released \cup {cur.gen} ELSE released)
        /\ failed' = (IF ~ok /\ cur.gen \in Gens \ released THEN failed \cup {cur.gen} ELSE failed)
    BY DEF Finish, fixed
  <1>2. /\ proc' \in [Procs -> Places] /\ lpc' = "idle" /\ lgen' = None /\ lid' = 0
        /\ tpc' = tpc /\ tgen' = tgen /\ tid' = tid
    BY IdleIs, LoopMoves DEF DriverInv, AgentShape, Finish
  <1>3. PlaneShape'
    <2>1. failed' \subseteq Gens /\ released' \subseteq Gens /\ failed' \cap released' = {} /\ 0 \in released'
      BY <1>1 DEF DriverInv, PlaneShape
    <2> QED BY <1>1, <2>1 DEF DriverInv, PlaneShape
  <1>4. HostShape' BY <1>1 DEF DriverInv, HostShape
  <1>5. AgentShape'
    <2>1. applied' \in Nat BY <1>1 DEF DriverInv, PlaneShape, DocShape
    <2> QED BY <1>1, <1>2, <2>1 DEF DriverInv, AgentShape
  <1>6. Ids'
    <2>1. \A n \in Gens : cont'[n].id < nextId /\ (cont'[n] # Absent => cont'[n].id > 0)
      BY AbsentIs DEF DriverInv, Ids, HostShape
    <2>2. 0 < nextId BY DEF DriverInv, Ids, HostShape
    <2> QED BY <1>1, <1>2, <2>1, <2>2 DEF DriverInv, Ids
  <1>7. Control' BY <1>1, <1>2 DEF DriverInv, Control
  <1>8. Recorded'
    <2>1. kind' = "apply" => \A n \in Gens : n # 0 => cont'[n] = Absent /\ desired'[n] = None
      BY <1>1 DEF DriverInv, Recorded
    <2> QED BY <1>1, <1>2, <2>1 DEF DriverInv, Recorded, NameOf
  <1>9. Lone' BY <1>1, <1>2 DEF DriverInv, Lone, Alone, AgentShape
  <1>10. OneRuns' BY <1>1, AbsentIs DEF DriverInv, OneRuns, AgentShape
  <1>11. SettledIsClean' BY <1>1 DEF SettledIsClean
  <1>12. GateKept' BY <1>1, <1>2 DEF DriverInv, GateKept
  <1>13. Forward'
    <2>1. cur.gen \in Gens => cur.gen \in Nat /\ cur.gen <= head /\ head \in Nat
      BY Numbers DEF DriverInv, Forward, PlaneShape
    <2>2. released' \subseteq 0..head
      <3>1. released \subseteq 0..head BY DEF DriverInv, Forward
      <3>2. cur.gen \in Gens => cur.gen \in 0..head BY <2>1
      <3> QED BY <1>1, <3>1, <3>2
    <2>3. kind # "apply" => \A g \in released' : /\ cur.gen \in Gens => g <= cur.gen
                                                /\ doc.gen \in Gens => g <= doc.gen
      <3>1. ASSUME kind # "apply", NEW g \in released'
            PROVE  (cur.gen \in Gens => g <= cur.gen) /\ (doc.gen \in Gens => g <= doc.gen)
        <4>1. CASE g \in released BY <3>1, <4>1 DEF DriverInv, Forward
        <4>2. CASE g \notin released
          <5>1. g = cur.gen /\ cur.gen \in Gens \ failed BY <1>1, <4>2
          <5> QED BY <2>1, <3>1, <5>1 DEF DriverInv, Forward
        <4> QED BY <4>1, <4>2
      <3> QED BY <3>1
    <2>4. failed \subseteq failed' BY <1>1
    <2>5. images' \subseteq 0..head BY DEF DriverInv, Forward
    <2> QED BY <1>1, <2>2, <2>3, <2>4, <2>5 DEF DriverInv, Forward
  <1> QED BY <1>3, <1>4, <1>5, <1>6, <1>7, <1>8, <1>9, <1>10, <1>11, <1>12, <1>13 DEF DriverInv

\* An end without a release, with the images as they are.
LEMMA NoReleaseRetained ==
    ASSUME DriverInv, UNCHANGED <<fixed, images, head, released>> PROVE Retained'
  BY DEF DriverInv, Retained, fixed

LEMMA GCReapKeeps == ASSUME DriverInv, GCReap PROVE DriverInv'
  <1>1. lpc = "reap" /\ mu' = "free" BY DEF GCReap, At, lpc
  <1>2. tpc = "idle" /\ mu = "loop" /\ lgen = cur.gen /\ lid = 0 /\ ~settled
    BY <1>1 DEF DriverInv, Control
  <1>3. /\ cont \in [Gens -> [id : Nat, gen : Gens \cup {None}, running : BOOLEAN]]
        /\ faults \in Nat /\ gated \cup orphaned \subseteq Gens /\ stuck \in BOOLEAN
        /\ (kind = "rollout" => \A n \in Gens : cont[n] # Absent => n \in gated \cup orphaned)
    BY <1>1 DEF DriverInv, HostShape, AgentShape, GateKept
  <1>4. CASE cur.gen = Gone
    <2>1. Finish(TRUE) /\ UNCHANGED <<nextId, images, fixed, desired, todo, gated, orphaned>>
      BY <1>4, Numbers DEF GCReap
    <2>1b. \/ cont' = [n \in Gens |-> Absent] /\ UNCHANGED <<stuck, faults>>
          \/ /\ \E S \in SUBSET Gens : cont' = [n \in Gens |-> IF n \in S THEN cont[n] ELSE Absent]
             /\ stuck' /\ stuck' \in BOOLEAN /\ faults' = faults + 1
      BY <1>4, Numbers, Zenon DEF GCReap, Fault
    <2>2. /\ \A n \in Gens : cont'[n] = cont[n] \/ cont'[n] = Absent
          /\ cont' \in [Gens -> [id : Nat, gen : Gens \cup {None}, running : BOOLEAN]]
          /\ stuck' \in BOOLEAN /\ (stuck => stuck') /\ faults' \in Nat
      <3>1. CASE cont' = [n \in Gens |-> Absent] /\ UNCHANGED <<stuck, faults>>
        BY <1>3, <3>1, AbsentIs
      <3>2. ASSUME NEW S \in SUBSET Gens, cont' = [n \in Gens |-> IF n \in S THEN cont[n] ELSE Absent],
                   stuck', stuck' \in BOOLEAN, faults' = faults + 1
            PROVE  <2>2!:
        BY <1>3, <3>2, AbsentIs
      <3> QED BY <2>1b, <3>1, <3>2
    <2>3. cur.gen \notin Gens /\ cur' = cur BY <1>4, <2>1, Numbers DEF Finish
    <2>4. UNCHANGED <<head, released>> BY <2>1, <2>3 DEF Finish
    <2>5. SettledIsClean'
      <3>1. ASSUME ~stuck', NEW n \in Gens PROVE cont'[n] = Absent BY <2>1b, <3>1
      <3> QED BY <3>1 DEF SettledIsClean
    <2>6. Retained' BY <2>1, <2>4, NoReleaseRetained
    <2> QED BY <1>1, <1>2, <1>3, <2>1, <2>2, <2>5, <2>6, EndKeeps
  <1>5. CASE cur.gen = Hold
    <2>1. Finish(TRUE) /\ UNCHANGED <<cont, nextId, images, fixed, desired, todo, gated, orphaned, stuck, faults>>
      BY <1>5, Numbers DEF GCReap, hostVars, history
    <2>2. cur.gen \notin Gens /\ cur' = cur BY <1>5, <2>1, Numbers DEF Finish
    <2>3. UNCHANGED <<head, released>> BY <2>1, <2>2 DEF Finish
    <2>4. SettledIsClean' BY <1>5, <2>2 DEF SettledIsClean
    <2>5. Retained' BY <2>1, <2>3, NoReleaseRetained
    <2> QED BY <1>1, <1>2, <1>3, <2>1, <2>4, <2>5, EndKeeps
  <1>6. CASE cur.gen \in Gens
    <2>1. PICK l \in Labels : l = IF kind = "apply" THEN "lock" ELSE "inspect" BY DEF Labels
    <2>2. /\ images' = images \cup {cur.gen} /\ proc' = [proc EXCEPT !["loop"].pc = l]
          /\ UNCHANGED <<cont, nextId, kind, good, head, doc, failed, released, desired, cur, drain, applied, settled,
                         todo, gated, orphaned, stuck, faults>>
      BY <1>6, <2>1, Numbers DEF GCReap, Go, fixed, cpVars, loopVars, history
    <2>3. /\ proc' \in [Procs -> Places] /\ lpc' = l /\ lgen' = lgen /\ lid' = lid
          /\ tpc' = tpc /\ tgen' = tgen /\ tid' = tid
      BY <2>2, LoopGoes DEF DriverInv, AgentShape
    <2>4. lpc' \in {"lock", "inspect"} BY <2>1, <2>3
    <2>5. PlaneShape' /\ HostShape' BY <1>6, <2>2 DEF DriverInv, PlaneShape, HostShape
    <2>6. AgentShape' BY <1>1, <2>2, <2>3 DEF DriverInv, AgentShape
    <2>7. Ids' BY <2>2, <2>3, <2>4 DEF DriverInv, Ids
    <2>8. Control' BY <1>1, <1>2, <1>6, <2>1, <2>2, <2>3 DEF Control
    <2>9. Recorded' BY <1>1, <2>2, <2>3, <2>4 DEF DriverInv, Recorded, NameOf
    <2>10. Lone' BY <2>2, <2>4 DEF DriverInv, Lone, Alone
    <2>11. OneRuns' /\ SettledIsClean' BY <1>2, <2>2 DEF DriverInv, OneRuns, SettledIsClean
    <2>12. GateKept' BY <1>3, <2>2, <2>4 DEF DriverInv, GateKept
    <2>13. Forward'
      <3>1. head \in Nat /\ cur.gen \in Nat /\ cur.gen <= head
        BY <1>6, Numbers DEF DriverInv, Forward, PlaneShape
      <3>2. cur.gen \in 0..head BY <3>1
      <3> QED BY <2>2, <3>2 DEF DriverInv, Forward
    <2>14. Retained' BY <2>2 DEF DriverInv, Retained
    <2> QED BY <2>5, <2>6, <2>7, <2>8, <2>9, <2>10, <2>11, <2>12, <2>13, <2>14 DEF DriverInv
  <1> QED BY <1>4, <1>5, <1>6 DEF DriverInv, PlaneShape, DocShape

LEMMA InspectRolloutKeeps == ASSUME DriverInv, InspectRollout PROVE DriverInv'
  <1>1. /\ kind = "rollout" /\ lpc = "inspect"
        /\ UNCHANGED <<fixed, cpVars, hostVars, desired, loopVars, mu, todo, history, faults>>
    BY DEF InspectRollout, At, lpc
  <1>2. /\ UNCHANGED <<kind, cont, nextId, images, desired, cur, drain, applied, settled, mu, todo, gated, orphaned,
                       stuck, faults>>
    BY <1>1 DEF fixed, hostVars, loopVars, history
  <1>3. cur.gen \in Gens /\ cur.gen \in images /\ lgen = cur.gen /\ ~settled BY <1>1 DEF DriverInv, Control
  <1>4. PICK c : c = cont[cur.gen] OBVIOUS
  <1>5. c.id \in Nat /\ c.id < nextId BY <1>3, <1>4 DEF DriverInv, HostShape, Ids
  <1>6. PICK l \in Labels : l = IF c.running THEN "list" ELSE IF c = Absent THEN "create" ELSE "remove"
    BY DEF Labels
  <1>7. PICK i \in Nat : i = IF c.running THEN lid ELSE c.id
    BY <1>5 DEF DriverInv, AgentShape, Places, Procs, lid
  <1>8. /\ proc' \in [Procs -> Places] /\ lpc' = l /\ lgen' = lgen /\ lid' = i
        /\ tpc' = tpc /\ tgen' = tgen /\ tid' = tid
    <2>1. CASE c.running
      <3>1. proc' = [proc EXCEPT !["loop"].pc = l] BY <1>4, <1>6, <2>1 DEF InspectRollout, Go
      <3> QED BY <1>7, <2>1, <3>1, LoopGoes DEF DriverInv, AgentShape
    <2>2. CASE ~c.running
      <3>1. proc' = [proc EXCEPT !["loop"].id = i, !["loop"].pc = l]
        BY <1>4, <1>6, <1>7, <2>2 DEF InspectRollout
      <3> QED BY <3>1, LoopGoesWith DEF DriverInv, AgentShape
    <2> QED BY <2>1, <2>2
  <1>9. AgentShape' BY <1>2, <1>8 DEF DriverInv, AgentShape
  <1>10. lpc' \in {"list", "create", "remove"} /\ (lpc' \in {"list", "remove"} => c # Absent)
    BY <1>6, <1>8, AbsentIs
  <1>11. Ids' BY <1>2, <1>5, <1>7, <1>8, <1>10 DEF DriverInv, Ids
  <1>12. Control' BY <1>1, <1>2, <1>3, <1>8, <1>10 DEF DriverInv, Control
  <1>13. Lone' BY <1>1, <1>2, <1>10 DEF DriverInv, Lone, Alone
  <1>14. GateKept' BY <1>1, <1>2, <1>3, <1>4, <1>10 DEF DriverInv, GateKept
  <1> QED BY <1>1, <1>2, <1>8, <1>9, <1>10, <1>11, <1>12, <1>13, <1>14, WalkKeeps

LEMMA InspectRecreateKeeps == ASSUME DriverInv, InspectRecreate PROVE DriverInv'
  <1>1. /\ kind = "recreate" /\ lpc = "inspect"
        /\ UNCHANGED <<fixed, cpVars, hostVars, desired, loopVars, mu, todo, history, faults>>
    BY DEF InspectRecreate, At, lpc
  <1>2. /\ UNCHANGED <<kind, cont, nextId, images, desired, cur, drain, applied, settled, mu, todo, gated, orphaned,
                       stuck, faults>>
    BY <1>1 DEF fixed, hostVars, loopVars, history
  <1>3. PICK l \in Labels : l = IF cont[cur.gen].running THEN "gate" ELSE "listall" BY DEF Labels
  <1>4. /\ proc' \in [Procs -> Places] /\ lpc' = l /\ lgen' = lgen /\ lid' = lid
        /\ tpc' = tpc /\ tgen' = tgen /\ tid' = tid
    BY <1>3, LoopGoes DEF DriverInv, AgentShape, InspectRecreate, Go
  <1>5. l \in {"gate", "listall"} BY <1>3
  <1>6. lid = 0 BY <1>1 DEF DriverInv, Control
  <1>7. AgentShape' BY <1>2, <1>4 DEF DriverInv, AgentShape
  <1>8. Ids' BY <1>2, <1>4, <1>5 DEF DriverInv, Ids
  <1>9. Control' BY <1>1, <1>2, <1>4, <1>5 DEF DriverInv, Control
  <1>10. Lone' BY <1>1, <1>2, <1>4, <1>5, <1>6 DEF DriverInv, Lone, Alone
  <1>11. GateKept' BY <1>1, <1>2 DEF GateKept
  <1> QED BY <1>1, <1>2, <1>4, <1>5, <1>7, <1>8, <1>9, <1>10, <1>11, WalkKeeps

LEMMA LockApplyKeeps == ASSUME DriverInv, LockApply PROVE DriverInv'
  <1>1. /\ lpc = "lock" /\ mu = "free" /\ mu' = "loop"
        /\ UNCHANGED <<fixed, cpVars, hostVars, desired, loopVars, todo, history, faults>>
    BY DEF LockApply, At, lpc
  <1>2. /\ UNCHANGED <<kind, cont, nextId, images, desired, cur, drain, applied, settled, todo, gated, orphaned,
                       stuck, faults>>
    BY <1>1 DEF fixed, hostVars, loopVars, history
  <1>3. kind = "apply" /\ cur.gen \in Gens /\ lgen = cur.gen /\ ~settled /\ tpc = "idle"
    BY <1>1 DEF DriverInv, Control
  <1>4. PICK c : c = cont[NameOf(cur.gen)] OBVIOUS
  <1>5. c.id \in Nat /\ c.id < nextId BY <1>3, <1>4, NameIs DEF DriverInv, HostShape, Ids
  <1>6. PICK l \in Labels : l = IF Converged(cur.gen) THEN "put" ELSE IF c = Absent THEN "create" ELSE "remove"
    BY DEF Labels
  <1>7. PICK i \in Nat : i = c.id BY <1>5
  <1>8. proc' = [proc EXCEPT !["loop"].id = i, !["loop"].pc = l] BY <1>4, <1>6, <1>7 DEF LockApply
  <1>9. /\ proc' \in [Procs -> Places] /\ lpc' = l /\ lgen' = lgen /\ lid' = i
        /\ tpc' = tpc /\ tgen' = tgen /\ tid' = tid
    BY <1>8, LoopGoesWith DEF DriverInv, AgentShape
  <1>10. l \in {"put", "create", "remove"} BY <1>6
  <1>11. AgentShape' BY <1>1, <1>2, <1>9 DEF DriverInv, AgentShape
  <1>12. Ids' BY <1>2, <1>5, <1>7, <1>9, <1>10 DEF DriverInv, Ids
  <1>13. Control' BY <1>1, <1>2, <1>3, <1>9, <1>10 DEF DriverInv, Control
  <1>14. Lone' /\ GateKept' BY <1>2, <1>3 DEF Lone, GateKept
  <1> QED BY <1>1, <1>2, <1>9, <1>10, <1>11, <1>12, <1>13, <1>14, WalkKeeps

----------------------------------------------------------------------------
(* The document loop: the rest of a swap.                                  *)

LEMMA WithoutIs ==
    ASSUME HostShape, NEW i, cont' = Without(i)
    PROVE  /\ \A n \in Gens : cont'[n] = IF cont[n].id = i THEN Absent ELSE cont[n]
           /\ \A n \in Gens : cont'[n] = cont[n] \/ cont'[n] = Absent
           /\ cont' \in [Gens -> [id : Nat, gen : Gens \cup {None}, running : BOOLEAN]]
  BY AbsentIs DEF Without, HostShape

LEMMA GatePassesKeeps == ASSUME DriverInv, GatePasses PROVE DriverInv'
  <1>1. /\ lpc = "gate" /\ gated' = gated \cup {cur.gen}
        /\ UNCHANGED <<fixed, cpVars, hostVars, desired, loopVars, mu, todo, orphaned, stuck, faults>>
    BY DEF GatePasses, At, lpc
  <1>2. /\ UNCHANGED <<kind, cont, nextId, images, desired, cur, drain, applied, settled, mu, todo, orphaned,
                       stuck, faults>>
    BY <1>1 DEF fixed, hostVars, loopVars
  <1>3. PICK l \in Labels : l = IF kind = "rollout" \/ lid = 0 THEN "list" ELSE "persist" BY DEF Labels
  <1>4. /\ proc' \in [Procs -> Places] /\ lpc' = l /\ lgen' = lgen /\ lid' = lid
        /\ tpc' = tpc /\ tgen' = tgen /\ tid' = tid
    BY <1>3, LoopGoes DEF DriverInv, AgentShape, GatePasses, Go, lid
  <1>5. l \in {"list", "persist"} /\ (l = "persist" => kind # "rollout" /\ lid # 0) BY <1>3
  <1>6. cur.gen \in Gens /\ kind # "apply" /\ kind \in {"rollout", "recreate", "apply"}
    BY <1>1, ConstantsAssumption DEF DriverInv, Control, PlaneShape
  <1>7. AgentShape' BY <1>1, <1>2, <1>4, <1>6 DEF DriverInv, AgentShape
  <1>8. Ids' BY <1>2, <1>4, <1>5 DEF DriverInv, Ids
  <1>9. Control' BY <1>1, <1>2, <1>4, <1>5 DEF DriverInv, Control
  <1>10. Lone' BY <1>1, <1>2, <1>4, <1>5, <1>6 DEF DriverInv, Lone, Alone
  <1>11. GateKept' BY <1>1, <1>2, <1>4, <1>5 DEF DriverInv, GateKept
  <1> QED BY <1>1, <1>2, <1>4, <1>5, <1>7, <1>8, <1>9, <1>10, <1>11, WalkKeeps

LEMMA GateFailsKeeps == ASSUME DriverInv, GateFails PROVE DriverInv'
  <1>1. lpc = "gate" /\ Finish(FALSE) /\ UNCHANGED <<fixed, nextId, images, desired, mu, todo, gated, stuck>>
    BY DEF GateFails, At, lpc
  <1>2. cur.gen \in Gens /\ ~settled BY <1>1 DEF DriverInv, Control
  <1>3. /\ HostShape /\ faults \in Nat /\ gated \cup orphaned \subseteq Gens /\ stuck \in BOOLEAN
        /\ mu \in {"free", "loop", "tick"} /\ (tpc # "idle" => mu = "tick")
    BY DEF DriverInv, AgentShape, Control
  <1>4. \/ kind = "rollout" /\ cont' = Without(lid) /\ UNCHANGED <<orphaned, faults>>
        \/ kind # "rollout" /\ UNCHANGED <<cont, orphaned, faults>>
        \/ Fault /\ orphaned' = orphaned \cup {cur.gen} /\ UNCHANGED cont
    BY DEF GateFails, lid
  <1>5. /\ \A n \in Gens : cont'[n] = cont[n] \/ cont'[n] = Absent
        /\ cont' \in [Gens -> [id : Nat, gen : Gens \cup {None}, running : BOOLEAN]]
        /\ orphaned \subseteq orphaned' /\ orphaned' \subseteq Gens /\ faults' \in Nat
    BY <1>2, <1>3, <1>4, WithoutIs DEF Fault, HostShape
  <1>6. ASSUME kind = "rollout", NEW n \in Gens, cont'[n] # Absent PROVE n \in gated' \cup orphaned'
    <2>1. cont[n] # Absent BY <1>5, <1>6
    <2>2. n \in gated \cup orphaned \/ (n = cur.gen /\ cont[n].id = lid) BY <1>6, <2>1 DEF DriverInv, GateKept
    <2>3. CASE cont' = Without(lid) BY <1>1, <1>3, <1>5, <1>6, <2>2, <2>3, WithoutIs
    <2>4. CASE orphaned' = orphaned \cup {cur.gen} BY <1>1, <2>2, <2>4
    <2> QED BY <1>4, <1>6, <2>3, <2>4
  <1>7. UNCHANGED <<head, released>> BY <1>1 DEF Finish
  <1>8. Retained' BY <1>1, <1>7, NoReleaseRetained
  <1> QED BY <1>1, <1>3, <1>5, <1>6, <1>8, EndKeeps

LEMMA DrainListKeeps == ASSUME DriverInv, DrainList PROVE DriverInv'
  <1>1. /\ lpc \in {"list", "listall"}
        /\ drain' = {cont[n].id : n \in {m \in Gens : cont[m] # Absent /\ (lpc = "list" => m # cur.gen)}}
        /\ UNCHANGED <<fixed, cpVars, hostVars, desired, cur, applied, settled, mu, todo, history, faults>>
    BY DEF DrainList, At, lpc
  <1>2. /\ UNCHANGED <<kind, cont, nextId, images, desired, cur, applied, settled, mu, todo, gated, orphaned,
                       stuck, faults>>
    BY <1>1 DEF fixed, hostVars, history
  <1>3. PICK l \in Labels : l = IF lpc = "list" THEN "drain" ELSE "drainall" BY DEF Labels
  <1>4. /\ proc' \in [Procs -> Places] /\ lpc' = l /\ lgen' = lgen /\ lid' = lid
        /\ tpc' = tpc /\ tgen' = tgen /\ tid' = tid
    BY <1>3, LoopGoes DEF DriverInv, AgentShape, DrainList, Go, At, lpc
  <1>5. l \in {"drain", "drainall"} /\ (l = "drain" => lpc = "list") /\ (l = "drainall" => lpc = "listall")
    BY <1>1, <1>3
  <1>6. AgentShape' BY <1>2, <1>4 DEF DriverInv, AgentShape
  <1>7. Ids'
    <2>1. \A i \in drain' : i \in Nat /\ 0 < i /\ i < nextId BY <1>1 DEF DriverInv, Ids, HostShape
    <2> QED BY <1>2, <1>4, <1>5, <2>1 DEF DriverInv, Ids
  <1>8. Control' BY <1>1, <1>2, <1>4, <1>5 DEF DriverInv, Control
  <1>9. Lone'
    <2>1. \A m \in Gens : cont[m] # Absent => m = cur.gen \/ cont[m].id \in drain' BY <1>1
    <2> QED BY <1>1, <1>2, <1>4, <1>5, <2>1 DEF DriverInv, Lone, Alone
  <1>10. GateKept' BY <1>1, <1>2, <1>4, <1>5 DEF DriverInv, GateKept
  <1> QED BY <1>1, <1>2, <1>4, <1>5, <1>6, <1>7, <1>8, <1>9, <1>10, WalkKeeps

\* Containers go, and nothing else moves but a drain and what it notes, or a
\* repair that goes on to its create.
LEMMA LossKeeps ==
    ASSUME DriverInv, UNCHANGED <<fixed, cpVars, nextId, images, desired, cur, applied, settled, mu, todo,
                                  gated, orphaned, lpc, lgen, lid, tgen, tid>>,
           proc' \in [Procs -> Places], tpc' = tpc \/ (tpc # "idle" /\ tpc' = "create"),
           \A n \in Gens : cont'[n] = cont[n] \/ cont'[n] = Absent,
           cont' \in [Gens -> [id : Nat, gen : Gens \cup {None}, running : BOOLEAN]],
           stuck' \in BOOLEAN, stuck => stuck', faults' \in Nat, drain' \subseteq drain,
           ~stuck' => \A n \in Gens : cont'[n] # Absent /\ cont[n].id \in drain => cont[n].id \in drain'
    PROVE  DriverInv'
  <1>1. UNCHANGED <<kind, good, head, doc, failed, released>> BY DEF fixed, cpVars
  <1>2. PlaneShape' /\ HostShape' BY <1>1 DEF DriverInv, PlaneShape, HostShape
  <1>3. AgentShape' BY <1>1 DEF DriverInv, AgentShape
  <1>4. Ids'
    <2>1. \A n \in Gens : cont'[n].id < nextId /\ (cont'[n] # Absent => cont'[n].id > 0)
      BY AbsentIs DEF DriverInv, Ids, HostShape
    <2> QED BY <1>1, <2>1 DEF DriverInv, Ids
  <1>5. Control' BY <1>1 DEF DriverInv, Control
  <1>6. Recorded' BY <1>1 DEF DriverInv, Recorded, NameOf
  <1>7. Lone'
    <2>1. ASSUME kind # "apply", ~stuck'
          PROVE  /\ \A m, n \in Gens : desired'[n] # None /\ cont'[m] # Absent => m = n
                 /\ Alone => \A m \in Gens : cont'[m] # Absent => m = cur.gen
                 /\ lpc \in {"drain", "drainall"}
                      => \A m \in Gens : cont'[m] # Absent => m = cur.gen \/ cont'[m].id \in drain'
      BY <2>1 DEF DriverInv, Lone, AgentShape
    <2>2. Alone' = Alone BY <1>1 DEF Alone
    <2> QED BY <1>1, <2>1, <2>2 DEF Lone
  <1>8. OneRuns' BY <1>1, AbsentIs DEF DriverInv, OneRuns, AgentShape
  <1>9. SettledIsClean' BY <1>1 DEF DriverInv, SettledIsClean, NameOf, AgentShape
  <1>10. GateKept' BY <1>1, AbsentIs DEF DriverInv, GateKept
  <1>11. Forward' /\ Retained' BY <1>1 DEF DriverInv, Forward, Retained
  <1> QED BY <1>2, <1>3, <1>4, <1>5, <1>6, <1>7, <1>8, <1>9, <1>10, <1>11 DEF DriverInv

LEMMA DrainOldKeeps == ASSUME DriverInv, NEW i \in drain, DrainOld(i) PROVE DriverInv'
  <1>1. /\ drain' = drain \ {i}
        /\ \/ cont' = Without(i) /\ UNCHANGED <<stuck, faults>>
           \/ stuck' = TRUE /\ faults' = faults + 1 /\ UNCHANGED cont
        /\ UNCHANGED <<fixed, cpVars, nextId, images, desired, cur, applied, settled, mu, proc, todo, gated, orphaned>>
    BY Zenon DEF DrainOld, Fault
  <1>2. /\ HostShape /\ stuck \in BOOLEAN /\ faults \in Nat
        /\ proc' \in [Procs -> Places] /\ UNCHANGED <<lpc, lgen, lid, tpc, tgen, tid>>
    BY <1>1 DEF DriverInv, AgentShape, lpc, lgen, lid, tpc, tgen, tid
  <1>3. CASE cont' = Without(i) /\ UNCHANGED <<stuck, faults>>
    <2>1. /\ \A n \in Gens : cont'[n] = IF cont[n].id = i THEN Absent ELSE cont[n]
          /\ \A n \in Gens : cont'[n] = cont[n] \/ cont'[n] = Absent
          /\ cont' \in [Gens -> [id : Nat, gen : Gens \cup {None}, running : BOOLEAN]]
      BY <1>2, <1>3, WithoutIs
    <2>2. \A n \in Gens : cont'[n] # Absent /\ cont[n].id \in drain => cont[n].id \in drain' BY <1>1, <2>1
    <2> QED BY <1>1, <1>2, <1>3, <2>1, <2>2, LossKeeps
  <1>4. CASE stuck' = TRUE /\ faults' = faults + 1 /\ UNCHANGED cont
    <2>1. cont' \in [Gens -> [id : Nat, gen : Gens \cup {None}, running : BOOLEAN]]
      BY <1>2, <1>4 DEF HostShape
    <2>2. stuck' \in BOOLEAN /\ stuck' BY <1>4, Zenon
    <2>3. drain' \subseteq drain /\ faults' \in Nat BY <1>1, <1>2, <1>4
    <2> QED BY <1>1, <1>2, <1>4, <2>1, <2>2, <2>3, LossKeeps
  <1> QED BY <1>1, <1>3, <1>4

LEMMA DrainedKeeps == ASSUME DriverInv, Drained PROVE DriverInv'
  <1>1. /\ lpc \in {"drain", "drainall"} /\ drain = {}
        /\ UNCHANGED <<fixed, cpVars, hostVars, desired, loopVars, mu, todo, history, faults>>
    BY DEF Drained, At, lpc
  <1>2. /\ UNCHANGED <<kind, cont, nextId, images, desired, cur, drain, applied, settled, mu, todo, gated, orphaned,
                       stuck, faults>>
    BY <1>1 DEF fixed, hostVars, loopVars, history
  <1>3. PICK l \in Labels : l = IF lpc = "drain" THEN "persist" ELSE "create" BY DEF Labels
  <1>4. /\ proc' \in [Procs -> Places] /\ lpc' = l /\ lgen' = lgen /\ lid' = lid
        /\ tpc' = tpc /\ tgen' = tgen /\ tid' = tid
    BY <1>3, LoopGoes DEF DriverInv, AgentShape, Drained, Go, At, lpc
  <1>5. l \in {"persist", "create"} /\ (l = "persist" => lpc = "drain") /\ (l = "create" => lpc = "drainall")
    BY <1>1, <1>3
  <1>6. AgentShape' BY <1>2, <1>4 DEF DriverInv, AgentShape
  <1>7. Ids' BY <1>2, <1>4, <1>5 DEF DriverInv, Ids
  <1>8. Control' BY <1>1, <1>2, <1>4, <1>5 DEF DriverInv, Control
  <1>9. Lone' BY <1>1, <1>2, <1>4, <1>5 DEF DriverInv, Lone, Alone
  <1>10. GateKept' BY <1>1, <1>2, <1>4, <1>5 DEF DriverInv, GateKept, Control
  <1> QED BY <1>1, <1>2, <1>4, <1>5, <1>6, <1>7, <1>8, <1>9, <1>10, WalkKeeps

LEMMA PersistKeeps == ASSUME DriverInv, PersistRolloutGeneration PROVE DriverInv'
  <1>1. /\ lpc = "persist"
        /\ desired' = [n \in Gens |-> IF n = cur.gen THEN cur.gen ELSE None]
        /\ UNCHANGED <<kind, good, head, doc, failed, released, cont, nextId, images, cur, drain, applied, settled,
                       mu, todo, gated, orphaned, stuck, faults>>
    BY DEF PersistRolloutGeneration, At, lpc, fixed, cpVars, hostVars, loopVars, history
  <1>2. /\ proc' \in [Procs -> Places] /\ lpc' = "retain" /\ lgen' = lgen /\ lid' = lid
        /\ tpc' = tpc /\ tgen' = tgen /\ tid' = tid
    <2>1. "retain" \in Labels BY DEF Labels
    <2> QED BY <2>1, LoopGoes DEF DriverInv, AgentShape, PersistRolloutGeneration, Go
  <1>3. cur.gen \in Gens /\ kind # "apply" /\ ~settled /\ cur.gen # None
    BY <1>1, Numbers DEF DriverInv, Control
  <1>4. \A n \in Gens : desired'[n] # None <=> n = cur.gen BY <1>1, <1>3
  <1>5. NameOf(cur.gen) = cur.gen BY <1>3 DEF NameOf
  <1>6. PlaneShape' BY <1>1 DEF DriverInv, PlaneShape
  <1>7. HostShape' BY <1>1, <1>3 DEF DriverInv, HostShape
  <1>8. AgentShape' BY <1>1, <1>2 DEF DriverInv, AgentShape
  <1>9. Ids' BY <1>1, <1>2 DEF DriverInv, Ids
  <1>10. Control' BY <1>1, <1>2 DEF DriverInv, Control
  <1>11. Recorded'
    <2>1. ASSUME tpc # "idle" PROVE tgen \in Gens /\ NameOf(tgen) = cur.gen
      BY <1>1, <1>3, <1>5, <2>1, NameIs DEF DriverInv, Recorded
    <2>2. \A n \in Gens : desired'[n] \in {n, None} BY <1>1
    <2> QED BY <1>1, <1>2, <1>3, <1>4, <1>5, <2>1, <2>2 DEF Recorded, NameOf
  <1>12. Lone' BY <1>1, <1>2, <1>3, <1>4 DEF DriverInv, Lone, Alone
  <1>13. OneRuns' /\ SettledIsClean' BY <1>1, <1>3 DEF DriverInv, OneRuns, SettledIsClean
  <1>14. GateKept' BY <1>1, <1>2, <1>4 DEF DriverInv, GateKept
  <1>15. Forward' /\ Retained' BY <1>1 DEF DriverInv, Forward, Retained
  <1> QED BY <1>6, <1>7, <1>8, <1>9, <1>10, <1>11, <1>12, <1>13, <1>14, <1>15 DEF DriverInv

\* retainImages: what it drops is Keep images and the one in use behind.
LEMMA RetainImagesKeeps == ASSUME DriverInv, RetainImages PROVE DriverInv'
  <1>1. /\ lpc = "retain" /\ Finish(TRUE) /\ UNCHANGED <<fixed, cont, nextId, desired, mu, todo, history, faults>>
        /\ images' = {g \in images : g \in InUse \/ Cardinality({h \in images \ InUse : h > g}) < Keep}
    BY DEF RetainImages, At, lpc
  <1>2. /\ UNCHANGED <<kind, cont, nextId, desired, mu, todo, gated, orphaned, stuck, faults, head, cur>>
        /\ released' = (IF cur.gen \in Gens \ failed THEN released \cup {cur.gen} ELSE released)
    BY <1>1 DEF fixed, history, Finish
  <1>3. cur.gen \in Gens /\ cur.gen \in images /\ kind # "apply" BY <1>1 DEF DriverInv, Control
  <1>4. /\ head \in Nat /\ cur.gen \in Nat /\ cur.gen <= head /\ images \subseteq 0..head
        /\ \A g \in released : g \in Nat /\ g <= cur.gen
    BY <1>3, Numbers DEF DriverInv, PlaneShape, Forward
  <1>5. cur.gen \in InUse BY DEF InUse
  <1>6. \A g \in released \ images : g + Keep + 1 <= head BY <1>3 DEF DriverInv, Retained
  <1>7. Retained'
    <2>1. ASSUME NEW g \in released' \ images' PROVE g + Keep + 1 <= head
      <3>1. g \in released /\ g # cur.gen BY <1>1, <1>2, <1>3, <1>5, <2>1
      <3>2. CASE g \notin images BY <1>6, <3>1, <3>2
      <3>3. CASE g \in images
        <4> DEFINE S == {h \in images \ InUse : h > g}
        <4>1. g \in Nat /\ g < cur.gen BY <1>4, <3>1
        <4>2. IsFiniteSet((g + 1) .. head) /\ Cardinality((g + 1) .. head) = head - g
          <5>1. g + 1 \in Int /\ head \in Int /\ ~(g + 1 > head) BY <1>4, <4>1
          <5>2. Cardinality((g + 1) .. head) = head - (g + 1) + 1 /\ IsFiniteSet((g + 1) .. head)
            BY <5>1, FS_Interval
          <5> QED BY <1>4, <4>1, <5>2
        <4>3. S \cup {cur.gen} \subseteq (g + 1) .. head
          <5>1. ASSUME NEW h \in S PROVE h \in (g + 1) .. head
            <6>1. h \in 0..head /\ h > g BY <1>4
            <6> QED BY <1>4, <4>1, <6>1
          <5>2. cur.gen \in (g + 1) .. head BY <1>4, <4>1
          <5> QED BY <5>1, <5>2
        <4>4. IsFiniteSet(S \cup {cur.gen}) /\ Cardinality(S \cup {cur.gen}) <= head - g
          <5> HIDE DEF S
          <5> QED BY <4>2, <4>3, FS_Subset
        <4>5. IsFiniteSet(S)
          <5>1. S \subseteq (g + 1) .. head BY <4>3
          <5> HIDE DEF S
          <5> QED BY <4>2, <5>1, FS_Subset
        <4>6. cur.gen \notin S BY <1>5
        <4>7. Cardinality(S) \in Nat /\ Cardinality(S \cup {cur.gen}) = Cardinality(S) + 1
          <5> HIDE DEF S
          <5> QED BY <4>5, <4>6, FS_CardinalityType, FS_AddElement
        <4>8. ~(Cardinality(S) < Keep) BY <1>1, <2>1, <3>3
        <4> HIDE DEF S
        <4> QED BY <1>4, <4>1, <4>4, <4>7, <4>8, Numbers
      <3> QED BY <3>2, <3>3
    <2> QED BY <1>2, <2>1 DEF Retained
  <1>8. SettledIsClean'
    <2>1. ~stuck => \A n \in Gens : cont[n] # Absent => n = cur.gen BY <1>1, <1>3 DEF DriverInv, Lone, Alone
    <2> QED BY <1>2, <1>3, <2>1 DEF SettledIsClean, NameOf
  <1>9. /\ cont' \in [Gens -> [id : Nat, gen : Gens \cup {None}, running : BOOLEAN]]
        /\ images' \subseteq images /\ faults' \in Nat /\ mu' \in {"free", "loop", "tick"}
        /\ (tpc # "idle" => mu' = "tick") /\ gated' \cup orphaned' \subseteq Gens /\ stuck' \in BOOLEAN
    BY <1>1, <1>2 DEF DriverInv, HostShape, AgentShape, Control
  <1>10. kind = "rollout" => \A n \in Gens : cont'[n] # Absent => n \in gated' \cup orphaned'
    BY <1>1, <1>2 DEF DriverInv, GateKept
  <1> QED BY <1>1, <1>2, <1>7, <1>8, <1>9, <1>10, EndKeeps

LEMMA PutDesiredKeeps == ASSUME DriverInv, PutDesired PROVE DriverInv'
  <1>1. /\ lpc = "put" /\ Finish(TRUE) /\ mu' = "free" /\ desired' = [desired EXCEPT ![NameOf(cur.gen)] = cur.gen]
        /\ UNCHANGED <<kind, good, cont, nextId, images, todo, gated, orphaned, stuck, faults, head, doc, cur>>
    BY DEF PutDesired, At, lpc, fixed, hostVars, history, Finish
  <1>2. cur.gen \in Gens /\ kind = "apply" /\ tpc = "idle" BY <1>1 DEF DriverInv, Control
  <1>3. NameOf(cur.gen) = 0 /\ 0 \in Gens BY <1>2, Numbers DEF NameOf
  <1>4. /\ applied' = cur.v /\ settled' = TRUE /\ drain' = {} /\ failed' = failed
        /\ released' = (IF cur.gen \in Gens \ failed THEN released \cup {cur.gen} ELSE released)
    BY <1>1 DEF Finish
  <1>5. /\ proc' \in [Procs -> Places] /\ lpc' = "idle" /\ lgen' = None /\ lid' = 0
        /\ tpc' = tpc /\ tgen' = tgen /\ tid' = tid
    BY <1>1, IdleIs, LoopMoves DEF DriverInv, AgentShape, Finish
  <1>6. \A n \in Gens : n # 0 => cont[n] = Absent /\ desired[n] = None BY <1>2 DEF DriverInv, Recorded
  <1>7. desired' \in [Gens -> Gens \cup {None}] /\ \A n \in Gens : n # 0 => desired'[n] = None
    BY <1>1, <1>2, <1>3, <1>6 DEF DriverInv, HostShape
  <1>8. PlaneShape'
    <2>1. released' \subseteq Gens /\ failed' \cap released' = {} /\ 0 \in released'
      BY <1>4 DEF DriverInv, PlaneShape
    <2> QED BY <1>1, <1>4, <2>1 DEF DriverInv, PlaneShape
  <1>9. HostShape' BY <1>1, <1>7 DEF DriverInv, HostShape
  <1>10. AgentShape'
    <2>1. applied' \in Nat BY <1>4 DEF DriverInv, PlaneShape, DocShape
    <2>2. settled' \in BOOLEAN BY <1>4, Zenon
    <2> QED BY <1>1, <1>5, <2>1, <2>2 DEF DriverInv, AgentShape
  <1>11. Ids' BY <1>1, <1>4, <1>5 DEF DriverInv, Ids, HostShape
  <1>12. Control' BY <1>2, <1>5 DEF Control
  <1>13. Recorded' BY <1>1, <1>2, <1>3, <1>5, <1>6, <1>7 DEF Recorded, NameOf
  <1>14. Lone' /\ OneRuns' /\ GateKept' BY <1>1, <1>2 DEF Lone, OneRuns, GateKept
  <1>15. SettledIsClean' BY <1>1, <1>2, <1>3, <1>6 DEF SettledIsClean, NameOf
  <1>16. Forward'
    <2>1. head \in Nat /\ cur.gen \in Nat /\ cur.gen <= head
      BY <1>2, Numbers DEF DriverInv, Forward, PlaneShape
    <2>2. released' \subseteq 0..head
      <3>1. cur.gen \in 0..head BY <2>1
      <3> QED BY <1>4, <3>1 DEF DriverInv, Forward
    <2> QED BY <1>1, <1>2, <2>2 DEF DriverInv, Forward
  <1>17. Retained' BY <1>1, <1>2 DEF Retained
  <1> QED BY <1>8, <1>9, <1>10, <1>11, <1>12, <1>13, <1>14, <1>15, <1>16, <1>17 DEF DriverInv

----------------------------------------------------------------------------
(* Steps that both goroutines take, by the document loop.                  *)

LEMMA LoopFailsKeeps ==
    ASSUME DriverInv, Fails("loop"), lpc \notin {"idle", "prune"},
           UNCHANGED <<fixed, nextId, images, desired, todo, gated, orphaned, stuck>>, faults' \in Nat,
           \A n \in Gens : cont'[n] = cont[n] \/ cont'[n] = Absent,
           cont' \in [Gens -> [id : Nat, gen : Gens \cup {None}, running : BOOLEAN]],
           kind = "rollout" => \A n \in Gens : cont'[n] # Absent => n \in gated \cup orphaned
    PROVE  DriverInv'
  <1>1. Finish(FALSE) /\ mu' = (IF mu = "loop" THEN "free" ELSE mu) BY DEF Fails
  <1>2. UNCHANGED <<head, released>> BY <1>1 DEF Finish
  <1>3. Retained' BY <1>2, NoReleaseRetained
  <1>4. mu' \in {"free", "loop", "tick"} /\ (tpc # "idle" => mu' = "tick")
    BY <1>1 DEF DriverInv, AgentShape, Control
  <1>5. gated' \cup orphaned' \subseteq Gens /\ stuck' \in BOOLEAN BY DEF DriverInv, AgentShape
  <1> QED BY <1>1, <1>3, <1>4, <1>5, EndKeeps

LEMMA LoopRemoveKeeps == ASSUME DriverInv, ContainerRemove("loop") PROVE DriverInv'
  <1>1. /\ lpc = "remove" /\ cont' = Without(lid)
        /\ UNCHANGED <<kind, good, head, doc, failed, released, nextId, images, desired, cur, drain, applied, settled,
                       mu, todo, gated, orphaned, stuck, faults>>
    BY DEF ContainerRemove, At, lpc, lid, fixed, cpVars, loopVars, history
  <1>2. /\ proc' \in [Procs -> Places] /\ lpc' = "create" /\ lgen' = lgen /\ lid' = lid
        /\ tpc' = tpc /\ tgen' = tgen /\ tid' = tid
    <2>1. "create" \in Labels BY DEF Labels
    <2> QED BY <2>1, LoopGoes DEF DriverInv, AgentShape, ContainerRemove, Go
  <1>3. /\ \A n \in Gens : cont'[n] = cont[n] \/ cont'[n] = Absent
        /\ cont' \in [Gens -> [id : Nat, gen : Gens \cup {None}, running : BOOLEAN]]
    BY <1>1, WithoutIs DEF DriverInv
  <1>4. kind # "recreate" /\ ~settled BY <1>1 DEF DriverInv, Control
  <1>5. PlaneShape' /\ HostShape' BY <1>1, <1>3 DEF DriverInv, PlaneShape, HostShape
  <1>6. AgentShape' BY <1>1, <1>2 DEF DriverInv, AgentShape
  <1>7. Ids'
    <2>1. \A n \in Gens : cont'[n].id < nextId /\ (cont'[n] # Absent => cont'[n].id > 0)
      BY <1>3, AbsentIs DEF DriverInv, Ids, HostShape
    <2> QED BY <1>1, <1>2, <2>1 DEF DriverInv, Ids
  <1>8. Control' BY <1>1, <1>2, <1>4 DEF DriverInv, Control
  <1>9. Recorded' BY <1>1, <1>2, <1>3 DEF DriverInv, Recorded, NameOf
  <1>10. Lone' BY <1>1, <1>2, <1>3, <1>4 DEF DriverInv, Lone, Alone
  <1>11. OneRuns' /\ SettledIsClean' BY <1>1, <1>4 DEF OneRuns, SettledIsClean
  <1>12. GateKept' BY <1>1, <1>2, <1>3 DEF DriverInv, GateKept
  <1>13. Forward' /\ Retained' BY <1>1 DEF DriverInv, Forward, Retained
  <1> QED BY <1>5, <1>6, <1>7, <1>8, <1>9, <1>10, <1>11, <1>12, <1>13 DEF DriverInv

\* A container is created under the name of a generation.
LEMMA CreateIs ==
    ASSUME HostShape, Ids, NEW g \in Gens, NEW n \in Gens,
           cont' = [cont EXCEPT ![n] = [id |-> nextId, gen |-> g, running |-> FALSE]]
    PROVE  /\ cont' \in [Gens -> [id : Nat, gen : Gens \cup {None}, running : BOOLEAN]]
           /\ cont'[n] # Absent /\ cont'[n].id = nextId /\ ~cont'[n].running
           /\ \A m \in Gens : m # n => cont'[m] = cont[m]
  <1>1. PICK c : c = [id |-> nextId, gen |-> g, running |-> FALSE] OBVIOUS
  <1>2. FALSE \in BOOLEAN OBVIOUS
  <1>3. c \in [id : Nat, gen : Gens \cup {None}, running : BOOLEAN] BY <1>1, <1>2, Zenon DEF HostShape
  <1>4. c.id = nextId /\ ~c.running /\ nextId > 1 /\ nextId \in Nat BY <1>1 DEF Ids, HostShape
  <1>5. c # Absent BY <1>4, AbsentIs
  <1>6. cont' = [cont EXCEPT ![n] = c] BY <1>1
  <1>7. cont'[n] = c /\ \A m \in Gens : m # n => cont'[m] = cont[m] BY <1>6 DEF HostShape
  <1> QED BY <1>3, <1>4, <1>5, <1>6, <1>7 DEF HostShape

LEMMA LoopCreateKeeps == ASSUME DriverInv, ContainerCreate("loop") PROVE DriverInv'
  <1>1. lpc = "create" /\ UNCHANGED <<fixed, images, desired, todo, history, faults>>
    BY DEF ContainerCreate, At, lpc
  <1>2. lgen = cur.gen /\ cur.gen \in Gens /\ cur.gen \in images /\ ~settled BY <1>1 DEF DriverInv, Control
  <1>3. PICK n : n = NameOf(cur.gen) OBVIOUS
  <1>4. n \in Gens /\ (kind # "apply" => n = cur.gen) /\ (kind = "apply" => n = 0) BY <1>2, <1>3, NameIs
  <1>5. CASE Fails("loop") /\ UNCHANGED <<cont, nextId>>
    <2>1. cont' \in [Gens -> [id : Nat, gen : Gens \cup {None}, running : BOOLEAN]] /\ faults' \in Nat
      BY <1>1, <1>5 DEF DriverInv, HostShape, AgentShape
    <2>2. kind = "rollout" => \A m \in Gens : cont[m] # Absent => m \in gated \cup orphaned
      BY <1>1 DEF DriverInv, GateKept
    <2> QED BY <1>1, <1>5, <2>1, <2>2, LoopFailsKeeps DEF history
  <1>6. CASE /\ cont' = [cont EXCEPT ![n] = [id |-> nextId, gen |-> cur.gen, running |-> FALSE]]
             /\ nextId' = nextId + 1 /\ proc' = [proc EXCEPT !["loop"].pc = "start", !["loop"].id = nextId]
             /\ UNCHANGED <<cpVars, loopVars, mu>>
    <2>1. UNCHANGED <<kind, good, head, doc, failed, released, images, desired, cur, drain, applied, settled,
                      mu, todo, gated, orphaned, stuck, faults>>
      BY <1>1, <1>6 DEF fixed, cpVars, loopVars, history
    <2>2. nextId \in Nat /\ nextId > 1 BY DEF DriverInv, HostShape, Ids
    <2>3. /\ proc' \in [Procs -> Places] /\ lpc' = "start" /\ lgen' = lgen /\ lid' = nextId
          /\ tpc' = tpc /\ tgen' = tgen /\ tid' = tid
      <3>1. PICK l \in Labels : l = "start" BY DEF Labels
      <3>2. PICK p \in Procs : p = "loop" BY DEF Procs
      <3>3. proc' = [proc EXCEPT ![p].pc = l, ![p].id = nextId] BY <1>6, <3>1, <3>2
      <3> QED BY <2>2, <3>1, <3>2, <3>3, GoesWith DEF DriverInv, AgentShape
    <2>4. /\ cont' \in [Gens -> [id : Nat, gen : Gens \cup {None}, running : BOOLEAN]]
          /\ cont'[n] # Absent /\ cont'[n].id = nextId /\ ~cont'[n].running
          /\ \A m \in Gens : m # n => cont'[m] = cont[m]
      BY <1>2, <1>4, <1>6, CreateIs DEF DriverInv
    <2>5. PlaneShape' /\ HostShape' BY <1>6, <2>1, <2>2, <2>4 DEF DriverInv, PlaneShape, HostShape
    <2>6. AgentShape' BY <2>1, <2>3 DEF DriverInv, AgentShape
    <2>7. Ids'
      <3>1. \A m \in Gens : cont'[m].id < nextId + 1 /\ (cont'[m] # Absent => cont'[m].id > 0)
        BY <2>2, <2>4 DEF DriverInv, Ids, HostShape
      <3>2. \A i \in drain : i \in Nat /\ 0 < i /\ i < nextId + 1 BY <2>2 DEF DriverInv, Ids
      <3>3. tid \in Nat /\ tid < nextId BY DEF DriverInv, Ids, AgentShape, Procs, Places, tid
      <3>4. tpc = "start" => tid > 0 BY DEF DriverInv, Ids
      <3> QED BY <1>6, <2>1, <2>2, <2>3, <3>1, <3>2, <3>3, <3>4 DEF Ids
    <2>8. Control' BY <1>1, <2>1, <2>3 DEF DriverInv, Control
    <2>9. Recorded' BY <1>1, <1>4, <2>1, <2>3, <2>4 DEF DriverInv, Recorded, NameOf
    <2>10. Lone'
      <3>1. kind # "apply" => \A m \in Gens : desired[m] # None => m = cur.gen
        BY <1>1, <1>3, <1>4 DEF DriverInv, Recorded
      <3> QED BY <1>1, <1>4, <2>1, <2>3, <2>4, <3>1 DEF DriverInv, Lone, Alone
    <2>11. OneRuns' /\ SettledIsClean' BY <1>2, <2>1, <2>4 DEF DriverInv, OneRuns, SettledIsClean
    <2>12. GateKept'
      <3>1. \A m \in Gens : cont[m].id # nextId BY <2>2 DEF DriverInv, Ids, HostShape
      <3> QED BY <1>1, <1>4, <2>1, <2>2, <2>3, <2>4, <3>1 DEF DriverInv, GateKept
    <2>13. Forward' /\ Retained' BY <2>1 DEF DriverInv, Forward, Retained
    <2> QED BY <2>5, <2>6, <2>7, <2>8, <2>9, <2>10, <2>11, <2>12, <2>13 DEF DriverInv
  <1> QED BY <1>2, <1>3, <1>5, <1>6 DEF ContainerCreate, lgen

\* A container is started: who is there, and under which id, stays.
LEMMA StartIs ==
    ASSUME HostShape, Ids, NEW i \in Nat, i > 0,
           cont' = [n \in Gens |-> IF cont[n].id = i THEN [cont[n] EXCEPT !.running = TRUE] ELSE cont[n]]
    PROVE  /\ cont' \in [Gens -> [id : Nat, gen : Gens \cup {None}, running : BOOLEAN]]
           /\ \A n \in Gens : /\ cont'[n].id = cont[n].id /\ (cont'[n] # Absent <=> cont[n] # Absent)
                              /\ cont'[n].running => cont[n] # Absent /\ (cont[n].running \/ cont[n].id = i)
  <1>1. ASSUME NEW n \in Gens
        PROVE  /\ cont'[n] \in [id : Nat, gen : Gens \cup {None}, running : BOOLEAN]
               /\ cont'[n].id = cont[n].id /\ (cont'[n] # Absent <=> cont[n] # Absent)
               /\ cont'[n].running => cont[n] # Absent /\ (cont[n].running \/ cont[n].id = i)
    <2>1. cont[n] \in [id : Nat, gen : Gens \cup {None}, running : BOOLEAN] BY DEF HostShape
    <2>2. CASE cont[n].id = i
      <3>1. PICK b \in BOOLEAN : b = TRUE OBVIOUS
      <3>2. cont'[n] = [cont[n] EXCEPT !.running = b] BY <2>2, <3>1
      <3>3. cont'[n] \in [id : Nat, gen : Gens \cup {None}, running : BOOLEAN] /\ cont'[n].id = cont[n].id
        BY <2>1, <3>2
      <3> QED BY <2>2, <3>3, AbsentIs
    <2>3. CASE cont[n].id # i
      <3>1. cont'[n] = cont[n] BY <2>3
      <3> QED BY <2>1, <3>1, AbsentIs
    <2> QED BY <2>2, <2>3
  <1> QED BY <1>1

LEMMA LoopStartKeeps == ASSUME DriverInv, ContainerStart("loop") PROVE DriverInv'
  <1>1. lpc = "start" /\ UNCHANGED <<fixed, nextId, images, desired, todo, history, faults>>
    BY DEF ContainerStart, At, lpc
  <1>2. cur.gen \in Gens /\ ~settled /\ lid \in Nat /\ lid > 0
    BY <1>1 DEF DriverInv, Control, Ids, AgentShape, Procs, Places, lid
  <1>3. CASE ~Exists(lid) /\ Fails("loop") /\ UNCHANGED cont
    <2>1. cont' \in [Gens -> [id : Nat, gen : Gens \cup {None}, running : BOOLEAN]] /\ faults' \in Nat
      BY <1>1, <1>3 DEF DriverInv, HostShape, AgentShape
    <2>2. kind = "rollout" => \A m \in Gens : cont[m] # Absent => m \in gated \cup orphaned
      BY <1>1, <1>3 DEF DriverInv, GateKept, Exists
    <2> QED BY <1>1, <1>3, <2>1, <2>2, LoopFailsKeeps DEF history
  <1>4. CASE /\ cont' = [n \in Gens |-> IF cont[n].id = lid THEN [cont[n] EXCEPT !.running = TRUE] ELSE cont[n]]
             /\ Go("loop", IF kind = "apply" THEN "put" ELSE "gate") /\ UNCHANGED mu
             /\ UNCHANGED <<cpVars, loopVars>>
    <2>1. UNCHANGED <<kind, good, head, doc, failed, released, nextId, images, desired, cur, drain, applied, settled,
                      mu, todo, gated, orphaned, stuck, faults>>
      BY <1>1, <1>4 DEF fixed, cpVars, loopVars, history
    <2>2. PICK l \in Labels : l = IF kind = "apply" THEN "put" ELSE "gate" BY DEF Labels
    <2>3. /\ proc' \in [Procs -> Places] /\ lpc' = l /\ lgen' = lgen /\ lid' = lid
          /\ tpc' = tpc /\ tgen' = tgen /\ tid' = tid
      BY <1>4, <2>2, LoopGoes DEF DriverInv, AgentShape, Go
    <2>4. /\ cont' \in [Gens -> [id : Nat, gen : Gens \cup {None}, running : BOOLEAN]]
          /\ \A n \in Gens : /\ cont'[n].id = cont[n].id /\ (cont'[n] # Absent <=> cont[n] # Absent)
                             /\ cont'[n].running => cont[n] # Absent /\ (cont[n].running \/ cont[n].id = lid)
      BY <1>2, <1>4, StartIs DEF DriverInv
    <2>5. PlaneShape' /\ HostShape' BY <2>1, <2>4 DEF DriverInv, PlaneShape, HostShape
    <2>6. AgentShape' BY <2>1, <2>3 DEF DriverInv, AgentShape
    <2>7. Ids' BY <2>1, <2>2, <2>3, <2>4 DEF DriverInv, Ids
    <2>8. Control' BY <1>1, <2>1, <2>2, <2>3 DEF DriverInv, Control
    <2>9. Recorded' BY <1>1, <2>1, <2>2, <2>3, <2>4 DEF DriverInv, Recorded, NameOf
    <2>10. Lone' BY <1>1, <2>1, <2>2, <2>3, <2>4 DEF DriverInv, Lone, Alone
    <2>11. OneRuns' BY <1>1, <2>1, <2>4 DEF DriverInv, OneRuns, Lone, Alone
    <2>12. SettledIsClean' BY <1>2, <2>1 DEF SettledIsClean
    <2>13. GateKept' BY <1>1, <2>1, <2>2, <2>3, <2>4 DEF DriverInv, GateKept
    <2>14. Forward' /\ Retained' BY <2>1 DEF DriverInv, Forward, Retained
    <2> QED BY <2>5, <2>6, <2>7, <2>8, <2>9, <2>10, <2>11, <2>12, <2>13, <2>14 DEF DriverInv
  <1> QED BY <1>3, <1>4 DEF ContainerStart, lid

LEMMA LoopCallFailsKeeps == ASSUME DriverInv, CallFails("loop") PROVE DriverInv'
  <1>1. /\ lpc \in {"lock", "inspect", "remove", "create", "start", "list", "listall"}
        /\ faults' = faults + 1 /\ Fails("loop") /\ UNCHANGED <<fixed, nextId, images, desired, todo, history>>
        /\ cont' = IF lpc = "start" /\ kind # "apply" THEN Without(lid) ELSE cont
    BY DEF CallFails, At, Fault, lpc, lid
  <1>2. HostShape /\ faults' \in Nat BY <1>1 DEF DriverInv, AgentShape
  <1>3. /\ \A n \in Gens : cont'[n] = cont[n] \/ cont'[n] = Absent
        /\ cont' \in [Gens -> [id : Nat, gen : Gens \cup {None}, running : BOOLEAN]]
    BY <1>1, <1>2, WithoutIs DEF HostShape
  <1>4. ASSUME kind = "rollout", NEW n \in Gens, cont'[n] # Absent PROVE n \in gated \cup orphaned
    <2>1. CASE lpc = "start"
      <3>1. cont'[n] = IF cont[n].id = lid THEN Absent ELSE cont[n] BY <1>1, <1>2, <1>4, <2>1, WithoutIs
      <3> QED BY <1>4, <3>1 DEF DriverInv, GateKept
    <2>2. CASE lpc # "start" BY <1>1, <1>3, <1>4, <2>2 DEF DriverInv, GateKept
    <2> QED BY <2>1, <2>2
  <1> QED BY <1>1, <1>2, <1>3, <1>4, LoopFailsKeeps DEF history

----------------------------------------------------------------------------
(* The reconcile loop.                                                     *)

\* What a move of the reconcile loop alone keeps.
LEMMA TickWalkKeeps ==
    ASSUME DriverInv, UNCHANGED <<fixed, cpVars, hostVars, desired, loopVars, history, lpc, lgen, lid>>,
           proc' \in [Procs -> Places], todo' \subseteq Gens, faults' \in Nat,
           mu' \in {"free", "loop", "tick"}, mu = "loop" => mu' = "loop",
           tpc' \in {"idle", "remove", "create"}, tid' < nextId,
           tpc' # "idle" => mu' = "tick" /\ tgen' \in Gens /\ desired[NameOf(tgen')] # None
    PROVE  DriverInv'
  <1>1. UNCHANGED <<kind, good, head, doc, failed, released, cont, nextId, images, desired, cur, drain, applied,
                    settled, gated, orphaned, stuck>>
    BY DEF fixed, cpVars, hostVars, loopVars, history
  <1>2. PlaneShape' /\ HostShape' BY <1>1 DEF DriverInv, PlaneShape, HostShape
  <1>3. AgentShape' BY <1>1 DEF DriverInv, AgentShape
  <1>4. Ids' BY <1>1 DEF DriverInv, Ids
  <1>5. Control' BY <1>1 DEF DriverInv, Control
  <1>6. Recorded' BY <1>1 DEF DriverInv, Recorded, NameOf
  <1>7. Lone' BY <1>1 DEF DriverInv, Lone, Alone
  <1>8. OneRuns' /\ SettledIsClean' BY <1>1 DEF DriverInv, OneRuns, SettledIsClean, NameOf
  <1>9. GateKept' BY <1>1 DEF DriverInv, GateKept
  <1>10. Forward' /\ Retained' BY <1>1 DEF DriverInv, Forward, Retained
  <1> QED BY <1>2, <1>3, <1>4, <1>5, <1>6, <1>7, <1>8, <1>9, <1>10 DEF DriverInv

LEMMA TickFailsKeeps ==
    ASSUME DriverInv, Fails("tick"), tpc # "idle", UNCHANGED <<fixed, hostVars, desired, todo, history>>,
           faults' \in Nat
    PROVE  DriverInv'
  <1>1. proc' = [proc EXCEPT !["tick"] = Idle] /\ UNCHANGED <<cpVars, loopVars>>
        /\ mu' = (IF mu = "tick" THEN "free" ELSE mu)
    BY DEF Fails
  <1>2. mu = "tick" /\ nextId > 1 /\ nextId \in Nat BY DEF DriverInv, Control, Ids, HostShape
  <1>3. /\ proc' \in [Procs -> Places] /\ tpc' = "idle" /\ tid' = 0 /\ lpc' = lpc /\ lgen' = lgen /\ lid' = lid
    BY <1>1, IdleIs, TickMoves DEF DriverInv, AgentShape
  <1>4. todo' \subseteq Gens /\ tid' < nextId BY <1>2, <1>3 DEF DriverInv, AgentShape
  <1> QED BY <1>1, <1>2, <1>3, <1>4, TickWalkKeeps

LEMMA TickStartKeeps == ASSUME DriverInv, TickStart PROVE DriverInv'
  <1>1. /\ todo' = {desired[n] : n \in {m \in Gens : desired[m] # None}} /\ tpc = "idle"
        /\ UNCHANGED <<fixed, cpVars, hostVars, desired, loopVars, mu, proc, history, faults>>
    BY DEF TickStart, At, tpc
  <1>2. todo' \subseteq Gens BY <1>1 DEF DriverInv, HostShape
  <1>3. /\ proc' \in [Procs -> Places] /\ UNCHANGED <<lpc, lgen, lid, tpc, tid>>
        /\ faults' \in Nat /\ mu' \in {"free", "loop", "tick"} /\ tid' < nextId
    BY <1>1 DEF DriverInv, AgentShape, Ids, lpc, lgen, lid, tpc, tid
  <1> QED BY <1>1, <1>2, <1>3, TickWalkKeeps

LEMMA ReconcileOneKeeps == ASSUME DriverInv, NEW g \in todo, ReconcileOne(g) PROVE DriverInv'
  <1>1. /\ tpc = "idle" /\ mu = "free" /\ todo' = todo \ {g}
        /\ UNCHANGED <<fixed, cpVars, hostVars, desired, loopVars, history, faults>>
    BY DEF ReconcileOne, At, tpc
  <1>2. g \in Gens /\ todo' \subseteq Gens /\ faults' \in Nat /\ proc \in [Procs -> Places]
    BY <1>1 DEF DriverInv, AgentShape
  <1>3. PICK c : c = cont[NameOf(g)] OBVIOUS
  <1>4. c.id \in Nat /\ c.id < nextId BY <1>2, <1>3, NameIs DEF DriverInv, HostShape, Ids
  <1>5. CASE UNCHANGED <<mu, proc>>
    <2>1. /\ proc' \in [Procs -> Places] /\ UNCHANGED <<lpc, lgen, lid, tpc, tid>>
          /\ mu' \in {"free", "loop", "tick"} /\ tid' < nextId
      BY <1>1, <1>2, <1>5 DEF DriverInv, Ids, lpc, lgen, lid, tpc, tid
    <2> QED BY <1>1, <1>2, <2>1, TickWalkKeeps
  <1>6. ASSUME desired[NameOf(g)] # None, mu' = "tick",
               proc' = [proc EXCEPT !["tick"] =
                          [pc |-> IF c = Absent THEN "create" ELSE "remove", gen |-> g, id |-> c.id]]
        PROVE  DriverInv'
    <2>1. PICK l \in Labels : l = IF c = Absent THEN "create" ELSE "remove" BY DEF Labels
    <2>2. PICK r : r = [pc |-> l, gen |-> g, id |-> c.id] OBVIOUS
    <2>3. r \in Places /\ r.pc = l /\ r.gen = g /\ r.id = c.id BY <1>2, <1>4, <2>1, <2>2 DEF Places
    <2>4. proc' = [proc EXCEPT !["tick"] = r] BY <1>6, <2>1, <2>2
    <2>5. /\ proc' \in [Procs -> Places] /\ tpc' = l /\ tgen' = g /\ tid' = c.id
          /\ lpc' = lpc /\ lgen' = lgen /\ lid' = lid
      BY <1>2, <2>3, <2>4, TickMoves
    <2>6. l \in {"create", "remove"} BY <2>1
    <2> QED BY <1>1, <1>2, <1>4, <1>6, <2>5, <2>6, TickWalkKeeps
  <1> QED BY <1>3, <1>5, <1>6 DEF ReconcileOne

LEMMA TickRemoveKeeps == ASSUME DriverInv, ContainerRemove("tick") PROVE DriverInv'
  <1>1. /\ tpc = "remove" /\ cont' = Without(tid)
        /\ UNCHANGED <<fixed, cpVars, nextId, images, desired, cur, drain, applied, settled, mu, todo, gated,
                       orphaned, stuck, faults>>
    BY DEF ContainerRemove, At, tpc, tid, loopVars, history
  <1>2. /\ proc' \in [Procs -> Places] /\ tpc' = "create" /\ tgen' = tgen /\ tid' = tid
        /\ lpc' = lpc /\ lgen' = lgen /\ lid' = lid
    <2>1. "create" \in Labels BY DEF Labels
    <2> QED BY <2>1, TickGoes DEF DriverInv, AgentShape, ContainerRemove, Go
  <1>3. /\ \A n \in Gens : cont'[n] = cont[n] \/ cont'[n] = Absent
        /\ cont' \in [Gens -> [id : Nat, gen : Gens \cup {None}, running : BOOLEAN]]
    BY <1>1, WithoutIs DEF DriverInv
  <1>4. stuck' \in BOOLEAN /\ faults' \in Nat BY <1>1 DEF DriverInv, AgentShape
  <1> QED BY <1>1, <1>2, <1>3, <1>4, LossKeeps

LEMMA TickCreateKeeps == ASSUME DriverInv, ContainerCreate("tick") PROVE DriverInv'
  <1>1. tpc = "create" /\ UNCHANGED <<fixed, images, desired, todo, history, faults>>
    BY DEF ContainerCreate, At, tpc
  <1>2. mu = "tick" /\ tgen \in Gens /\ desired[NameOf(tgen)] # None BY <1>1 DEF DriverInv, Control, Recorded
  <1>3. PICK n : n = NameOf(tgen) OBVIOUS
  <1>4. n \in Gens /\ (kind # "apply" => n = tgen) /\ (kind = "apply" => n = 0) BY <1>2, <1>3, NameIs
  <1>5. CASE Fails("tick") /\ UNCHANGED <<cont, nextId>>
    <2>1. faults' \in Nat BY <1>1 DEF DriverInv, AgentShape
    <2> QED BY <1>1, <1>5, <2>1, TickFailsKeeps DEF hostVars
  <1>6. CASE /\ cont' = [cont EXCEPT ![n] = [id |-> nextId, gen |-> tgen, running |-> FALSE]]
             /\ nextId' = nextId + 1 /\ proc' = [proc EXCEPT !["tick"].pc = "start", !["tick"].id = nextId]
             /\ UNCHANGED <<cpVars, loopVars, mu>>
    <2>1. UNCHANGED <<kind, good, head, doc, failed, released, images, desired, cur, drain, applied, settled,
                      mu, todo, gated, orphaned, stuck, faults>>
      BY <1>1, <1>6 DEF fixed, cpVars, loopVars, history
    <2>2. nextId \in Nat /\ nextId > 1 BY DEF DriverInv, HostShape, Ids
    <2>3. /\ proc' \in [Procs -> Places] /\ tpc' = "start" /\ tgen' = tgen /\ tid' = nextId
          /\ lpc' = lpc /\ lgen' = lgen /\ lid' = lid
      <3>1. PICK l \in Labels : l = "start" BY DEF Labels
      <3>2. PICK p \in Procs : p = "tick" BY DEF Procs
      <3>3. proc' = [proc EXCEPT ![p].pc = l, ![p].id = nextId] BY <1>6, <3>1, <3>2
      <3> QED BY <2>2, <3>1, <3>2, <3>3, GoesWith DEF DriverInv, AgentShape
    <2>4. /\ cont' \in [Gens -> [id : Nat, gen : Gens \cup {None}, running : BOOLEAN]]
          /\ cont'[n] # Absent /\ cont'[n].id = nextId /\ ~cont'[n].running
          /\ \A m \in Gens : m # n => cont'[m] = cont[m]
      BY <1>2, <1>4, <1>6, CreateIs DEF DriverInv
    <2>5. desired[n] # None /\ \A m \in Gens : desired[m] # None => m = n
      BY <1>2, <1>3, <1>4 DEF DriverInv, Recorded
    <2>6. lpc \notin {"idle", "prune"} \/ settled => cur.gen \in Gens /\ n = NameOf(cur.gen)
      BY <1>4, <2>5 DEF DriverInv, Recorded
    <2>7. PlaneShape' /\ HostShape' BY <1>6, <2>1, <2>2, <2>4 DEF DriverInv, PlaneShape, HostShape
    <2>8. AgentShape' BY <2>1, <2>3 DEF DriverInv, AgentShape
    <2>9. lid \in Nat /\ lid < nextId /\ (lpc = "start" => lid > 0)
      BY DEF DriverInv, Ids, AgentShape, Procs, Places, lid
    <2>10. Ids'
      <3>1. \A m \in Gens : cont'[m].id < nextId + 1 /\ (cont'[m] # Absent => cont'[m].id > 0)
        BY <2>2, <2>4 DEF DriverInv, Ids, HostShape
      <3>2. \A i \in drain : i \in Nat /\ 0 < i /\ i < nextId + 1 BY <2>2 DEF DriverInv, Ids
      <3> QED BY <1>6, <2>1, <2>2, <2>3, <2>9, <3>1, <3>2 DEF Ids
    <2>11. Control' BY <1>1, <2>1, <2>3 DEF DriverInv, Control
    <2>12. Recorded' BY <1>1, <1>4, <2>1, <2>3, <2>4 DEF DriverInv, Recorded, NameOf
    <2>13. Lone'
      <3>1. kind # "apply" /\ lpc \notin {"idle", "prune"} => n = cur.gen BY <2>6 DEF NameOf
      <3>2. Alone' = Alone /\ (Alone => lpc \notin {"idle", "prune"}) BY <2>1, <2>3 DEF Alone
      <3> QED BY <2>1, <2>3, <2>4, <2>5, <3>1, <3>2 DEF DriverInv, Lone
    <2>14. OneRuns' BY <2>1, <2>4 DEF DriverInv, OneRuns
    <2>15. SettledIsClean' BY <2>1, <2>4, <2>6 DEF DriverInv, SettledIsClean, NameOf
    <2>16. GateKept'
      <3>1. kind = "rollout" => n \in gated \cup orphaned BY <1>4, <2>5 DEF DriverInv, GateKept
      <3>2. nextId # lid BY <2>2, <2>9
      <3> QED BY <2>1, <2>3, <2>4, <3>1, <3>2 DEF DriverInv, GateKept
    <2>17. Forward' /\ Retained' BY <2>1 DEF DriverInv, Forward, Retained
    <2> QED BY <2>7, <2>8, <2>10, <2>11, <2>12, <2>13, <2>14, <2>15, <2>16, <2>17 DEF DriverInv
  <1> QED BY <1>3, <1>5, <1>6 DEF ContainerCreate, tgen

LEMMA TickStartsKeeps == ASSUME DriverInv, ContainerStart("tick") PROVE DriverInv'
  <1>1. tpc = "start" /\ UNCHANGED <<fixed, nextId, images, desired, todo, history, faults>>
    BY DEF ContainerStart, At, tpc
  <1>2. mu = "tick" /\ tgen \in Gens /\ desired[NameOf(tgen)] # None /\ tid \in Nat /\ tid > 0
    BY <1>1 DEF DriverInv, Control, Recorded, Ids, AgentShape, Procs, Places, tid
  <1>3. CASE Fails("tick") /\ UNCHANGED cont
    <2>1. faults' \in Nat BY <1>1 DEF DriverInv, AgentShape
    <2> QED BY <1>1, <1>3, <2>1, TickFailsKeeps DEF hostVars
  <1>4. CASE /\ cont' = [n \in Gens |-> IF cont[n].id = tid THEN [cont[n] EXCEPT !.running = TRUE] ELSE cont[n]]
             /\ proc' = [proc EXCEPT !["tick"] = Idle] /\ mu' = "free"
             /\ UNCHANGED <<cpVars, loopVars>>
    <2>1. UNCHANGED <<kind, good, head, doc, failed, released, nextId, images, desired, cur, drain, applied, settled,
                      todo, gated, orphaned, stuck, faults>>
      BY <1>1, <1>4 DEF fixed, cpVars, loopVars, history
    <2>2. /\ proc' \in [Procs -> Places] /\ tpc' = "idle" /\ tid' = 0
          /\ lpc' = lpc /\ lgen' = lgen /\ lid' = lid
      BY <1>4, IdleIs, TickMoves DEF DriverInv, AgentShape
    <2>3. /\ cont' \in [Gens -> [id : Nat, gen : Gens \cup {None}, running : BOOLEAN]]
          /\ \A n \in Gens : /\ cont'[n].id = cont[n].id /\ (cont'[n] # Absent <=> cont[n] # Absent)
                             /\ cont'[n].running => cont[n] # Absent /\ (cont[n].running \/ cont[n].id = tid)
      BY <1>2, <1>4, StartIs DEF DriverInv
    <2>4. PlaneShape' /\ HostShape' BY <2>1, <2>3 DEF DriverInv, PlaneShape, HostShape
    <2>5. AgentShape' BY <1>4, <2>1, <2>2 DEF DriverInv, AgentShape
    <2>6. Ids' BY <2>1, <2>2, <2>3 DEF DriverInv, Ids, HostShape
    <2>7. Control' BY <1>2, <2>1, <2>2 DEF DriverInv, Control
    <2>8. Recorded' BY <2>1, <2>2, <2>3 DEF DriverInv, Recorded, NameOf
    <2>9. Lone' BY <2>1, <2>2, <2>3 DEF DriverInv, Lone, Alone
    <2>10. OneRuns'
      <3>1. kind = "recreate" /\ ~stuck => \A m \in Gens : cont[m] # Absent => m = NameOf(tgen)
        BY <1>2, NameIs DEF DriverInv, Lone
      <3> QED BY <2>1, <2>3, <3>1 DEF OneRuns
    <2>11. SettledIsClean' BY <2>1, <2>3 DEF DriverInv, SettledIsClean, NameOf
    <2>12. GateKept' BY <2>1, <2>2, <2>3 DEF DriverInv, GateKept
    <2>13. Forward' /\ Retained' BY <2>1 DEF DriverInv, Forward, Retained
    <2> QED BY <2>4, <2>5, <2>6, <2>7, <2>8, <2>9, <2>10, <2>11, <2>12, <2>13 DEF DriverInv
  <1> QED BY <1>3, <1>4 DEF ContainerStart, tid

LEMMA TickCallFailsKeeps == ASSUME DriverInv, CallFails("tick") PROVE DriverInv'
  <1>1. /\ tpc # "idle" /\ faults' = faults + 1 /\ Fails("tick")
        /\ UNCHANGED <<fixed, nextId, images, desired, todo, history>> /\ cont' = cont
    BY DEF CallFails, At, Fault, tpc
  <1>2. faults' \in Nat BY <1>1 DEF DriverInv, AgentShape
  <1> QED BY <1>1, <1>2, TickFailsKeeps DEF hostVars

----------------------------------------------------------------------------
(* Crashes and interference.                                               *)

LEMMA CrashKeeps == ASSUME DriverInv, Crash PROVE DriverInv'
  <1>1. /\ faults' = faults + 1 /\ mu' = "free" /\ drain' = {} /\ todo' = {}
        /\ proc' = [p \in Procs |-> Idle]
        /\ orphaned' = (IF lpc \in {"start", "gate"} THEN orphaned \cup {cur.gen} ELSE orphaned)
        /\ UNCHANGED <<kind, good, head, doc, failed, released, cont, nextId, images, desired, cur, applied, settled,
                       gated, stuck>>
    BY DEF Crash, Fault, Procs, lpc, fixed, cpVars, hostVars
  <1>2. /\ proc' \in [Procs -> Places] /\ lpc' = "idle" /\ tpc' = "idle" /\ lid' = 0 /\ tid' = 0
    BY <1>1, IdleIs DEF Procs, lpc, tpc, lid, tid
  <1>3. lpc \in {"start", "gate"} => cur.gen \in Gens BY DEF DriverInv, Control
  <1>4. PlaneShape' /\ HostShape' BY <1>1 DEF DriverInv, PlaneShape, HostShape
  <1>5. AgentShape' BY <1>1, <1>2, <1>3 DEF DriverInv, AgentShape
  <1>6. Ids' BY <1>1, <1>2 DEF DriverInv, Ids, HostShape
  <1>7. Control' BY <1>1, <1>2 DEF DriverInv, Control
  <1>8. Recorded' BY <1>1, <1>2 DEF DriverInv, Recorded, NameOf
  <1>9. Lone' BY <1>1, <1>2 DEF DriverInv, Lone, Alone
  <1>10. OneRuns' /\ SettledIsClean' BY <1>1 DEF DriverInv, OneRuns, SettledIsClean, NameOf
  <1>11. GateKept' BY <1>1, <1>2 DEF DriverInv, GateKept
  <1>12. Forward' /\ Retained' BY <1>1 DEF DriverInv, Forward, Retained
  <1> QED BY <1>4, <1>5, <1>6, <1>7, <1>8, <1>9, <1>10, <1>11, <1>12 DEF DriverInv

LEMMA InterfereKeeps == ASSUME DriverInv, NEW n \in Gens, Interfere(n) PROVE DriverInv'
  <1>1. /\ cont[n].running /\ faults' = faults + 1
        /\ UNCHANGED <<fixed, cpVars, nextId, images, desired, cur, drain, applied, settled, mu, proc, todo,
                       gated, orphaned, stuck>>
    BY DEF Interfere, Fault, loopVars, history
  <1>2. UNCHANGED <<kind, good, head, doc, failed, released, lpc, lgen, lid, tpc, tgen, tid>>
    BY <1>1 DEF fixed, cpVars, lpc, lgen, lid, tpc, tgen, tid
  <1>3. /\ HostShape /\ faults' \in Nat /\ stuck' \in BOOLEAN /\ proc' \in [Procs -> Places]
    BY <1>1 DEF DriverInv, AgentShape
  <1>4. CASE cont' = [cont EXCEPT ![n] = Absent]
    <2>1. /\ \A m \in Gens : cont'[m] = cont[m] \/ cont'[m] = Absent
          /\ cont' \in [Gens -> [id : Nat, gen : Gens \cup {None}, running : BOOLEAN]]
      BY <1>3, <1>4, AbsentIs DEF HostShape
    <2> QED BY <1>1, <1>2, <1>3, <2>1, LossKeeps
  <1>5. CASE cont' = [cont EXCEPT ![n].running = FALSE]
    <2>1. PICK b \in BOOLEAN : b = FALSE OBVIOUS
    <2>2. PICK c : c = [cont[n] EXCEPT !.running = b] OBVIOUS
    <2>3. cont[n] \in [id : Nat, gen : Gens \cup {None}, running : BOOLEAN] BY <1>3 DEF HostShape
    <2>4. c \in [id : Nat, gen : Gens \cup {None}, running : BOOLEAN] /\ c.id = cont[n].id /\ c.running = b
      BY <2>2, <2>3
    <2>5. cont' = [cont EXCEPT ![n] = c] BY <1>5, <2>1, <2>2
    <2>6. cont[n] # Absent /\ cont[n].id > 0 BY <1>1, AbsentIs DEF DriverInv, Ids
    <2>7. c # Absent BY <2>3, <2>4, <2>6, AbsentIs
    <2>8. /\ cont' \in [Gens -> [id : Nat, gen : Gens \cup {None}, running : BOOLEAN]]
          /\ \A m \in Gens : /\ cont'[m].id = cont[m].id /\ (cont'[m] # Absent <=> cont[m] # Absent)
                             /\ cont'[m].running => cont[m].running
      BY <1>1, <1>3, <2>4, <2>5, <2>6, <2>7 DEF HostShape
    <2>9. PlaneShape' /\ HostShape' BY <1>1, <1>2, <2>8 DEF DriverInv, PlaneShape, HostShape
    <2>10. AgentShape' BY <1>1, <1>3 DEF DriverInv, AgentShape
    <2>11. Ids' BY <1>1, <1>2, <2>8 DEF DriverInv, Ids
    <2>12. Control' BY <1>1, <1>2 DEF DriverInv, Control
    <2>13. Recorded' BY <1>1, <1>2, <2>8 DEF DriverInv, Recorded, NameOf
    <2>14. Lone' BY <1>1, <1>2, <2>8 DEF DriverInv, Lone, Alone
    <2>15. OneRuns' BY <1>1, <1>2, <2>8 DEF DriverInv, OneRuns
    <2>16. SettledIsClean' BY <1>1, <1>2, <2>8 DEF DriverInv, SettledIsClean, NameOf
    <2>17. GateKept' BY <1>1, <1>2, <2>8 DEF DriverInv, GateKept
    <2>18. Forward' /\ Retained' BY <1>1, <1>2 DEF DriverInv, Forward, Retained
    <2> QED BY <2>9, <2>10, <2>11, <2>12, <2>13, <2>14, <2>15, <2>16, <2>17, <2>18 DEF DriverInv
  <1> QED BY <1>4, <1>5 DEF Interfere

----------------------------------------------------------------------------
(* The theorems.                                                           *)

LEMMA InitEstablishes == ASSUME Init PROVE DriverInv
  <1>1. lpc = "idle" /\ tpc = "idle" /\ lid = 0 /\ tid = 0 /\ proc \in [Procs -> Places]
    BY IdleIs DEF Init, lpc, tpc, lid, tid, Procs
  <1>2. PICK one : one = [id |-> 1, gen |-> 0, running |-> TRUE] OBVIOUS
  <1>3. one \in [id : Nat, gen : Gens \cup {None}, running : BOOLEAN] /\ one.id = 1
    <2>1. 1 \in Nat /\ 0 \in Gens \cup {None} /\ TRUE \in BOOLEAN BY Numbers
    <2> QED BY <1>2, <2>1, Zenon
  <1>4. /\ cont = [n \in Gens |-> IF n = 0 THEN one ELSE Absent]
        /\ desired = [n \in Gens |-> IF n = 0 THEN 0 ELSE None]
    BY <1>2 DEF Init
  <1>5. \A n \in Gens : (cont[n] # Absent => n = 0) /\ (desired[n] # None => n = 0) /\ cont[n].id < 2
    BY <1>3, <1>4, AbsentIs
  <1>6. doc \in DocShape /\ cur = doc /\ doc.gen = 0
    <2>1. 1 \in 1..MaxDocs /\ 0 \in Gens BY Numbers
    <2> QED BY <2>1, Zenon DEF Init, DocShape
  <1>7. PlaneShape BY <1>6, Numbers DEF Init, PlaneShape
  <1>8. HostShape BY <1>3, <1>4, AbsentIs, Numbers DEF Init, HostShape
  <1>9. AgentShape
    <2>1. stuck \in BOOLEAN /\ settled \in BOOLEAN BY Zenon DEF Init
    <2> QED BY <1>1, <2>1, Numbers DEF Init, AgentShape
  <1>10. Ids
    <2>1. \A n \in Gens : cont[n] # Absent => cont[n].id > 0 BY <1>3, <1>4
    <2> QED BY <1>1, <1>5, <2>1 DEF Init, Ids
  <1>11. Control BY <1>1 DEF Init, Control
  <1>12. Recorded
    <2>1. NameOf(0) = 0 BY DEF NameOf
    <2>2. \A n \in Gens : desired[n] \in {n, None} BY <1>4
    <2> QED BY <1>1, <1>5, <1>6, <2>1, <2>2, Numbers DEF Recorded
  <1>13. Lone BY <1>1, <1>5 DEF Lone, Alone
  <1>14. OneRuns BY <1>4, AbsentIs DEF OneRuns
  <1>15. SettledIsClean BY <1>5, <1>6, Numbers DEF SettledIsClean, NameOf
  <1>16. GateKept BY <1>1, <1>5 DEF Init, GateKept
  <1>17. Forward BY <1>6, Numbers DEF Init, Forward
  <1>18. Retained BY DEF Init, Retained
  <1> QED BY <1>7, <1>8, <1>9, <1>10, <1>11, <1>12, <1>13, <1>14, <1>15, <1>16, <1>17, <1>18 DEF DriverInv

LEMMA StutterKeeps == ASSUME DriverInv, UNCHANGED vars PROVE DriverInv'
  <1>1. UNCHANGED <<fixed, cpVars, hostVars, desired, loopVars, mu, proc, todo, history, faults>> BY DEF vars
  <1>2. UNCHANGED <<lpc, lgen, lid, tpc, tgen, tid>> BY <1>1 DEF lpc, lgen, lid, tpc, tgen, tid
  <1>3. UNCHANGED <<kind, good, head, doc, failed, released, cont, nextId, images, desired, cur, drain, applied,
                    settled, mu, proc, todo, gated, orphaned, stuck, faults>>
    BY <1>1 DEF fixed, cpVars, hostVars, loopVars, history
  <1>4. PlaneShape' /\ HostShape' /\ AgentShape' BY <1>3 DEF DriverInv, PlaneShape, HostShape, AgentShape
  <1>5. Ids' /\ Control' /\ Recorded' BY <1>2, <1>3 DEF DriverInv, Ids, Control, Recorded, NameOf
  <1>6. Lone' /\ OneRuns' /\ SettledIsClean'
    BY <1>2, <1>3 DEF DriverInv, Lone, Alone, OneRuns, SettledIsClean, NameOf
  <1>7. GateKept' /\ Forward' /\ Retained' BY <1>2, <1>3 DEF DriverInv, GateKept, Forward, Retained
  <1> QED BY <1>4, <1>5, <1>6, <1>7 DEF DriverInv

LEMMA Inductive == Spec => []DriverInv
  <1>1. Init => DriverInv BY InitEstablishes
  <1>2. DriverInv /\ [Next]_vars => DriverInv'
    <2> SUFFICES ASSUME DriverInv, [Next]_vars PROVE DriverInv' OBVIOUS
    <2>1. CASE LoopStep
      BY <2>1, FetchKeeps, GCPruneKeeps, GCReapKeeps, InspectRolloutKeeps, InspectRecreateKeeps, LockApplyKeeps,
         LoopRemoveKeeps, LoopCreateKeeps, LoopStartKeeps, GatePassesKeeps, GateFailsKeeps, DrainListKeeps,
         DrainOldKeeps, DrainedKeeps, PersistKeeps, RetainImagesKeeps, PutDesiredKeeps
         DEF LoopStep, Converge
    <2>2. CASE TickStep
      BY <2>2, TickStartKeeps, ReconcileOneKeeps, TickRemoveKeeps, TickCreateKeeps, TickStartsKeeps
         DEF TickStep, Converge
    <2> QED
      BY <2>1, <2>2, PlaneKeeps, LoopCallFailsKeeps, TickCallFailsKeeps, CrashKeeps, InterfereKeeps, StutterKeeps
         DEF Next
  <1> QED BY <1>1, <1>2, PTL DEF Spec

\* Every variable keeps its type; in particular a deployment is never both
\* released and failed, and what is drained are ids of Docker's.
THEOREM TypeCorrect == Spec => []TypeOK
  <1>1. DriverInv => TypeOK
    <2> SUFFICES ASSUME DriverInv PROVE TypeOK OBVIOUS
    <2>1. drain \subseteq 1..nextId BY DEF DriverInv, Ids, HostShape
    <2>2. {stuck, settled} \subseteq BOOLEAN BY Zenon DEF DriverInv, AgentShape
    <2>3. {nextId, applied, faults} \subseteq Nat BY DEF DriverInv, HostShape, AgentShape
    <2>4. gated \cup orphaned \subseteq Gens BY DEF DriverInv, AgentShape
    <2> QED BY <2>1, <2>2, <2>3, <2>4, Zenon
            DEF DriverInv, PlaneShape, DocShape, HostShape, AgentShape, TypeOK
  <1> QED BY <1>1, Inductive, PTL

\* performRecreate and reconcileOne: a service with an exclusive resource never
\* has two live generations, however the swap and a repair interleave and
\* wherever the agent dies, unless Docker failed to remove one.
THEOREM ExclusiveCorrect == Spec => []Exclusive
  <1>1. DriverInv => Exclusive BY DEF DriverInv, OneRuns, Exclusive
  <1> QED BY <1>1, Inductive, PTL

\* SIGMA-146 (GC, persistRolloutGeneration, reconcileOne): after an op that
\* succeeded no other generation's container is there or comes back, and none
\* of a deleted app, while the reconcile loop goes on.
THEOREM OnlyWhatIsDesiredCorrect == Spec => []OnlyWhatIsDesired
  <1>1. DriverInv => OnlyWhatIsDesired BY DEF DriverInv, SettledIsClean, OnlyWhatIsDesired
  <1> QED BY <1>1, Inductive, PTL

\* SIGMA-362 (retainImages): whatever windows are chosen, a release that is
\* offered for rollback is on the host, unless Keep - Window + 2 deployments
\* after it were not released.
THEOREM OfferedIsRetainedCorrect == Spec => []OfferedIsRetained
  <1>1. DriverInv => OfferedIsRetained
    <2> SUFFICES ASSUME DriverInv, kind # "apply", NEW g \in Offered \ images
                 PROVE  Cardinality({h \in 1..head : h > g /\ h \notin released}) >= Keep - Window + 2
      BY DEF OfferedIsRetained
    <2> DEFINE A == {h \in released : h > g}
               B == {h \in 1..head : h > g /\ h \notin released}
    <2>1. g \in released /\ Cardinality(A) < Window /\ g \notin images BY DEF Offered
    <2>2. head \in Nat /\ released \subseteq 0..head BY Numbers DEF DriverInv, PlaneShape, Forward
    <2>3. g \in Nat /\ g + Keep + 1 <= head BY <2>1, <2>2 DEF DriverInv, Retained
    <2>4. IsFiniteSet((g + 1) .. head) /\ Cardinality((g + 1) .. head) = head - g
      <3>1. g + 1 \in Int /\ head \in Int /\ ~(g + 1 > head) BY <2>2, <2>3, Numbers
      <3>2. Cardinality((g + 1) .. head) = head - (g + 1) + 1 /\ IsFiniteSet((g + 1) .. head)
        BY <3>1, FS_Interval
      <3> QED BY <2>2, <2>3, <3>2
    <2>5. A \cup B = (g + 1) .. head
      <3>1. ASSUME NEW h \in A \cup B PROVE h \in (g + 1) .. head
        <4>1. h \in 0..head /\ h > g BY <2>2
        <4> QED BY <2>2, <2>3, <4>1
      <3>2. ASSUME NEW h \in (g + 1) .. head PROVE h \in A \cup B
        <4>1. h \in 1..head /\ h > g BY <2>2, <2>3
        <4> QED BY <4>1
      <3> QED BY <3>1, <3>2
    <2>6. A \cap B = {} OBVIOUS
    <2>7. IsFiniteSet(A) /\ IsFiniteSet(B)
      <3>1. A \in SUBSET ((g + 1) .. head) /\ B \in SUBSET ((g + 1) .. head) BY <2>5
      <3> HIDE DEF A, B
      <3> QED BY <2>4, <3>1, FS_Subset
    <2>8. /\ Cardinality(A) \in Nat /\ Cardinality(B) \in Nat
          /\ Cardinality(A \cup B) = Cardinality(A) + Cardinality(B)
      <3> HIDE DEF A, B
      <3>1. Cardinality(A \cup B) = Cardinality(A) + Cardinality(B) - Cardinality(A \cap B) BY <2>7, FS_Union
      <3>2. Cardinality(A \cap B) = 0 BY <2>6, FS_EmptySet
      <3>3. Cardinality(A) \in Nat /\ Cardinality(B) \in Nat BY <2>7, FS_CardinalityType
      <3> QED BY <3>1, <3>2, <3>3
    <2>9. Cardinality(A) + Cardinality(B) = head - g
      <3> HIDE DEF A, B
      <3> QED BY <2>4, <2>5, <2>8
    <2>10. Cardinality(B) >= Keep - Window + 2
      <3> HIDE DEF A, B
      <3> QED BY <2>1, <2>2, <2>3, <2>8, <2>9, Numbers
    <2> QED BY <2>10
  <1> QED BY <1>1, Inductive, PTL

\* The steps of a rollout that take a serving container away.
LEMMA CutIsCovered ==
    ASSUME DriverInv, Next, Cuts PROVE cur.gen \in gated \cup orphaned
  <1>1. /\ kind = "rollout" /\ cur.gen \in Gens /\ lpc # "idle" /\ faults' = faults
        /\ proc'["tick"] = proc["tick"]
    BY DEF Cuts, At, lpc
  <1>2. PICK n \in Gens : cont[n].running /\ cont[n].gen \in good /\ cont'[n] = Absent BY DEF Cuts, Serves
  <1>3. cont'[n] # cont[n] /\ cont' # cont BY <1>2, AbsentIs
  <1>4. ~Fault BY <1>1 DEF Fault, DriverInv, AgentShape
  <1>5. tpc' = tpc BY <1>1 DEF tpc
  <1>6. HostShape /\ Ids BY DEF DriverInv
  <1>7. ~(Deploy \/ Rerender \/ Delete) BY <1>3 DEF Deploy, Rerender, Delete, hostVars
  <1>8. ~(CallFails("loop") \/ CallFails("tick") \/ Crash \/ Interfere(n))
    BY <1>4 DEF CallFails, Crash, Interfere
  <1>9. ~(\E m \in Gens : Interfere(m)) BY <1>4 DEF Interfere
  <1>10. ASSUME ContainerCreate("loop") \/ ContainerCreate("tick") PROVE FALSE
    <2>1. PICK m \in Gens : cont[m] = Absent /\ \E c : cont' = [cont EXCEPT ![m] = c]
      <3>1. lpc = "create" => NameOf(lgen) \in Gens BY NameIs DEF DriverInv, Control
      <3>2. tpc = "create" => NameOf(tgen) \in Gens BY NameIs DEF DriverInv, Recorded
      <3> QED BY <1>3, <1>10, <3>1, <3>2 DEF ContainerCreate, At, lpc, tpc, lgen, tgen
    <2>2. n # m BY <1>2, <2>1, AbsentIs
    <2> QED BY <1>3, <1>6, <2>1, <2>2 DEF HostShape
  <1>11. ASSUME ContainerStart("loop") \/ ContainerStart("tick") PROVE FALSE
    <2>1. PICK i \in Nat : /\ i > 0
                           /\ cont' = [m \in Gens |-> IF cont[m].id = i THEN [cont[m] EXCEPT !.running = TRUE]
                                                      ELSE cont[m]]
      <3>1. (lpc = "start" => lid \in Nat /\ lid > 0) /\ (tpc = "start" => tid \in Nat /\ tid > 0)
        BY DEF DriverInv, Ids, AgentShape, Procs, Places, lid, tid
      <3> QED BY <1>3, <1>11, <3>1 DEF ContainerStart, At, lpc, tpc, lid, tid
    <2>2. cont[n] # Absent BY <1>2, AbsentIs
    <2> QED BY <1>2, <1>6, <2>1, <2>2, StartIs
  <1>12. ~TickStep
    <2>1. ~ContainerRemove("tick")
      <3>1. ASSUME ContainerRemove("tick") PROVE FALSE
        <4>1. "create" \in Labels BY DEF Labels
        <4>2. tpc' = "create" /\ tpc = "remove"
          BY <3>1, <4>1, TickGoes DEF DriverInv, AgentShape, ContainerRemove, Go, At, tpc
        <4> QED BY <1>5, <4>2
      <3> QED BY <3>1
    <2>2. ~TickStart /\ \A g \in todo : ~ReconcileOne(g) BY <1>3 DEF TickStart, ReconcileOne, hostVars
    <2> QED BY <1>10, <1>11, <2>1, <2>2 DEF TickStep, Converge
  <1>13. LoopStep BY <1>7, <1>8, <1>9, <1>12 DEF Next
  <1>14. GCReap \/ ContainerRemove("loop") \/ GateFails \/ \E i \in drain : DrainOld(i)
    BY <1>3, <1>10, <1>11, <1>13
       DEF LoopStep, Converge, Fetch, GCPrune, InspectRollout, InspectRecreate, LockApply, GatePasses, DrainList,
           Drained, PersistRolloutGeneration, RetainImages, PutDesired, hostVars
  <1>15. CASE GCReap
    <2>1. cont' = cont BY <1>1, <1>15, Numbers DEF GCReap
    <2> QED BY <1>3, <2>1
  <1>16. CASE ContainerRemove("loop")
    <2>1. lpc = "remove" BY <1>16 DEF ContainerRemove, At, lpc
    <2> QED BY <1>1, <2>1 DEF DriverInv, GateKept
  <1>17. CASE GateFails
    <2>1. lpc = "gate" /\ ~(cont[cur.gen].running /\ cont[cur.gen].gen \in good) /\ cont' = Without(lid)
      BY <1>1, <1>3, <1>17 DEF GateFails, At, Passes, lpc, lid
    <2>2. cont[n].id = lid BY <1>3, <1>6, <2>1, WithoutIs
    <2>3. n = cur.gen BY <1>1, <2>1, <2>2 DEF DriverInv, GateKept
    <2> QED BY <1>2, <2>1, <2>3
  <1>18. CASE \E i \in drain : DrainOld(i)
    <2>1. lpc \in {"drain", "drainall"} BY <1>18 DEF DrainOld, lpc
    <2>2. lpc = "drain" BY <1>1, <2>1 DEF DriverInv, Control
    <2> QED BY <1>1, <2>2 DEF DriverInv, GateKept
  <1> QED BY <1>14, <1>15, <1>16, <1>17, <1>18

\* performRollout: a serving generation is only ever taken away for one that
\* passed its health gate, or that an attempt which was cut short had left
\* behind, whatever the reconcile loop does meanwhile.
THEOREM NeverCutCorrect == Spec => NeverCut
  <1>1. DriverInv /\ [Next]_vars => [Cuts => cur.gen \in gated \cup orphaned]_vars BY CutIsCovered
  <1> QED BY <1>1, Inductive, PTL DEF Spec, NeverCut
=============================================================================
