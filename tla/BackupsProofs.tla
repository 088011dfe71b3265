--------------------------- MODULE BackupsProofs ---------------------------
(***************************************************************************)
(* Proofs that Backups and Archive keep their safety properties for every  *)
(* number of replicas, days, dumps and restores, every retention, and any  *)
(* number of broken streams, dying shippers and policy edits.              *)
(***************************************************************************)
EXTENDS Backups, Archive, WellFoundedInduction, NaturalsInduction, FiniteSetTheorems,
        SequenceTheorems, TLAPS

----------------------------------------------------------------------------
(* Archive.                                                                *)

\* What the shipper stored and has not yet deleted is in a whole bundle, or
\* retention dropped it since.
InBundle(k) == \E b \in bundles : b.whole /\ k \in b.segs

StoredIsBundled ==
    shipper.pc = "stored" => \A k \in shipper.segs : InBundle(k) \/ k \in forgotten

ArchiveInv == ArchiveTypeOK /\ StoredIsBundled /\ RecoveredToTarget

\* SetWALStatus keeps the later of two times.
LEMMA LaterOfTwo ==
  ASSUME NEW n \in Nat, NEW a \in 0..n, NEW b \in 0..n
  PROVE  Max({a, b}) \in 0..n
<1>1. \E x \in {a, b} : \A y \in {a, b} : x >= y
  OBVIOUS
<1>2. Max({a, b}) \in {a, b}
  BY <1>1 DEF Max
<1> QED BY <1>2

\* The initial states satisfy the invariant.
LEMMA ArchiveInitInv == ArchiveInit => ArchiveInv
<1> SUFFICES ASSUME ArchiveInit PROVE ArchiveInv
  OBVIOUS
<1> USE ArchiveAssumption DEF ArchiveInit
<1>1. policy \in [target : Targets \cup {"none"}, pitr : BOOLEAN] /\ targets \subseteq Targets
  <2>1. CASE targets = {} /\ policy = [target |-> "none", pitr |-> FALSE]
    BY <2>1
  <2>2. ASSUME NEW t \in Targets, targets = {t}, policy = [target |-> t, pitr |-> TRUE]
        PROVE  policy \in [target : Targets \cup {"none"}, pitr : BOOLEAN] /\ targets \subseteq Targets
    BY <2>2
  <2> QED BY <2>1, <2>2
<1>2. policyEdit \in [open : BOOLEAN, target : Targets \cup {"none"}, pitr : BOOLEAN]
  BY DEF NoEdit
<1>3. /\ shipper \in [pc : {"idle", "listed", "stored"}, segs : SUBSET Times]
      /\ shipper.pc = "idle"
  BY DEF IdleShipper
<1>4. /\ recovery \in [pc : {"none", "fresh", "empty", "queued", "done", "failed"},
                       target : 0..MaxTime, loaded : 0..MaxTime]
      /\ recovery.pc = "none"
  BY DEF NoRecovery
<1>5. now \in Times /\ baseBegun \in 0..MaxTime /\ lastShipped \in 0..MaxTime /\ upsets \in 0..MaxUpsets
  BY DEF Times
<1>6. ArchiveTypeOK
  BY <1>1, <1>2, <1>3, <1>4, <1>5 DEF ArchiveTypeOK
<1> QED BY <1>3, <1>4, <1>6 DEF ArchiveInv, StoredIsBundled, RecoveredToTarget

\* What a segment's place may become: WALNeverLost, for one segment.
Placed(k) == k \in spool \/ InBundle(k)
StaysPlaced(k) == Placed(k) => Placed(k)' \/ k \in forgotten'

\* A step that only adds to the repository and leaves the shipper loses nothing.
LEMMA ArchiveFrame ==
  ASSUME ArchiveInv, spool \subseteq spool', bundles \subseteq bundles',
         forgotten \subseteq forgotten', UNCHANGED shipper
  PROVE  StoredIsBundled' /\ \A k \in Times : StaysPlaced(k)
<1>1. \A k : InBundle(k) => InBundle(k)'
  BY DEF InBundle
<1> QED BY <1>1 DEF ArchiveInv, StoredIsBundled, StaysPlaced, Placed

\* Editing targets and the policy keeps the invariant.
LEMMA PolicyStep ==
  ASSUME ArchiveInv,
         \/ \E t \in Targets : CreateBackupTarget(t) \/ DeleteBackupTarget(t)
         \/ \E t \in Targets \cup {"none"}, p \in BOOLEAN : UpdateBackupPolicy(t, p)
         \/ WritePolicy
  PROVE  ArchiveInv' /\ \A k \in Times : StaysPlaced(k)
<1> USE ArchiveAssumption DEF repoVars, ArchiveTypeOK, ArchiveInv
<1>0. UNCHANGED <<now, spool, bundles, bases, baseBegun, goodBases, shipper, lastShipped, forgotten,
                  recovery>>
  BY DEF CreateBackupTarget, DeleteBackupTarget, UpdateBackupPolicy, WritePolicy
<1>1. upsets' \in 0..MaxUpsets
  BY DEF CreateBackupTarget, DeleteBackupTarget, UpdateBackupPolicy, WritePolicy, Upset
<1>2. targets' \subseteq Targets
  BY DEF CreateBackupTarget, DeleteBackupTarget, UpdateBackupPolicy, WritePolicy
<1>3. policyEdit' \in [open : BOOLEAN, target : Targets \cup {"none"}, pitr : BOOLEAN]
  <2>1. ASSUME NEW t \in Targets \cup {"none"}, NEW p \in BOOLEAN, UpdateBackupPolicy(t, p)
        PROVE  policyEdit' \in [open : BOOLEAN, target : Targets \cup {"none"}, pitr : BOOLEAN]
    <3>1. PitrAfter(t, p) \in BOOLEAN
      BY Zenon DEF PitrAfter
    <3>2. policyEdit' = [open |-> TRUE, target |-> t, pitr |-> PitrAfter(t, p)]
      BY <2>1 DEF UpdateBackupPolicy
    <3> QED BY <3>1, <3>2
  <2>2. CASE WritePolicy
    BY <2>2 DEF WritePolicy, NoEdit
  <2>3. CASE \E t \in Targets : CreateBackupTarget(t) \/ DeleteBackupTarget(t)
    BY <2>3 DEF CreateBackupTarget, DeleteBackupTarget
  <2> QED BY <2>1, <2>2, <2>3
<1>4. policy' \in [target : Targets \cup {"none"}, pitr : BOOLEAN]
  <2>1. CASE WritePolicy
    <3>1. policyEdit.target \in Targets \cup {"none"} /\ policyEdit.pitr \in BOOLEAN
      OBVIOUS
    <3>2. policy' = [target |-> policyEdit.target, pitr |-> policyEdit.pitr] \/ policy' = policy
      BY <2>1 DEF WritePolicy
    <3> QED BY <3>1, <3>2
  <2>2. CASE ~WritePolicy
    BY <2>2 DEF CreateBackupTarget, DeleteBackupTarget, UpdateBackupPolicy
  <2> QED BY <2>1, <2>2
<1>5. StoredIsBundled' /\ \A k \in Times : StaysPlaced(k)
  BY <1>0, ArchiveFrame
<1>6. ArchiveTypeOK'
  BY <1>0, <1>1, <1>2, <1>3, <1>4
<1> QED BY <1>0, <1>5, <1>6 DEF RecoveredToTarget

\* The shipper and the closing of segments keep the invariant.
LEMMA ShipStep ==
  ASSUME ArchiveInv, SegmentCloses \/ ListWAL \/ ShipWAL \/ CleanSpool \/ ShipperDies
  PROVE  ArchiveInv' /\ \A k \in Times : StaysPlaced(k)
<1> USE ArchiveAssumption DEF policyVars
<1>0. ArchiveTypeOK /\ UNCHANGED <<targets, policy, policyEdit, bases, baseBegun, goodBases, forgotten, recovery>>
  BY DEF ArchiveInv, SegmentCloses, ListWAL, ShipWAL, CleanSpool, ShipperDies
<1>1. CASE SegmentCloses
  <2>1. now' \in Times /\ spool' \subseteq Times /\ spool \subseteq spool'
        /\ UNCHANGED <<bundles, shipper, lastShipped, upsets>>
    BY <1>0, <1>1 DEF SegmentCloses, ArchiveTypeOK, Times
  <2>2. StoredIsBundled' /\ \A k \in Times : StaysPlaced(k)
    BY <1>0, <2>1, ArchiveFrame
  <2> QED BY <1>0, <2>1, <2>2 DEF ArchiveInv, ArchiveTypeOK, RecoveredToTarget
<1>2. CASE ListWAL \/ ShipperDies
  <2>1. /\ UNCHANGED <<now, spool, bundles, lastShipped>> /\ upsets' \in 0..MaxUpsets
        /\ shipper' \in [pc : {"idle", "listed", "stored"}, segs : SUBSET Times]
        /\ shipper'.pc # "stored"
    BY <1>0, <1>2 DEF ListWAL, ShipperDies, ArchiveTypeOK, IdleShipper, Upset, listSegments
  <2>2. \A k \in Times : StaysPlaced(k)
    BY <2>1 DEF StaysPlaced, Placed, InBundle
  <2> QED BY <1>0, <2>1, <2>2 DEF ArchiveInv, ArchiveTypeOK, RecoveredToTarget, StoredIsBundled
<1>3. CASE ShipWAL
  <2> DEFINE bundle == [segs |-> shipper.segs, time |-> now, whole |-> TRUE]
             torn == [bundle EXCEPT !.whole = FALSE]
             Bundle == [segs : SUBSET Times, time : Times, whole : BOOLEAN]
  <2>1. UNCHANGED <<now, spool, lastShipped>> /\ shipper.segs \subseteq Times /\ now \in Times
    BY <1>0, <1>3 DEF ShipWAL, ArchiveTypeOK
  <2>2. bundle \in Bundle /\ torn \in Bundle /\ bundle.whole /\ bundle.segs = shipper.segs
    BY <2>1
  <2>4. upsets' \in 0..MaxUpsets
    BY <1>0, <1>3 DEF ShipWAL, ArchiveTypeOK, Upset
  <2>5. \/ bundles' = bundles \cup {bundle} /\ shipper' = [shipper EXCEPT !.pc = "stored"]
        \/ bundles' \in {bundles, bundles \cup {torn}} /\ shipper' = IdleShipper
    BY <1>3 DEF ShipWAL, BrokenStream
  <2>6. shipper \in [pc : {"idle", "listed", "stored"}, segs : SUBSET Times]
        /\ bundles \subseteq Bundle
    BY <1>0 DEF ArchiveTypeOK
  <2> HIDE DEF bundle, torn
  <2>7. /\ shipper' \in [pc : {"idle", "listed", "stored"}, segs : SUBSET Times]
        /\ shipper'.pc = "stored" => bundle \in bundles' /\ shipper'.segs = shipper.segs
    BY <2>5, <2>6 DEF IdleShipper
  <2>8. bundles' \subseteq Bundle /\ bundles \subseteq bundles'
    BY <2>2, <2>5, <2>6
  <2>9. StoredIsBundled'
    BY <2>2, <2>7 DEF StoredIsBundled, InBundle
  <2>10. \A k \in Times : StaysPlaced(k)
    BY <2>1, <2>8 DEF StaysPlaced, Placed, InBundle
  <2>11. ArchiveTypeOK'
    BY <1>0, <2>1, <2>4, <2>7, <2>8 DEF ArchiveTypeOK
  <2> QED BY <1>0, <2>9, <2>10, <2>11 DEF ArchiveInv, RecoveredToTarget
<1>4. CASE CleanSpool
  <2>1. /\ UNCHANGED <<now, bundles>> /\ upsets' \in 0..MaxUpsets /\ shipper.pc = "stored"
        /\ spool' \subseteq spool /\ spool \ shipper.segs \subseteq spool'
    BY <1>0, <1>4 DEF CleanSpool, ArchiveTypeOK, Upset, SpoolAfterShip
  <2>2. lastShipped' \in 0..MaxTime
    <3>1. lastShipped' = lastShipped \/ lastShipped' = Max({lastShipped, now})
      BY <1>4 DEF CleanSpool, SetWALStatus
    <3>2. now \in 0..MaxTime /\ lastShipped \in 0..MaxTime /\ MaxTime \in Nat
      BY <1>0 DEF ArchiveTypeOK, Times
    <3> QED BY <3>1, <3>2, LaterOfTwo
  <2>3. /\ shipper' \in [pc : {"idle", "listed", "stored"}, segs : SUBSET Times]
        /\ shipper'.pc = "idle"
    BY <1>4 DEF CleanSpool, IdleShipper
  <2>4. ArchiveTypeOK'
    BY <1>0, <2>1, <2>2, <2>3 DEF ArchiveTypeOK
  <2>5. \A k \in Times : StaysPlaced(k)
    BY <1>0, <2>1 DEF ArchiveInv, StoredIsBundled, StaysPlaced, Placed, InBundle
  <2> QED BY <1>0, <2>3, <2>4, <2>5 DEF ArchiveInv, RecoveredToTarget, StoredIsBundled
<1> QED BY <1>1, <1>2, <1>3, <1>4

\* Base backups and retention keep the invariant: a segment that retention
\* drops is counted as forgotten in the same step.
LEMMA BaseStep ==
  ASSUME ArchiveInv, BeginBase \/ opBackupBase \/ \E ok \in BOOLEAN : Retention(ok)
  PROVE  ArchiveInv' /\ \A k \in Times : StaysPlaced(k)
<1> USE ArchiveAssumption DEF policyVars
<1>0. ArchiveTypeOK /\ UNCHANGED <<now, targets, policy, policyEdit, spool, shipper, lastShipped, recovery>>
  BY DEF ArchiveInv, BeginBase, opBackupBase, Retention
<1>1. CASE BeginBase
  <2>1. UNCHANGED <<bundles, bases, goodBases, forgotten, upsets>> /\ baseBegun' \in 0..MaxTime
    BY <1>0, <1>1 DEF BeginBase, ArchiveTypeOK, Times
  <2> QED BY <1>0, <2>1, ArchiveFrame DEF ArchiveInv, ArchiveTypeOK, RecoveredToTarget
<1>2. CASE opBackupBase
  <2> DEFINE base == [begin |-> baseBegun, end |-> now, whole |-> TRUE]
             torn == [base EXCEPT !.whole = FALSE]
             Base == [begin : Times, end : Times, whole : BOOLEAN]
  <2>1. UNCHANGED <<bundles, forgotten>> /\ baseBegun' = 0 /\ upsets' \in 0..MaxUpsets
        /\ goodBases' \subseteq Times
    BY <1>0, <1>2 DEF opBackupBase, ArchiveTypeOK, Upset
  <2>2. base \in Base /\ torn \in Base
    <3>1. baseBegun \in Times /\ now \in Times
      BY <1>0, <1>2 DEF opBackupBase, ArchiveTypeOK, Times
    <3>2. base \in Base
      BY <3>1
    <3> HIDE DEF base
    <3> QED BY <3>2
  <2>4. bases' \in {bases, bases \cup {base}, bases \cup {torn}}
    BY <1>2 DEF opBackupBase, BrokenStream
  <2> HIDE DEF base, torn
  <2>5. bases' \subseteq Base
    BY <1>0, <2>2, <2>4 DEF ArchiveTypeOK
  <2> QED BY <1>0, <2>1, <2>5, ArchiveFrame DEF ArchiveInv, ArchiveTypeOK, RecoveredToTarget
<1>3. ASSUME NEW ok \in BOOLEAN, Retention(ok)
      PROVE  ArchiveInv' /\ \A k \in Times : StaysPlaced(k)
  <2>1. /\ UNCHANGED <<baseBegun, goodBases, upsets>> /\ bases' \subseteq bases
        /\ bundles' \subseteq bundles
        /\ forgotten' = forgotten \cup UNION {b.segs : b \in bundles \ bundles'}
    BY <1>3 DEF Retention, boundWALRetention, resticForget, resticForgetWAL
  <2>2. \A b \in bundles : b.segs \subseteq Times
    BY <1>0 DEF ArchiveTypeOK
  <2>3. forgotten' \subseteq Times
    BY <1>0, <2>1, <2>2 DEF ArchiveTypeOK
  <2>4. ArchiveTypeOK'
    BY <1>0, <2>1, <2>3 DEF ArchiveTypeOK
  <2>5. \A k : InBundle(k) => InBundle(k)' \/ k \in forgotten'
    BY <2>1 DEF InBundle
  <2>6. StoredIsBundled' /\ \A k \in Times : StaysPlaced(k)
    BY <1>0, <2>1, <2>5 DEF ArchiveInv, StoredIsBundled, StaysPlaced, Placed
  <2> QED BY <1>0, <2>4, <2>6 DEF ArchiveInv, RecoveredToTarget
<1> QED BY <1>1, <1>2, <1>3

\* A recovery keeps the invariant: the script yields its target or a failure.
LEMMA RecoveryStep ==
  ASSUME ArchiveInv,
         \/ \E t \in Times : handleRestoreToTimestamp(t)
         \/ CreateRestoreToTimestampRun \/ opBackupRestorePITR
  PROVE  ArchiveInv' /\ \A k \in Times : StaysPlaced(k)
<1> USE ArchiveAssumption DEF policyVars, repoVars
<1>0. /\ ArchiveTypeOK
      /\ UNCHANGED <<now, targets, policy, policyEdit, spool, bundles, bases, baseBegun, goodBases,
                     shipper, lastShipped, upsets, forgotten>>
  BY DEF ArchiveInv, handleRestoreToTimestamp, CreateRestoreToTimestampRun, opBackupRestorePITR
<1> DEFINE Recoveries == [pc : {"none", "fresh", "empty", "queued", "done", "failed"},
                          target : 0..MaxTime, loaded : 0..MaxTime]
<1>1. recovery \in Recoveries
  BY <1>0 DEF ArchiveTypeOK
<1>2. recovery' \in Recoveries /\ RecoveredToTarget'
  <2>1. ASSUME NEW t \in Times, handleRestoreToTimestamp(t)
        PROVE  recovery' \in Recoveries /\ RecoveredToTarget'
    BY <2>1 DEF handleRestoreToTimestamp, RecoveredToTarget, Times
  <2>2. CASE CreateRestoreToTimestampRun
    <3>1. \E p \in {"queued", "empty"} : recovery' = [recovery EXCEPT !.pc = p]
      BY <2>2 DEF CreateRestoreToTimestampRun
    <3> QED BY <1>1, <3>1 DEF RecoveredToTarget
  <2>3. CASE opBackupRestorePITR
    <3>1. \A b, w, t : Replay(b, w, t) \in {0, t}
      BY DEF Replay
    <3> DEFINE t == recovery.target
               ok == (\E b \in bundles : b.time > t) /\ ChooseBase(t) # {}
               found == UNION {pitrRecoveryScript(b, StagedWAL(t), t) : b \in ChooseBase(t)}
    <3>2. PICK state \in (IF ok THEN found ELSE {0}) :
            recovery' = [recovery EXCEPT !.pc = IF state = 0 THEN "failed" ELSE "done",
                                         !.loaded = state]
      BY <2>3 DEF opBackupRestorePITR
    <3>3. found \subseteq {0, t}
      BY <3>1 DEF pitrRecoveryScript
    <3>4. state \in {0, t}
      BY <3>2, <3>3
    <3>5. t \in 0..MaxTime
      BY <1>1
    <3> HIDE DEF ok, found, t
    <3>6. CASE state = 0
      <4>1. recovery' = [recovery EXCEPT !.pc = "failed", !.loaded = 0]
        BY <3>2, <3>6
      <4>2. recovery' \in Recoveries
        <5>1. 0 \in 0..MaxTime
          OBVIOUS
        <5> QED BY <1>1, <4>1, <5>1
      <4>3. recovery'.pc = "failed"
        BY <1>1, <4>1
      <4> QED BY <4>2, <4>3 DEF RecoveredToTarget
    <3>7. CASE state # 0
      <4>1. recovery' = [recovery EXCEPT !.pc = "done", !.loaded = t]
        BY <3>2, <3>4, <3>7
      <4>2. recovery'.target = recovery.target /\ recovery'.loaded = t
        BY <1>1, <4>1
      <4> QED BY <1>1, <3>5, <4>1, <4>2 DEF RecoveredToTarget, t
    <3> QED BY <3>6, <3>7
  <2> QED BY <2>1, <2>2, <2>3
<1>3. StoredIsBundled' /\ \A k \in Times : StaysPlaced(k)
  BY <1>0, ArchiveFrame
<1>4. ArchiveTypeOK'
  BY <1>0, <1>2 DEF ArchiveTypeOK
<1> QED BY <1>2, <1>3, <1>4 DEF ArchiveInv

\* Every step keeps the invariant and the place of every segment.
LEMMA ArchiveStep ==
  ArchiveInv /\ [ArchiveNext]_archiveVars => ArchiveInv' /\ \A k \in Times : StaysPlaced(k)
<1> SUFFICES ASSUME ArchiveInv, [ArchiveNext]_archiveVars
             PROVE  ArchiveInv' /\ \A k \in Times : StaysPlaced(k)
  OBVIOUS
<1>1. CASE UNCHANGED archiveVars
  BY <1>1 DEF archiveVars, ArchiveInv, ArchiveTypeOK, StoredIsBundled, RecoveredToTarget,
              StaysPlaced, Placed, InBundle
<1> QED BY <1>1, PolicyStep, ShipStep, BaseStep, RecoveryStep DEF ArchiveNext

\* Every behaviour keeps the invariant.
LEMMA ArchiveInvHolds == ArchiveSpec => []ArchiveInv
BY ArchiveInitInv, ArchiveStep, PTL DEF ArchiveSpec

\* Every variable of the archive keeps its type.
THEOREM ArchiveTypeCorrect == ArchiveSpec => []ArchiveTypeOK
BY ArchiveInvHolds, PTL DEF ArchiveInv

\* However streams break off, shippers die and retention runs, a segment that
\* postgres handed over is in the spool or in a whole bundle until retention
\* drops it (shipOne deletes only what it stored).
THEOREM WALNeverLostCorrect == ArchiveSpec => WALNeverLost
<1>1. ArchiveInv /\ [ArchiveNext]_archiveVars
      => \A k \in Times :
            LET At(sp, bs) == k \in sp \/ \E b \in bs : b.whole /\ k \in b.segs
            IN  At(spool, bundles) => At(spool', bundles') \/ k \in forgotten'
  BY ArchiveStep DEF StaysPlaced, Placed, InBundle
<1> QED BY <1>1, ArchiveInvHolds, PTL DEF ArchiveSpec, WALNeverLost

\* A point-in-time recovery that reports success loaded the state at its target
\* (opBackupRestorePITR), whatever base and bundles it was staged from.
THEOREM RecoveredToTargetCorrect == ArchiveSpec => []RecoveredToTarget
BY ArchiveInvHolds, PTL DEF ArchiveInv

----------------------------------------------------------------------------
(* Backups: the inductive invariant.                                       *)

RestoresIn(table) == {i \in DOMAIN table : table[i].kind = "restore"}

\* The table: rows of days that have begun, one scheduled row of a kind a day,
\* a dump written only with the outcome, and no more restores than asked for.
TableOK(table, day) ==
    /\ table \in Seq(Row)
    /\ \A i \in DOMAIN table : table[i].day <= day
    /\ \A i \in DOMAIN table : table[i].status \in Open => table[i].dump = table[i].pin
    /\ \A i, j \in DOMAIN table :
          (/\ table[i].kind \in Scheduled
           /\ table[i].kind = table[j].kind
           /\ table[i].day = table[j].day) => i = j
    /\ Cardinality(RestoresIn(table)) <= MaxRestores

TableInv ==
    /\ today \in Days /\ TableOK(runs, today) /\ alerts \subseteq DOMAIN runs
    /\ finished \in Seq(Nat)
    /\ \A k \in DOMAIN finished : finished[k] \in DOMAIN runs /\ runs[finished[k]].kind = "backup"

SchedInv ==
    /\ sched \in [Replicas -> [pc : {"idle", "insert"}, day : Days, backup : BOOLEAN, verify : BOOLEAN]]
    /\ \A r \in Replicas : sched[r].day <= today

\* A dump that a backup of that day recorded.
RecordedOn(day, dump) == dump # None /\ \E b \in BackupsOf(day) : Recorded(b) /\ runs[b].dump = dump

\* An op that the document carries expects what its row pins or, for a verify,
\* what its day's backup recorded, however long the agent keeps the document.
OpOK(op) ==
    /\ op \in Op /\ op.run \in DOMAIN runs /\ runs[op.run].kind = op.kind
    /\ op.kind = "verify" => RecordedOn(runs[op.run].day, op.dump)
    /\ op.kind = "restore" => op.dump = runs[op.run].pin

AgentRec == [pc : {"idle", "pass", "work", "forget", "report"}, todo : SUBSET Op,
             bad : SUBSET Nat, cur : Op \cup {NoOp}, out : Outcome]

AgentOK(a) ==
    /\ a.bad \subseteq DOMAIN runs
    /\ \A op \in a.todo : OpOK(op)
    /\ a.pc \in {"work", "forget", "report"} => OpOK(a.cur)
    /\ a.pc = "forget" => a.cur.kind = "backup"

\* A good outcome that an agent is about to report is about the expected dump.
OutcomeOK(a) ==
    a.pc = "report" /\ a.out.ok =>
      /\ a.cur.kind = "verify" => a.out.dump = a.cur.dump
      /\ a.cur.kind = "restore" => target[a.cur.run] = a.cur.dump

AgentInv ==
    /\ agent \in [Servers -> AgentRec]
    /\ \A s \in Servers : AgentOK(agent[s]) /\ OutcomeOK(agent[s])

RepoInv ==
    /\ repo \subseteq [dump : Dumps, day : Days] /\ dumps \in 0..MaxDumps
    /\ target \in [RunIds -> Dumps \cup {None}]
    /\ \A i \in RunIds \ DOMAIN runs : target[i] = None

\* A verify that succeeded read the dump that its day's backup recorded.
VerifyInv ==
    \A i \in DOMAIN runs :
        runs[i].kind = "verify" /\ runs[i].status = "success" => RecordedOn(runs[i].day, runs[i].dump)

BackupsInv ==
    TableInv /\ SchedInv /\ AgentInv /\ RepoInv /\ VerifyInv /\ RestoreLoadsPinned

----------------------------------------------------------------------------
(* Lemmas about numbers and the table.                                     *)

\* A set of naturals has a least member.
LEMMA LeastExists ==
  ASSUME NEW S, S \subseteq Nat, S # {}
  PROVE  \E m \in S : \A k \in S : m <= k
<1>1. PICK m \in S : \A k \in S : ~ (<<k, m>> \in OpToRel(<, Nat))
  BY NatLessThanWellFounded, WFMin, Zenon
<1>2. \A k \in S : ~ (k < m)
  BY <1>1 DEF OpToRel
<1> QED BY <1>2

\* Max answers a member of a bounded set of naturals that is not empty.
LEMMA MaxIsMember ==
  ASSUME NEW n \in Nat, NEW S, S \subseteq 0..n, S # {}
  PROVE  Max(S) \in S
<1> DEFINE D == {n - i : i \in S}
<1>1. \A k \in S : k \in Int /\ n - k \in Nat
  OBVIOUS
<1>2. D \subseteq Nat
  BY <1>1
<1>3. PICK i \in S : TRUE
  OBVIOUS
<1>4. n - i \in D
  BY <1>3
<1>5. \A k \in S : n - k \in D
  OBVIOUS
<1>6. \A d \in D : \E k \in S : d = n - k
  OBVIOUS
<1> HIDE DEF D
<1>7. PICK m \in D : \A k \in D : m <= k
  BY <1>2, <1>4, LeastExists, Zenon
<1>8. PICK j \in S : m = n - j
  BY <1>6
<1>9. \A k \in S : n - j <= n - k
  BY <1>5, <1>7, <1>8
<1>10. \A k \in S : j >= k
  BY <1>1, <1>9
<1> QED BY <1>10 DEF Max

\* Two scheduled rows a day and the restores asked for: the table is bounded.
LEMMA TableBounded ==
  ASSUME NEW table, NEW day \in Days, TableOK(table, day)
  PROVE  DOMAIN table \subseteq RunIds /\ DOMAIN table = 1..Len(table) /\ Len(table) \in Nat
<1> USE BackupBounds
<1> DEFINE R == RestoresIn(table)
           S == DOMAIN table \ R
<1>1. Len(table) \in Nat /\ DOMAIN table = 1..Len(table) /\ \A i \in DOMAIN table : table[i] \in Row
  BY DEF TableOK
<1>2. IsFiniteSet(DOMAIN table) /\ Cardinality(DOMAIN table) = Len(table)
  <2>1. /\ IsFiniteSet(1..Len(table))
        /\ Cardinality(1..Len(table)) = IF 1 > Len(table) THEN 0 ELSE Len(table) - 1 + 1
    <3>1. 1 \in Int /\ Len(table) \in Int
      BY <1>1
    <3> QED BY <3>1, FS_Interval, Zenon
  <2>2. Cardinality(1..Len(table)) = Len(table)
    BY <1>1, <2>1
  <2> QED BY <1>1, <2>1, <2>2, Zenon
<1>3. R \subseteq DOMAIN table /\ IsFiniteSet(R) /\ IsFiniteSet(S)
  BY <1>2, FS_Subset DEF RestoresIn
<1>4. Cardinality(S) <= 2 * MaxDay
  <2>1. \A i \in S : table[i].kind \in Scheduled /\ table[i].day \in Days
    BY <1>1 DEF RestoresIn, Row, Kinds
  <2> DEFINE f == [i \in S |-> <<table[i].kind, table[i].day>>]
  <2>2. f \in [S -> Scheduled \X Days]
    BY <2>1
  <2>3. \A i, j \in S : f[i] = f[j] => i = j
    BY <2>1 DEF TableOK
  <2>4. f \in Injection(S, Scheduled \X Days)
    BY <2>2, <2>3 DEF Injection, IsInjective
  <2>5. IsFiniteSet(Scheduled) /\ Cardinality(Scheduled) = 2
    <3>1. IsFiniteSet({"backup"}) /\ Cardinality({"backup"}) = 1
      BY FS_Singleton
    <3>2. /\ IsFiniteSet({"backup"} \cup {"verify"})
          /\ Cardinality({"backup"} \cup {"verify"}) =
               IF "verify" \in {"backup"} THEN Cardinality({"backup"}) ELSE Cardinality({"backup"}) + 1
      BY <3>1, FS_AddElement, Zenon
    <3>3. Scheduled = {"backup"} \cup {"verify"}
      BY DEF Scheduled
    <3>4. Cardinality({"backup"} \cup {"verify"}) = 2
      BY <3>1, <3>2
    <3> QED BY <3>2, <3>3, <3>4, Zenon
  <2>6. IsFiniteSet(Days) /\ Cardinality(Days) = MaxDay
    BY FS_Interval DEF Days
  <2>7. IsFiniteSet(Scheduled \X Days) /\ Cardinality(Scheduled \X Days) = 2 * MaxDay
    BY <2>5, <2>6, FS_Product
  <2> HIDE DEF f, S
  <2> QED BY <2>4, <2>7, FS_Injection
<1>5. Cardinality(R) <= MaxRestores /\ Cardinality(R) \in Nat /\ Cardinality(S) \in Nat
  BY <1>3, FS_CardinalityType DEF TableOK
<1>6. Cardinality(R \cup S) = Cardinality(R) + Cardinality(S) - Cardinality(R \cap S)
  BY <1>3, FS_Union
<1>7. R \cup S = DOMAIN table /\ R \cap S = {}
  BY <1>3
<1>8. Cardinality(R \cap S) = 0
  BY <1>7, FS_EmptySet
<1> HIDE DEF R, S
<1>9. Len(table) = Cardinality(R) + Cardinality(S)
  <2>1. Cardinality(R \cup S) = Len(table)
    BY <1>2, <1>7, Zenon
  <2> QED BY <1>1, <1>5, <1>6, <1>8, <2>1
<1>10. Len(table) <= MaxRuns
  BY <1>1, <1>4, <1>5, <1>9 DEF MaxRuns
<1> QED BY <1>1, <1>10 DEF RunIds, MaxRuns

\* Every row of the table is one.
LEMMA RowTypes ==
  ASSUME TableInv
  PROVE  \A i \in DOMAIN runs : runs[i] \in Row /\ i \in RunIds
<1>1. TableOK(runs, today) /\ today \in Days
  BY DEF TableInv
<1>2. runs \in Seq(Row) /\ DOMAIN runs = 1..Len(runs)
  BY <1>1 DEF TableOK
<1>3. DOMAIN runs \subseteq RunIds
  BY <1>1, TableBounded, Zenon
<1> QED BY <1>2, <1>3

\* b has the rows of a, and after them only new scheduled ones.
Lengthens(a, b) ==
    /\ DOMAIN a \subseteq DOMAIN b /\ \A i \in DOMAIN a : b[i] = a[i]
    /\ \A i \in DOMAIN b \ DOMAIN a : b[i].kind \in Scheduled /\ b[i].status = "pending"

\* ON CONFLICT DO NOTHING keeps one row of a kind a day.
LEMMA InsertDailyTable ==
  ASSUME NEW table, NEW kind \in Scheduled, NEW now_ \in Days, NEW day \in Days, day <= now_,
         TableOK(table, now_)
  PROVE  TableOK(InsertDaily(table, kind, day), now_) /\ Lengthens(table, InsertDaily(table, kind, day))
<1> DEFINE row == NewRow(kind, day, None)
           new == Append(table, row)
<1>1. CASE \E i \in DOMAIN table : table[i].kind = kind /\ table[i].day = day
  BY <1>1 DEF InsertDaily, Lengthens
<1>2. CASE ~ \E i \in DOMAIN table : table[i].kind = kind /\ table[i].day = day
  <2>1. InsertDaily(table, kind, day) = new
    BY <1>2 DEF InsertDaily
  <2>2. row \in Row /\ row.kind = kind /\ row.day = day /\ row.status = "pending" /\ row.dump = row.pin
    BY DEF NewRow, Row, Kinds, Open
  <2> HIDE DEF row
  <2>3. table \in Seq(Row) /\ Len(table) \in Nat /\ DOMAIN table = 1..Len(table)
    BY DEF TableOK
  <2>4. /\ new \in Seq(Row) /\ DOMAIN new = 1..(Len(table) + 1)
        /\ new[Len(table) + 1] = row /\ \A i \in DOMAIN table : new[i] = table[i]
    BY <2>2, <2>3
  <2> HIDE DEF new
  <2>5. \A i \in DOMAIN new : i \in DOMAIN table \/ i = Len(table) + 1
    BY <2>3, <2>4
  <2>6. Len(table) + 1 \notin DOMAIN table /\ DOMAIN table \subseteq DOMAIN new
    BY <2>3, <2>4
  <2>7. RestoresIn(new) = RestoresIn(table)
    BY <2>2, <2>4, <2>5, <2>6 DEF RestoresIn, Scheduled
  <2>8. TableOK(new, now_)
    <3>1. \A i \in DOMAIN new : new[i].day <= now_ /\ (new[i].status \in Open => new[i].dump = new[i].pin)
      BY <2>2, <2>4, <2>5 DEF TableOK
    <3>2. ASSUME NEW i \in DOMAIN new, NEW j \in DOMAIN new, new[i].kind \in Scheduled,
                 new[i].kind = new[j].kind, new[i].day = new[j].day
          PROVE  i = j
      <4>1. CASE i \in DOMAIN table /\ j \in DOMAIN table
        BY <2>4, <3>2, <4>1 DEF TableOK
      <4>2. CASE i = Len(table) + 1 /\ j \in DOMAIN table
        BY <1>2, <2>2, <2>4, <3>2, <4>2
      <4>3. CASE j = Len(table) + 1 /\ i \in DOMAIN table
        BY <1>2, <2>2, <2>4, <3>2, <4>3
      <4> QED BY <2>5, <4>1, <4>2, <4>3
    <3> QED BY <2>4, <2>7, <3>1, <3>2 DEF TableOK
  <2>9. Lengthens(table, new)
    BY <2>2, <2>4, <2>5, <2>6 DEF Lengthens
  <2> QED BY <2>1, <2>8, <2>9
<1> QED BY <1>1, <1>2

\* What a statement that updates row i leaves: status and dump are written, and
\* nothing else.
Written(i, st, d) ==
    /\ runs' \in Seq(Row) /\ DOMAIN runs' = DOMAIN runs
    /\ \A j \in DOMAIN runs : j # i => runs'[j] = runs[j]
    /\ runs'[i].kind = runs[i].kind /\ runs'[i].day = runs[i].day /\ runs'[i].pin = runs[i].pin
    /\ runs'[i].status = st /\ runs'[i].dump = d

\* UPDATE of a row's status.
LEMMA WriteStatus ==
  ASSUME TableInv, NEW i \in DOMAIN runs, NEW st \in Open \cup Settled,
         runs' = [runs EXCEPT ![i].status = st]
  PROVE  Written(i, st, runs[i].dump)
<1>1. runs \in Seq(Row) /\ DOMAIN runs = 1..Len(runs) /\ runs[i] \in Row
  BY DEF TableInv, TableOK
<1> DEFINE row == [runs[i] EXCEPT !.status = st]
<1>2. /\ row \in Row /\ row.kind = runs[i].kind /\ row.day = runs[i].day /\ row.pin = runs[i].pin
      /\ row.status = st /\ row.dump = runs[i].dump
  BY <1>1 DEF Row
<1>3. runs' = [runs EXCEPT ![i] = row]
  OBVIOUS
<1> HIDE DEF row
<1>4. runs' \in Seq(Row)
  <2>1. i \in 1..Len(runs)
    BY <1>1
  <2>2. [runs EXCEPT ![i] = row] \in Seq(Row)
    BY <1>1, <1>2, <2>1, ExceptSeq, Zenon
  <2> QED BY <1>3, <2>2
<1>5. DOMAIN runs' = DOMAIN runs
  BY <1>3
<1> QED BY <1>1, <1>2, <1>3, <1>4, <1>5 DEF Written

\* UPDATE of a row's status and dump.
LEMMA WriteResult ==
  ASSUME TableInv, NEW i \in DOMAIN runs, NEW st \in Open \cup Settled, NEW d \in Dumps \cup {None},
         runs' = [runs EXCEPT ![i].status = st, ![i].dump = d]
  PROVE  Written(i, st, d)
<1>1. runs \in Seq(Row) /\ DOMAIN runs = 1..Len(runs) /\ runs[i] \in Row
  BY DEF TableInv, TableOK
<1> DEFINE row == [runs[i] EXCEPT !.status = st, !.dump = d]
<1>2. /\ row \in Row /\ row.kind = runs[i].kind /\ row.day = runs[i].day /\ row.pin = runs[i].pin
      /\ row.status = st /\ row.dump = d
  BY <1>1 DEF Row
<1>3. runs' = [runs EXCEPT ![i] = row]
  BY <1>1
<1> HIDE DEF row
<1>4. runs' \in Seq(Row)
  <2>1. i \in 1..Len(runs)
    BY <1>1
  <2>2. [runs EXCEPT ![i] = row] \in Seq(Row)
    BY <1>1, <1>2, <2>1, ExceptSeq, Zenon
  <2> QED BY <1>3, <2>2
<1>5. DOMAIN runs' = DOMAIN runs
  BY <1>3
<1> QED BY <1>1, <1>2, <1>3, <1>4, <1>5 DEF Written

----------------------------------------------------------------------------
(* What a step leaves of the rows, and what follows for ops and outcomes.  *)

\* A row keeps its kind, its day and its pin, and a settled one everything.
RunsGrow ==
    /\ DOMAIN runs \subseteq DOMAIN runs'
    /\ \A i \in DOMAIN runs :
          /\ runs'[i].kind = runs[i].kind /\ runs'[i].day = runs[i].day /\ runs'[i].pin = runs[i].pin
          /\ runs[i].status \in Settled => runs'[i] = runs[i]

\* A recorded dump stays recorded, so an op stays right however stale it is.
LEMMA OpsKept ==
  ASSUME RunsGrow
  PROVE  /\ \A day, dump : RecordedOn(day, dump) => RecordedOn(day, dump)'
         /\ \A op : OpOK(op) => OpOK(op)'
<1>1. ASSUME NEW day, NEW dump, RecordedOn(day, dump) PROVE RecordedOn(day, dump)'
  <2>1. PICK b \in DOMAIN runs : /\ runs[b].kind = "backup" /\ runs[b].day = day
                                 /\ runs[b].status = "success" /\ runs[b].dump = dump /\ dump # None
    BY <1>1 DEF RecordedOn, BackupsOf, Recorded
  <2>2. b \in DOMAIN runs' /\ runs'[b] = runs[b]
    BY <2>1 DEF RunsGrow, Settled
  <2> QED BY <2>1, <2>2 DEF RecordedOn, BackupsOf, Recorded
<1>2. ASSUME NEW op, OpOK(op) PROVE OpOK(op)'
  <2>1. op.run \in DOMAIN runs /\ op.run \in DOMAIN runs' /\ runs'[op.run].kind = runs[op.run].kind
        /\ runs'[op.run].day = runs[op.run].day /\ runs'[op.run].pin = runs[op.run].pin
    BY <1>2 DEF OpOK, RunsGrow
  <2>2. op.kind = "verify" => RecordedOn(runs[op.run].day, op.dump)
    BY <1>2 DEF OpOK
  <2> DEFINE day == runs[op.run].day
  <2>3. op.kind = "verify" => RecordedOn(day, op.dump)'
    <3>1. ASSUME NEW day_, RecordedOn(day_, op.dump) PROVE RecordedOn(day_, op.dump)'
      BY <1>1, <3>1
    <3> QED BY <2>1, <2>2, <3>1 DEF RecordedOn, BackupsOf
  <2> QED BY <1>2, <2>1, <2>3 DEF OpOK
<1> QED BY <1>1, <1>2

\* Agents that stand still stay right as the table grows.
LEMMA AgentsKept ==
  ASSUME AgentInv, RunsGrow, UNCHANGED <<agent, target>>
  PROVE  AgentInv'
BY OpsKept DEF AgentInv, AgentOK, OutcomeOK, RunsGrow

\* Agent s moves to a, and no other agent moves.
Becomes(s, a) ==
    /\ agent' \in [Servers -> AgentRec]
    /\ \A r \in Servers : r # s => agent'[r] = agent[r]
    /\ agent'[s].pc = a.pc /\ agent'[s].todo = a.todo /\ agent'[s].bad = a.bad
    /\ agent'[s].cur = a.cur /\ agent'[s].out = a.out

\* The move of one agent keeps the invariant of all.
LEMMA AgentMoves ==
  ASSUME AgentInv, RunsGrow, NEW s \in Servers, NEW a, Becomes(s, a), AgentOK(a)', OutcomeOK(a)',
         \A r \in Servers : r # s => OutcomeOK(agent[r])'
  PROVE  AgentInv'
<1>1. \A op : OpOK(op) => OpOK(op)'
  BY OpsKept
<1>2. ASSUME NEW r \in Servers, r # s PROVE AgentOK(agent[r])'
  <2>1. AgentOK(agent[r]) /\ agent'[r] = agent[r]
    BY <1>2 DEF AgentInv, Becomes
  <2> QED BY <1>1, <2>1 DEF AgentOK, RunsGrow
<1>3. AgentOK(agent[s])' /\ OutcomeOK(agent[s])'
  BY DEF AgentOK, OutcomeOK, Becomes
<1> QED BY <1>2, <1>3 DEF AgentInv, Becomes

\* Writing an open row keeps the table, and what its success must stand for.
LEMMA RowWritten ==
  ASSUME BackupsInv, NEW i \in DOMAIN runs, runs[i].status \in Open,
         NEW st \in Open \cup Settled, NEW d \in Dumps \cup {None}, Written(i, st, d),
         st \in Open => d = runs[i].dump,
         st = "success" /\ runs[i].kind = "verify" => RecordedOn(runs[i].day, d),
         st = "success" /\ runs[i].kind = "restore" => target[i] = runs[i].pin,
         UNCHANGED <<today, target>>, alerts' \subseteq alerts \cup {i},
         finished' = finished \/ (finished' = Append(finished, i) /\ runs[i].kind = "backup")
  PROVE  TableInv' /\ RunsGrow /\ VerifyInv' /\ RestoreLoadsPinned'
<1> USE DEF BackupsInv
<1>1. runs' \in Seq(Row) /\ DOMAIN runs' = DOMAIN runs
  BY DEF Written
<1>2. \A j \in DOMAIN runs :
        /\ runs'[j].kind = runs[j].kind /\ runs'[j].day = runs[j].day /\ runs'[j].pin = runs[j].pin
        /\ j # i => runs'[j] = runs[j]
  BY DEF Written
<1>3. RunsGrow
  BY <1>1, <1>2 DEF RunsGrow, Open, Settled
<1>4. TableOK(runs, today)'
  <2>1. TableOK(runs, today)
    BY DEF TableInv
  <2>2. RestoresIn(runs)' = RestoresIn(runs)
    BY <1>1, <1>2 DEF RestoresIn
  <2>3. \A j \in DOMAIN runs' : runs'[j].day <= today
    BY <1>1, <1>2, <2>1 DEF TableOK
  <2>4. \A j \in DOMAIN runs' : runs'[j].status \in Open => runs'[j].dump = runs'[j].pin
    <3>1. CASE st \in Open
      BY <1>1, <1>2, <2>1, <3>1 DEF TableOK, Written
    <3>2. CASE st \notin Open
      BY <1>1, <1>2, <2>1, <3>2 DEF TableOK, Written
    <3> QED BY <3>1, <3>2
  <2>5. \A j, k \in DOMAIN runs' :
          (/\ runs'[j].kind \in Scheduled /\ runs'[j].kind = runs'[k].kind
           /\ runs'[j].day = runs'[k].day) => j = k
    BY <1>1, <1>2, <2>1 DEF TableOK
  <2> QED BY <1>1, <2>1, <2>2, <2>3, <2>4, <2>5 DEF TableOK
<1>5. /\ finished' \in Seq(Nat)
      /\ \A k \in DOMAIN finished' : finished'[k] \in DOMAIN runs' /\ runs'[finished'[k]].kind = "backup"
  <2>1. /\ finished \in Seq(Nat)
        /\ \A k \in DOMAIN finished : finished[k] \in DOMAIN runs /\ runs[finished[k]].kind = "backup"
    BY DEF TableInv
  <2>2. CASE finished' = finished
    BY <1>1, <1>2, <2>1, <2>2
  <2>3. CASE finished' = Append(finished, i) /\ runs[i].kind = "backup"
    <3>1. i \in Nat
      <4>1. DOMAIN runs = 1..Len(runs) /\ Len(runs) \in Nat
        BY DEF TableInv, TableOK
      <4> QED BY <4>1
    <3>2. \A k \in DOMAIN finished' : (k \in DOMAIN finished /\ finished'[k] = finished[k]) \/ finished'[k] = i
      BY <2>1, <2>3
    <3>3. finished' \in Seq(Nat)
      BY <2>1, <2>3, <3>1
    <3> QED BY <1>1, <1>2, <2>1, <2>3, <3>2, <3>3
  <2> QED BY <2>2, <2>3
<1>6. TableInv'
  BY <1>1, <1>4, <1>5 DEF TableInv
<1>7. VerifyInv'
  <2> SUFFICES ASSUME NEW j \in DOMAIN runs, runs'[j].kind = "verify", runs'[j].status = "success"
               PROVE  RecordedOn(runs[j].day, runs[j].dump)'
    BY <1>1 DEF VerifyInv
  <2>1. PICK day, dump : day = runs'[j].day /\ dump = runs'[j].dump
    OBVIOUS
  <2>2. RecordedOn(day, dump)
    <3>1. CASE j = i
      BY <1>2, <2>1, <3>1 DEF Written
    <3>2. CASE j # i
      BY <1>2, <2>1, <3>2 DEF VerifyInv
    <3> QED BY <3>1, <3>2
  <2>3. RecordedOn(day, dump)'
    BY <1>3, <2>2, OpsKept
  <2> QED BY <2>1, <2>3 DEF RecordedOn, BackupsOf
<1>8. RestoreLoadsPinned'
  BY <1>1, <1>2 DEF RestoreLoadsPinned, Written
<1> QED BY <1>3, <1>6, <1>7, <1>8

\* Rows added at the end leave the ones before them, and what they stand for.
LEMMA RowsAdded ==
  ASSUME BackupsInv, DOMAIN runs \subseteq DOMAIN runs', \A i \in DOMAIN runs : runs'[i] = runs[i],
         \A i \in DOMAIN runs' \ DOMAIN runs : runs'[i].status = "pending",
         TableOK(runs, today)', UNCHANGED <<today, finished, alerts, target>>
  PROVE  TableInv' /\ RunsGrow /\ VerifyInv' /\ RestoreLoadsPinned'
<1> USE DEF BackupsInv
<1>1. RunsGrow
  BY DEF RunsGrow
<1>2. TableInv'
  BY DEF TableInv
<1>3. VerifyInv'
  <2> SUFFICES ASSUME NEW j \in DOMAIN runs', runs'[j].kind = "verify", runs'[j].status = "success"
               PROVE  RecordedOn(runs[j].day, runs[j].dump)'
    BY DEF VerifyInv
  <2>1. j \in DOMAIN runs /\ runs'[j] = runs[j]
    OBVIOUS
  <2>2. PICK day, dump : day = runs[j].day /\ dump = runs[j].dump
    OBVIOUS
  <2>3. RecordedOn(day, dump)
    BY <2>1, <2>2 DEF VerifyInv
  <2>4. RecordedOn(day, dump)'
    BY <1>1, <2>3, OpsKept
  <2> QED BY <2>1, <2>2, <2>4 DEF RecordedOn, BackupsOf
<1>4. DOMAIN runs' \subseteq RunIds
  <2>1. TableOK(runs', today) /\ today \in Days
    BY DEF TableOK, TableInv
  <2> QED BY <2>1, TableBounded
<1>5. RestoreLoadsPinned'
  BY <1>4 DEF RestoreLoadsPinned, RepoInv
<1> QED BY <1>1, <1>2, <1>3, <1>5

----------------------------------------------------------------------------
(* The steps of the control plane.                                         *)

\* The initial state satisfies the invariant.
LEMMA BackupsInit == Init => BackupsInv
<1> SUFFICES ASSUME Init PROVE BackupsInv
  OBVIOUS
<1> USE BackupBounds DEF Init
<1>1. DOMAIN runs = {} /\ DOMAIN finished = {} /\ runs \in Seq(Row) /\ finished \in Seq(Nat)
  OBVIOUS
<1>2. Cardinality(RestoresIn(runs)) = 0
  <2>1. RestoresIn(runs) = {}
    BY <1>1 DEF RestoresIn
  <2> QED BY <2>1, FS_EmptySet
<1>3. TableInv
  BY <1>1, <1>2 DEF TableInv, TableOK, Days
<1>4. SchedInv
  BY DEF SchedInv, Days
<1>5. Idle \in AgentRec /\ Idle.pc = "idle" /\ Idle.todo = {} /\ Idle.bad = {}
  BY DEF Idle, AgentRec, Failure, Outcome
<1>6. AgentInv
  BY <1>5 DEF AgentInv, AgentOK, OutcomeOK
<1>7. RepoInv
  BY DEF RepoInv
<1> QED BY <1>1, <1>3, <1>4, <1>6, <1>7 DEF BackupsInv, VerifyInv, RestoreLoadsPinned

\* Midnight keeps the invariant.
LEMMA MidnightStep == ASSUME BackupsInv, Midnight PROVE BackupsInv'
<1> USE BackupBounds DEF BackupsInv
<1>1. /\ UNCHANGED <<runs, finished, alerts, sched, agent, repo, dumps, target>>
      /\ today' = today + 1 /\ today' \in Days /\ today \in Days
  BY DEF Midnight, cpVars, agentVars, TableInv, Days
<1>2. today \in Int /\ \A i \in DOMAIN runs : runs[i].day \in Int
  <2>1. \A i \in DOMAIN runs : runs[i] \in Row
    BY RowTypes
  <2> QED BY <1>1, <2>1 DEF Row, Days
<1>3. TableOK(runs, today)'
  BY <1>1, <1>2 DEF TableInv, TableOK, RestoresIn
<1>4. TableInv'
  BY <1>1, <1>3 DEF TableInv
<1>5. SchedInv'
  <2>1. \A r \in Replicas : sched[r].day \in Int /\ sched[r].day <= today
    BY DEF SchedInv, Days
  <2> QED BY <1>1, <1>2, <2>1 DEF SchedInv
<1>6. RunsGrow
  BY <1>1 DEF RunsGrow
<1>7. AgentInv'
  BY <1>1, <1>6, AgentsKept
<1> QED BY <1>1, <1>4, <1>5, <1>7 DEF RepoInv, VerifyInv, RestoreLoadsPinned, RecordedOn, BackupsOf, Recorded

\* Reading what is due keeps the invariant.
LEMMA ReadDueStep == ASSUME BackupsInv, NEW r \in Replicas, ReadDue(r) PROVE BackupsInv'
<1> USE DEF BackupsInv
<1>1. UNCHANGED <<today, runs, finished, alerts, agent, repo, dumps, target>>
  BY DEF ReadDue, agentVars
<1>2. PICK day : sched' = [sched EXCEPT ![r] = [pc |-> "insert", day |-> today,
                        backup |-> BackupDue(day), verify |-> VerifyDue(day)]]
  BY DEF ReadDue
<1>3. BackupDue(day) \in BOOLEAN /\ VerifyDue(day) \in BOOLEAN
  BY Zenon DEF BackupDue, VerifyDue
<1>4. today \in Days /\ today <= today
  BY DEF TableInv, Days
<1>5. SchedInv'
  BY <1>1, <1>2, <1>3, <1>4 DEF SchedInv
<1>6. RunsGrow
  BY <1>1 DEF RunsGrow
<1>7. AgentInv'
  BY <1>1, <1>6, AgentsKept
<1> QED BY <1>1, <1>5, <1>7 DEF TableInv, TableOK, RestoresIn, RepoInv, VerifyInv, RestoreLoadsPinned,
                                RecordedOn, BackupsOf, Recorded

\* The inserts of two replicas keep one row a day, whatever each has read.
LEMMA InsertDueStep == ASSUME BackupsInv, NEW r \in Replicas, InsertDue(r) PROVE BackupsInv'
<1> USE DEF BackupsInv
<1>0. UNCHANGED <<today, finished, alerts, agent, repo, dumps, target>>
  BY DEF InsertDue, agentVars
<1>1. sched[r].day \in Days /\ sched[r].day <= today /\ today \in Days /\ TableOK(runs, today)
  BY DEF SchedInv, TableInv
<1> DEFINE b == IF sched[r].backup THEN InsertDaily(runs, "backup", sched[r].day) ELSE runs
           c == IF sched[r].verify THEN InsertDaily(b, "verify", sched[r].day) ELSE b
<1>2. runs' = c
  BY DEF InsertDue
<1>3. TableOK(b, today) /\ Lengthens(runs, b)
  <2>1. CASE sched[r].backup
    BY <1>1, <2>1, InsertDailyTable DEF Scheduled
  <2>2. CASE ~sched[r].backup
    BY <1>1, <2>2 DEF Lengthens
  <2> QED BY <2>1, <2>2
<1> HIDE DEF b
<1>4. TableOK(c, today) /\ Lengthens(b, c)
  <2>1. CASE sched[r].verify
    BY <1>1, <1>3, <2>1, InsertDailyTable DEF Scheduled
  <2>2. CASE ~sched[r].verify
    BY <1>3, <2>2 DEF Lengthens
  <2> QED BY <2>1, <2>2
<1> HIDE DEF c
<1>5. /\ DOMAIN runs \subseteq DOMAIN runs' /\ \A i \in DOMAIN runs : runs'[i] = runs[i]
      /\ \A i \in DOMAIN runs' \ DOMAIN runs : runs'[i].status = "pending"
  BY <1>2, <1>3, <1>4 DEF Lengthens
<1>6. TableOK(runs, today)'
  BY <1>0, <1>2, <1>4 DEF TableOK, RestoresIn
<1>7. TableInv' /\ RunsGrow /\ VerifyInv' /\ RestoreLoadsPinned'
  BY <1>0, <1>5, <1>6, RowsAdded
<1>8. SchedInv'
  <2>1. sched' = [sched EXCEPT ![r] = [pc |-> "idle", day |-> 1, backup |-> FALSE, verify |-> FALSE]]
    BY DEF InsertDue
  <2>2. 1 \in Days /\ 1 <= today
    BY <1>1, BackupBounds DEF Days
  <2> QED BY <1>0, <2>1, <2>2 DEF SchedInv
<1>9. AgentInv'
  BY <1>0, <1>7, AgentsKept
<1> QED BY <1>0, <1>5, <1>7, <1>8, <1>9 DEF RepoInv

\* The sweep keeps the invariant.
LEMMA SweepStep == ASSUME BackupsInv, NEW i \in DOMAIN runs, SweepFail(i) PROVE BackupsInv'
<1> USE DEF BackupsInv
<1>1. UNCHANGED <<today, finished, sched, agent, repo, dumps, target>> /\ runs[i].status \in Open
      /\ runs' = [runs EXCEPT ![i].status = "failed"] /\ alerts' = alerts \cup {i}
  BY DEF SweepFail, Stale, agentVars, Open
<1>2. runs[i].dump \in Dumps \cup {None}
  <2>1. runs[i] \in Row
    BY RowTypes
  <2> QED BY <2>1 DEF Row
<1>3. Written(i, "failed", runs[i].dump)
  BY <1>1, WriteStatus DEF Settled
<1>4. TableInv' /\ RunsGrow /\ VerifyInv' /\ RestoreLoadsPinned'
  BY <1>1, <1>2, <1>3, RowWritten DEF Settled, Open
<1>5. AgentInv'
  BY <1>1, <1>4, AgentsKept
<1> QED BY <1>1, <1>3, <1>4, <1>5 DEF RepoInv, SchedInv, Written

\* A restore run pins the dump of a backup that succeeded.
LEMMA CreateRestoreStep == ASSUME BackupsInv, CreateRestoreRun PROVE BackupsInv'
<1> USE BackupBounds DEF BackupsInv
<1>1. UNCHANGED <<today, finished, alerts, sched, agent, repo, dumps, target>>
  BY DEF CreateRestoreRun, agentVars
<1>2. TableOK(runs, today) /\ today \in Days /\ runs \in Seq(Row) /\ Len(runs) \in Nat
      /\ DOMAIN runs = 1..Len(runs)
  BY DEF TableInv, TableOK
<1> DEFINE pin == LastFinished(Successes).dump
           row == NewRow("restore", today, pin)
<1>3. pin \in Dumps \cup {None}
  <2>1. finished \in Seq(Nat) /\ DOMAIN finished = 1..Len(finished) /\ Len(finished) \in Nat
    BY DEF TableInv
  <2>2. Successes \subseteq 0..Len(finished) /\ Successes # {}
    BY <2>1 DEF Successes, CreateRestoreRun
  <2>3. Max(Successes) \in Successes
    BY <2>1, <2>2, MaxIsMember
  <2>4. finished[Max(Successes)] \in DOMAIN runs
    BY <2>3 DEF Successes, TableInv
  <2>5. runs[finished[Max(Successes)]] \in Row
    BY <1>2, <2>4
  <2> QED BY <2>5 DEF LastFinished, Row
<1>4. runs' = Append(runs, row)
  BY DEF CreateRestoreRun
<1> HIDE DEF pin
<1>5. row \in Row /\ row.kind = "restore" /\ row.day = today /\ row.status = "pending" /\ row.dump = row.pin
  BY <1>2, <1>3 DEF NewRow, Row, Kinds, Open
<1> HIDE DEF row
<1>6. /\ runs' \in Seq(Row) /\ DOMAIN runs' = 1..(Len(runs) + 1)
      /\ runs'[Len(runs) + 1] = row /\ \A i \in DOMAIN runs : runs'[i] = runs[i]
  BY <1>2, <1>4, <1>5
<1>7. \A i \in DOMAIN runs' : i \in DOMAIN runs \/ i = Len(runs) + 1
  BY <1>2, <1>6
<1>8. Len(runs) + 1 \notin DOMAIN runs /\ DOMAIN runs \subseteq DOMAIN runs'
  BY <1>2, <1>6
<1>9. Cardinality(RestoresIn(runs)') <= MaxRestores
  <2>1. RestoresIn(runs)' = RestoresIn(runs) \cup {Len(runs) + 1}
    BY <1>5, <1>6, <1>7, <1>8 DEF RestoresIn
  <2>2. RowsSince("restore", 1) = RestoresIn(runs)
    <3>1. \A i \in DOMAIN runs : runs[i] \in Row
      BY RowTypes
    <3>2. \A i \in DOMAIN runs : runs[i].day >= 1
      BY <3>1 DEF Row, Days
    <3> QED BY <3>2 DEF RowsSince, RestoresIn
  <2>3. Cardinality(RestoresIn(runs)) < MaxRestores
    BY <2>2 DEF CreateRestoreRun
  <2>4. IsFiniteSet(RestoresIn(runs))
    <3>1. IsFiniteSet(1..Len(runs))
      <4>1. 1 \in Int /\ Len(runs) \in Int
        BY <1>2
      <4> QED BY <4>1, FS_Interval, Zenon
    <3>2. RestoresIn(runs) \in SUBSET (1..Len(runs))
      BY <1>2 DEF RestoresIn
    <3> QED BY <3>1, <3>2, FS_Subset, Zenon
  <2>5. Cardinality(RestoresIn(runs) \cup {Len(runs) + 1}) =
          IF Len(runs) + 1 \in RestoresIn(runs) THEN Cardinality(RestoresIn(runs))
          ELSE Cardinality(RestoresIn(runs)) + 1
    BY <2>4, FS_AddElement, Zenon
  <2>6. Cardinality(RestoresIn(runs)) \in Nat
    BY <2>4, FS_CardinalityType, Zenon
  <2> QED BY <2>1, <2>3, <2>5, <2>6
<1>10. TableOK(runs, today)'
  <2>1. \A i \in DOMAIN runs' : runs'[i].day <= today /\ (runs'[i].status \in Open => runs'[i].dump = runs'[i].pin)
    BY <1>2, <1>5, <1>6, <1>7 DEF TableOK, Days
  <2>2. \A i, j \in DOMAIN runs' :
           (/\ runs'[i].kind \in Scheduled /\ runs'[i].kind = runs'[j].kind
            /\ runs'[i].day = runs'[j].day) => i = j
    BY <1>2, <1>5, <1>6, <1>7 DEF TableOK, Scheduled
  <2> QED BY <1>1, <1>6, <1>9, <2>1, <2>2 DEF TableOK
<1>11. TableInv' /\ RunsGrow /\ VerifyInv' /\ RestoreLoadsPinned'
  <2>1. \A i \in DOMAIN runs' \ DOMAIN runs : runs'[i].status = "pending"
    BY <1>5, <1>6, <1>7
  <2> QED BY <1>1, <1>6, <1>8, <1>10, <2>1, RowsAdded
<1>12. AgentInv'
  BY <1>1, <1>11, AgentsKept
<1> QED BY <1>1, <1>8, <1>11, <1>12 DEF RepoInv, SchedInv

----------------------------------------------------------------------------
(* The steps of an agent.                                                  *)

\* The move of one agent, whatever it writes to the table and the repository.
LEMMA AgentMoved ==
  ASSUME BackupsInv, NEW s \in Servers, NEW a \in AgentRec, agent' = [agent EXCEPT ![s] = a],
         AgentOK(a), OutcomeOK(a),
         TableInv', RunsGrow, VerifyInv', RestoreLoadsPinned', DOMAIN runs' = DOMAIN runs,
         UNCHANGED <<today, sched, target>>,
         repo' \subseteq [dump : Dumps, day : Days], dumps' \in 0..MaxDumps
  PROVE  BackupsInv'
<1> USE DEF BackupsInv
<1>1. Becomes(s, a)
  BY DEF Becomes, AgentInv
<1>2. AgentOK(a)'
  <2>1. \A op : OpOK(op) => OpOK(op)'
    BY OpsKept
  <2> QED BY <2>1 DEF AgentOK
<1>3. OutcomeOK(a)'
  BY DEF OutcomeOK
<1>4. \A r \in Servers : r # s => OutcomeOK(agent[r])'
  BY <1>1 DEF OutcomeOK, AgentInv, Becomes
<1>5. AgentInv'
  BY <1>1, <1>2, <1>3, <1>4, AgentMoves
<1> QED BY <1>5 DEF SchedInv, RepoInv

\* The same when the table stays as it is.
LEMMA AgentAlone ==
  ASSUME BackupsInv, NEW s \in Servers, NEW a \in AgentRec, agent' = [agent EXCEPT ![s] = a],
         AgentOK(a), OutcomeOK(a),
         UNCHANGED <<today, cpVars, target>>,
         repo' \subseteq [dump : Dumps, day : Days], dumps' \in 0..MaxDumps
  PROVE  BackupsInv'
<1>1. RunsGrow /\ DOMAIN runs' = DOMAIN runs /\ UNCHANGED <<runs, finished, alerts, sched>>
  BY DEF RunsGrow, cpVars
<1>2. TableInv' /\ VerifyInv' /\ RestoreLoadsPinned'
  BY <1>1 DEF BackupsInv, TableInv, TableOK, RestoresIn, VerifyInv, RestoreLoadsPinned,
              RecordedOn, BackupsOf, Recorded
<1> QED BY <1>1, <1>2, AgentMoved

\* An idle agent has nothing to be wrong about.
LEMMA IdleAgent == Idle \in AgentRec /\ AgentOK(Idle) /\ OutcomeOK(Idle)
BY DEF Idle, AgentRec, AgentOK, OutcomeOK, Failure, Outcome

\* What the document of a server carries is right when it is rendered.
LEMMA RenderedRight ==
  ASSUME BackupsInv, NEW s \in Servers
  PROVE  RenderedOps(s) \subseteq Op /\ \A op \in RenderedOps(s) : OpOK(op)
<1> USE DEF BackupsInv
<1> SUFFICES ASSUME NEW i \in OpenRuns(s), runs[i].kind = "verify" => ExpectedDump(i) # None
             PROVE  LET op == [run |-> i, kind |-> runs[i].kind, dump |-> ExpectedDump(i), dep |-> Dependency(s, i)]
                    IN  op \in Op /\ OpOK(op)
  BY DEF RenderedOps
<1>1. i \in DOMAIN runs /\ i \in RunIds /\ runs[i] \in Row /\ runs[i].status \in Open
  BY RowTypes DEF OpenRuns
<1>2. Dependency(s, i) \in RunIds \cup {None}
  <2> DEFINE B == {b \in OpenRuns(s) : runs[b].kind = "backup"}
  <2>1. B \subseteq RunIds
    BY RowTypes DEF OpenRuns
  <2>2. B \subseteq 0..MaxRuns /\ MaxRuns \in Nat
    BY <2>1, BackupBounds DEF RunIds, MaxRuns
  <2>3. B # {} => Max(B) \in B
    BY <2>2, MaxIsMember
  <2> HIDE DEF B
  <2>4. Dependency(s, i) = IF runs[i].kind = "verify" /\ B # {} THEN Max(B) ELSE None
    BY DEF Dependency, B
  <2> QED BY <2>1, <2>3, <2>4
<1>3. CASE runs[i].kind # "verify"
  <2>1. ExpectedDump(i) = runs[i].dump
    BY <1>3 DEF ExpectedDump
  <2>2. runs[i].dump \in Dumps \cup {None} /\ runs[i].kind \in Kinds
    BY <1>1 DEF Row
  <2>3. runs[i].dump = runs[i].pin
    BY <1>1 DEF TableInv, TableOK
  <2> QED BY <1>1, <1>2, <1>3, <2>1, <2>2, <2>3 DEF OpOK, Op
<1>4. CASE runs[i].kind = "verify"
  <2> DEFINE K == {k \in Successes : runs[finished[k]].day = runs[i].day}
  <2>1. K # {} /\ ExpectedDump(i) = runs[finished[Max(K)]].dump
    BY <1>4 DEF ExpectedDump, LastFinished
  <2>2. finished \in Seq(Nat) /\ DOMAIN finished = 1..Len(finished) /\ Len(finished) \in Nat
    BY DEF TableInv
  <2>3. K \subseteq 0..Len(finished)
    BY <2>2 DEF Successes
  <2>4. Max(K) \in K
    BY <2>1, <2>2, <2>3, MaxIsMember
  <2> DEFINE b == finished[Max(K)]
  <2>5. b \in DOMAIN runs /\ runs[b].kind = "backup" /\ runs[b].status = "success" /\ runs[b].day = runs[i].day
    BY <2>4 DEF Successes, TableInv
  <2>6. ExpectedDump(i) = runs[b].dump /\ runs[b].dump # None
    BY <1>4, <2>1
  <2> HIDE DEF b
  <2>7. RecordedOn(runs[i].day, ExpectedDump(i))
    BY <2>5, <2>6 DEF RecordedOn, BackupsOf, Recorded
  <2>8. runs[b] \in Row
    BY <2>5, RowTypes
  <2>9. ExpectedDump(i) \in Dumps \cup {None} /\ runs[i].kind \in Kinds
    BY <1>1, <2>6, <2>8 DEF Row
  <2> HIDE DEF K
  <2> QED BY <1>1, <1>2, <1>4, <2>7, <2>9 DEF OpOK, Op
<1> QED BY <1>3, <1>4

\* A new document is taken, a pass ends, or the process dies.
LEMMA PassStep ==
  ASSUME BackupsInv, NEW s \in Servers, StartPass(s) \/ EndPass(s) \/ Crash(s)
  PROVE  BackupsInv'
<1>1. /\ UNCHANGED <<today, cpVars, target>> /\ repo' \subseteq [dump : Dumps, day : Days]
      /\ dumps' \in 0..MaxDumps
  BY DEF StartPass, EndPass, Crash, BackupsInv, RepoInv
<1>2. CASE StartPass(s)
  <2>1. PICK a : a = [Idle EXCEPT !.pc = "pass", !.todo = RenderedOps(s)]
    OBVIOUS
  <2>2. RenderedOps(s) \subseteq Op /\ \A op \in RenderedOps(s) : OpOK(op)
    BY RenderedRight
  <2>3. a \in AgentRec /\ a.pc = "pass" /\ a.todo = RenderedOps(s) /\ a.bad = {}
    BY <2>1, <2>2, IdleAgent DEF AgentRec, Idle
  <2>4. AgentOK(a) /\ OutcomeOK(a)
    BY <2>2, <2>3 DEF AgentOK, OutcomeOK
  <2>5. agent' = [agent EXCEPT ![s] = a]
    BY <1>2, <2>1 DEF StartPass
  <2> QED BY <1>1, <2>3, <2>4, <2>5, AgentAlone
<1>3. CASE EndPass(s) \/ Crash(s)
  <2>1. PICK a : a = Idle
    OBVIOUS
  <2>2. agent' = [agent EXCEPT ![s] = a]
    BY <1>3, <2>1 DEF EndPass, Crash
  <2> QED BY <1>1, <2>1, <2>2, IdleAgent, AgentAlone
<1> QED BY <1>2, <1>3

\* What an agent holds, spelled out.
LEMMA AgentHolds ==
  ASSUME BackupsInv, NEW s \in Servers
  PROVE  /\ agent[s] \in AgentRec /\ AgentOK(agent[s]) /\ OutcomeOK(agent[s])
         /\ agent[s].todo \subseteq Op /\ agent[s].cur \in Op \cup {NoOp} /\ agent[s].out \in Outcome
         /\ agent[s].bad \subseteq Nat
BY DEF BackupsInv, AgentInv, AgentRec

\* An outcome that may be recorded, recorded, overtaken by a sweep or lost.
LEMMA ResultStep ==
  ASSUME BackupsInv, NEW i \in DOMAIN runs, NEW out \in Outcome,
         out.ok /\ runs[i].kind = "verify" => RecordedOn(runs[i].day, out.dump),
         out.ok /\ runs[i].kind = "restore" => target[i] = runs[i].pin,
         SetBackupRunResult(i, out) \/ RecordedThenSwept(i, out) \/ UNCHANGED <<runs, finished, alerts>>,
         UNCHANGED <<today, target>>
  PROVE  TableInv' /\ RunsGrow /\ VerifyInv' /\ RestoreLoadsPinned' /\ DOMAIN runs' = DOMAIN runs
<1>0. out.ok \in BOOLEAN /\ out.dump \in Dumps \cup {None}
  BY DEF Outcome
<1>1. CASE UNCHANGED <<runs, finished, alerts>>
  BY <1>1 DEF BackupsInv, RunsGrow, TableInv, TableOK, RestoresIn, VerifyInv, RestoreLoadsPinned,
              RecordedOn, BackupsOf, Recorded
<1>2. CASE SetBackupRunResult(i, out) /\ IsOpen(i)
  <2>1. PICK st : st = IF out.ok THEN "success" ELSE "failed"
    OBVIOUS
  <2>2. st \in Open \cup Settled /\ st \notin Open /\ (st = "success" => out.ok)
    BY <2>1 DEF Open, Settled
  <2>3. runs[i].status \in Open
    BY <1>2 DEF IsOpen
  <2>4. runs' = [runs EXCEPT ![i].status = st, ![i].dump = out.dump]
    BY <1>2, <2>1 DEF SetBackupRunResult
  <2>5. TableInv
    BY DEF BackupsInv
  <2>6. PICK d : d = out.dump
    OBVIOUS
  <2>7. Written(i, st, d)
    BY <1>0, <2>2, <2>4, <2>5, <2>6, WriteResult
  <2>8. alerts' \subseteq alerts \cup {i}
    BY <1>2 DEF SetBackupRunResult
  <2>9. finished' = finished \/ (finished' = Append(finished, i) /\ runs[i].kind = "backup")
    BY <1>2 DEF SetBackupRunResult
  <2>10. d \in Dumps \cup {None}
    BY <1>0, <2>6
  <2>11. /\ st = "success" /\ runs[i].kind = "verify" => RecordedOn(runs[i].day, d)
         /\ st = "success" /\ runs[i].kind = "restore" => target[i] = runs[i].pin
    BY <2>2, <2>6
  <2>12. TableInv' /\ RunsGrow /\ VerifyInv' /\ RestoreLoadsPinned'
    BY <2>2, <2>3, <2>7, <2>8, <2>9, <2>10, <2>11, RowWritten
  <2> QED BY <2>7, <2>12 DEF Written
<1>3. CASE SetBackupRunResult(i, out) /\ ~IsOpen(i)
  BY <1>1, <1>3 DEF SetBackupRunResult
<1>4. CASE RecordedThenSwept(i, out)
  <2>1. /\ runs[i].status \in Open /\ "failed" \in Open \cup Settled /\ "failed" \notin Open
        /\ runs' = [runs EXCEPT ![i].status = "failed", ![i].dump = out.dump]
        /\ alerts' = alerts \cup {i} /\ finished' = finished
    BY <1>4 DEF RecordedThenSwept, Stale, Open, Settled
  <2>2. PICK d : d = out.dump
    OBVIOUS
  <2>3. TableInv
    BY DEF BackupsInv
  <2>4. Written(i, "failed", d)
    BY <1>0, <2>1, <2>2, <2>3, WriteResult
  <2>5. d \in Dumps \cup {None}
    BY <1>0, <2>2
  <2>6. TableInv' /\ RunsGrow /\ VerifyInv' /\ RestoreLoadsPinned'
    BY <2>1, <2>4, <2>5, RowWritten
  <2> QED BY <2>4, <2>6 DEF Written
<1> QED BY <1>1, <1>2, <1>3, <1>4

\* An op leaves the pass: skipped, refused, found settled or started.
LEMMA OpStep ==
  ASSUME BackupsInv, NEW s \in Servers, NEW op \in agent[s].todo,
         SkipOp(s, op) \/ RefuseOp(s, op) \/ FetchCredential(s, op)
  PROVE  BackupsInv'
<1>1. /\ agent[s] \in AgentRec /\ AgentOK(agent[s]) /\ agent[s].pc = "pass"
      /\ UNCHANGED <<today, sched, target>> /\ repo' \subseteq [dump : Dumps, day : Days]
      /\ dumps' \in 0..MaxDumps
  BY AgentHolds DEF SkipOp, RefuseOp, FetchCredential, Ready, BackupsInv, RepoInv, cpVars
<1>2. /\ op \in Op /\ OpOK(op) /\ op.run \in DOMAIN runs /\ op.run \in Nat
      /\ agent[s].bad \subseteq DOMAIN runs /\ \A o \in agent[s].todo : OpOK(o)
  <2>1. op \in Op /\ OpOK(op) /\ op.run \in DOMAIN runs
    BY <1>1 DEF AgentOK, OpOK
  <2>2. op.run \in Nat
    BY <2>1 DEF Op, RunIds
  <2> QED BY <1>1, <2>1, <2>2 DEF AgentOK
<1>3. CASE SkipOp(s, op) \/ RefuseOp(s, op)
  <2>1. PICK a : a = [agent[s] EXCEPT !.todo = @ \ {op}, !.bad = @ \cup {op.run}]
    OBVIOUS
  <2>2. agent' = [agent EXCEPT ![s] = a]
    <3>1. agent \in [Servers -> AgentRec]
      BY DEF BackupsInv, AgentInv
    <3>2. agent' = [agent EXCEPT ![s].todo = @ \ {op}, ![s].bad = @ \cup {op.run}]
      BY <1>3 DEF SkipOp, RefuseOp, OpFails
    <3> QED BY <1>1, <2>1, <3>1, <3>2
  <2>3. /\ a \in AgentRec /\ a.pc = "pass" /\ a.todo = agent[s].todo \ {op}
        /\ a.bad = agent[s].bad \cup {op.run}
    BY <1>1, <1>2, <2>1 DEF AgentRec
  <2>4. AgentOK(a) /\ OutcomeOK(a)
    BY <1>2, <2>3 DEF AgentOK, OutcomeOK
  <2>5. CASE SkipOp(s, op)
    <3>1. UNCHANGED cpVars
      BY <2>5 DEF SkipOp
    <3> QED BY <1>1, <2>2, <2>3, <2>4, <3>1, AgentAlone
  <2>6. CASE RefuseOp(s, op)
    <3>1. SetBackupRunResult(op.run, Failure) \/ UNCHANGED <<runs, finished, alerts>>
      BY <2>6 DEF RefuseOp, OpStatusFails
    <3>2. Failure \in Outcome /\ Failure.ok = FALSE
      BY DEF Failure, Outcome
    <3>3. PICK i, out : i = op.run /\ out = Failure
      OBVIOUS
    <3>4. TableInv' /\ RunsGrow /\ VerifyInv' /\ RestoreLoadsPinned' /\ DOMAIN runs' = DOMAIN runs
      BY <1>1, <1>2, <3>1, <3>2, <3>3, ResultStep
    <3> QED BY <1>1, <2>2, <2>3, <2>4, <3>4, AgentMoved
  <2> QED BY <1>3, <2>5, <2>6
<1>4. CASE FetchCredential(s, op) /\ ~IsOpen(op.run)
  <2>1. PICK a : a = [agent[s] EXCEPT !.todo = @ \ {op}]
    OBVIOUS
  <2>2. agent' = [agent EXCEPT ![s] = a] /\ UNCHANGED cpVars
    BY <1>4, <2>1 DEF FetchCredential, cpVars
  <2>3. a \in AgentRec /\ a.pc = "pass" /\ a.todo = agent[s].todo \ {op} /\ a.bad = agent[s].bad
    BY <1>1, <2>1 DEF AgentRec
  <2>4. AgentOK(a) /\ OutcomeOK(a)
    BY <1>2, <2>3 DEF AgentOK, OutcomeOK
  <2> QED BY <1>1, <2>2, <2>3, <2>4, AgentAlone
<1>5. CASE FetchCredential(s, op) /\ IsOpen(op.run)
  <2>1. PICK a : a = [agent[s] EXCEPT !.pc = "work", !.todo = @ \ {op}, !.cur = op]
    OBVIOUS
  <2>2. agent' = [agent EXCEPT ![s] = a]
    <3>1. agent \in [Servers -> AgentRec]
      BY DEF BackupsInv, AgentInv
    <3>2. agent' = [agent EXCEPT ![s].pc = "work", ![s].todo = @ \ {op}, ![s].cur = op]
      BY <1>5 DEF FetchCredential
    <3> QED BY <1>1, <2>1, <3>1, <3>2
  <2>3. /\ a \in AgentRec /\ a.pc = "work" /\ a.todo = agent[s].todo \ {op} /\ a.bad = agent[s].bad
        /\ a.cur = op
    BY <1>1, <1>2, <2>1 DEF AgentRec
  <2>4. AgentOK(a) /\ OutcomeOK(a)
    BY <1>2, <2>3 DEF AgentOK, OutcomeOK
  <2>5. PICK i, d : i = op.run /\ d = runs[op.run].dump
    OBVIOUS
  <2>6. /\ i \in DOMAIN runs /\ runs[i].status \in Open /\ runs' = [runs EXCEPT ![i].status = "running"]
        /\ UNCHANGED <<finished, alerts>> /\ "running" \in Open
    BY <1>2, <1>5, <2>5 DEF FetchCredential, IsOpen, Open
  <2>7. d \in Dumps \cup {None} /\ TableInv
    <3>1. TableInv
      BY DEF BackupsInv
    <3>2. runs[i] \in Row
      BY <2>6, <3>1, RowTypes
    <3> QED BY <2>5, <3>1, <3>2 DEF Row
  <2>8. Written(i, "running", d)
    BY <2>5, <2>6, <2>7, WriteStatus
  <2>9. TableInv' /\ RunsGrow /\ VerifyInv' /\ RestoreLoadsPinned'
    BY <1>1, <2>5, <2>6, <2>7, <2>8, RowWritten
  <2>10. DOMAIN runs' = DOMAIN runs
    BY <2>8 DEF Written
  <2> QED BY <1>1, <2>2, <2>3, <2>4, <2>9, <2>10, AgentMoved
<1> QED BY <1>3, <1>4, <1>5

\* An agent at work, with its op still in hand, comes to an outcome.
LEMMA OutcomeStep ==
  ASSUME BackupsInv, NEW s \in Servers, agent[s].pc = "work", NEW out \in Outcome, Done(s, out),
         out.ok /\ agent[s].cur.kind = "verify" => out.dump = agent[s].cur.dump,
         out.ok /\ agent[s].cur.kind = "restore" => target[agent[s].cur.run] = agent[s].cur.dump,
         UNCHANGED <<today, cpVars, target>>,
         repo' \subseteq [dump : Dumps, day : Days], dumps' \in 0..MaxDumps
  PROVE  BackupsInv'
<1>1. agent[s] \in AgentRec /\ AgentOK(agent[s])
  BY AgentHolds
<1>2. PICK a : a = [agent[s] EXCEPT !.pc = "report", !.out = out]
  OBVIOUS
<1>3. agent' = [agent EXCEPT ![s] = a]
  <2>1. agent \in [Servers -> AgentRec]
    BY DEF BackupsInv, AgentInv
  <2> QED BY <1>1, <1>2, <2>1 DEF Done
<1>4. /\ a \in AgentRec /\ a.pc = "report" /\ a.todo = agent[s].todo /\ a.bad = agent[s].bad
      /\ a.cur = agent[s].cur /\ a.out = out
  BY <1>1, <1>2 DEF AgentRec
<1>5. AgentOK(a) /\ OutcomeOK(a)
  BY <1>1, <1>4 DEF AgentOK, OutcomeOK
<1> QED BY <1>3, <1>4, <1>5, AgentAlone

\* A failure is an outcome, and so is a success with a dump.
LEMMA Outcomes ==
  /\ Failure \in Outcome /\ Failure.ok = FALSE
  /\ \A d \in Dumps \cup {None} : Success(d) \in Outcome /\ Success(d).ok = TRUE /\ Success(d).dump = d
BY DEF Failure, Success, Outcome

\* A dump taken, whole or truncated.
LEMMA TakeDumpStep == ASSUME BackupsInv, NEW s \in Servers, TakeDump(s) PROVE BackupsInv'
<1>1. /\ agent[s].pc = "work" /\ agent[s].cur.kind = "backup" /\ UNCHANGED <<today, cpVars, target>>
      /\ repo \subseteq [dump : Dumps, day : Days] /\ dumps \in 0..MaxDumps /\ today \in Days
  BY DEF TakeDump, Working, BackupsInv, RepoInv, TableInv
<1>2. PICK f : f = Failure
  OBVIOUS
<1>3. f \in Outcome /\ f.ok = FALSE
  BY <1>2, Outcomes
<1>4. CASE Done(s, Failure) /\ UNCHANGED <<repo, dumps>>
  BY <1>1, <1>2, <1>3, <1>4, OutcomeStep
<1>5. CASE dumps < MaxDumps /\ dumps' = dumps + 1 /\ repo' = repo \cup {[dump |-> dumps', day |-> today]}
  <2>1. dumps' \in Dumps /\ dumps' \in 0..MaxDumps
    BY <1>1, <1>5, BackupBounds DEF Dumps
  <2>2. repo' \subseteq [dump : Dumps, day : Days]
    BY <1>1, <1>5, <2>1
  <2>3. CASE Done(s, Failure)
    BY <1>1, <1>2, <1>3, <2>1, <2>2, <2>3, OutcomeStep
  <2>4. CASE agent' = [agent EXCEPT ![s].pc = "forget", ![s].out = Success(dumps')]
    <3>1. PICK out : out = Success(dumps')
      OBVIOUS
    <3>2. out \in Outcome
      BY <2>1, <3>1, Outcomes
    <3>3. agent[s] \in AgentRec /\ AgentOK(agent[s])
      BY AgentHolds
    <3>4. PICK a : a = [agent[s] EXCEPT !.pc = "forget", !.out = out]
      OBVIOUS
    <3>5. agent' = [agent EXCEPT ![s] = a]
      <4>1. agent \in [Servers -> AgentRec]
        BY DEF BackupsInv, AgentInv
      <4> QED BY <2>4, <3>1, <3>3, <3>4, <4>1
    <3>6. /\ a \in AgentRec /\ a.pc = "forget" /\ a.todo = agent[s].todo /\ a.bad = agent[s].bad
          /\ a.cur = agent[s].cur
      BY <3>2, <3>3, <3>4 DEF AgentRec
    <3>7. AgentOK(a) /\ OutcomeOK(a)
      BY <1>1, <3>3, <3>6 DEF AgentOK, OutcomeOK
    <3> QED BY <1>1, <2>1, <2>2, <3>5, <3>6, <3>7, AgentAlone
  <2> QED BY <1>5, <2>3, <2>4 DEF TakeDump
<1> QED BY <1>4, <1>5 DEF TakeDump

\* Retention, done or failed.
LEMMA ForgetStep == ASSUME BackupsInv, NEW s \in Servers, Forget(s) PROVE BackupsInv'
<1>1. /\ agent[s].pc = "forget" /\ UNCHANGED <<today, cpVars, target>>
      /\ repo \subseteq [dump : Dumps, day : Days] /\ dumps' \in 0..MaxDumps
      /\ agent[s] \in AgentRec /\ AgentOK(agent[s])
  BY AgentHolds DEF Forget, BackupsInv, RepoInv
<1>2. repo' \subseteq repo
  BY DEF Forget, Kept
<1>3. PICK a : a = [agent[s] EXCEPT !.pc = "report"]
  OBVIOUS
<1>4. agent' = [agent EXCEPT ![s] = a]
  BY <1>3 DEF Forget
<1>5. /\ a \in AgentRec /\ a.pc = "report" /\ a.todo = agent[s].todo /\ a.bad = agent[s].bad
      /\ a.cur = agent[s].cur /\ a.cur.kind = "backup"
  BY <1>1, <1>3 DEF AgentRec, AgentOK
<1>6. AgentOK(a) /\ OutcomeOK(a)
  BY <1>1, <1>5 DEF AgentOK, OutcomeOK
<1> QED BY <1>1, <1>2, <1>4, <1>5, <1>6, AgentAlone

\* The newest snapshot is one of the dumps.
LEMMA LatestIsADump == ASSUME BackupsInv PROVE Latest \in Dumps \cup {None}
<1> DEFINE D == {x.dump : x \in repo}
<1>1. repo \subseteq [dump : Dumps, day : Days]
  BY DEF BackupsInv, RepoInv
<1>2. D \subseteq Dumps /\ (repo # {} => D # {})
  BY <1>1
<1>3. D \subseteq 0..MaxDumps /\ MaxDumps \in Nat
  BY <1>2, BackupBounds DEF Dumps
<1>4. Latest = IF repo = {} THEN None ELSE Max(D)
  BY DEF Latest
<1> HIDE DEF D
<1>5. D # {} => Max(D) \in D
  BY <1>3, MaxIsMember
<1> QED BY <1>2, <1>4, <1>5

\* A verify succeeds only on the dump it expects.
LEMMA VerifyDumpStep == ASSUME BackupsInv, NEW s \in Servers, VerifyDump(s) PROVE BackupsInv'
<1>1. /\ agent[s].pc = "work" /\ agent[s].cur.kind = "verify" /\ UNCHANGED <<today, cpVars, target>>
      /\ repo' \subseteq [dump : Dumps, day : Days] /\ dumps' \in 0..MaxDumps /\ OpOK(agent[s].cur)
  BY AgentHolds DEF VerifyDump, Working, BackupsInv, RepoInv, AgentOK
<1>2. PICK f : f = Failure
  OBVIOUS
<1>3. f \in Outcome /\ f.ok = FALSE
  BY <1>2, Outcomes
<1>4. CASE Done(s, Failure)
  BY <1>1, <1>2, <1>3, <1>4, OutcomeStep
<1>5. CASE ChecksumOk(agent[s].cur, Latest) /\ Done(s, Success(Latest))
  <2>1. agent[s].cur.dump # None
    BY <1>1 DEF OpOK, RecordedOn
  <2>2. Latest = agent[s].cur.dump
    BY <1>5, <2>1 DEF ChecksumOk
  <2>3. PICK out : out = Success(Latest)
    OBVIOUS
  <2>4. out \in Outcome /\ out.dump = Latest
    BY <2>3, LatestIsADump, Outcomes
  <2>5. Done(s, out)
    BY <1>5, <2>3
  <2> QED BY <1>1, <2>2, <2>4, <2>5, OutcomeStep
<1> QED BY <1>4, <1>5 DEF VerifyDump

\* A restore writes the dump its row pins, whichever attempt writes it.
LEMMA RestoreDumpStep == ASSUME BackupsInv, NEW s \in Servers, RestoreDump(s) PROVE BackupsInv'
<1>1. /\ agent[s].pc = "work" /\ agent[s].cur.kind = "restore" /\ UNCHANGED <<today, cpVars>>
      /\ repo' \subseteq [dump : Dumps, day : Days] /\ dumps' \in 0..MaxDumps
      /\ agent[s] \in AgentRec /\ AgentOK(agent[s]) /\ OpOK(agent[s].cur)
  BY AgentHolds DEF RestoreDump, Working, BackupsInv, RepoInv, AgentOK
<1>2. PICK f : f = Failure
  OBVIOUS
<1>3. f \in Outcome /\ f.ok = FALSE
  BY <1>2, Outcomes
<1>4. CASE Done(s, Failure) /\ UNCHANGED target
  BY <1>1, <1>2, <1>3, <1>4, OutcomeStep
<1>5. CASE /\ RestoreSource(agent[s].cur) # None
           /\ target' = [target EXCEPT ![agent[s].cur.run] = RestoreSource(agent[s].cur)]
           /\ Done(s, Success(RestoreSource(agent[s].cur))) \/ Done(s, Failure)
  <2>1. PICK op, src : op = agent[s].cur /\ src = RestoreSource(agent[s].cur)
    OBVIOUS
  <2>2. OpOK(op) /\ op \in Op /\ src = op.dump /\ src \in Dumps \cup {None} /\ op.kind = "restore"
    <3>1. OpOK(op) /\ op \in Op /\ src = op.dump /\ op.kind = "restore"
      BY <1>1, <1>5, <2>1 DEF RestoreSource, OpOK
    <3> QED BY <3>1 DEF Op
  <2>3. op.run \in DOMAIN runs /\ runs[op.run].kind = "restore" /\ op.dump = runs[op.run].pin /\ op.run \in RunIds
    BY <2>2 DEF OpOK, Op
  <2>4. PICK out : out \in {Success(src), Failure} /\ Done(s, out)
    BY <1>5, <2>1
  <2>5. out \in Outcome
    BY <2>2, <2>4, Outcomes
  <2>6. PICK a : a = [agent[s] EXCEPT !.pc = "report", !.out = out]
    OBVIOUS
  <2>7. agent' = [agent EXCEPT ![s] = a]
    <3>1. agent \in [Servers -> AgentRec]
      BY DEF BackupsInv, AgentInv
    <3> QED BY <1>1, <2>4, <2>6, <3>1 DEF Done
  <2>8. /\ a \in AgentRec /\ a.pc = "report" /\ a.todo = agent[s].todo /\ a.bad = agent[s].bad
        /\ a.cur = op /\ a.out = out
    BY <1>1, <2>1, <2>5, <2>6 DEF AgentRec
  <2>9. /\ target' \in [RunIds -> Dumps \cup {None}] /\ target'[op.run] = op.dump
        /\ \A i \in RunIds : i # op.run => target'[i] = target[i]
    BY <1>5, <2>1, <2>2, <2>3 DEF BackupsInv, RepoInv
  <2>10. RunsGrow /\ UNCHANGED <<runs, finished, alerts, sched>>
    BY <1>1 DEF RunsGrow, cpVars
  <2>11. \A o : OpOK(o) => OpOK(o)'
    BY <2>10, OpsKept
  <2>12. AgentOK(a)'
    BY <1>1, <2>2, <2>8, <2>10, <2>11 DEF AgentOK
  <2>13. OutcomeOK(a)'
    BY <2>2, <2>8, <2>9 DEF OutcomeOK
  <2>14. ASSUME NEW r \in Servers, r # s PROVE OutcomeOK(agent[r])'
    <3>1. agent'[r] = agent[r]
      BY <2>7, <2>14
    <3>2. OutcomeOK(agent[r]) /\ AgentOK(agent[r])
      BY AgentHolds
    <3>3. PICK b : b = agent[r]
      OBVIOUS
    <3>4. b.pc = "report" => OpOK(b.cur)
      BY <3>2, <3>3 DEF AgentOK
    <3>5. b.pc = "report" /\ b.cur.kind = "restore" => b.cur.run \in RunIds /\ b.cur.dump = runs[b.cur.run].pin
      BY <3>4 DEF OpOK, Op
    <3>6. OutcomeOK(b)'
      BY <2>3, <2>9, <3>2, <3>3, <3>5 DEF OutcomeOK
    <3> QED BY <3>1, <3>3, <3>6 DEF OutcomeOK
  <2>15. Becomes(s, a)
    BY <2>7, <2>8 DEF Becomes, BackupsInv, AgentInv
  <2>16. AgentInv'
    BY <2>10, <2>12, <2>13, <2>14, <2>15, AgentMoves DEF BackupsInv
  <2>17. RestoreLoadsPinned'
    <3>1. \A i \in DOMAIN runs : i \in RunIds
      BY RowTypes DEF BackupsInv
    <3> QED BY <2>3, <2>9, <2>10, <3>1 DEF RestoreLoadsPinned, BackupsInv
  <2>18. TableInv' /\ VerifyInv' /\ SchedInv'
    BY <1>1, <2>10 DEF BackupsInv, TableInv, TableOK, RestoresIn, VerifyInv, RecordedOn, BackupsOf, Recorded, SchedInv
  <2>19. RepoInv'
    BY <1>1, <2>3, <2>9, <2>10 DEF RepoInv, BackupsInv
  <2> QED BY <2>16, <2>17, <2>18, <2>19 DEF BackupsInv
<1> QED BY <1>4, <1>5 DEF RestoreDump

\* The report, recorded once, overtaken or lost.
LEMMA ReportStep == ASSUME BackupsInv, NEW s \in Servers, Report(s) PROVE BackupsInv'
<1>1. PICK i, out : i = agent[s].cur.run /\ out = agent[s].out
  OBVIOUS
<1>2. /\ agent[s] \in AgentRec /\ AgentOK(agent[s]) /\ OutcomeOK(agent[s]) /\ agent[s].pc = "report"
      /\ OpOK(agent[s].cur) /\ UNCHANGED <<today, sched, target>> /\ repo' \subseteq [dump : Dumps, day : Days]
      /\ dumps' \in 0..MaxDumps /\ out \in Outcome
  BY <1>1, AgentHolds DEF Report, AgentOK, BackupsInv, RepoInv
<1>3. i \in DOMAIN runs /\ i \in Nat /\ runs[i].kind = agent[s].cur.kind
  <2>1. i \in DOMAIN runs /\ runs[i].kind = agent[s].cur.kind /\ agent[s].cur \in Op
    BY <1>1, <1>2 DEF OpOK
  <2> QED BY <1>1, <2>1 DEF Op, RunIds
<1>4. /\ out.ok /\ runs[i].kind = "verify" => RecordedOn(runs[i].day, out.dump)
      /\ out.ok /\ runs[i].kind = "restore" => target[i] = runs[i].pin
  BY <1>1, <1>2, <1>3 DEF OpOK, OutcomeOK
<1>5. TableInv' /\ RunsGrow /\ VerifyInv' /\ RestoreLoadsPinned' /\ DOMAIN runs' = DOMAIN runs
  <2>1. CASE SetBackupRunResult(i, out) \/ RecordedThenSwept(i, out) \/ UNCHANGED <<runs, finished, alerts>>
    BY <1>2, <1>3, <1>4, <2>1, ResultStep
  <2>2. CASE SetBackupRunResult(i, Failure)
    <3>1. PICK f : f = Failure
      OBVIOUS
    <3>2. f \in Outcome /\ f.ok = FALSE
      BY <3>1, Outcomes
    <3> QED BY <1>2, <1>3, <2>2, <3>1, <3>2, ResultStep
  <2> QED BY <1>1, <2>1, <2>2 DEF Report, OpStatusFails
<1>6. PICK a : a = [agent[s] EXCEPT !.pc = "pass", !.cur = NoOp, !.out = Failure,
                                    !.bad = IF out.ok THEN @ ELSE @ \cup {i}]
  OBVIOUS
<1>7. agent' = [agent EXCEPT ![s] = a]
  <2>1. agent \in [Servers -> AgentRec]
    BY DEF BackupsInv, AgentInv
  <2>2. agent' = [agent EXCEPT ![s].pc = "pass", ![s].cur = NoOp, ![s].out = Failure,
                               ![s].bad = IF out.ok THEN @ ELSE @ \cup {i}]
    BY <1>1 DEF Report
  <2> QED BY <1>2, <1>6, <2>1, <2>2
<1>8. /\ a \in AgentRec /\ a.pc = "pass" /\ a.todo = agent[s].todo
      /\ a.bad = IF out.ok THEN agent[s].bad ELSE agent[s].bad \cup {i}
  BY <1>2, <1>3, <1>6, Outcomes DEF AgentRec
<1>9. AgentOK(a) /\ OutcomeOK(a)
  BY <1>2, <1>3, <1>8 DEF AgentOK, OutcomeOK
<1> QED BY <1>2, <1>5, <1>7, <1>8, <1>9, AgentMoved

----------------------------------------------------------------------------
(* Theorems of Backups.                                                    *)

\* Every step keeps the invariant.
LEMMA BackupsStep == BackupsInv /\ [Next]_vars => BackupsInv'
<1> SUFFICES ASSUME BackupsInv, [Next]_vars PROVE BackupsInv'
  OBVIOUS
<1>1. CASE UNCHANGED vars
  BY <1>1 DEF vars, BackupsInv, TableInv, TableOK, RestoresIn, SchedInv, AgentInv, AgentOK, OutcomeOK, OpOK,
              RepoInv, VerifyInv, RestoreLoadsPinned, RecordedOn, BackupsOf, Recorded
<1>2. CASE Midnight
  BY <1>2, MidnightStep
<1>3. ASSUME NEW r \in Replicas, ReadDue(r) \/ InsertDue(r) PROVE BackupsInv'
  BY <1>3, ReadDueStep, InsertDueStep
<1>4. ASSUME NEW i \in DOMAIN runs, SweepFail(i) PROVE BackupsInv'
  BY <1>4, SweepStep
<1>5. CASE CreateRestoreRun
  BY <1>5, CreateRestoreStep
<1>6. ASSUME NEW s \in Servers, AgentStep(s) \/ Crash(s) PROVE BackupsInv'
  <2>1. CASE StartPass(s) \/ EndPass(s) \/ Crash(s)
    BY <2>1, PassStep
  <2>2. ASSUME NEW op \in agent[s].todo, SkipOp(s, op) \/ RefuseOp(s, op) \/ FetchCredential(s, op)
        PROVE  BackupsInv'
    BY <2>2, OpStep
  <2>3. CASE TakeDump(s) \/ Forget(s) \/ VerifyDump(s) \/ RestoreDump(s) \/ Report(s)
    BY <2>3, TakeDumpStep, ForgetStep, VerifyDumpStep, RestoreDumpStep, ReportStep
  <2> QED BY <1>6, <2>1, <2>2, <2>3 DEF AgentStep
<1> QED BY <1>1, <1>2, <1>3, <1>4, <1>5, <1>6 DEF Next

\* The invariant holds in every state of every behaviour.
LEMMA BackupsInvHolds == Spec => []BackupsInv
BY BackupsInit, BackupsStep, PTL DEF Spec

\* Every variable of the backup tables, schedulers and agents holds a value of
\* its kind; in particular the table never outgrows two scheduled rows a day
\* and the restores asked for.
THEOREM BackupsTypeCorrect == Spec => []TypeOK
<1>1. BackupsInv => TypeOK
  <2> SUFFICES ASSUME BackupsInv PROVE TypeOK
    OBVIOUS
  <2>1. TableOK(runs, today) /\ today \in Days /\ alerts \subseteq DOMAIN runs
    BY DEF BackupsInv, TableInv
  <2>2. runs \in Seq(Row) /\ \A i \in DOMAIN runs : runs[i].day <= today
    BY <2>1 DEF TableOK
  <2>3. Len(runs) <= MaxRuns
    <3>1. DOMAIN runs \subseteq RunIds /\ DOMAIN runs = 1..Len(runs) /\ Len(runs) \in Nat
      BY <2>1, TableBounded, Zenon
    <3>2. MaxRuns \in Nat
      BY BackupBounds DEF MaxRuns
    <3>3. CASE Len(runs) = 0
      BY <3>2, <3>3
    <3>4. CASE Len(runs) # 0
      <4>1. Len(runs) \in RunIds
        BY <3>1, <3>4
      <4> QED BY <3>1, <3>2, <4>1 DEF RunIds
    <3> QED BY <3>3, <3>4
  <2>4. finished \in Seq(DOMAIN runs)
    <3>1. finished \in Seq(Nat) /\ \A k \in DOMAIN finished : finished[k] \in DOMAIN runs
      BY DEF BackupsInv, TableInv
    <3>2. Len(finished) \in Nat /\ DOMAIN finished = 1..Len(finished) /\ finished = [k \in 1..Len(finished) |-> finished[k]]
      BY <3>1
    <3> QED BY <3>1, <3>2
  <2>5. ASSUME NEW s \in Servers
        PROVE  /\ agent[s].pc \in {"idle", "pass", "work", "forget", "report"}
               /\ agent[s].todo \subseteq Op /\ agent[s].cur \in Op \cup {NoOp}
               /\ agent[s].bad \subseteq DOMAIN runs /\ agent[s].out \in Outcome
    <3>1. agent[s] \in AgentRec /\ AgentOK(agent[s])
      BY AgentHolds
    <3> QED BY <3>1 DEF AgentRec, AgentOK
  <2> QED BY <2>1, <2>2, <2>3, <2>4, <2>5 DEF TypeOK, BackupsInv, SchedInv, RepoInv
<1> QED BY <1>1, BackupsInvHolds, PTL

\* However many replicas sweep at once and however far their clocks are off, a
\* day has at most one backup row and one verify row.
THEOREM OneRunADayCorrect == Spec => []OneRunADay
<1>1. BackupsInv => OneRunADay
  BY DEF BackupsInv, TableInv, TableOK, OneRunADay
<1> QED BY <1>1, BackupsInvHolds, PTL

\* A day that VerifyDays counts as green has a recorded dump that a verify of
\* that day read back.
THEOREM GreenMeansRestorableCorrect == Spec => []GreenMeansRestorable
<1>1. BackupsInv => GreenMeansRestorable
  <2> SUFFICES ASSUME BackupsInv, NEW d \in Days, Green(d), NEW i \in VerifiesOf(d)
               PROVE  \E b \in BackupsOf(d) : Recorded(b) /\ runs[b].dump = runs[i].dump
    BY DEF GreenMeansRestorable
  <2>1. /\ i \in DOMAIN runs /\ runs[i].kind = "verify" /\ runs[i].day = d
        /\ runs[i].status \in Settled /\ runs[i].status # "failed"
    BY DEF VerifiesOf, Green
  <2>2. RecordedOn(d, runs[i].dump)
    BY <2>1 DEF Settled, BackupsInv, VerifyInv
  <2> QED BY <2>2 DEF RecordedOn
<1> QED BY <1>1, BackupsInvHolds, PTL

\* A restore target holds the dump its run was queued with or nothing, and a
\* restore that reads as a success did load it.
THEOREM RestoreLoadsPinnedCorrect == Spec => []RestoreLoadsPinned
BY BackupsInvHolds, PTL DEF BackupsInv
=============================================================================
