------------------------------- MODULE Archive -------------------------------
(***************************************************************************)
(* Continuous archiving and point-in-time recovery of one postgres          *)
(* database.                                                                *)
(*                                                                          *)
(*   cp/internal/store/backups.go  targets, policy, the PITR run            *)
(*   cp/internal/store/pitr.go     WAL targets, credentials, status         *)
(*   agent/internal/backup/wal.go  the WAL shipper                          *)
(*   agent/internal/backup/runner.go, restic.go, engine.go   base backups,  *)
(*                                 retention, recovery                      *)
(*                                                                          *)
(* Time is counted in segments: what is committed in (k-1, k] is in WAL     *)
(* segment k, which is closed at k, and the state at t holds the commits of *)
(* 1..t.  Shipper, base backup and recovery run in goroutines or on servers *)
(* of their own, each step of them at a time of its own.  Repository keys   *)
(* are in module Secrets, the runs of a base backup in module Backups.      *)
(***************************************************************************)
EXTENDS Integers, FiniteSets, FiniteSetsExt

CONSTANTS
    Targets,     \* ids of backup_targets
    ArchiveKeepDaily,   \* days of retention; a day here is one unit of time
    MaxTime,     \* bound: length of the history
    MaxUpsets    \* bound: edits of the policy, streams that break off, shippers that die

ASSUME ArchiveAssumption ==
    ArchiveKeepDaily \in Nat \ {0} /\ MaxTime \in Nat \ {0} /\ MaxUpsets \in Nat

VARIABLES
    now,
    targets,     \* targets that exist
    policy,      \* backup_policies: target ("none" for null) and pitr_enabled
    policyEdit,  \* an open UpdateBackupPolicy: what it will write
    spool,       \* closed segments in the spool of the container
    bundles,     \* "wal" snapshots: segments, time, whole or truncated
    bases,       \* "base" snapshots: begin and end, whole or truncated
    baseBegun,   \* begin of the base backup in progress, 0 for none
    goodBases,   \* finished_at of the successful basebackup runs
    shipper,     \* the shipper's step and the segments it listed
    lastShipped, \* wal_archive_status.last_shipped_at, 0 for none
    recovery,    \* the restore-pitr run
    upsets,      \* history: edits and broken streams so far
    forgotten    \* history: segments that retention dropped

archiveVars == <<now, targets, policy, policyEdit, spool, bundles, bases, baseBegun, goodBases,
                 shipper, lastShipped, recovery, upsets, forgotten>>
repoVars == <<spool, bundles, bases, baseBegun, goodBases, shipper, lastShipped, forgotten>>
policyVars == <<targets, policy, policyEdit>>

Times == 1..MaxTime
NoEdit == [open |-> FALSE, target |-> "none", pitr |-> FALSE]
IdleShipper == [pc |-> "idle", segs |-> {}]
NoRecovery == [pc |-> "none", target |-> 0, loaded |-> 0]

\* Time begins before anything is configured, or with archiving on.
ArchiveInit ==
    /\ now = 1
    /\ \/ targets = {} /\ policy = [target |-> "none", pitr |-> FALSE]
       \/ \E t \in Targets : targets = {t} /\ policy = [target |-> t, pitr |-> TRUE]
    /\ policyEdit = NoEdit
    /\ spool = {} /\ bundles = {} /\ bases = {} /\ baseBegun = 0 /\ goodBases = {}
    /\ shipper = IdleShipper /\ lastShipped = 0 /\ recovery = NoRecovery
    /\ upsets = 0 /\ forgotten = {}

ArchiveTypeOK ==
    /\ now \in Times /\ targets \subseteq Targets
    /\ policy \in [target : Targets \cup {"none"}, pitr : BOOLEAN]
    /\ policyEdit \in [open : BOOLEAN, target : Targets \cup {"none"}, pitr : BOOLEAN]
    /\ spool \subseteq Times /\ forgotten \subseteq Times
    /\ bundles \subseteq [segs : SUBSET Times, time : Times, whole : BOOLEAN]
    /\ bases \subseteq [begin : Times, end : Times, whole : BOOLEAN]
    /\ baseBegun \in 0..MaxTime /\ goodBases \subseteq Times
    /\ shipper \in [pc : {"idle", "listed", "stored"}, segs : SUBSET Times]
    /\ lastShipped \in 0..MaxTime /\ upsets \in 0..MaxUpsets
    /\ recovery \in [pc : {"none", "fresh", "empty", "queued", "done", "failed"}, target : 0..MaxTime,
                     loaded : 0..MaxTime]

Upset == upsets < MaxUpsets /\ upsets' = upsets + 1

-----------------------------------------------------------------------------
(* Targets and the policy.                                                   *)

CreateBackupTarget(t) ==
    /\ t \notin targets /\ targets' = targets \cup {t}
    /\ UNCHANGED <<now, policy, policyEdit, repoVars, recovery, upsets>>

\* Its own check, with the foreign key behind it, refuses a target in use.
DeleteBackupTarget(t) ==
    /\ t \in targets /\ policy.target # t
    /\ targets' = targets \ {t}
    /\ UNCHANGED <<now, policy, policyEdit, repoVars, recovery, upsets>>

\* Without a target point-in-time recovery is off.
PitrAfter(target, pitr) == pitr /\ target # "none"

\* UpdateBackupPolicy up to the write.  `target' and `pitr' are the values after
\* the request; turning recovery on without a target is refused.
UpdateBackupPolicy(target, pitr) ==
    /\ ~policyEdit.open /\ Upset
    /\ target \in targets \cup {"none"}
    /\ ~(pitr /\ ~policy.pitr /\ target = "none")
    /\ policyEdit' = [open |-> TRUE, target |-> target, pitr |-> PitrAfter(target, pitr)]
    /\ UNCHANGED <<now, targets, policy, repoVars, recovery>>

ForeignKey(t) == t \in targets \cup {"none"}

\* The write; the foreign key refuses a target that went in the meantime.
WritePolicy ==
    /\ policyEdit.open /\ policyEdit' = NoEdit
    /\ policy' = IF ForeignKey(policyEdit.target)
                 THEN [target |-> policyEdit.target, pitr |-> policyEdit.pitr] ELSE policy
    /\ UNCHANGED <<now, targets, repoVars, recovery, upsets>>

-----------------------------------------------------------------------------
(* Archiving.                                                                *)

\* Time: a segment closes; postgres drops it into the spool (archive_command,
\* by way of a .tmp file that the shipper passes over) when archiving is on.
SegmentCloses ==
    /\ now < MaxTime /\ now' = now + 1
    /\ spool' = IF policy.pitr THEN spool \cup {now} ELSE spool
    /\ UNCHANGED <<policyVars, bundles, bases, baseBegun, goodBases, shipper, lastShipped, forgotten,
                   recovery, upsets>>

\* The servers' shippers ask for the databases to ship.
WALTargetsForServer == policy.pitr /\ policy.target # "none"

listSegments == spool

\* shipOne: list.
ListWAL ==
    /\ WALTargetsForServer /\ shipper.pc = "idle" /\ listSegments # {}
    /\ shipper' = [pc |-> "listed", segs |-> listSegments]
    /\ UNCHANGED <<now, policyVars, spool, bundles, bases, baseBegun, goodBases, lastShipped, forgotten,
                   recovery, upsets>>

\* The credential comes from the policy as it is now; without it the cycle ends.
WALCredentialForResource == policy.pitr /\ policy.target # "none"

\* What a stream that breaks off leaves in the repository: nothing, or a snapshot
\* of what came through, for restic only sees the end of its input.
BrokenStream(snapshot) == {{}, {[snapshot EXCEPT !.whole = FALSE]}}

\* shipOne: tar the listed segments into the repository.
ShipWAL ==
    /\ shipper.pc = "listed"
    /\ LET bundle == [segs |-> shipper.segs, time |-> now, whole |-> TRUE] IN
       \/ /\ WALCredentialForResource
          /\ bundles' = bundles \cup {bundle}
          /\ shipper' = [shipper EXCEPT !.pc = "stored"]
          /\ UNCHANGED upsets
       \/ /\ WALCredentialForResource /\ Upset
          /\ \E left \in BrokenStream(bundle) : bundles' = bundles \cup left
          /\ shipper' = IdleShipper
       \/ /\ ~WALCredentialForResource
          /\ shipper' = IdleShipper
          /\ UNCHANGED <<bundles, upsets>>
    /\ UNCHANGED <<now, policyVars, spool, bases, baseBegun, goodBases, lastShipped, forgotten, recovery>>

\* Mutant: rm removes what is in the spool, not what was listed.
EmptiesSpool == {}

\* rm -f of exactly the listed segments.
SpoolAfterShip == spool \ shipper.segs

\* last_shipped_at is the control plane's clock when the report arrives.
SetWALStatus(at) == lastShipped' = Max({lastShipped, at})

\* shipOne: delete and report; either may fail on its own.
CleanSpool ==
    /\ shipper.pc = "stored"
    /\ shipper' = IdleShipper
    /\ \/ spool' = SpoolAfterShip /\ SetWALStatus(now) /\ UNCHANGED upsets
       \/ spool' = SpoolAfterShip /\ UNCHANGED lastShipped /\ Upset
       \/ spool' = spool /\ SetWALStatus(now) /\ Upset
    /\ UNCHANGED <<now, policyVars, bundles, bases, baseBegun, goodBases, forgotten, recovery>>

ShipperDies ==
    /\ shipper.pc # "idle" /\ Upset
    /\ shipper' = IdleShipper
    /\ UNCHANGED <<now, policyVars, spool, bundles, bases, baseBegun, goodBases, lastShipped, forgotten,
                   recovery>>

\* opBackupBase: pg_basebackup streams into the repository.
BeginBase ==
    /\ policy.pitr /\ baseBegun = 0
    /\ baseBegun' = now
    /\ UNCHANGED <<now, policyVars, spool, bundles, bases, goodBases, shipper, lastShipped, forgotten,
                   recovery, upsets>>

\* A stream that breaks off fails the run.
opBackupBase ==
    /\ baseBegun # 0 /\ baseBegun' = 0
    /\ LET base == [begin |-> baseBegun, end |-> now, whole |-> TRUE] IN
       \/ /\ bases' = bases \cup {base} /\ goodBases' = goodBases \cup {now}
          /\ UNCHANGED upsets
       \/ /\ Upset
          /\ \E left \in BrokenStream(base) : bases' = bases \cup left
          /\ UNCHANGED goodBases
    /\ UNCHANGED <<now, policyVars, spool, bundles, shipper, lastShipped, forgotten, recovery>>

\* forget --tag wal --group-by tags --keep-within: counted back from the newest
\* bundle.
resticForgetWAL ==
    LET newest == Max({b.time : b \in bundles})
    IN  {b \in bundles : b.time > newest - ArchiveKeepDaily}

\* forget --keep-daily: the newest base of each of the last ArchiveKeepDaily days that
\* have one.
resticForget ==
    LET days == {b.begin : b \in bases}
    IN  {b \in bases : Cardinality({d \in days : d > b.begin}) < ArchiveKeepDaily}

\* boundWALRetention: also after a dump that failed.
boundWALRetention ==
    /\ bundles # {}
    /\ bundles' = resticForgetWAL
    /\ forgotten' = forgotten \cup UNION {b.segs : b \in bundles \ bundles'}

\* The end of a dump run: the bases too when the dump is stored.
Retention(dumpOK) ==
    /\ boundWALRetention
    /\ bases' = IF dumpOK THEN resticForget ELSE bases
    /\ bundles' # bundles \/ bases' # bases
    /\ UNCHANGED <<now, policyVars, spool, baseBegun, goodBases, shipper, lastShipped, recovery, upsets>>

-----------------------------------------------------------------------------
(* Recovery.                                                                 *)

\* handleRestoreToTimestamp: a fresh database first, in a transaction of its own.
handleRestoreToTimestamp(t) ==
    /\ recovery.pc = "none"
    /\ recovery' = [pc |-> "fresh", target |-> t, loaded |-> 0]
    /\ UNCHANGED <<now, policyVars, repoVars, upsets>>

\* Then the run, when the window covers the target; the database stays, empty,
\* when it does not.
CreateRestoreToTimestampRun ==
    /\ recovery.pc = "fresh"
    /\ LET t == recovery.target
           covered == t <= now /\ policy.pitr /\ (\E b \in goodBases : b <= t) /\ lastShipped >= t
       IN  recovery' = [recovery EXCEPT !.pc = IF covered THEN "queued" ELSE "empty"]
    /\ UNCHANGED <<now, policyVars, repoVars, upsets>>

\* The newest base begun at or before the target; none when there is none.
ChooseBase(t) ==
    LET fitting == {b \in bases : b.begin <= t}
    IN  {b \in fitting : \A c \in fitting : c.begin <= b.begin}

\* The bundles of a tag, oldest first, up to the first one after t.
StagedWAL(t) ==
    {b \in bundles : \A c \in bundles : (c.time > t /\ c.time < b.time) => b.time <= t}

\* External: what postgres 16 does with the staged files.  It replays the
\* segments from the end of the base on while there are any, refuses a target
\* before the base is consistent, and gives up when the WAL ends before a commit
\* later than the target.  A tar that is cut off ends the script before that.
Replay(base, wal, t) ==
    LET segs == UNION {b.segs : b \in wal}
    IN  IF base.whole /\ (\A b \in wal : b.whole) /\ base.end <= t
           /\ ((base.end + 1)..(t + 1)) \subseteq segs
        THEN t ELSE 0

\* Mutant: hot_standby = on lets the dump start once the base is consistent.
HotStandby(base, wal, t) == {Replay(base, wal, t)} \cup (IF base.whole THEN {base.end} ELSE {})

\* hot_standby = off: no connection before the promotion at the target.
pitrRecoveryScript(base, wal, t) == {Replay(base, wal, t)}

\* Stage base and WAL in a scratch container, recover, dump and load.  0 stands
\* for a failure, of which one is that no bundle is later than the target.
opBackupRestorePITR ==
    /\ recovery.pc = "queued"
    /\ LET t == recovery.target
           spans == \E b \in bundles : b.time > t
           states == IF spans /\ ChooseBase(t) # {}
                     THEN UNION {pitrRecoveryScript(b, StagedWAL(t), t) : b \in ChooseBase(t)} ELSE {0}
       IN  \E state \in states :
             recovery' = [recovery EXCEPT !.pc = IF state = 0 THEN "failed" ELSE "done",
                                          !.loaded = state]
    /\ UNCHANGED <<now, policyVars, repoVars, upsets>>

-----------------------------------------------------------------------------
ArchiveNext ==
    \/ \E t \in Targets : CreateBackupTarget(t) \/ DeleteBackupTarget(t)
    \/ \E t \in Targets \cup {"none"}, p \in BOOLEAN : UpdateBackupPolicy(t, p)
    \/ WritePolicy
    \/ SegmentCloses \/ ListWAL \/ ShipWAL \/ CleanSpool \/ ShipperDies
    \/ BeginBase \/ opBackupBase
    \/ \E ok \in BOOLEAN : Retention(ok)
    \/ \E t \in Times : handleRestoreToTimestamp(t)
    \/ CreateRestoreToTimestampRun \/ opBackupRestorePITR

ArchiveSpec == ArchiveInit /\ [][ArchiveNext]_archiveVars

-----------------------------------------------------------------------------
(* Properties.                                                               *)

\* shipOne ("ship first, delete only what was confirmed shipped"): a segment
\* that postgres handed over is in the spool or in a whole bundle, unless
\* retention dropped it, whatever breaks off and whatever closes in between.
WALNeverLost ==
    [][\A k \in Times :
          LET Kept(sp, bs) == k \in sp \/ \E b \in bs : b.whole /\ k \in b.segs
          IN  Kept(spool, bundles) => Kept(spool', bundles') \/ k \in forgotten']_archiveVars

\* opBackupRestorePITR ("refuse instead of delivering quiet data-currency
\* loss"): a recovery that reports success loaded the state at its target, never
\* an earlier one.
RecoveredToTarget == recovery.pc = "done" => recovery.loaded = recovery.target

\* resticForgetWAL: "any base still retained at daily granularity can still roll
\* forward": of the segments after a base that is kept, none has been dropped.
KeptBasesRollForward ==
    \A b \in bases : b.whole => \A k \in forgotten : k > b.end =>
       k \in spool \/ \E w \in bundles : w.whole /\ k \in w.segs

=============================================================================
