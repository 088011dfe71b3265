------------------------------ MODULE Backups ------------------------------
(***************************************************************************)
(* Daily backups, restore-verifies and fire-drill restores of one managed  *)
(* database.                                                                *)
(*                                                                          *)
(*   cp/internal/backup/scheduler.go   the sweep every replica runs         *)
(*   cp/internal/store/backups.go      the backup_runs table                *)
(*   cp/internal/reconciler/backup.go  open runs rendered as document ops   *)
(*   agent/internal/backup             the agent that executes the ops      *)
(*                                                                          *)
(* The control plane inserts one `backup' row a day, one `verify' row once  *)
(* that day's dump is recorded, and a `restore' row when a user asks.  Open *)
(* rows are rendered into the document of their server; the agent executes  *)
(* them one by one, in every document version that still carries them, and  *)
(* reports each outcome once (the report may be lost).  A sweep fails the   *)
(* rows that stopped making progress.                                       *)
(*                                                                          *)
(* A dump is named by a number: the restic snapshot id and the sha256 of    *)
(* the dump file are one token, because every dump has other bytes.  Base   *)
(* backups and WAL (point-in-time recovery) are not part of this module.    *)
(***************************************************************************)
EXTENDS Integers, Sequences, FiniteSets, FiniteSetsExt

CONSTANTS
    Replicas,    \* control-plane processes, each with its own scheduler
    Source,      \* the server of the database that is backed up
    Target,      \* the server the fresh database of a restore runs on
    KeepDaily,   \* the policy's keep_daily (keep_weekly = keep_monthly = 0)
    ClockSkew,   \* days by which a replica's clock may be off the database's
    MaxDay,      \* bound: days that pass
    MaxDumps,    \* bound: dump snapshots taken
    MaxRestores  \* bound: restores asked for

ASSUME BackupBounds ==
    /\ KeepDaily \in Nat \ {0}
    /\ ClockSkew \in Nat
    /\ {MaxDay, MaxDumps, MaxRestores} \subseteq Nat
    /\ MaxDay > 0

VARIABLES
    today,     \* the database's UTC day
    runs,      \* backup_runs, in creation order
    finished,  \* backup runs in the order their success was recorded
    alerts,    \* runs with an alert in the outbox (dedup key bkr:<run>)
    sched,     \* what a replica's CreateDueBackupRuns has read
    agent,     \* what each agent is doing
    repo,      \* dump snapshots in the restic repository: [dump, day]
    dumps,     \* how many dumps were ever taken
    target     \* what the fresh database of a restore run holds, by run

cpVars == <<runs, finished, alerts, sched>>
agentVars == <<agent, repo, dumps, target>>
vars == <<today, runs, finished, alerts, sched,
          agent, repo, dumps, target>>

Servers == {Source, Target}
Days == 1..MaxDay
Dumps == 1..MaxDumps
None == 0                          \* no dump, no run
MaxRuns == 2 * MaxDay + MaxRestores
RunIds == 1..MaxRuns
Scheduled == {"backup", "verify"}  \* one a day each: the partial unique index
Kinds == Scheduled \cup {"restore"}
Open == {"pending", "running"}
Settled == {"success", "failed"}

\* `dump' is what the row records (snapshot_id and dump_sha256); `pin' is the
\* value a restore row was created with, kept aside because the result report
\* overwrites it.
Row == [kind : Kinds, day : Days, status : Open \cup Settled,
        dump : Dumps \cup {None}, pin : Dumps \cup {None}]

\* One rendered op: backupOpSpec with the run it depends on, if any.
Op == [run : RunIds, kind : Kinds, dump : Dumps \cup {None},
       dep : RunIds \cup {None}]

\* What a handler reports.
Outcome == [ok : BOOLEAN, dump : Dumps \cup {None}]
Success(d) == [ok |-> TRUE, dump |-> d]
Failure == [ok |-> FALSE, dump |-> None]

NoOp == [run |-> None, kind |-> "backup", dump |-> None, dep |-> None]
Idle == [pc |-> "idle", todo |-> {}, bad |-> {}, cur |-> NoOp, out |-> Failure]

----------------------------------------------------------------------------
(* The backup_runs table.                                                   *)

RunServer(row) == IF row.kind = "restore" THEN Target ELSE Source

IsOpen(i) == i \in DOMAIN runs /\ runs[i].status \in Open

NewRow(kind, day, pin) ==
    [kind |-> kind, day |-> day, status |-> "pending", dump |-> pin, pin |-> pin]

\* SetBackupRunResult: the first terminal outcome of an open row is recorded
\* with its dump and a failure queues its alert; a settled row is left alone.
SetBackupRunResult(i, out) ==
    IF IsOpen(i)
    THEN /\ runs' = [runs EXCEPT ![i].status = IF out.ok THEN "success" ELSE "failed",
                                 ![i].dump = out.dump]
         /\ finished' = IF out.ok /\ runs[i].kind = "backup"
                        THEN Append(finished, i) ELSE finished
         /\ alerts' = IF out.ok THEN alerts ELSE alerts \cup {i}
    ELSE UNCHANGED <<runs, finished, alerts>>

\* Rows of one kind created at or after a day: created_at >= $1.
RowsSince(kind, day) ==
    {i \in DOMAIN runs : runs[i].kind = kind /\ runs[i].day >= day}

Recorded(i) == runs[i].status = "success" /\ runs[i].dump # None

\* What CreateDueBackupRuns finds due: a backup when the day has none, and a
\* verify when the day's dump is recorded and it has no verify yet.
BackupDue(day) == RowsSince("backup", day) = {}

VerifyDue(day) == /\ RowsSince("verify", day) = {}
                  /\ \E i \in RowsSince("backup", day) : Recorded(i)

\* Mutant: no unique index.
InsertAlways(table, kind, day) == Append(table, NewRow(kind, day, None))

\* INSERT ... ON CONFLICT (policy_id, kind, day) DO NOTHING.
InsertDaily(table, kind, day) ==
    IF \E i \in DOMAIN table : table[i].kind = kind /\ table[i].day = day
    THEN table
    ELSE Append(table, NewRow(kind, day, None))

----------------------------------------------------------------------------
(* The scheduler.                                                           *)

Midnight ==
    /\ today < MaxDay
    /\ today' = today + 1
    /\ UNCHANGED <<cpVars, agentVars>>

\* The transaction begins (created_at of what it will insert is today's day)
\* and reads what is due on the day of the replica's own clock.  A disabled
\* policy is a replica that does not get here.
ReadDue(r) ==
    /\ sched[r].pc = "idle"
    /\ \E day \in (today - ClockSkew)..(today + ClockSkew) :
        /\ BackupDue(day) \/ VerifyDue(day)
        /\ sched' = [sched EXCEPT ![r] = [pc |-> "insert", day |-> today,
                        backup |-> BackupDue(day), verify |-> VerifyDue(day)]]
    /\ UNCHANGED <<today, runs, finished, alerts, agentVars>>

\* The inserts and the commit.  A concurrent insert of the same (kind, day)
\* waits for the first transaction and then does nothing.
InsertDue(r) ==
    /\ sched[r].pc = "insert"
    /\ LET b == IF sched[r].backup
                THEN InsertDaily(runs, "backup", sched[r].day) ELSE runs
       IN  runs' = IF sched[r].verify
                   THEN InsertDaily(b, "verify", sched[r].day) ELSE b
    /\ sched' = [sched EXCEPT ![r] = [pc |-> "idle", day |-> 1,
                                      backup |-> FALSE, verify |-> FALSE]]
    /\ UNCHANGED <<today, finished, alerts, agentVars>>

\* TimeoutStaleBackupRuns: a running row past the execution budget and a pending
\* one past the queue budget.  Ages are not modelled: any open row may be stale.
Stale(i) == i \in DOMAIN runs /\ runs[i].status \in {"running", "pending"}

SweepFail(i) ==
    /\ Stale(i)
    /\ runs' = [runs EXCEPT ![i].status = "failed"]
    /\ alerts' = alerts \cup {i}
    /\ UNCHANGED <<today, finished, sched, agentVars>>

\* A sweep whose snapshot still had the row open waits for the transaction that
\* records its result and then fails the row all the same: it updates by id, and
\* READ COMMITTED does not look at the status again.
RecordedThenSwept(i, out) ==
    /\ Stale(i)
    /\ runs' = [runs EXCEPT ![i].status = "failed", ![i].dump = out.dump]
    /\ alerts' = alerts \cup {i}
    /\ UNCHANGED finished

\* The successful backups by their place in the order of finished_at.
Successes == {k \in DOMAIN finished : runs[finished[k]].status = "success"}

\* ORDER BY finished_at DESC LIMIT 1.
LastFinished(places) == runs[finished[Max(places)]]

\* A user asks for a restore: CreateRestoreRun pins the dump of the backup
\* whose success was recorded last.

CreateRestoreRun ==
    /\ Cardinality(RowsSince("restore", 1)) < MaxRestores
    /\ Successes # {}
    /\ LastFinished(Successes).dump # None
    /\ runs' = Append(runs, NewRow("restore", today, LastFinished(Successes).dump))
    /\ UNCHANGED <<today, finished, alerts, sched, agentVars>>

----------------------------------------------------------------------------
(* The rendered document.                                                   *)

OpenRuns(s) == {i \in DOMAIN runs : runs[i].status \in Open /\ RunServer(runs[i]) = s}

\* BackupRunsForServer's expected_sha: a verify checks the dump recorded by the
\* backup of its own day, any other run what is recorded on its own row.
ExpectedDump(i) ==
    LET sameDay == {k \in Successes : runs[finished[k]].day = runs[i].day}
    IN  IF runs[i].kind # "verify" THEN runs[i].dump
        ELSE IF sameDay = {} THEN None
        ELSE LastFinished(sameDay).dump

\* A verify waits for the (newest) backup op of the same document.
Dependency(s, i) ==
    LET backups == {b \in OpenRuns(s) : runs[b].kind = "backup"}
    IN  IF runs[i].kind = "verify" /\ backups # {} THEN Max(backups) ELSE None

\* renderBackupOps: a verify is held back until its day's dump is recorded.
RenderedOps(s) ==
    {[run |-> i, kind |-> runs[i].kind, dump |-> ExpectedDump(i), dep |-> Dependency(s, i)] :
        i \in {j \in OpenRuns(s) : runs[j].kind = "verify" => ExpectedDump(j) # None}}

----------------------------------------------------------------------------
(* The agent.                                                               *)

\* Any new version of the document, for whatever reason, has every op in it
\* executed again.  The version is rendered here and grows stale while the agent
\* works through it.
StartPass(s) ==
    /\ agent[s].pc = "idle"
    /\ RenderedOps(s) # {}
    /\ agent' = [agent EXCEPT ![s] = [Idle EXCEPT !.pc = "pass", !.todo = RenderedOps(s)]]
    /\ UNCHANGED <<today, cpVars, repo, dumps, target>>

EndPass(s) ==
    /\ agent[s].pc = "pass"
    /\ agent[s].todo = {}
    /\ agent' = [agent EXCEPT ![s] = Idle]
    /\ UNCHANGED <<today, cpVars, repo, dumps, target>>

\* An op whose dependency is not waiting any more.
Ready(s, op) ==
    /\ agent[s].pc = "pass"
    /\ op \in agent[s].todo
    /\ \A o \in agent[s].todo : o.run # op.dep

\* FailBackupRunFromOpStatus, when the failed status of an op is ingested; a
\* status that arrives late does no more than a sweep may do at any time.
OpStatusFails(i) ==
    \/ SetBackupRunResult(i, Failure)
    \/ UNCHANGED <<runs, finished, alerts>>

OpFails(s, op) ==
    agent' = [agent EXCEPT ![s].todo = @ \ {op}, ![s].bad = @ \cup {op.run}]

\* Its dependency failed in this pass.  The status of such an op is `skipped',
\* which the ingest does not act on: the run stays open.
SkipOp(s, op) ==
    /\ Ready(s, op)
    /\ op.dep \in agent[s].bad
    /\ OpFails(s, op)
    /\ UNCHANGED <<today, cpVars, repo, dumps, target>>

\* The spec is not acceptable or the credential could not be fetched: the
\* handler fails before it reports anything.
RefuseOp(s, op) ==
    /\ Ready(s, op)
    /\ op.dep \notin agent[s].bad
    /\ OpFails(s, op)
    /\ OpStatusFails(op.run)
    /\ UNCHANGED <<today, sched, repo, dumps, target>>

\* BackupCredentialForRun: an open run is marked running, a settled one is 404
\* and the op has nothing to do.
FetchCredential(s, op) ==
    /\ Ready(s, op)
    /\ op.dep \notin agent[s].bad
    /\ IF IsOpen(op.run)
       THEN /\ runs' = [runs EXCEPT ![op.run].status = "running"]
            /\ agent' = [agent EXCEPT ![s].pc = "work", ![s].todo = @ \ {op}, ![s].cur = op]
       ELSE /\ agent' = [agent EXCEPT ![s].todo = @ \ {op}]
            /\ UNCHANGED runs
    /\ UNCHANGED <<today, finished, alerts, sched, repo, dumps, target>>

Working(s, kind) == agent[s].pc = "work" /\ agent[s].cur.kind = kind

Done(s, out) == agent' = [agent EXCEPT ![s].pc = "report", ![s].out = out]

\* opBackupRun up to the repository check.  A dump that breaks off may leave a
\* truncated snapshot (restic only sees its input end), a check that fails leaves
\* a whole one; neither is ever recorded.
TakeDump(s) ==
    /\ Working(s, "backup")
    /\ \/ /\ dumps < MaxDumps
          /\ dumps' = dumps + 1
          /\ repo' = repo \cup {[dump |-> dumps', day |-> today]}
          /\ \/ Done(s, Failure)
             \/ agent' = [agent EXCEPT ![s].pc = "forget", ![s].out = Success(dumps')]
       \/ Done(s, Failure) /\ UNCHANGED <<repo, dumps>>
    /\ UNCHANGED <<today, cpVars, target>>

\* restic forget --keep-daily: the newest snapshot of each of the KeepDaily
\* most recent days that have one.
Kept(snaps) ==
    LET days == {x.day : x \in snaps}
        kept == {d \in days : Cardinality({e \in days : e > d}) < KeepDaily}
    IN  {x \in snaps : /\ x.day \in kept
                       /\ \A y \in snaps : y.day = x.day => y.dump <= x.dump}

\* Retention that fails does not undo a good backup.
Forget(s) ==
    /\ agent[s].pc = "forget"
    /\ repo' \in {Kept(repo), repo}
    /\ agent' = [agent EXCEPT ![s].pc = "report"]
    /\ UNCHANGED <<today, cpVars, dumps, target>>

Latest == IF repo = {} THEN None ELSE Max({x.dump : x \in repo})

\* Mutant: the serving half alone decides.
ChecksumSkipped(op, read) == read # None

\* opBackupVerify's byte-level half: the newest dump must hash to the expected
\* digest, when there is one.
ChecksumOk(op, read) == read # None /\ op.dump \in {None, read}

\* opBackupVerify: the checksum, then the load into a scratch container.
VerifyDump(s) ==
    /\ Working(s, "verify")
    /\ \/ Done(s, Failure)
       \/ ChecksumOk(agent[s].cur, Latest) /\ Done(s, Success(Latest))
    /\ UNCHANGED <<today, cpVars, repo, dumps, target>>

\* Mutant: a restore loads the newest dump (before SIGMA-245) unchecked.
RestoreLatest(op) == Latest

\* What a restore may load: the snapshot it is pinned to, if it still is in the
\* repository (its bytes have the pinned digest, the token being both); an
\* unpinned one is refused for its missing digest.
RestoreSource(op) ==
    IF \E x \in repo : x.dump = op.dump THEN op.dump ELSE None

\* opBackupRestore: the checksum, then the load into the target database, which
\* the row-count probe may still find wanting.
RestoreDump(s) ==
    /\ Working(s, "restore")
    /\ LET op == agent[s].cur
           src == RestoreSource(op)
       IN  \/ Done(s, Failure) /\ UNCHANGED target
           \/ /\ src # None
              /\ target' = [target EXCEPT ![op.run] = src]
              /\ Done(s, Success(src)) \/ Done(s, Failure)
    /\ UNCHANGED <<today, cpVars, repo, dumps>>

\* The handler's single report, recorded or lost; the status of an op that
\* failed makes up for a lost one.
Report(s) ==
    /\ agent[s].pc = "report"
    /\ LET i == agent[s].cur.run
           out == agent[s].out
       IN  /\ \/ SetBackupRunResult(i, out)
              \/ RecordedThenSwept(i, out)
              \/ IF out.ok THEN UNCHANGED <<runs, finished, alerts>> ELSE OpStatusFails(i)
           /\ agent' = [agent EXCEPT ![s].pc = "pass", ![s].cur = NoOp, ![s].out = Failure,
                                        ![s].bad = IF out.ok THEN @ ELSE @ \cup {i}]
    /\ UNCHANGED <<today, sched, repo, dumps, target>>

\* The agent process dies: its pass is gone.
Crash(s) ==
    /\ agent[s] # Idle
    /\ agent' = [agent EXCEPT ![s] = Idle]
    /\ UNCHANGED <<today, cpVars, repo, dumps, target>>

----------------------------------------------------------------------------
Init ==
    /\ today = 1
    /\ runs = <<>>
    /\ finished = <<>>
    /\ alerts = {}
    /\ sched = [r \in Replicas |-> [pc |-> "idle", day |-> 1, backup |-> FALSE, verify |-> FALSE]]
    /\ agent = [s \in Servers |-> Idle]
    /\ repo = {}
    /\ dumps = 0
    /\ target = [i \in RunIds |-> None]

AgentStep(s) ==
    \/ StartPass(s) \/ EndPass(s)
    \/ \E op \in agent[s].todo :
        SkipOp(s, op) \/ RefuseOp(s, op) \/ FetchCredential(s, op)
    \/ TakeDump(s) \/ Forget(s) \/ VerifyDump(s) \/ RestoreDump(s)
    \/ Report(s)

Next ==
    \/ Midnight
    \/ \E r \in Replicas : ReadDue(r) \/ InsertDue(r)
    \/ \E i \in DOMAIN runs : SweepFail(i)
    \/ CreateRestoreRun
    \/ \E s \in Servers : AgentStep(s) \/ Crash(s)

Spec == Init /\ [][Next]_vars

----------------------------------------------------------------------------
(* VerifyDays, the calendar the 30-day green-streak gate reads.             *)

VerifiesOf(day) == {i \in DOMAIN runs : runs[i].kind = "verify" /\ runs[i].day = day
                                        /\ runs[i].status \in Settled}
Green(day) == /\ VerifiesOf(day) # {}
              /\ \A i \in VerifiesOf(day) : runs[i].status # "failed"

----------------------------------------------------------------------------
(* Properties.                                                              *)

\* Every variable holds a value of its kind; a run belongs to a day that has
\* begun.
TypeOK ==
    /\ today \in Days
    /\ runs \in Seq(Row) /\ Len(runs) <= MaxRuns
    /\ \A i \in DOMAIN runs : runs[i].day <= today
    /\ finished \in Seq(DOMAIN runs)
    /\ alerts \subseteq DOMAIN runs
    /\ sched \in [Replicas -> [pc : {"idle", "insert"}, day : Days,
                               backup : BOOLEAN, verify : BOOLEAN]]
    /\ \A s \in Servers :
        /\ agent[s].pc \in {"idle", "pass", "work", "forget", "report"}
        /\ agent[s].todo \subseteq Op
        /\ agent[s].cur \in Op \cup {NoOp}
        /\ agent[s].bad \subseteq DOMAIN runs
        /\ agent[s].out \in Outcome
    /\ repo \subseteq [dump : Dumps, day : Days]
    /\ dumps \in 0..MaxDumps
    /\ target \in [RunIds -> Dumps \cup {None}]

BackupsOf(day) == {i \in DOMAIN runs : runs[i].kind = "backup" /\ runs[i].day = day}

\* Whatever replicas sweep at the same time, a day gets at most one backup and
\* one verify (migration 0030's partial unique index).
OneRunADay ==
    \A i, j \in DOMAIN runs :
        (/\ runs[i].kind \in Scheduled
         /\ runs[i].kind = runs[j].kind
         /\ runs[i].day = runs[j].day) => i = j

\* "An unrestored backup counts as no backup": a green day is one whose own
\* recorded dump was read back, byte for byte, whatever dumps came later and
\* however often the verify was executed.
GreenMeansRestorable ==
    \A d \in Days : Green(d) =>
        \A i \in VerifiesOf(d) :
            \E b \in BackupsOf(d) : Recorded(b) /\ runs[b].dump = runs[i].dump

\* SIGMA-245: a restore loads the dump it was pinned to when it was queued or
\* nothing, although newer dumps land and old ones are forgotten while it waits
\* and is executed again; a restore that reads as a success did load it.
RestoreLoadsPinned ==
    \A i \in DOMAIN runs :
        runs[i].kind = "restore" =>
            /\ target[i] \in {None, runs[i].pin}
            /\ runs[i].status = "success" => target[i] = runs[i].pin

\* "A VERIFY must check THIS day's backup" (store/backups.go:531): the dump that
\* a verify reads is the one it expects.  Not so across midnight, see the README.
VerifyReadsItsDump ==
    \A s \in Servers : Working(s, "verify") => Latest = agent[s].cur.dump

=============================================================================
