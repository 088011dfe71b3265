------------------------------- MODULE Buckets -------------------------------
(***************************************************************************)
(* The buckets of an object storage resource: rows and pending operations  *)
(* in the control plane, s3.configure ops in the document, the agent that  *)
(* runs them against the engine.                                           *)
(*                                                                         *)
(*   cp/internal/store/s3_buckets.go, cp/internal/api/s3_buckets.go        *)
(*   cp/internal/reconciler/s3_configure.go                                *)
(*   agent/internal/s3ops                                                  *)
(*                                                                         *)
(* One bucket name, which may be deleted and created again: rows and ops   *)
(* are tied by the name alone.  The agent posts the result of each op when *)
(* it has run it, and the status of the document at its end, and waits for *)
(* the answer.  A post may be lost, or be served after the agent has given *)
(* it up.                                                                  *)
(***************************************************************************)
EXTENDS Naturals, Sequences, FiniteSets

CONSTANTS
    Quotas,         \* quotas an operator sets
    MaxS3Ops,       \* bound: pending_s3_ops ever inserted
    MaxS3Faults     \* bound: lost posts, failed calls, a container not up

ASSUME BucketsAssumption == Quotas \subseteq Nat /\ MaxS3Ops \in Nat /\ MaxS3Faults \in Nat

VARIABLES
    bucket,     \* the row of s3_buckets, or NoBucket
    s3ops,      \* pending_s3_ops, in the order of created_at
    s3doc,      \* the ops of the stored document, by their number
    s3agent,    \* the agent: document taken, ops to run, the op it has the
                \* credential of, ops that failed, an answer it waits for
    engine,     \* the storage engine: the bucket, its quota, its keys
    posts,      \* results and statuses on their way
    rerun,      \* the last status had a failure: the resync re-issues
    measured,   \* today has its row in s3_storage_bytes
    s3faults

bucketVars == <<bucket, s3ops, s3doc, s3agent, engine, posts, rerun, measured, s3faults>>
storeS3 == <<bucket, s3ops, measured>>

NoBucket == [status |-> "none", quota |-> 0, key |-> 0]
NoEngine == [exists |-> FALSE, quota |-> 0, keys |-> {}]
S3OpIds == 1..Len(s3ops)
OpenS3(i) == s3ops[i].state = "open"

BucketsInit ==
    /\ bucket = NoBucket /\ s3ops = <<>> /\ s3doc = {}
    /\ s3agent = [seen |-> {}, todo |-> {}, running |-> 0, failed |-> {}, waits |-> {}]
    /\ engine = NoEngine /\ posts = {} /\ rerun = FALSE /\ measured = FALSE /\ s3faults = 0

(***************************************************************************)
(* The dashboard: a row and an op in one transaction.                      *)
(***************************************************************************)
insertPendingS3Op(action, arg) ==
    /\ Len(s3ops) < MaxS3Ops
    /\ s3ops' = Append(s3ops, [action |-> action, arg |-> arg, state |-> "open"])

\* A second row of the name is ErrConflict.
CreateBucket ==
    /\ bucket = NoBucket /\ insertPendingS3Op("create-bucket", 0)
    /\ bucket' = [NoBucket EXCEPT !.status = "provisioning"]
    /\ UNCHANGED <<s3doc, s3agent, engine, posts, rerun, measured, s3faults>>

\* Whatever the status, also if it is being deleted already.
DeleteBucket ==
    /\ bucket # NoBucket /\ insertPendingS3Op("delete-bucket", 0)
    /\ bucket' = [bucket EXCEPT !.status = "deleting"]
    /\ UNCHANGED <<s3doc, s3agent, engine, posts, rerun, measured, s3faults>>

SetBucketQuota(q) ==
    /\ bucket # NoBucket /\ insertPendingS3Op("set-quota", q)
    /\ bucket' = [bucket EXCEPT !.quota = q]
    /\ UNCHANGED <<s3doc, s3agent, engine, posts, rerun, measured, s3faults>>

CreateBucketKey ==
    /\ bucket # NoBucket /\ insertPendingS3Op("create-key", Len(s3ops) + 1)
    /\ bucket' = [bucket EXCEPT !.key = Len(s3ops) + 1]
    /\ UNCHANGED <<s3doc, s3agent, engine, posts, rerun, measured, s3faults>>

\* Once a day per active bucket.
SweepS3Measure ==
    /\ bucket.status = "active" /\ \A i \in S3OpIds : s3ops[i].action # "measure"
    /\ insertPendingS3Op("measure", 0)
    /\ UNCHANGED <<bucket, s3doc, s3agent, engine, posts, rerun, measured, s3faults>>

PendingS3OpsForServer == {i \in S3OpIds : OpenS3(i)}

\* The reconciler: every open op is in the document.
renderS3ConfigureOps ==
    /\ s3doc # PendingS3OpsForServer
    /\ s3doc' = PendingS3OpsForServer /\ rerun' = FALSE
    /\ UNCHANGED <<storeS3, s3agent, engine, posts, s3faults>>

(***************************************************************************)
(* The agent.  It takes a document that is new, or the same one again when *)
(* the resync re-issued it, and runs its ops in their order.               *)
(***************************************************************************)
TakeS3Doc ==
    /\ s3agent.todo = {} /\ s3agent.waits = {} /\ s3agent.failed = {}
    /\ (s3doc # s3agent.seen \/ rerun)
    /\ s3agent' = [seen |-> s3doc, todo |-> s3doc, running |-> 0, failed |-> {}, waits |-> {}]
    /\ rerun' = FALSE
    /\ UNCHANGED <<storeS3, s3doc, engine, posts, s3faults>>

NextS3Op == CHOOSE i \in s3agent.todo : \A j \in s3agent.todo : i <= j
DoneS3(i, failed) ==
    [s3agent EXCEPT !.todo = @ \ {i}, !.running = 0,
                    !.failed = IF failed THEN @ \cup {i} ELSE @]
S3Fault == s3faults < MaxS3Faults /\ s3faults' = s3faults + 1

\* The container the op depends on did not come up: skipped, not failed.
SkipS3Ops ==
    /\ s3agent.todo # {} /\ s3agent.running = 0 /\ s3agent.waits = {} /\ S3Fault
    /\ s3agent' = [s3agent EXCEPT !.todo = {}] /\ rerun' = TRUE
    /\ UNCHANGED <<storeS3, s3doc, engine, posts>>

\* The credential is released for an open op only; a settled one is skipped
\* as a success.  Another error fails the op without a result of its own.
S3OpCredentialForOp ==
    /\ s3agent.todo # {} /\ s3agent.running = 0 /\ s3agent.waits = {}
    /\ \/ OpenS3(NextS3Op) /\ s3agent' = [s3agent EXCEPT !.running = NextS3Op] /\ UNCHANGED s3faults
       \/ ~OpenS3(NextS3Op) /\ s3agent' = DoneS3(NextS3Op, FALSE) /\ UNCHANGED s3faults
       \/ S3Fault /\ s3agent' = DoneS3(NextS3Op, TRUE)
    /\ UNCHANGED <<storeS3, s3doc, engine, posts, rerun>>

\* What the engine has after an op that it carried out.
EngineAfter(o) ==
    CASE o.action = "create-bucket" -> [engine EXCEPT !.exists = TRUE]
      [] o.action = "delete-bucket" -> NoEngine
      [] o.action = "set-quota"     -> [engine EXCEPT !.quota = o.arg]
      [] o.action = "create-key"    -> [engine EXCEPT !.keys = @ \cup {o.arg}]
      [] o.action = "measure"       -> engine

\* The messages are posted, and waited for.
PostS3(agent, messages) == s3agent' = [agent EXCEPT !.waits = messages] /\ posts' = posts \cup messages

\* An existing bucket is created, a missing one deleted with success; the
\* other actions need the bucket.
opConfigure ==
    LET i == s3agent.running
        o == s3ops[i]
        able == o.action \in {"create-bucket", "delete-bucket"} \/ engine.exists
    IN  /\ i # 0
        /\ \/ /\ able /\ engine' = EngineAfter(o) /\ UNCHANGED s3faults
              /\ PostS3(DoneS3(i, FALSE), {[op |-> i, ok |-> TRUE]})
           \/ /\ IF able THEN S3Fault ELSE UNCHANGED s3faults
              /\ PostS3(DoneS3(i, TRUE), {[op |-> i, ok |-> FALSE]}) /\ UNCHANGED engine
        /\ UNCHANGED <<storeS3, s3doc, rerun>>

\* The status of the finished document names the ops that failed.
PostS3DocStatus ==
    /\ s3agent.todo = {} /\ s3agent.waits = {} /\ s3agent.failed # {}
    /\ PostS3([s3agent EXCEPT !.failed = {}], {[op |-> i, ok |-> FALSE] : i \in s3agent.failed})
    /\ rerun' = TRUE
    /\ UNCHANGED <<storeS3, s3doc, engine, s3faults>>

\* No answer: the post is lost, or served later.  A result is not sent again.
GiveUpPost ==
    /\ s3agent.waits # {} /\ S3Fault
    /\ s3agent' = [s3agent EXCEPT !.waits = {}]
    /\ posts' \in {posts, posts \ s3agent.waits}
    /\ UNCHANGED <<storeS3, s3doc, engine, rerun>>

(***************************************************************************)
(* The results.                                                            *)
(***************************************************************************)
Settle(i, to) == s3ops' = [s3ops EXCEPT ![i].state = to]

\* The row is found by the name of the bucket.
MarkS3OpApplied(i) ==
    /\ OpenS3(i) /\ Settle(i, "applied")
    /\ bucket' = IF bucket = NoBucket THEN NoBucket
                 ELSE IF s3ops[i].action = "create-bucket" THEN [bucket EXCEPT !.status = "active"]
                 ELSE IF s3ops[i].action = "delete-bucket" THEN NoBucket ELSE bucket
    /\ measured' = (measured \/ s3ops[i].action = "measure")

\* Mutant: the row stays as it was (SIGMA-73).
FailOpOnly(i) == OpenS3(i) /\ Settle(i, "failed") /\ UNCHANGED <<bucket, measured>>

\* A create that failed shows on its bucket, unless that is being deleted.
MarkS3OpFailed(i) ==
    /\ OpenS3(i) /\ Settle(i, "failed") /\ UNCHANGED measured
    /\ bucket' = IF s3ops[i].action = "create-bucket" /\ bucket.status = "provisioning"
                 THEN [bucket EXCEPT !.status = "failed"] ELSE bucket

\* A post is served; one about an op that is settled changes nothing.
HandleAgentS3OpStatus ==
    \E m \in posts :
        /\ posts' = posts \ {m} /\ s3agent' = [s3agent EXCEPT !.waits = @ \ {m}]
        /\ \/ OpenS3(m.op) /\ m.ok /\ MarkS3OpApplied(m.op)
           \/ OpenS3(m.op) /\ ~m.ok /\ MarkS3OpFailed(m.op)
           \/ ~OpenS3(m.op) /\ UNCHANGED storeS3
        /\ UNCHANGED <<s3doc, engine, rerun, s3faults>>

BucketsNext ==
    \/ CreateBucket \/ DeleteBucket \/ (\E q \in Quotas : SetBucketQuota(q)) \/ CreateBucketKey
    \/ SweepS3Measure \/ renderS3ConfigureOps
    \/ TakeS3Doc \/ SkipS3Ops \/ S3OpCredentialForOp \/ opConfigure \/ PostS3DocStatus
    \/ GiveUpPost \/ HandleAgentS3OpStatus

BucketsSpec == BucketsInit /\ [][BucketsNext]_bucketVars

BucketsTypeOK ==
    /\ bucket.status \in {"none", "provisioning", "active", "failed", "deleting"}
    /\ s3doc \subseteq S3OpIds /\ s3agent.todo \subseteq S3OpIds
    /\ posts \subseteq [op : S3OpIds, ok : BOOLEAN] /\ s3faults \in 0..MaxS3Faults

\* SIGMA-73: a bucket that is being provisioned has an open op that creates it,
\* whatever results came late, twice or not at all, and although rows and ops
\* are matched by a name that may be in use again.
NoBucketStuck ==
    bucket.status = "provisioning"
    => \E i \in S3OpIds : OpenS3(i) /\ s3ops[i].action = "create-bucket"

\* A bucket of the engine is known to the dashboard, or an op is about it.
\* Not so: a create whose result was lost stays open, and runs again after the
\* bucket was deleted.
NoOrphanBucket ==
    engine.exists => bucket # NoBucket \/ \E i \in S3OpIds : OpenS3(i)

\* An active bucket is there in the engine.  Not so: the result of a first
\* delete may be applied to a bucket, or run against one, made since.
ActiveExists ==
    bucket.status = "active" /\ (\A i \in S3OpIds : ~OpenS3(i)) => engine.exists
=============================================================================
