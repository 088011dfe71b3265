---------------------------- MODULE DesiredState ----------------------------
(***************************************************************************)
(* Delivery of one server's Desired-State Document (DSD): the control      *)
(* plane issues numbered documents and learns how they were applied        *)
(* (cp/internal/store/dsd_store.go, cp/internal/api/dsd.go); the agent     *)
(* fetches a document, applies its ops against an on-disk journal and      *)
(* reports the results (agent/cmd/sigmad/main.go, runDSDLoop;              *)
(* agent/internal/apply).  The agent can crash between any two steps, a    *)
(* journal write can fail, and a status POST can be lost, handled after    *)
(* the agent stopped waiting for it, or handled twice.                     *)
(***************************************************************************)
EXTENDS Integers, FiniteSets, OpGraph

CONSTANTS
    Docs,        \* the op lists a render can produce, identified by SpecHash
    Ops,         \* op ids
    OpsOf,       \* OpsOf[d]: the op ids of document d
    DependsOn,   \* DependsOn[d][o]: the ids op o of d names in dependsOn
    MaxRedrive,  \* maxDSDRedrive
    MaxEdits,    \* bound: config changes and forced redeploys
    MaxFaults,   \* bound: agent crashes and journal write errors
    NoDoc        \* no document yet; also the cleared doc_hash ''

ASSUME ConstantsAssumption ==
    /\ NoDoc \notin Docs
    /\ OpsOf \in [Docs -> SUBSET Ops]
    /\ DependsOn \in [Docs -> [Ops -> SUBSET Ops]]
    /\ MaxRedrive \in Nat
    /\ MaxEdits \in Nat
    /\ MaxFaults \in Nat

VARIABLES
    \* control plane
    desired,       \* what rendering the configuration tables yields now
    version, doc, docHash,               \* server_dsd: the issued document
    appliedVersion, applyOK, failedOps,  \* server_dsd: the last report recorded
    redriveCount,  \* server_dsd: retries of the unchanged document
    alerts,        \* versions for which "stopped converging" was raised
    \* agent, on disk (bbolt journal)
    journal,       \* key (version, op id) -> recorded state
    lastApplied,   \* lastAppliedVersion
    lastReported,  \* lastReportedVersion
    \* agent, in memory
    pc,            \* where runDSDLoop is
    cur,           \* the document being applied
    results,       \* op results of this Apply pass
    acked,         \* the pending status POST was answered 200
    \* network, environment
    net,           \* status POSTs the control plane may still handle
    edits, faults  \* how much of the bounds is used

docVars    == <<version, doc, docHash, redriveCount>>
reportVars == <<appliedVersion, applyOK, failedOps>>
cpVars   == <<desired, docVars, reportVars, alerts>>
diskVars == <<journal, lastApplied, lastReported>>
memVars  == <<pc, cur, results, acked>>
vars     == <<cpVars, diskVars, memVars, net, edits, faults>>

Recorded == {"applied", "failed", "skipped"}
OpState  == Recorded \cup {"none"}
Broken   == {"failed", "skipped"}

NoResults == [o \in Ops |-> "none"]
NoCur     == [version |-> 0, doc |-> NoDoc]

\* The journal bucket j, keyed by (version, op id): a read, and a Put.
Lookup(j, v, o) == IF <<v, o>> \in DOMAIN j THEN j[<<v, o>>] ELSE "none"
Put(j, v, o, s) ==
    [k \in DOMAIN j \cup {<<v, o>>} |-> IF k = <<v, o>> THEN s ELSE j[k]]

\* Journal.Result: the recorded state of an op at a version.
Result(v, o) == Lookup(journal, v, o)

\* Journal.ResultsForVersion.
ResultsForVersion(v) == [o \in Ops |-> Result(v, o)]

Init ==
    /\ desired \in Docs
    /\ version = 0 /\ doc = NoDoc /\ docHash = NoDoc /\ redriveCount = 0
    /\ appliedVersion = 0 /\ applyOK = TRUE /\ failedOps = {}
    /\ alerts = {}
    /\ journal = [k \in {} |-> "none"]
    /\ lastApplied = 0
    /\ lastReported = 0
    /\ pc = "down"
    /\ cur = NoCur
    /\ results = NoResults
    /\ acked = FALSE
    /\ net = {}
    /\ edits = 0
    /\ faults = 0

-----------------------------------------------------------------------------
(* Control plane *)

\* An operator's change makes the next render produce another op list.
ChangeDesired ==
    /\ edits < MaxEdits
    /\ desired' \in Docs \ {desired}
    /\ edits' = edits + 1
    /\ UNCHANGED <<docVars, reportVars, alerts, diskVars, memVars, net, faults>>

\* ForceReapplyResource: clear the hash and the re-drive budget.
ForceReapplyResource ==
    /\ edits < MaxEdits
    /\ docHash' = NoDoc
    /\ redriveCount' = 0
    /\ edits' = edits + 1
    /\ UNCHANGED <<desired, version, doc, reportVars, alerts, diskVars, memVars, net, faults>>

\* Mutant: an apply still in flight is not told from a failed one.
ConvergedIgnoringInFlight == applyOK

SameDoc   == docHash = desired /\ version > 0
Converged == applyOK \/ appliedVersion < version

\* StoreDSD, the branch that issues a new version: the document changed, or the
\* unchanged one failed and the re-drive budget is not used up.
IssueDSD ==
    /\ ~(SameDoc /\ Converged)
    /\ ~(SameDoc /\ redriveCount >= MaxRedrive)
    /\ version' = version + 1
    /\ doc' = desired
    /\ docHash' = desired
    /\ redriveCount' = IF SameDoc THEN redriveCount + 1 ELSE 0
    /\ applyOK' = TRUE
    /\ failedOps' = {}
    /\ UNCHANGED <<desired, appliedVersion, alerts, diskVars, memVars, net, edits, faults>>

\* StoreDSD, the branch that has stopped retrying: alertApplyStuckTx, deduplicated
\* for ever on (server, version).
AlertApplyStuck ==
    /\ SameDoc /\ ~Converged /\ redriveCount >= MaxRedrive
    /\ version \notin alerts
    /\ alerts' = alerts \cup {version}
    /\ UNCHANGED <<desired, docVars, reportVars, diskVars, memVars, net, edits, faults>>

\* Mutant: a skipped op does not count.
BrokenFailedOnly(m) == {o \in Ops : m.states[o] = "failed"}

\* The ops a status POST reports as not applied.
BrokenOps(m) == {o \in Ops : m.states[o] \in Broken}

\* Mutant: takes a report of any version that was issued.
ApplyAnyStatus(m) ==
    IF m.version > version
    THEN UNCHANGED reportVars
    ELSE /\ appliedVersion' = m.version
         /\ applyOK' = (BrokenOps(m) = {})
         /\ failedOps' = BrokenOps(m)

\* ApplyDSDStatus: a report below the last recorded version or above the issued
\* one changes nothing.
ApplyDSDStatus(m) ==
    IF m.version < appliedVersion \/ m.version > version
    THEN UNCHANGED reportVars
    ELSE /\ appliedVersion' = m.version
         /\ applyOK' = (BrokenOps(m) = {})
         /\ failedOps' = BrokenOps(m)

\* handleDSDStatus.  The request may be handled again, or after the agent gave
\* up on it; only Lose removes it.  Either way the handler answers 200.
HandleStatus(m) ==
    /\ m \in net
    /\ ApplyDSDStatus(m)
    /\ acked' = (acked \/ (pc \in {"rereport", "report"} /\ m.version = lastApplied))
    /\ UNCHANGED <<desired, docVars, alerts, diskVars, pc, cur, results, net, edits, faults>>

Lose(m) ==
    /\ m \in net
    /\ net' = net \ {m}
    /\ UNCHANGED <<cpVars, diskVars, memVars, edits, faults>>

-----------------------------------------------------------------------------
(* Agent: runDSDLoop *)

\* Process start.  The report watermark is moved up to the applied version; an
\* error doing so is ignored.
Start ==
    /\ pc = "down"
    /\ \/ /\ lastReported' = IF lastReported < lastApplied THEN lastApplied ELSE lastReported
          /\ UNCHANGED faults
       \/ /\ lastReported < lastApplied
          /\ faults < MaxFaults /\ faults' = faults + 1
          /\ UNCHANGED lastReported
    /\ pc' = "poll"
    /\ UNCHANGED <<cpVars, journal, lastApplied, cur, results, acked, net, edits>>

\* Top of the loop: repeat a status POST that was not acknowledged.
NeedsRereport ==
    /\ lastReported < lastApplied
    /\ ResultsForVersion(lastApplied) # NoResults

Rereport ==
    /\ pc = "poll"
    /\ NeedsRereport
    /\ net' = net \cup {[version |-> lastApplied, states |-> ResultsForVersion(lastApplied)]}
    /\ pc' = "rereport"
    /\ UNCHANGED <<cpVars, diskVars, cur, results, acked, edits, faults>>

NoRereport ==
    /\ pc = "poll"
    /\ ~NeedsRereport
    /\ pc' = "fetch"
    /\ UNCHANGED <<cpVars, diskVars, cur, results, acked, net, edits, faults>>

\* GetDSD(after) answered with a document that passes the version check.
Fetch ==
    /\ pc = "fetch"
    /\ version > lastApplied
    /\ cur' = [version |-> version, doc |-> doc]
    /\ results' = NoResults
    /\ pc' = "apply"
    /\ UNCHANGED <<cpVars, diskVars, acked, net, edits, faults>>

\* 204 after the long-poll window, or a fetch error and its backoff.
FetchNothing ==
    /\ pc = "fetch"
    /\ pc' = "poll"
    /\ UNCHANGED <<cpVars, diskVars, cur, results, acked, net, edits, faults>>

\* Where a finished status POST leaves the loop.
AfterPost == IF pc = "rereport" THEN "fetch" ELSE "poll"

\* The POST returned 200: SetLastReportedVersion, whose own error is ignored.
PostAcked ==
    /\ pc \in {"rereport", "report"}
    /\ acked
    /\ \/ lastReported' = lastApplied /\ UNCHANGED faults
       \/ faults < MaxFaults /\ faults' = faults + 1 /\ UNCHANGED lastReported
    /\ pc' = AfterPost
    /\ acked' = FALSE
    /\ UNCHANGED <<cpVars, journal, lastApplied, cur, results, net, edits>>

\* The POST failed or timed out for the agent.  The request may be handled yet.
PostFailed ==
    /\ pc \in {"rereport", "report"}
    /\ pc' = AfterPost
    /\ acked' = FALSE
    /\ UNCHANGED <<cpVars, diskVars, cur, results, net, edits, faults>>

-----------------------------------------------------------------------------
(* Agent: Registry.Apply, one op at a time *)

Orderable == Resolvable(OpsOf[cur.doc], DependsOn[cur.doc])
Prereqs(o) == DependsOn[cur.doc][o]

RecordResult(o, s) ==
    /\ journal' = Put(journal, cur.version, o, s)
    /\ results' = [results EXCEPT ![o] = s]
    /\ UNCHANGED <<cpVars, lastApplied, lastReported, pc, cur, acked, net, edits, faults>>

\* Ops TopoOrder could not place fail first.
FailUnresolved(o) ==
    /\ pc = "apply"
    /\ o \in OpsOf[cur.doc] \ Orderable
    /\ results[o] = "none"
    /\ RecordResult(o, "failed")

\* o is next in some dependency order.
Reached(o) ==
    /\ pc = "apply"
    /\ o \in Orderable
    /\ results[o] = "none"
    /\ \A u \in OpsOf[cur.doc] \ Orderable : results[u] # "none"
    /\ \A p \in Prereqs(o) : results[p] # "none"

\* Applied at this version before a crash or a journal error: not run again.
ResumeOp(o) ==
    /\ Reached(o)
    /\ Result(cur.version, o) = "applied"
    /\ results' = [results EXCEPT ![o] = "applied"]
    /\ UNCHANGED <<cpVars, diskVars, pc, cur, acked, net, edits, faults>>

SkipOp(o) ==
    /\ Reached(o)
    /\ Result(cur.version, o) # "applied"
    /\ \E p \in Prereqs(o) : results[p] \in Broken
    /\ RecordResult(o, "skipped")

\* Mutant: only a failed prerequisite holds an op back.
RunUnlessFailedPrereq(o) ==
    /\ Reached(o)
    /\ Result(cur.version, o) # "applied"
    /\ \A p \in Prereqs(o) : results[p] # "failed"
    /\ \E s \in {"applied", "failed"} : RecordResult(o, s)

\* The handler runs, and succeeds, fails, times out or is not registered.
RunOp(o) ==
    /\ Reached(o)
    /\ Result(cur.version, o) # "applied"
    /\ \A p \in Prereqs(o) : results[p] \notin Broken
    /\ \E s \in {"applied", "failed"} : RecordResult(o, s)

\* Mutant: the cursor advances only when every op applied.
FinishOnlyClean ==
    /\ pc = "apply"
    /\ \A o \in OpsOf[cur.doc] : results[o] # "none"
    /\ lastApplied' = IF \E o \in Ops : results[o] \in Broken THEN lastApplied ELSE cur.version
    /\ net' = net \cup {[version |-> cur.version, states |-> results]}
    /\ pc' = "report"
    /\ UNCHANGED <<cpVars, journal, lastReported, cur, results, acked, edits, faults>>

\* Every op is processed: SetLastAppliedVersion, then the status POST goes out.
FinishApply ==
    /\ pc = "apply"
    /\ \A o \in OpsOf[cur.doc] : results[o] # "none"
    /\ lastApplied' = cur.version
    /\ net' = net \cup {[version |-> cur.version, states |-> results]}
    /\ pc' = "report"
    /\ UNCHANGED <<cpVars, journal, lastReported, cur, results, acked, edits, faults>>

\* A journal error ends the pass; the loop backs off and fetches again.
JournalError ==
    /\ pc = "apply"
    /\ faults < MaxFaults
    /\ faults' = faults + 1
    /\ pc' = "poll"
    /\ cur' = NoCur
    /\ results' = NoResults
    /\ UNCHANGED <<cpVars, diskVars, acked, net, edits>>

\* The process dies, or exits for agent.update once the POST is over.
Crash ==
    /\ pc # "down"
    /\ faults < MaxFaults
    /\ faults' = faults + 1
    /\ pc' = "down"
    /\ cur' = NoCur
    /\ results' = NoResults
    /\ acked' = FALSE
    /\ UNCHANGED <<cpVars, diskVars, net, edits>>

-----------------------------------------------------------------------------
ApplyStep(o) == FailUnresolved(o) \/ ResumeOp(o) \/ SkipOp(o) \/ RunOp(o)

Next ==
    \/ ChangeDesired \/ ForceReapplyResource
    \/ IssueDSD \/ AlertApplyStuck
    \/ \E m \in net : HandleStatus(m) \/ Lose(m)
    \/ Start \/ Rereport \/ NoRereport \/ Fetch \/ FetchNothing
    \/ PostAcked \/ PostFailed
    \/ \E o \in Ops : ApplyStep(o)
    \/ FinishApply \/ JournalError \/ Crash

Spec == Init /\ [][Next]_vars

\* The resync ticker reconciles every server each minute; the agent process is
\* restarted by systemd and never stops stepping; a request that is repeated for
\* ever is answered in the end, and so is a fetch.
Fairness ==
    /\ WF_vars(IssueDSD) /\ WF_vars(AlertApplyStuck)
    /\ SF_vars(\E m \in net : HandleStatus(m))
    /\ WF_vars(Start) /\ WF_vars(Rereport) /\ WF_vars(NoRereport)
    /\ SF_vars(Fetch) /\ WF_vars(FetchNothing)
    /\ WF_vars(PostFailed)
    /\ WF_vars(\E o \in Ops : ApplyStep(o)) /\ WF_vars(FinishApply)

FairSpec == Spec /\ Fairness
-----------------------------------------------------------------------------
(* Properties *)

\* Every variable keeps its type.
TypeOK ==
    /\ desired \in Docs
    /\ version \in Nat /\ doc \in Docs \cup {NoDoc} /\ docHash \in Docs \cup {NoDoc}
    /\ appliedVersion \in Nat /\ applyOK \in BOOLEAN /\ failedOps \subseteq Ops
    /\ redriveCount \in Nat
    /\ alerts \subseteq Nat
    /\ DOMAIN journal \subseteq Nat \X Ops
    /\ \A k \in DOMAIN journal : journal[k] \in Recorded
    /\ lastApplied \in Nat
    /\ lastReported \in Nat
    /\ pc \in {"down", "poll", "rereport", "fetch", "apply", "report"}
    /\ cur \in [version : Nat, doc : Docs \cup {NoDoc}]
    /\ results \in [Ops -> OpState]
    /\ acked \in BOOLEAN
    /\ \A m \in net : m.version \in Nat /\ m.states \in [Ops -> OpState]
    /\ edits \in 0 .. MaxEdits
    /\ faults \in 0 .. MaxFaults

\* Once the control plane has recorded a report for the version it issued, its
\* verdict is what the agent's journal says: apply_failed_ops are exactly the
\* ops of the document that are not applied, and apply_ok holds when there are
\* none (ApplyDSDStatus; SIGMA-117, SIGMA-247).  Late, repeated and superseded
\* reports, crashes and resumed passes do not falsify it.
StatusIsTruth ==
    version > 0 /\ appliedVersion = version =>
        /\ failedOps = {o \in OpsOf[doc] : Result(version, o) # "applied"}
        /\ applyOK <=> failedOps = {}

\* The control plane never records a version the agent has not finished, and the
\* agent never finishes or reports one that was not issued.
NobodyAhead ==
    /\ appliedVersion <= lastApplied
    /\ lastApplied <= version
    /\ lastReported <= lastApplied

\* Recorded versions never go back: neither the agent's cursor (replay and
\* downgrade rejection) nor applied_version (superseded reports are ignored).
VersionsMonotone ==
    [][/\ lastApplied' >= lastApplied
       /\ appliedVersion' >= appliedVersion
       /\ version' >= version]_vars

\* In the issued document no op is applied unless all its prerequisites are,
\* whatever crashes, retries and resumptions led there (Apply's skip rule).
PrereqsApplied ==
    version > 0 =>
        \A o \in OpsOf[doc] : Result(version, o) = "applied" =>
            \A p \in DependsOn[doc][o] : Result(version, p) = "applied"

\* An op journalled as applied at a version keeps that record: no later pass
\* over the version runs it again ("completed ops are not re-run").
AppliedOpsStayApplied ==
    [][\A k \in DOMAIN journal :
          journal[k] = "applied" => k \in DOMAIN journal' /\ journal'[k] = "applied"]_vars

\* An unchanged document is issued again only when the agent has finished the
\* previous copy and some op of it did not apply: never while an apply is in
\* flight, and never because of a stale failure report (SIGMA-104).
RedriveOnlyAfterFailure ==
    [][version' > version /\ docHash # NoDoc /\ doc' = doc =>
          /\ lastApplied = version
          /\ \E o \in OpsOf[doc] : Result(version, o) \in Broken]_vars

\* "Stopped converging" is raised only for a version the agent finished with an
\* op that did not apply (SIGMA-247).
AlertMeansStuck ==
    \A v \in alerts : v <= lastApplied /\ \E o \in Ops : Result(v, o) \in Broken

\* Once the configuration stops changing the agent ends up having processed the
\* last version issued, crashes and lost requests notwithstanding.
AgentCatchesUp == <>[](version > 0 /\ lastApplied = version)

\* ... and the control plane ends up knowing it: the current configuration is
\* issued, its report is recorded, and it either converged or was alerted on.
\* With crashes this is what runDSDLoop's comment claims ("Re-derive from the
\* durable journal so it survives a restart too").
StatusReachesControlPlane ==
    <>[](/\ doc = desired
         /\ appliedVersion = version
         /\ applyOK \/ version \in alerts)

\* The part of it that holds: however many status POSTs are lost or answered too
\* late, the re-report at the top of the loop makes up for them, as long as the
\* process lives and its journal can be written.
LostReportsMadeUpFor == [](faults = 0) => StatusReachesControlPlane
=============================================================================
