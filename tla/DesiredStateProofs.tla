------------------------- MODULE DesiredStateProofs -------------------------
(***************************************************************************)
(* Proofs that DesiredState keeps its safety properties for every set of   *)
(* documents and ops, every dependency graph and every bound, and that the *)
(* search of TopoOrder places what OpGraph says can be placed.             *)
(***************************************************************************)
EXTENDS DesiredState, TopoOrder, NaturalsInduction, WellFoundedInduction, TLAPS

(* What one write does to the journal. *)

\* A Put (Journal.Record) changes the state of its own key and of no other.
LEMMA LookupPut ==
    ASSUME NEW j, NEW v, NEW o, NEW s, NEW w, NEW p
    PROVE  Lookup(Put(j, v, o, s), w, p) =
             IF w = v /\ p = o THEN s ELSE Lookup(j, w, p)
  BY DEF Lookup, Put

\* A Put (Journal.Record) keeps the journal well typed.
LEMMA PutType ==
    ASSUME NEW j, NEW v \in Nat, NEW o \in Ops, NEW s \in Recorded,
           DOMAIN j \subseteq Nat \X Ops,
           \A k \in DOMAIN j : j[k] \in Recorded
    PROVE  /\ DOMAIN Put(j, v, o, s) = DOMAIN j \cup {<<v, o>>}
           /\ DOMAIN Put(j, v, o, s) \subseteq Nat \X Ops
           /\ \A k \in DOMAIN Put(j, v, o, s) : Put(j, v, o, s)[k] \in Recorded
  BY DEF Put

\* A lookup (Journal.Result) yields an op state, "none" exactly for a missing key.
LEMMA LookupType ==
    ASSUME NEW j, NEW v, NEW o, \A k \in DOMAIN j : j[k] \in Recorded
    PROVE  /\ Lookup(j, v, o) \in OpState
           /\ Lookup(j, v, o) = "none" <=> <<v, o>> \notin DOMAIN j
  BY DEF Lookup, OpState, Recorded

-----------------------------------------------------------------------------
(* Types *)

\* While the agent applies a document it holds one; an issued version has one.
CurIsDoc == pc = "apply" => cur.doc \in Docs
RowHasDoc == version > 0 => doc \in Docs
TypeInv == TypeOK /\ CurIsDoc /\ RowHasDoc

\* Type correctness is inductive (initial states of the DSD exchange).
LEMMA TypeInit == Init => TypeInv
<1> SUFFICES ASSUME Init PROVE TypeInv
  OBVIOUS
<1>1. DOMAIN journal = {}
  BY DEF Init
<1>2. results \in [Ops -> OpState] /\ cur \in [version : Nat, doc : Docs \cup {NoDoc}]
  BY DEF Init, NoCur, NoResults, OpState
<1>3. acked \in BOOLEAN /\ applyOK \in BOOLEAN
  BY Zenon DEF Init
<1> QED
  BY <1>1, <1>2, <1>3, ConstantsAssumption DEF Init, TypeInv, TypeOK, CurIsDoc, RowHasDoc

\* Type correctness is inductive (steps of the control plane and the agent).
LEMMA TypeStep == TypeInv /\ [Next]_vars => TypeInv'
<1> SUFFICES ASSUME TypeInv, [Next]_vars PROVE TypeInv'
  OBVIOUS
<1> USE ConstantsAssumption DEF TypeInv, TypeOK, CurIsDoc, RowHasDoc
<1>1. CASE ChangeDesired
  BY <1>1 DEF ChangeDesired, docVars, reportVars, diskVars, memVars
<1>2. CASE ForceReapplyResource
  BY <1>2 DEF ForceReapplyResource, reportVars, diskVars, memVars
<1>3. CASE IssueDSD
  <2>1. applyOK' \in BOOLEAN
    BY <1>3, Zenon DEF IssueDSD
  <2> QED BY <1>3, <2>1 DEF IssueDSD, diskVars, memVars
<1>4. CASE AlertApplyStuck
  BY <1>4 DEF AlertApplyStuck, docVars, reportVars, diskVars, memVars
<1>5. ASSUME NEW m \in net, HandleStatus(m) PROVE TypeInv'
  <2>1. appliedVersion' \in Nat /\ failedOps' \subseteq Ops
    BY <1>5 DEF HandleStatus, ApplyDSDStatus, BrokenOps, reportVars
  <2>2. applyOK' \in BOOLEAN /\ acked' \in BOOLEAN
    BY <1>5 DEF HandleStatus, ApplyDSDStatus, reportVars
  <2> QED BY <1>5, <2>1, <2>2 DEF HandleStatus, docVars, diskVars
<1>6. ASSUME NEW m \in net, Lose(m) PROVE TypeInv'
  BY <1>6 DEF Lose, cpVars, docVars, reportVars, diskVars, memVars
<1>7. CASE Start
  BY <1>7 DEF Start, cpVars, docVars, reportVars
<1>8. CASE Rereport
  <2>1. ResultsForVersion(lastApplied) \in [Ops -> OpState]
    BY LookupType DEF ResultsForVersion, Result
  <2> QED BY <1>8, <2>1 DEF Rereport, cpVars, docVars, reportVars, diskVars
<1>9. CASE NoRereport
  BY <1>9 DEF NoRereport, cpVars, docVars, reportVars, diskVars
<1>10. CASE Fetch
  BY <1>10 DEF Fetch, cpVars, docVars, reportVars, diskVars, NoResults, OpState
<1>11. CASE FetchNothing
  BY <1>11 DEF FetchNothing, cpVars, docVars, reportVars, diskVars
<1>12. CASE PostAcked
  <2>1. lastReported' \in Nat /\ faults' \in 0 .. MaxFaults
    BY <1>12 DEF PostAcked
  <2>2. acked' \in BOOLEAN
    BY <1>12, Zenon DEF PostAcked
  <2> QED BY <1>12, <2>1, <2>2 DEF PostAcked, AfterPost, cpVars, docVars, reportVars
<1>13. CASE PostFailed
  <2>1. acked' \in BOOLEAN
    BY <1>13, Zenon DEF PostFailed
  <2> QED BY <1>13, <2>1 DEF PostFailed, AfterPost, cpVars, docVars, reportVars, diskVars
<1>14. ASSUME NEW o \in Ops, NEW s \in Recorded, RecordResult(o, s) PROVE TypeInv'
  <2>1. journal' = Put(journal, cur.version, o, s) /\ cur.version \in Nat
    BY <1>14 DEF RecordResult
  <2>2. /\ DOMAIN journal' \subseteq Nat \X Ops
        /\ \A k \in DOMAIN journal' : journal'[k] \in Recorded
    BY <2>1, PutType
  <2>3. results' \in [Ops -> OpState]
    BY <1>14 DEF RecordResult, OpState
  <2> QED BY <1>14, <2>2, <2>3 DEF RecordResult, cpVars, docVars, reportVars
<1>15. ASSUME NEW o \in Ops, ApplyStep(o) PROVE TypeInv'
  <2>1. CASE ResumeOp(o)
    BY <2>1 DEF ResumeOp, cpVars, docVars, reportVars, diskVars, OpState, Recorded
  <2> QED BY <1>14, <1>15, <2>1 DEF ApplyStep, FailUnresolved, SkipOp, RunOp, Recorded
<1>16. CASE FinishApply
  <2>1. \A m \in net' : m.version \in Nat /\ m.states \in [Ops -> OpState]
    BY <1>16 DEF FinishApply
  <2> QED BY <1>16, <2>1 DEF FinishApply, cpVars, docVars, reportVars
<1>17. CASE JournalError
  BY <1>17 DEF JournalError, cpVars, docVars, reportVars, diskVars, NoCur, NoResults, OpState
<1>18. CASE Crash
  <2>1. acked' \in BOOLEAN
    BY <1>18, Zenon DEF Crash
  <2> QED
    BY <1>18, <2>1 DEF Crash, cpVars, docVars, reportVars, diskVars, NoCur, NoResults, OpState
<1>19. CASE UNCHANGED vars
  BY <1>19 DEF vars, cpVars, docVars, reportVars, diskVars, memVars
<1> QED
  BY <1>1, <1>2, <1>3, <1>4, <1>5, <1>6, <1>7, <1>8, <1>9, <1>10, <1>11, <1>12,
     <1>13, <1>15, <1>16, <1>17, <1>18, <1>19 DEF Next

\* The variables of DesiredState hold values of their types in every reachable
\* state, for every choice of the constants.
THEOREM TypeCorrect == Spec => []TypeOK
BY TypeInit, TypeStep, PTL DEF Spec, TypeInv

-----------------------------------------------------------------------------
(* The inductive invariant.  The control plane's verdict on the issued      *)
(* version comes from a report in net; the report was the journal's content *)
(* when it was sent; and the journal's entries for a version are frozen     *)
(* once the agent's cursor reaches it, because the agent only writes under  *)
(* the version it is applying, which is above the cursor.                   *)

\* The document being applied is newer than the cursor and was issued.
ApplyingNewer ==
    pc = "apply" =>
        /\ lastApplied < cur.version
        /\ cur.version <= version
        /\ cur.version = version => cur.doc = doc

\* The journal holds entries only for issued versions, and for the issued and
\* the applied document only of their own ops.
JournalOfIssued ==
    /\ \A v \in Nat, o \in Ops :
          Result(v, o) # "none" =>
              0 < v /\ v <= version /\ (v = version => o \in OpsOf[doc])
    /\ pc = "apply" => \A o \in Ops : Result(cur.version, o) # "none" => o \in OpsOf[cur.doc]

\* What this pass has decided is what the journal says.
PassIsJournalled ==
    pc = "apply" => \A o \in Ops : results[o] # "none" => results[o] = Result(cur.version, o)

\* A report in the network is the journal's content for a finished version.
ReportsTruthful ==
    \A m \in net : /\ 0 < m.version /\ m.version <= lastApplied
                   /\ m.states = ResultsForVersion(m.version)

\* A finished version has a result for each op of its document.
FinishedIsComplete ==
    version > 0 /\ lastApplied = version =>
        \A o \in OpsOf[doc] : Result(version, o) # "none"

\* doc_hash is the hash of the issued document unless it was cleared.
HashOfDoc == docHash # NoDoc => docHash = doc /\ version > 0

\* Only ops that can be ordered are ever applied.
AppliedOrderable ==
    /\ version > 0 => \A o \in Ops : Result(version, o) = "applied" =>
                        o \in Resolvable(OpsOf[doc], DependsOn[doc])
    /\ pc = "apply" => \A o \in Ops : Result(cur.version, o) = "applied" => o \in Orderable

IInv ==
    /\ TypeInv /\ NobodyAhead /\ ApplyingNewer /\ JournalOfIssued
    /\ PassIsJournalled /\ ReportsTruthful /\ FinishedIsComplete /\ HashOfDoc
    /\ AppliedOrderable
    /\ StatusIsTruth /\ PrereqsApplied /\ AlertMeansStuck

\* The initial states of the DSD exchange satisfy the inductive invariant.
LEMMA InvInit == Init => IInv
<1> SUFFICES ASSUME Init PROVE IInv
  OBVIOUS
<1>1. TypeInv
  BY TypeInit
<1>2. \A v, o : Result(v, o) = "none"
  BY DEF Init, Result, Lookup
<1>3. /\ version = 0 /\ appliedVersion = 0 /\ lastApplied = 0 /\ lastReported = 0
      /\ pc = "down" /\ net = {} /\ docHash = NoDoc /\ redriveCount = 0 /\ alerts = {}
  BY DEF Init
<1> HIDE DEF Init
<1> QED
  BY <1>1, <1>2, <1>3, ConstantsAssumption
  DEF IInv, NobodyAhead, ApplyingNewer, JournalOfIssued, PassIsJournalled,
      ReportsTruthful, FinishedIsComplete, HashOfDoc, AppliedOrderable, StatusIsTruth,
      PrereqsApplied, AlertMeansStuck

\* A step that leaves the issued document, the journal, the cursor and the alerts
\* alone, and adds no report, keeps everything the invariant says of them.
LEMMA QuietStep ==
    ASSUME IInv, TypeInv',
           UNCHANGED <<docVars, journal, lastApplied, alerts>>,
           net' \subseteq net,
           lastReported' <= lastApplied,
           UNCHANGED reportVars,
           pc' = "apply" => UNCHANGED <<pc, cur, results>>
    PROVE  IInv'
BY ConstantsAssumption
   DEF IInv, NobodyAhead, ApplyingNewer, JournalOfIssued, PassIsJournalled,
       ReportsTruthful, FinishedIsComplete, HashOfDoc, AppliedOrderable, StatusIsTruth,
       PrereqsApplied, AlertMeansStuck, docVars, reportVars,
       Result, ResultsForVersion, Orderable

\* Recording an op's result (RecordResult): the entry is written under a version
\* above the cursor, so no report and no verdict is about it.
LEMMA RecordStep ==
    ASSUME IInv, TypeInv', NEW o \in OpsOf[cur.doc], NEW s \in Recorded, pc = "apply",
           RecordResult(o, s), results[o] = "none",
           Result(cur.version, o) # "applied",
           s = "applied" => /\ o \in Orderable
                            /\ \A p \in Prereqs(o) : results[p] = "applied"
    PROVE  IInv'
<1> USE ConstantsAssumption
<1>0. /\ cur.doc \in Docs /\ OpsOf[cur.doc] \subseteq Ops /\ o \in Ops
      /\ \A q \in Ops : DependsOn[cur.doc][q] \subseteq Ops
      /\ version > 0 => doc \in Docs
  BY DEF IInv, TypeInv, CurIsDoc, RowHasDoc
<1>1. /\ UNCHANGED <<docVars, reportVars, lastApplied, lastReported, alerts, net, pc, cur>>
      /\ results' = [results EXCEPT ![o] = s]
      /\ pc' = "apply"
  BY DEF RecordResult, cpVars
<1>2. \A v, p : Lookup(journal', v, p) = IF v = cur.version /\ p = o THEN s ELSE Result(v, p)
  BY LookupPut DEF RecordResult, Result
<1>3. /\ cur.version \in Nat /\ version \in Nat /\ lastApplied \in Nat /\ appliedVersion \in Nat
      /\ lastApplied < cur.version /\ cur.version <= version
      /\ cur.version = version => cur.doc = doc
      /\ appliedVersion <= lastApplied
  BY DEF IInv, TypeInv, TypeOK, ApplyingNewer, NobodyAhead
<1>4. s # "none"
  BY DEF Recorded
<1>5. \A v : v <= lastApplied /\ v \in Nat => \A p : Lookup(journal', v, p) = Result(v, p)
  BY <1>2, <1>3
<1>6. NobodyAhead' /\ ApplyingNewer' /\ HashOfDoc'
  BY <1>1 DEF IInv, NobodyAhead, ApplyingNewer, HashOfDoc, docVars, reportVars
<1>7. JournalOfIssued'
  <2>1. \A v \in Nat, p \in Ops : Lookup(journal', v, p) # "none" =>
            0 < v /\ v <= version /\ (v = version => p \in OpsOf[doc])
    BY <1>2, <1>3 DEF IInv, JournalOfIssued
  <2>2. \A p \in Ops : Lookup(journal', cur.version, p) # "none" => p \in OpsOf[cur.doc]
    BY <1>2 DEF IInv, JournalOfIssued
  <2> QED BY <1>1, <2>1, <2>2 DEF JournalOfIssued, docVars, Result
<1>8. PassIsJournalled'
  <2>1. \A p \in Ops : results'[p] # "none" => results'[p] = Lookup(journal', cur.version, p)
    BY <1>1, <1>2, <1>0 DEF IInv, TypeInv, TypeOK, PassIsJournalled
  <2> QED BY <1>1, <2>1 DEF PassIsJournalled, Result
<1>9. ReportsTruthful'
  <2>1. \A m \in net : [p \in Ops |-> Lookup(journal', m.version, p)] = [p \in Ops |-> Result(m.version, p)]
    BY <1>5 DEF IInv, TypeInv, TypeOK, ReportsTruthful
  <2> QED BY <1>1, <2>1 DEF IInv, ReportsTruthful, ResultsForVersion, Result
<1>10. FinishedIsComplete' /\ StatusIsTruth'
  <2>1. version' # lastApplied' /\ appliedVersion' # version'
    BY <1>1, <1>3 DEF docVars, reportVars
  <2> QED BY <2>1 DEF FinishedIsComplete, StatusIsTruth
<1>11. AlertMeansStuck'
  <2>1. \A v \in alerts : \A p : Lookup(journal', v, p) = Result(v, p)
    BY <1>5 DEF IInv, AlertMeansStuck, TypeInv, TypeOK
  <2> QED BY <1>1, <2>1 DEF IInv, AlertMeansStuck, Result
<1>12. AppliedOrderable'
  <2>1. \A p \in Ops : Lookup(journal', cur.version, p) = "applied" => p \in Orderable
    BY <1>2 DEF IInv, AppliedOrderable
  <2>2. version > 0 => \A p \in Ops : Lookup(journal', version, p) = "applied" =>
                          p \in Resolvable(OpsOf[doc], DependsOn[doc])
    BY <1>2, <1>3, <2>1 DEF IInv, AppliedOrderable, Orderable
  <2> QED BY <1>1, <2>1, <2>2 DEF AppliedOrderable, Orderable, docVars, Result
<1>13. PrereqsApplied'
  <2>1. CASE cur.version # version
    <3>1. \A p : Lookup(journal', version, p) = Result(version, p)
      BY <1>2, <2>1
    <3> QED BY <1>1, <3>1 DEF IInv, PrereqsApplied, docVars, Result
  <2>2. CASE cur.version = version
    <3>1. ASSUME NEW q \in OpsOf[doc], NEW p \in DependsOn[doc][q],
                 Lookup(journal', version, q) = "applied"
          PROVE  Lookup(journal', version, p) = "applied"
      <4>1. p \in Ops /\ q \in Ops /\ version > 0
        BY <1>0, <1>3, <2>2
      <4>2. CASE q = o
        <5>1. results[p] = "applied"
          BY <4>2, <3>1, <1>2, <1>3, <2>2 DEF Prereqs
        <5>2. Result(version, p) = "applied" /\ p # o
          BY <5>1, <4>1, <2>2 DEF IInv, PassIsJournalled
        <5> QED BY <5>2, <1>2
      <4>3. CASE q # o
        <5>1. Result(version, p) = "applied"
          BY <4>1, <4>3, <3>1, <1>2 DEF IInv, PrereqsApplied
        <5> QED BY <5>1, <1>2, <2>2
      <4> QED BY <4>2, <4>3
    <3> QED BY <1>1, <3>1 DEF PrereqsApplied, docVars, Result
  <2> QED BY <2>1, <2>2
<1> QED
  BY <1>6, <1>7, <1>8, <1>9, <1>10, <1>11, <1>12, <1>13 DEF IInv

\* Issuing a document (IssueDSD) makes a version with no journal entry.
LEMMA IssueStep == IInv /\ TypeInv' /\ IssueDSD => IInv'
<1> SUFFICES ASSUME IInv, TypeInv', IssueDSD PROVE IInv'
  OBVIOUS
<1>1. /\ version' = version + 1 /\ doc' = desired /\ docHash' = desired
      /\ redriveCount' = IF SameDoc THEN redriveCount + 1 ELSE 0
      /\ UNCHANGED <<appliedVersion, alerts, journal, lastApplied, lastReported, pc, cur,
                     results, net>>
  BY DEF IssueDSD, diskVars, memVars
<1>2. /\ version \in Nat /\ lastApplied \in Nat /\ appliedVersion \in Nat /\ redriveCount \in Nat
      /\ appliedVersion <= lastApplied /\ lastApplied <= version
  BY DEF IInv, TypeInv, TypeOK, NobodyAhead
<1>3. \A o \in Ops : Lookup(journal, version', o) = "none"
  BY <1>1, <1>2 DEF IInv, JournalOfIssued, Result
<1>5. NobodyAhead' /\ ApplyingNewer' /\ HashOfDoc'
  BY <1>1, <1>2
  DEF IInv, NobodyAhead, ApplyingNewer, HashOfDoc, TypeInv, TypeOK
<1>6. JournalOfIssued'
  BY <1>1, <1>2, <1>3 DEF IInv, JournalOfIssued, Result
<1>7. PassIsJournalled' /\ ReportsTruthful' /\ AlertMeansStuck'
  BY <1>1 DEF IInv, PassIsJournalled, ReportsTruthful, AlertMeansStuck, Result, ResultsForVersion
<1>8. FinishedIsComplete' /\ StatusIsTruth'
  BY <1>1, <1>2 DEF FinishedIsComplete, StatusIsTruth
<1>9. AppliedOrderable' /\ PrereqsApplied'
  <2>1. desired \in Docs /\ OpsOf[desired] \subseteq Ops
    BY ConstantsAssumption DEF IInv, TypeInv, TypeOK
  <2> QED BY <1>1, <1>3, <2>1 DEF IInv, AppliedOrderable, PrereqsApplied, Result, Orderable
<1> QED BY <1>5, <1>6, <1>7, <1>8, <1>9 DEF IInv

\* Recording a report (HandleStatus): when it is about the issued version, the
\* agent has finished that version and the report is the journal's content.
LEMMA HandleStep ==
    ASSUME IInv, TypeInv', NEW m \in net, HandleStatus(m)
    PROVE  IInv'
<1> USE ConstantsAssumption
<1>1. UNCHANGED <<docVars, alerts, journal, lastApplied, lastReported, pc, cur, results, net>>
  BY DEF HandleStatus, diskVars
<1>2. /\ 0 < m.version /\ m.version <= lastApplied
      /\ m.states = ResultsForVersion(m.version)
      /\ m.version \in Nat /\ version \in Nat /\ lastApplied \in Nat /\ appliedVersion \in Nat
      /\ lastApplied <= version /\ appliedVersion <= lastApplied
  BY DEF IInv, ReportsTruthful, TypeInv, TypeOK, NobodyAhead
<1>3. CASE m.version < appliedVersion
  BY <1>1, <1>3, QuietStep, <1>2 DEF HandleStatus, ApplyDSDStatus, IInv, NobodyAhead
<1>4. CASE ~(m.version < appliedVersion)
  <2>1. /\ appliedVersion' = m.version
        /\ applyOK' = (BrokenOps(m) = {})
        /\ failedOps' = BrokenOps(m)
    BY <1>2, <1>4 DEF HandleStatus, ApplyDSDStatus
  <2>2. NobodyAhead'
    BY <1>1, <1>2, <2>1 DEF IInv, NobodyAhead, docVars
  <2>3. StatusIsTruth'
    <3> SUFFICES ASSUME version > 0, m.version = version
                 PROVE  /\ BrokenOps(m) = {o \in OpsOf[doc] : Lookup(journal, version, o) # "applied"}
                        /\ applyOK' <=> BrokenOps(m) = {}
      BY <1>1, <2>1 DEF StatusIsTruth, Result, docVars
    <3>1. lastApplied = version
      BY <1>2
    <3>2. \A o \in OpsOf[doc] : o \in Ops /\ Lookup(journal, version, o) # "none"
      BY <3>1 DEF IInv, FinishedIsComplete, Result, TypeInv, RowHasDoc
    <3>3. \A o \in Ops : Lookup(journal, version, o) # "none" => o \in OpsOf[doc]
      BY <1>2 DEF IInv, JournalOfIssued, Result
    <3>4. \A o \in Ops : m.states[o] = Lookup(journal, version, o)
      BY <1>2 DEF ResultsForVersion, Result
    <3>5. \A o \in Ops : Lookup(journal, version, o) \in OpState
      BY LookupType DEF IInv, TypeInv, TypeOK
    <3> QED BY <2>1, <3>2, <3>3, <3>4, <3>5 DEF BrokenOps, Broken, OpState, Recorded
  <2> QED
    BY <1>1, <2>2, <2>3
    DEF IInv, ApplyingNewer, JournalOfIssued, PassIsJournalled,
        ReportsTruthful, FinishedIsComplete, HashOfDoc, AppliedOrderable,
        PrereqsApplied, AlertMeansStuck, docVars,
        Result, ResultsForVersion, Orderable
<1> QED BY <1>3, <1>4

\* Finishing a pass (FinishApply): the report is what the journal holds.
LEMMA FinishStep == IInv /\ TypeInv' /\ FinishApply => IInv'
<1> SUFFICES ASSUME IInv, TypeInv', FinishApply PROVE IInv'
  OBVIOUS
<1> USE ConstantsAssumption
<1>1. /\ UNCHANGED <<docVars, reportVars, alerts, journal, lastReported>>
      /\ lastApplied' = cur.version /\ pc' = "report" /\ pc = "apply"
      /\ net' = net \cup {[version |-> cur.version, states |-> results]}
      /\ \A o \in OpsOf[cur.doc] : results[o] # "none"
  BY DEF FinishApply, cpVars
<1>2. /\ cur.version \in Nat /\ version \in Nat /\ lastApplied \in Nat
      /\ appliedVersion \in Nat /\ lastReported \in Nat
      /\ lastApplied < cur.version /\ cur.version <= version
      /\ cur.version = version => cur.doc = doc
      /\ appliedVersion <= lastApplied /\ lastReported <= lastApplied
  BY <1>1 DEF IInv, TypeInv, TypeOK, ApplyingNewer, NobodyAhead
<1>3. results = ResultsForVersion(cur.version)
  <2>1. \A o \in Ops : results[o] = Result(cur.version, o)
    BY <1>1 DEF IInv, PassIsJournalled, JournalOfIssued
  <2> QED BY <2>1 DEF IInv, TypeInv, TypeOK, ResultsForVersion
<1>4. NobodyAhead'
  BY <1>1, <1>2 DEF NobodyAhead, docVars, reportVars
<1>5. ReportsTruthful'
  <2>1. \A m \in net : m.version \in Nat /\ 0 < m.version /\ m.version <= cur.version
    BY <1>2 DEF IInv, ReportsTruthful, TypeInv, TypeOK
  <2> QED BY <1>1, <1>2, <1>3, <2>1 DEF IInv, ReportsTruthful, ResultsForVersion, Result
<1>6. FinishedIsComplete'
  <2>1. cur.version = version => \A o \in OpsOf[doc] : Lookup(journal, version, o) # "none"
    BY <1>1, <1>2, <1>3 DEF ResultsForVersion, Result, IInv, TypeInv, CurIsDoc
  <2> QED BY <1>1, <2>1 DEF FinishedIsComplete, Result, docVars
<1>7. AlertMeansStuck'
  BY <1>1, <1>2 DEF IInv, AlertMeansStuck, Result, TypeInv, TypeOK
<1> QED
  BY <1>1, <1>4, <1>5, <1>6, <1>7
  DEF IInv, ApplyingNewer, JournalOfIssued, PassIsJournalled, HashOfDoc, AppliedOrderable,
      StatusIsTruth, PrereqsApplied, docVars, reportVars, Result

\* Every step of the control plane, the agent and the network keeps the
\* inductive invariant.
LEMMA InvStep == IInv /\ [Next]_vars => IInv'
<1> SUFFICES ASSUME IInv, [Next]_vars PROVE IInv'
  OBVIOUS
<1> USE ConstantsAssumption
<1>0. TypeInv' /\ TypeInv
  BY TypeStep DEF IInv
<1>a. lastReported <= lastApplied /\ lastReported \in Nat /\ lastApplied \in Nat
  BY DEF IInv, NobodyAhead, TypeInv, TypeOK
<1>1. CASE ChangeDesired
  BY <1>0, <1>a, <1>1, QuietStep DEF ChangeDesired, diskVars, memVars
<1>2. CASE ForceReapplyResource
  BY <1>0, <1>2
  DEF ForceReapplyResource, reportVars, diskVars, memVars,
      IInv, NobodyAhead, ApplyingNewer, JournalOfIssued, PassIsJournalled,
      ReportsTruthful, FinishedIsComplete, HashOfDoc, AppliedOrderable, StatusIsTruth,
      PrereqsApplied, AlertMeansStuck, Result, ResultsForVersion, Orderable
<1>3. CASE IssueDSD
  BY <1>0, <1>3, IssueStep
<1>4. CASE AlertApplyStuck
  <2>1. AlertMeansStuck'
    <3>0. /\ version \in Nat /\ appliedVersion \in Nat /\ lastApplied \in Nat
          /\ appliedVersion <= lastApplied /\ lastApplied <= version
      BY DEF IInv, NobodyAhead, TypeInv, TypeOK
    <3>b. version > 0 /\ ~(appliedVersion < version) /\ ~applyOK
      BY <1>4, Zenon DEF AlertApplyStuck, SameDoc, Converged
    <3>1. version > 0 /\ appliedVersion = version /\ ~applyOK
      BY <3>0, <3>b
    <3>2. PICK o \in OpsOf[doc] : Result(version, o) # "applied"
      BY <3>1, Zenon DEF IInv, StatusIsTruth
    <3>3. o \in Ops /\ lastApplied = version
      BY <3>0, <3>1 DEF IInv, TypeInv, RowHasDoc
    <3>4. Result(version, o) \in Broken
      <4>1. Result(version, o) # "none"
        BY <3>1, <3>2, <3>3 DEF IInv, FinishedIsComplete
      <4>2. Result(version, o) \in OpState
        BY LookupType DEF Result, IInv, TypeInv, TypeOK
      <4> QED BY <3>2, <4>1, <4>2 DEF OpState, Recorded, Broken
    <3> QED BY <1>4, <3>3, <3>4 DEF AlertApplyStuck, IInv, AlertMeansStuck, Result, diskVars,
                                    TypeInv, TypeOK
  <2> QED
    BY <1>0, <1>4, <2>1
    DEF AlertApplyStuck, docVars, reportVars, diskVars, memVars,
        IInv, NobodyAhead, ApplyingNewer, JournalOfIssued, PassIsJournalled,
        ReportsTruthful, FinishedIsComplete, HashOfDoc, AppliedOrderable, StatusIsTruth,
        PrereqsApplied, Result, ResultsForVersion, Orderable
<1>5. ASSUME NEW m \in net, HandleStatus(m) PROVE IInv'
  BY <1>0, <1>5, HandleStep
<1>6. ASSUME NEW m \in net, Lose(m) PROVE IInv'
  BY <1>0, <1>a, <1>6, QuietStep DEF Lose, cpVars, diskVars, memVars
<1>7. CASE Start
  BY <1>0, <1>a, <1>7, QuietStep DEF Start, cpVars
<1>8. CASE Rereport
  <2>1. 0 < lastApplied
    BY <1>8, <1>a DEF Rereport, NeedsRereport
  <2>2. ReportsTruthful'
    BY <1>8, <1>a, <2>1 DEF Rereport, IInv, ReportsTruthful, ResultsForVersion, Result, diskVars
  <2> QED
    BY <1>0, <1>8, <2>2
    DEF Rereport, cpVars, docVars, reportVars, diskVars,
        IInv, NobodyAhead, ApplyingNewer, JournalOfIssued, PassIsJournalled,
        FinishedIsComplete, HashOfDoc, AppliedOrderable, StatusIsTruth,
        PrereqsApplied, AlertMeansStuck, Result, Orderable
<1>9. CASE NoRereport
  BY <1>0, <1>a, <1>9, QuietStep DEF NoRereport, cpVars, diskVars
<1>10. CASE Fetch
  <2>1. /\ UNCHANGED <<docVars, reportVars, alerts, journal, lastApplied, lastReported, net>>
        /\ cur'.version = version /\ cur'.doc = doc /\ results' = NoResults
        /\ version > lastApplied /\ version > 0
    BY <1>10, <1>a DEF Fetch, cpVars, diskVars, IInv, TypeInv, TypeOK
  <2>2. ApplyingNewer' /\ PassIsJournalled' /\ NobodyAhead'
    BY <2>1 DEF ApplyingNewer, PassIsJournalled, NoResults, docVars, reportVars, IInv, NobodyAhead,
                TypeInv, TypeOK
  <2>3. JournalOfIssued' /\ AppliedOrderable'
    BY <2>1 DEF IInv, TypeInv, TypeOK, JournalOfIssued, AppliedOrderable, Orderable, docVars, Result
  <2> QED
    BY <1>0, <2>1, <2>2, <2>3
    DEF IInv, ReportsTruthful, FinishedIsComplete, HashOfDoc, StatusIsTruth,
        PrereqsApplied, AlertMeansStuck, docVars, reportVars, Result, ResultsForVersion
<1>11. CASE FetchNothing
  BY <1>0, <1>a, <1>11, QuietStep DEF FetchNothing, cpVars, diskVars
<1>12. CASE PostAcked
  <2>1. lastReported' <= lastApplied
    BY <1>12, <1>a DEF PostAcked
  <2> QED BY <1>0, <1>12, <2>1, QuietStep DEF PostAcked, AfterPost, cpVars
<1>13. CASE PostFailed
  BY <1>0, <1>a, <1>13, QuietStep DEF PostFailed, AfterPost, cpVars, diskVars
<1>14. ASSUME NEW o \in Ops, ApplyStep(o) PROVE IInv'
  <2>0. pc = "apply" /\ results[o] = "none"
    BY <1>14 DEF ApplyStep, FailUnresolved, ResumeOp, SkipOp, RunOp, Reached
  <2>a. cur.doc \in Docs /\ \A p \in Prereqs(o) : p \in Ops
    BY <2>0 DEF IInv, TypeInv, CurIsDoc, Prereqs
  <2>b. Orderable \subseteq OpsOf[cur.doc]
    BY DEF Orderable, Resolvable
  <2>1. CASE FailUnresolved(o)
    <3>1. Result(cur.version, o) # "applied"
      BY <2>0, <2>1 DEF FailUnresolved, IInv, AppliedOrderable
    <3> QED BY <1>0, <2>0, <2>1, <3>1, RecordStep DEF FailUnresolved, Recorded
  <2>2. CASE ResumeOp(o)
    <3>1. PassIsJournalled'
      BY <2>2 DEF ResumeOp, IInv, TypeInv, TypeOK, PassIsJournalled, Result, diskVars
    <3> QED
      BY <1>0, <2>2, <3>1
      DEF ResumeOp, cpVars, docVars, reportVars, diskVars,
          IInv, NobodyAhead, ApplyingNewer, JournalOfIssued, ReportsTruthful,
          FinishedIsComplete, HashOfDoc, AppliedOrderable, StatusIsTruth,
          PrereqsApplied, AlertMeansStuck, Result, ResultsForVersion, Orderable
  <2>3. CASE SkipOp(o)
    BY <1>0, <2>0, <2>b, <2>3, RecordStep DEF SkipOp, Reached, Recorded
  <2>4. CASE RunOp(o)
    <3>1. PICK s \in {"applied", "failed"} : RecordResult(o, s)
      BY <2>4 DEF RunOp
    <3>2. \A p \in Prereqs(o) : results[p] = "applied"
      BY <2>4, <2>a DEF RunOp, Reached, Broken, IInv, TypeInv, TypeOK, OpState, Recorded
    <3>3. o \in Orderable /\ Result(cur.version, o) # "applied"
      BY <2>4 DEF RunOp, Reached
    <3> QED BY <1>0, <2>0, <2>b, <3>1, <3>2, <3>3, RecordStep DEF Recorded
  <2> QED BY <1>14, <2>1, <2>2, <2>3, <2>4 DEF ApplyStep
<1>15. CASE FinishApply
  BY <1>0, <1>15, FinishStep
<1>16. CASE JournalError
  BY <1>0, <1>a, <1>16, QuietStep DEF JournalError, cpVars, diskVars
<1>17. CASE Crash
  BY <1>0, <1>a, <1>17, QuietStep DEF Crash, cpVars, diskVars
<1>18. CASE UNCHANGED vars
  BY <1>0, <1>a, <1>18, QuietStep DEF vars, cpVars, diskVars, memVars
<1> QED
  BY <1>1, <1>2, <1>3, <1>4, <1>5, <1>6, <1>7, <1>8, <1>9, <1>10, <1>11, <1>12,
     <1>13, <1>14, <1>15, <1>16, <1>17, <1>18 DEF Next

\* The inductive invariant holds in every reachable state of the DSD exchange.
THEOREM InvCorrect == Spec => []IInv
BY InvInit, InvStep, PTL DEF Spec

\* The control plane's verdict on the issued document is the agent's journal's.
THEOREM StatusIsTruthCorrect == Spec => []StatusIsTruth
BY InvCorrect, PTL DEF IInv

\* Nobody records a version that the other side has not reached.
THEOREM NobodyAheadCorrect == Spec => []NobodyAhead
BY InvCorrect, PTL DEF IInv

\* No op of the issued document is applied before its prerequisites.
THEOREM PrereqsAppliedCorrect == Spec => []PrereqsApplied
BY InvCorrect, PTL DEF IInv

\* "Stopped converging" alerts are about versions that really failed.
THEOREM AlertMeansStuckCorrect == Spec => []AlertMeansStuck
BY InvCorrect, PTL DEF IInv

-----------------------------------------------------------------------------
(* Action properties *)

\* Which step writes what: the journal only by recording an op that is not
\* applied yet, the cursor only by FinishApply, the issued version only by
\* IssueDSD, the recorded version only by a status report.
LEMMA Footprint ==
    ASSUME IInv, [Next]_vars
    PROVE  /\ \/ UNCHANGED journal
              \/ /\ pc = "apply"
                 /\ \E o \in Ops, s \in Recorded :
                        /\ Result(cur.version, o) # "applied"
                        /\ journal' = Put(journal, cur.version, o, s)
           /\ UNCHANGED lastApplied \/ FinishApply
           /\ UNCHANGED version \/ IssueDSD
           /\ UNCHANGED appliedVersion \/ \E m \in net : HandleStatus(m)
<1> DEFINE Writes(o) == \E s \in Recorded :
                           /\ Result(cur.version, o) # "applied"
                           /\ journal' = Put(journal, cur.version, o, s)
           Rest == /\ UNCHANGED lastApplied \/ FinishApply
                   /\ UNCHANGED version \/ IssueDSD
                   /\ UNCHANGED appliedVersion \/ \E m \in net : HandleStatus(m)
<1>1. ASSUME NEW o \in Ops, ApplyStep(o)
      PROVE  (UNCHANGED journal \/ (pc = "apply" /\ Writes(o))) /\ Rest
  <2>1. pc = "apply"
    BY <1>1 DEF ApplyStep, FailUnresolved, ResumeOp, SkipOp, RunOp, Reached
  <2>2. UNCHANGED <<lastApplied, version, appliedVersion>>
    BY <1>1 DEF ApplyStep, FailUnresolved, ResumeOp, SkipOp, RunOp, RecordResult,
                cpVars, docVars, reportVars, diskVars
  <2>3. CASE FailUnresolved(o)
    <3>1. Result(cur.version, o) # "applied"
      BY <2>1, <2>3 DEF FailUnresolved, IInv, AppliedOrderable
    <3> QED BY <2>1, <2>2, <2>3, <3>1 DEF FailUnresolved, RecordResult, Recorded
  <2>4. CASE ResumeOp(o)
    BY <2>2, <2>4 DEF ResumeOp, diskVars
  <2>5. CASE SkipOp(o) \/ RunOp(o)
    BY <2>1, <2>2, <2>5 DEF SkipOp, RunOp, RecordResult, Recorded
  <2> QED BY <1>1, <2>3, <2>4, <2>5 DEF ApplyStep
<1>2. ASSUME NEW m \in net, HandleStatus(m) PROVE UNCHANGED journal /\ Rest
  BY <1>2 DEF HandleStatus, docVars, diskVars
<1>3. ASSUME NEW m \in net, Lose(m) PROVE UNCHANGED journal /\ Rest
  BY <1>3 DEF Lose, cpVars, docVars, reportVars, diskVars
<1>4. CASE \/ ChangeDesired \/ ForceReapplyResource \/ IssueDSD \/ AlertApplyStuck
  BY <1>4 DEF ChangeDesired, ForceReapplyResource, IssueDSD, AlertApplyStuck,
              docVars, reportVars, diskVars
<1>5. CASE \/ Start \/ Rereport \/ NoRereport \/ Fetch \/ FetchNothing \/ PostAcked \/ PostFailed
           \/ FinishApply \/ JournalError \/ Crash
  BY <1>5 DEF Start, Rereport, NoRereport, Fetch, FetchNothing, PostAcked, PostFailed,
              FinishApply, JournalError, Crash, cpVars, docVars, reportVars, diskVars
<1>6. CASE UNCHANGED vars
  BY <1>6 DEF vars, cpVars, docVars, reportVars, diskVars
<1> QED BY <1>1, <1>2, <1>3, <1>4, <1>5, <1>6 DEF Next

\* Neither the agent's cursor nor applied_version nor the issued version ever
\* goes back, whatever reports are late or repeated.
THEOREM VersionsMonotoneCorrect == Spec => VersionsMonotone
<1>1. ASSUME IInv, [Next]_vars
      PROVE  /\ lastApplied' >= lastApplied
             /\ appliedVersion' >= appliedVersion
             /\ version' >= version
  <2>1. version \in Nat /\ lastApplied \in Nat /\ appliedVersion \in Nat /\ cur.version \in Nat
    BY <1>1 DEF IInv, TypeInv, TypeOK
  <2>2. lastApplied' >= lastApplied
    BY <1>1, <2>1, Footprint DEF FinishApply, IInv, ApplyingNewer
  <2>3. version' >= version
    <3>1. IssueDSD => version' = version + 1
      BY Zenon DEF IssueDSD
    <3>2. UNCHANGED version \/ IssueDSD
      BY <1>1, Footprint, Zenon
    <3> QED BY <2>1, <3>1, <3>2
  <2>4. ASSUME NEW m \in net, HandleStatus(m) PROVE appliedVersion' >= appliedVersion
    BY <1>1, <2>1, <2>4 DEF HandleStatus, ApplyDSDStatus, reportVars, IInv, TypeInv, TypeOK
  <2>5. appliedVersion' >= appliedVersion
    BY <1>1, <2>1, <2>4, Footprint
  <2> QED BY <2>2, <2>3, <2>5
<1> QED BY <1>1, InvCorrect, PTL DEF Spec, VersionsMonotone

\* An op the journal says is applied at a version is never run again there.
THEOREM AppliedOpsStayAppliedCorrect == Spec => AppliedOpsStayApplied
<1>1. ASSUME IInv, [Next]_vars
      PROVE  \A k \in DOMAIN journal :
                journal[k] = "applied" => k \in DOMAIN journal' /\ journal'[k] = "applied"
  <2> SUFFICES ASSUME NEW k \in DOMAIN journal, journal[k] = "applied"
               PROVE  k \in DOMAIN journal' /\ journal'[k] = "applied"
    OBVIOUS
  <2>1. CASE UNCHANGED journal
    BY <2>1
  <2>2. CASE \E o \in Ops, s \in Recorded : /\ Result(cur.version, o) # "applied"
                                             /\ journal' = Put(journal, cur.version, o, s)
    BY <2>2 DEF Result, Lookup, Put
  <2> QED BY <1>1, <2>1, <2>2, Footprint
<1> QED BY <1>1, InvCorrect, PTL DEF Spec, AppliedOpsStayApplied

\* An unchanged document is re-issued only after the agent finished it with an op
\* that did not apply.
THEOREM RedriveOnlyAfterFailureCorrect == Spec => RedriveOnlyAfterFailure
<1>1. ASSUME IInv, [Next]_vars, version' > version, docHash # NoDoc, doc' = doc
      PROVE  /\ lastApplied = version
             /\ \E o \in OpsOf[doc] : Result(version, o) \in Broken
  <2> USE ConstantsAssumption
  <2>1. /\ version \in Nat /\ lastApplied \in Nat /\ appliedVersion \in Nat
        /\ appliedVersion <= lastApplied /\ lastApplied <= version
        /\ docHash = doc /\ doc \in Docs
    BY <1>1 DEF IInv, TypeInv, TypeOK, NobodyAhead, HashOfDoc
  <2>2. IssueDSD
    BY <1>1, <2>1, Footprint
  <2>3. version > 0 /\ docHash = desired
    BY <1>1, <2>1, <2>2 DEF IssueDSD, IInv, TypeInv, TypeOK, HashOfDoc
  <2>4. ~applyOK /\ ~(appliedVersion < version)
    BY <2>2, <2>3, Zenon DEF IssueDSD, SameDoc, Converged
  <2>5. appliedVersion = version /\ lastApplied = version
    BY <2>1, <2>4
  <2>a. /\ failedOps = {q \in OpsOf[doc] : Result(version, q) # "applied"}
        /\ applyOK <=> failedOps = {}
    BY <1>1, <2>3, <2>5, Zenon DEF IInv, StatusIsTruth
  <2>b. failedOps # {}
    BY <2>4, <2>a, Zenon
  <2>6. PICK o \in OpsOf[doc] : Result(version, o) # "applied"
    BY <2>a, <2>b
  <2>7. Result(version, o) # "none"
    BY <1>1, <2>3, <2>5 DEF IInv, FinishedIsComplete
  <2>8. Result(version, o) \in OpState
    BY <1>1, LookupType DEF Result, IInv, TypeInv, TypeOK
  <2>9. Result(version, o) \in Broken
    BY <2>6, <2>7, <2>8 DEF OpState, Recorded, Broken
  <2> QED BY <2>5, <2>9
<1> QED BY <1>1, InvCorrect, PTL DEF Spec, RedriveOnlyAfterFailure

-----------------------------------------------------------------------------
(* The order of a document's ops (TopoOrder).  The search is right for every *)
(* list: what it placed has all prerequisites before it, and what it refused *)
(* depends on a missing id, on a refused op, or on a call under way, and     *)
(* then the calls from that one on are a cycle.                              *)

L == Members(list)

SearchShape ==
    /\ list \in Seq(Ids)
    /\ dep \in [L -> Seq(Ids \cup {Missing})]
    /\ state \in [L -> 0..2] /\ bad \subseteq L /\ order \in Seq(L)
    /\ stack \in Seq([id : L, next : Nat \ {0}])
    /\ root \in 1..(Len(list) + 1) /\ last \in 1..(Len(list) + 1) /\ unresolved \in Seq(L)

\* The colours say where an op is.
Colours ==
    /\ \A o \in L : state[o] = 1 <=> \E k \in DOMAIN stack : stack[k].id = o
    /\ \A o \in L : state[o] = 2 <=> o \in bad \cup Members(order)
    /\ bad \cap Members(order) = {}

\* Each call is about the dependency that the one below it looks at, and the
\* dependencies before that one are placed.
Calls ==
    /\ \A k \in DOMAIN stack : stack[k].next <= Len(dep[stack[k].id]) + 1
    /\ \A k \in 1..(Len(stack) - 1) : /\ stack[k].next <= Len(dep[stack[k].id])
                                      /\ dep[stack[k].id][stack[k].next] = stack[k + 1].id
    /\ \A k \in DOMAIN stack : \A j \in 1..(stack[k].next - 1) : dep[stack[k].id][j] \in Members(order)

\* The two loops over the list.
Loops ==
    /\ \A j \in 1..(root - 1) : state[list[j]] # 0
    /\ last > 1 => root > Len(list) /\ stack = <<>>
    /\ Members(unresolved) = {list[j] : j \in 1..(last - 1)} \cap bad

RefusedRightly == bad \cap Resolvable(L, DepSet) = {}

TopoInv ==
    /\ SearchShape /\ Colours /\ NoReentry /\ Calls /\ Loops
    /\ DependencyFirst /\ RefusedRightly

-----------------------------------------------------------------------------
\* Appending an op to a result adds it and nothing else.
LEMMA MembersAppend ==
    ASSUME NEW S, NEW s \in Seq(S), NEW x
    PROVE  Members(Append(s, x)) = Members(s) \cup {x}
  <1>1. /\ DOMAIN Append(s, x) = 1..(Len(s) + 1) /\ DOMAIN s = 1..Len(s)
        /\ Append(s, x)[Len(s) + 1] = x /\ Len(s) \in Nat
        /\ \A i \in 1..Len(s) : Append(s, x)[i] = s[i]
    OBVIOUS
  <1>2. Members(s) \subseteq Members(Append(s, x)) BY <1>1 DEF Members
  <1>3. x \in Members(Append(s, x)) BY <1>1 DEF Members
  <1>4. ASSUME NEW i \in DOMAIN Append(s, x) PROVE Append(s, x)[i] \in Members(s) \cup {x}
    <2>1. i = Len(s) + 1 \/ i \in 1..Len(s) BY <1>1
    <2> QED BY <1>1, <2>1 DEF Members
  <1>5. Members(Append(s, x)) \subseteq Members(s) \cup {x} BY <1>4, Zenon DEF Members
  <1> QED BY <1>2, <1>3, <1>5

\* The bounded lists are sequences.
LEMMA ListsAreSeqs ==
    ASSUME NEW S, NEW n \in Nat, NEW s \in Lists(S, n) PROVE s \in Seq(S)
  <1>1. PICK m \in 0..n : s \in [1..m -> S] BY DEF Lists
  <1> QED BY <1>1

\* TopoOrder begins with nothing visited.
LEMMA TopoStart == TopoInit => TopoInv
  <1> SUFFICES ASSUME TopoInit PROVE TopoInv OBVIOUS
  <1> USE DEF TopoInit
  <1>1. list \in Seq(Ids) BY ListsAreSeqs, TopoAssumption
  <1>2. dep \in [L -> Seq(Ids \cup {Missing})]
    <2>1. Lists(Ids \cup {Missing}, MaxDeps) \subseteq Seq(Ids \cup {Missing})
      BY ListsAreSeqs, TopoAssumption
    <2> QED BY <2>1 DEF L
  <1>3. SearchShape BY <1>1, <1>2 DEF SearchShape, L
  <1>4. Members(order) = {} /\ Members(unresolved) = {} /\ DOMAIN stack = {} BY DEF Members
  <1>5. Colours BY <1>4 DEF Colours, L
  <1>6. NoReentry /\ Calls BY <1>4 DEF NoReentry, Calls
  <1>7. Loops BY <1>4 DEF Loops
  <1>8. DependencyFirst /\ RefusedRightly BY DEF DependencyFirst, RefusedRightly
  <1> QED BY <1>3, <1>5, <1>6, <1>7, <1>8 DEF TopoInv

\* The list and its dependencies stay what they are.
LEMMA SameGraph ==
    ASSUME UNCHANGED <<list, dep>>
    PROVE  L' = L /\ DepSet' = DepSet /\ Resolvable(L, DepSet)' = Resolvable(L, DepSet)
  BY DEF L, DepSet, Members, Resolvable, SelfContained

\* What Answer says of a dependency, in words of the invariant.
LEMMA AnswerIs ==
    ASSUME SearchShape, Colours, NEW d
    PROVE  /\ Answer(d) = "yes" => d \in L /\ d \in Members(order)
           /\ Answer(d) = "call" => d \in L /\ state[d] = 0
           /\ Answer(d) = "no" => d \notin L \/ d \in bad \/ (d \in L /\ state[d] = 1)
  BY DEF Answer, Colours, SearchShape, L

\* All but the last element of a sequence.
LEMMA ButLast ==
    ASSUME NEW S, NEW s \in Seq(S), s # <<>>
    PROVE  /\ Len(s) \in Nat \ {0} /\ DOMAIN s = 1..Len(s) /\ Len(s) \in DOMAIN s /\ s[Len(s)] \in S
           /\ SubSeq(s, 1, Len(s) - 1) \in Seq(S)
           /\ Len(SubSeq(s, 1, Len(s) - 1)) = Len(s) - 1
           /\ DOMAIN SubSeq(s, 1, Len(s) - 1) = 1..(Len(s) - 1)
           /\ \A k \in 1..(Len(s) - 1) : SubSeq(s, 1, Len(s) - 1)[k] = s[k]
  <1>1. Len(s) \in Nat \ {0} /\ DOMAIN s = 1..Len(s) /\ Len(s) \in DOMAIN s OBVIOUS
  <1>2. s[Len(s)] \in S BY <1>1
  <1>3. PICK t : t = SubSeq(s, 1, Len(s) - 1) OBVIOUS
  <1>4. t \in Seq(S) BY <1>1, <1>3
  <1>5. Len(t) = Len(s) - 1 BY <1>1, <1>3
  <1>6. \A k \in 1..(Len(s) - 1) : t[k] = s[k] BY <1>1, <1>3
  <1> QED BY <1>1, <1>2, <1>3, <1>4, <1>5, <1>6

\* The frame on top.
LEMMA TopIs ==
    ASSUME SearchShape, stack # <<>>
    PROVE  /\ Len(stack) \in Nat \ {0} /\ DOMAIN stack = 1..Len(stack) /\ Len(stack) \in DOMAIN stack
           /\ Top \in [id : L, next : Nat \ {0}]
           /\ Pop \in Seq([id : L, next : Nat \ {0}])
           /\ Len(Pop) = Len(stack) - 1 /\ DOMAIN Pop = 1..(Len(stack) - 1)
           /\ \A k \in 1..(Len(stack) - 1) : Pop[k] = stack[k]
  <1>1. PICK S : S = [id : L, next : Nat \ {0}] OBVIOUS
  <1>2. stack \in Seq(S) BY <1>1 DEF SearchShape
  <1> QED BY <1>1, <1>2, ButLast DEF Top, Pop

\* Every frame is a call for an op of the list.
LEMMA FramesAre ==
    ASSUME SearchShape
    PROVE  \A k \in DOMAIN stack : stack[k].id \in L /\ stack[k].next \in Nat \ {0}
  <1>1. PICK S : S = [id : L, next : Nat \ {0}] OBVIOUS
  <1>2. stack \in Seq(S) BY <1>1 DEF SearchShape
  <1>3. \A k \in DOMAIN stack : stack[k] \in S BY <1>2
  <1> QED BY <1>1, <1>3

\* The loop over the list takes the next op as a root, or skips it.
LEMMA RootStep == ASSUME TopoInv, VisitRoot PROVE TopoInv'
  <1> /\ SearchShape /\ Colours /\ NoReentry /\ Calls /\ Loops
      /\ DependencyFirst /\ RefusedRightly
    BY DEF TopoInv
  <1>0. L' = L /\ DepSet' = DepSet /\ Resolvable(L, DepSet)' = Resolvable(L, DepSet)
    BY SameGraph DEF VisitRoot
  <1>1. list \in Seq(Ids) /\ root \in 1..Len(list) /\ list[root] \in L
    BY DEF SearchShape, VisitRoot, L, Members
  <1>2. DependencyFirst' /\ RefusedRightly' BY <1>0 DEF VisitRoot, DependencyFirst, RefusedRightly
  <1>3. Len(list) \in Nat /\ last \in 1..(Len(list) + 1) BY DEF SearchShape
  <1>4. last = 1
    <2>1. ~ (last > 1) BY <1>1, <1>3 DEF Loops
    <2> QED BY <1>3, <2>1
  <1>5. CASE state[list[root]] # 0
    <2>1. UNCHANGED <<list, dep, state, bad, order, stack, last, unresolved>> /\ root' = root + 1
      BY <1>5 DEF VisitRoot
    <2>2. SearchShape' BY <1>0, <1>1, <2>1 DEF SearchShape
    <2>3. Colours' /\ NoReentry' /\ Calls' BY <1>0, <2>1 DEF Colours, NoReentry, Calls, Members
    <2>4. \A j \in 1..root : j = root \/ j \in 1..(root - 1) BY <1>1
    <2>5. Loops' BY <1>1, <1>5, <1>4, <2>1, <2>4 DEF Loops, Members
    <2> QED BY <1>2, <2>2, <2>3, <2>5 DEF TopoInv
  <1>6. CASE state[list[root]] = 0
    <2> DEFINE id == list[root]
    <2>1. /\ UNCHANGED <<list, dep, bad, order, last, unresolved>> /\ root' = root + 1
          /\ state' = [state EXCEPT ![id] = 1] /\ stack' = <<Frame(id)>> /\ stack = <<>>
      BY <1>6 DEF VisitRoot
    <2>2. /\ DOMAIN stack' = {1} /\ Len(stack') = 1 /\ stack'[1] = [id |-> id, next |-> 1]
          /\ stack' \in Seq([id : L, next : Nat \ {0}])
      BY <1>1, <2>1 DEF Frame
    <2>3. SearchShape' BY <1>0, <1>1, <2>1, <2>2 DEF SearchShape
    <2>4. \A o \in L : o # id => state'[o] = state[o] BY <2>1 DEF SearchShape
    <2>5. state'[id] = 1 /\ id \in L BY <1>1, <2>1 DEF SearchShape
    <2>6. Members(order)' = Members(order) BY <2>1 DEF Members
    <2>7. \A o \in L : state[o] # 1 BY <2>1 DEF Colours
    <2>8. Colours' BY <1>0, <1>6, <2>1, <2>2, <2>4, <2>5, <2>6, <2>7 DEF Colours
    <2>9. dep[id] \in Seq(Ids \cup {Missing}) BY <1>1 DEF SearchShape
    <2>10. NoReentry' /\ Calls' BY <2>1, <2>2, <2>9 DEF NoReentry, Calls
    <2>11. \A j \in 1..root : j = root \/ j \in 1..(root - 1) BY <1>1
    <2>12. \A j \in 1..root : list[j] \in L BY <1>1 DEF L, Members
    <2>13. Loops' BY <1>1, <1>4, <2>1, <2>4, <2>5, <2>11, <2>12 DEF Loops, Members
    <2> QED BY <1>2, <2>3, <2>8, <2>10, <2>13 DEF TopoInv
  <1> QED BY <1>5, <1>6

\* A call of visit for a dependency goes on top of the stack.
LEMMA DepStep == ASSUME TopoInv, VisitDep PROVE TopoInv'
  <1> /\ SearchShape /\ Colours /\ NoReentry /\ Calls /\ Loops
      /\ DependencyFirst /\ RefusedRightly
    BY DEF TopoInv
  <1>n. PICK n : n = Len(stack) OBVIOUS
  <1>d. PICK d : d = dep[Top.id][Top.next] OBVIOUS
  <1>0. L' = L /\ DepSet' = DepSet /\ Resolvable(L, DepSet)' = Resolvable(L, DepSet)
    BY SameGraph DEF VisitDep
  <1>1. /\ UNCHANGED <<list, dep, bad, order, root, last, unresolved>> /\ stack # <<>> /\ Looking
        /\ Answer(d) = "call" /\ state' = [state EXCEPT ![d] = 1] /\ stack' = Append(stack, Frame(d))
    BY <1>d DEF VisitDep, Looking
  <1>2. d \in L /\ state[d] = 0 BY <1>1, AnswerIs
  <1>3. n \in Nat \ {0} /\ DOMAIN stack = 1..n /\ stack \in Seq([id : L, next : Nat \ {0}])
    BY <1>1, <1>n, TopIs DEF SearchShape
  <1>4. /\ Len(stack') = n + 1 /\ DOMAIN stack' = 1..(n + 1)
        /\ stack'[n + 1] = [id |-> d, next |-> 1] /\ \A k \in 1..n : stack'[k] = stack[k]
        /\ stack' \in Seq([id : L, next : Nat \ {0}])
    BY <1>1, <1>2, <1>3, <1>n DEF Frame
  <1>5. DependencyFirst' /\ RefusedRightly' BY <1>0, <1>1 DEF DependencyFirst, RefusedRightly
  <1>6. SearchShape' BY <1>0, <1>1, <1>2, <1>4 DEF SearchShape
  <1>7. state'[d] = 1 /\ \A o \in L : o # d => state'[o] = state[o] BY <1>1, <1>2 DEF SearchShape
  <1>8. Members(order)' = Members(order) BY <1>1 DEF Members
  <1>9. \A k \in 1..n : stack[k].id # d /\ stack[k].id \in L
    <2>1. \A k \in 1..n : stack[k].id \in L BY <1>3, FramesAre
    <2>2. \A k \in 1..n : stack[k].id # d BY <1>2, <1>3 DEF Colours
    <2> QED BY <2>1, <2>2
  <1>10. Colours'
    <2>1. ASSUME NEW o \in L PROVE state'[o] = 1 <=> \E k \in DOMAIN stack' : stack'[k].id = o
      <3>1. CASE o = d BY <1>3, <1>4, <1>7, <3>1
      <3>2. CASE o # d
        <4>1. (\E k \in DOMAIN stack' : stack'[k].id = o) <=> (\E k \in DOMAIN stack : stack[k].id = o)
          BY <1>3, <1>4, <3>2
        <4> QED BY <1>7, <3>2, <4>1 DEF Colours
      <3> QED BY <3>1, <3>2
    <2>2. ASSUME NEW o \in L PROVE state'[o] = 2 <=> o \in bad \cup Members(order)
      BY <1>2, <1>7 DEF Colours
    <2> QED BY <1>0, <1>1, <1>8, <2>1, <2>2 DEF Colours
  <1>11. NoReentry'
    BY <1>3, <1>4, <1>9 DEF NoReentry
  <1>12. Calls'
    <2>1. \A k \in 1..n : dep[stack[k].id] \in Seq(Ids \cup {Missing}) BY <1>9 DEF SearchShape
    <2>2. dep[d] \in Seq(Ids \cup {Missing}) BY <1>2 DEF SearchShape
    <2>3. Top = stack[n] /\ Top.next <= Len(dep[Top.id]) BY <1>1, <1>n DEF Top, Looking
    <2>4. ASSUME NEW k \in DOMAIN stack' PROVE stack'[k].next <= Len(dep[stack'[k].id]) + 1
      <3>1. CASE k = n + 1
        <4>1. stack'[k].next = 1 /\ stack'[k].id = d BY <1>4, <3>1
        <4> QED BY <2>2, <4>1
      <3>2. CASE k # n + 1
        <4>1. k \in DOMAIN stack /\ stack'[k] = stack[k] BY <1>3, <1>4, <3>2
        <4> QED BY <4>1 DEF Calls
      <3> QED BY <3>1, <3>2
    <2>5. ASSUME NEW k \in 1..n
          PROVE  stack'[k].next <= Len(dep[stack'[k].id]) /\ dep[stack'[k].id][stack'[k].next] = stack'[k + 1].id
      <3>1. CASE k = n BY <1>3, <1>4, <1>d, <2>3, <3>1
      <3>2. CASE k # n
        <4>1. k \in 1..(n - 1) /\ k + 1 \in 1..n BY <1>3, <3>2
        <4> QED BY <1>4, <1>n, <4>1 DEF Calls
      <3> QED BY <3>1, <3>2
    <2>6. ASSUME NEW k \in DOMAIN stack', NEW j \in 1..(stack'[k].next - 1)
          PROVE  dep[stack'[k].id][j] \in Members(order)
      <3>1. k # n + 1 BY <1>4
      <3>2. k \in DOMAIN stack /\ stack'[k] = stack[k] BY <1>3, <1>4, <3>1
      <3> QED BY <3>2 DEF Calls
    <2> QED BY <1>1, <1>3, <1>4, <1>8, <2>4, <2>5, <2>6 DEF Calls
  <1>13. last = 1 BY <1>1 DEF Loops, SearchShape
  <1>14. \A j \in 1..(root - 1) : list[j] \in L BY DEF SearchShape, L, Members
  <1>15. Loops' BY <1>1, <1>7, <1>13, <1>14 DEF Loops, Members
  <1> QED BY <1>5, <1>6, <1>10, <1>11, <1>12, <1>15 DEF TopoInv

\* The dependency is placed, and the call looks at the next one.
LEMMA PlacedStep == ASSUME TopoInv, DepPlaced PROVE TopoInv'
  <1> /\ SearchShape /\ Colours /\ NoReentry /\ Calls /\ Loops
      /\ DependencyFirst /\ RefusedRightly
    BY DEF TopoInv
  <1>n. PICK n : n = Len(stack) OBVIOUS
  <1>d. PICK d : d = dep[Top.id][Top.next] OBVIOUS
  <1>0. L' = L /\ DepSet' = DepSet /\ Resolvable(L, DepSet)' = Resolvable(L, DepSet)
    BY SameGraph DEF DepPlaced
  <1>1. /\ UNCHANGED <<list, dep, state, bad, order, root, last, unresolved>> /\ stack # <<>> /\ Looking
        /\ Answer(d) = "yes" /\ stack' = [stack EXCEPT ![n].next = stack[n].next + 1]
    BY <1>n, <1>d DEF DepPlaced, Looking
  <1>2. d \in Members(order) BY <1>1, AnswerIs
  <1>3. /\ n \in Nat \ {0} /\ DOMAIN stack = 1..n /\ stack \in Seq([id : L, next : Nat \ {0}])
        /\ n \in DOMAIN stack /\ stack[n] \in [id : L, next : Nat \ {0}] /\ Top = stack[n]
    BY <1>1, <1>n, TopIs DEF SearchShape, Top
  <1>4. /\ Len(stack') = n /\ DOMAIN stack' = 1..n
        /\ stack'[n] = [id |-> stack[n].id, next |-> stack[n].next + 1]
        /\ \A k \in 1..n : k # n => stack'[k] = stack[k]
        /\ stack' \in Seq([id : L, next : Nat \ {0}])
    BY <1>1, <1>3, <1>n
  <1>5. \A k \in 1..n : stack'[k].id = stack[k].id BY <1>4
  <1>6. DependencyFirst' /\ RefusedRightly' BY <1>0, <1>1 DEF DependencyFirst, RefusedRightly
  <1>7. SearchShape' BY <1>0, <1>1, <1>4 DEF SearchShape
  <1>8. Members(order)' = Members(order) /\ Members(unresolved)' = Members(unresolved) BY <1>1 DEF Members
  <1>9. Colours' /\ NoReentry' BY <1>0, <1>1, <1>3, <1>4, <1>5, <1>8 DEF Colours, NoReentry
  <1>10. dep[stack[n].id] \in Seq(Ids \cup {Missing}) BY <1>3 DEF SearchShape
  <1>11. Calls'
    <2>1. stack[n].next <= Len(dep[stack[n].id]) BY <1>1, <1>3 DEF Looking
    <2>2. \A k \in DOMAIN stack' : stack'[k].next <= Len(dep[stack'[k].id]) + 1
      <3> SUFFICES ASSUME NEW k \in DOMAIN stack' PROVE stack'[k].next <= Len(dep[stack'[k].id]) + 1
        OBVIOUS
      <3>1. CASE k = n BY <1>3, <1>4, <1>10, <2>1, <3>1
      <3>2. CASE k # n BY <1>3, <1>4, <3>2 DEF Calls
      <3> QED BY <3>1, <3>2
    <2>3. ASSUME NEW k \in 1..(n - 1)
          PROVE  stack'[k].next <= Len(dep[stack'[k].id]) /\ dep[stack'[k].id][stack'[k].next] = stack'[k + 1].id
      <3>1. k \in 1..n /\ k + 1 \in 1..n /\ k # n BY <1>3
      <3> QED BY <1>4, <1>5, <1>n, <3>1 DEF Calls
    <2>4. ASSUME NEW k \in DOMAIN stack', NEW j \in 1..(stack'[k].next - 1)
          PROVE  dep[stack'[k].id][j] \in Members(order)
      <3>1. CASE k # n BY <1>3, <1>4, <3>1 DEF Calls
      <3>2. CASE k = n
        <4>1. j = stack[n].next \/ j \in 1..(stack[n].next - 1) BY <1>3, <1>4, <3>2
        <4>2. CASE j = stack[n].next BY <1>2, <1>d, <1>3, <1>5, <3>2, <4>2
        <4>3. CASE j \in 1..(stack[n].next - 1) BY <1>3, <1>5, <3>2, <4>3 DEF Calls
        <4> QED BY <4>1, <4>2, <4>3
      <3> QED BY <3>1, <3>2
    <2> QED BY <1>1, <1>4, <1>8, <2>2, <2>3, <2>4 DEF Calls
  <1>12. last = 1 BY <1>1 DEF Loops, SearchShape
  <1>13. Loops' BY <1>1, <1>8, <1>12 DEF Loops
  <1> QED BY <1>6, <1>7, <1>9, <1>11, <1>13 DEF TopoInv

\* A call returns: the caller's frame is on top again.
LEMMA ReturnStep ==
    ASSUME TopoInv, stack # <<>>, UNCHANGED <<list, dep, root, last, unresolved>>,
           state' = [state EXCEPT ![Top.id] = 2], stack' = Pop,
           bad' \subseteq L, order' \in Seq(L), Members(order) \subseteq Members(order)',
           bad' \cup Members(order)' = bad \cup Members(order) \cup {Top.id},
           bad' \cap Members(order)' = {}
    PROVE  SearchShape' /\ Colours' /\ NoReentry' /\ Calls' /\ Loops' /\ state[Top.id] = 1
  <1> /\ SearchShape /\ Colours /\ NoReentry /\ Calls /\ Loops BY DEF TopoInv
  <1>n. PICK n : n = Len(stack) OBVIOUS
  <1>o. PICK o : o = Top.id OBVIOUS
  <1>0. L' = L /\ DepSet' = DepSet /\ Resolvable(L, DepSet)' = Resolvable(L, DepSet)
    BY SameGraph
  <1>1. /\ n \in Nat \ {0} /\ DOMAIN stack = 1..n /\ o \in L /\ o = stack[n].id
        /\ stack' \in Seq([id : L, next : Nat \ {0}])
        /\ Len(stack') = n - 1 /\ DOMAIN stack' = 1..(n - 1) /\ \A k \in 1..(n - 1) : stack'[k] = stack[k]
    BY <1>n, <1>o, TopIs DEF Top
  <1>2. state[o] = 1
    <2>1. n \in DOMAIN stack BY <1>1
    <2> QED BY <1>1, <2>1 DEF Colours
  <1>3. state'[o] = 2 /\ \A p \in L : p # o => state'[p] = state[p] BY <1>1, <1>o DEF SearchShape
  <1>4. state' \in [L -> 0..2] BY <1>1, <1>o DEF SearchShape
  <1>5. SearchShape' BY <1>0, <1>1, <1>4 DEF SearchShape
  <1>6. \A k \in 1..(n - 1) : stack[k].id # o
    <2> SUFFICES ASSUME NEW k \in 1..(n - 1), stack[k].id = o PROVE FALSE OBVIOUS
    <2>1. k \in DOMAIN stack /\ n \in DOMAIN stack /\ k # n BY <1>1
    <2> QED BY <1>1, <2>1 DEF NoReentry
  <1>7. Colours'
    <2>1. ASSUME NEW p \in L PROVE state'[p] = 1 <=> \E k \in DOMAIN stack' : stack'[k].id = p
      <3>1. CASE p = o BY <1>1, <1>3, <1>6, <3>1
      <3>2. CASE p # o
        <4>1. (\E k \in DOMAIN stack' : stack'[k].id = p) <=> (\E k \in DOMAIN stack : stack[k].id = p)
          <5>1. ASSUME NEW k \in 1..n, stack[k].id = p PROVE k \in 1..(n - 1) BY <1>1, <3>2, <5>1
          <5>2. \A k \in 1..(n - 1) : k \in 1..n BY <1>1
          <5> QED BY <1>1, <5>1, <5>2
        <4> QED BY <1>3, <3>2, <4>1 DEF Colours
      <3> QED BY <3>1, <3>2
    <2>2. ASSUME NEW p \in L PROVE state'[p] = 2 <=> p \in bad' \cup Members(order)'
      BY <1>3, <1>o DEF Colours
    <2> QED BY <1>0, <2>1, <2>2 DEF Colours
  <1>8. NoReentry'
    <2>1. \A k \in 1..(n - 1) : k \in DOMAIN stack BY <1>1
    <2> QED BY <1>1, <2>1 DEF NoReentry
  <1>9. Calls'
    <2>1. \A k \in 1..(n - 1) : k \in DOMAIN stack BY <1>1
    <2>2. \A k \in DOMAIN stack' : stack'[k].next <= Len(dep[stack'[k].id]) + 1
      BY <1>1, <2>1 DEF Calls
    <2>3. ASSUME NEW k \in 1..(n - 2)
          PROVE  stack'[k].next <= Len(dep[stack'[k].id]) /\ dep[stack'[k].id][stack'[k].next] = stack'[k + 1].id
      <3>1. k \in 1..(n - 1) /\ k + 1 \in 1..(n - 1) BY <1>1
      <3> QED BY <1>1, <1>n, <3>1 DEF Calls
    <2>4. ASSUME NEW k \in DOMAIN stack', NEW j \in 1..(stack'[k].next - 1)
          PROVE  dep[stack'[k].id][j] \in Members(order)'
      BY <1>1, <2>1 DEF Calls
    <2>5. Len(stack') - 1 = n - 2 BY <1>1
    <2> QED BY <2>2, <2>3, <2>4, <2>5 DEF Calls
  <1>10. last = 1 BY DEF Loops, SearchShape
  <1>11. \A j \in 1..(root - 1) : list[j] \in L BY DEF SearchShape, L, Members
  <1>12. \A j \in 1..(root - 1) : state'[list[j]] # 0 BY <1>3, <1>11 DEF Loops
  <1>13. Members(unresolved)' = {} /\ {list[j] : j \in 1..(last - 1)} = {}
    BY <1>10 DEF Loops, Members
  <1>14. Loops' BY <1>10, <1>12, <1>13 DEF Loops
  <1> QED BY <1>2, <1>5, <1>7, <1>8, <1>9, <1>14, <1>o

\* An op that can be placed has only such prerequisites.
LEMMA ResolvableIs ==
    ASSUME NEW ops, NEW D, NEW o \in Resolvable(ops, D)
    PROVE  \E S \in SUBSET ops : SelfContained(D, S) /\ o \in S /\ S \subseteq Resolvable(ops, D)
  BY DEF Resolvable

\* An op is refused: it depends on a missing or a refused op, or on one on the
\* stack, and then the ops from that one up are a cycle.
LEMMA RefusedStep == ASSUME TopoInv, DepRefused PROVE TopoInv'
  <1> /\ SearchShape /\ Colours /\ NoReentry /\ Calls /\ Loops /\ DependencyFirst /\ RefusedRightly
    BY DEF TopoInv
  <1>n. PICK n : n = Len(stack) OBVIOUS
  <1>o. PICK o : o = Top.id OBVIOUS
  <1>d. PICK d : d = dep[Top.id][Top.next] OBVIOUS
  <1>0. L' = L /\ DepSet' = DepSet /\ Resolvable(L, DepSet)' = Resolvable(L, DepSet)
    BY SameGraph DEF DepRefused
  <1>1. /\ UNCHANGED <<list, dep, order, root, last, unresolved>> /\ stack # <<>> /\ Looking
        /\ Answer(d) = "no" /\ state' = [state EXCEPT ![Top.id] = 2] /\ stack' = Pop
        /\ bad' = bad \cup {Top.id}
    BY <1>d DEF DepRefused, Looking
  <1>2. n \in Nat \ {0} /\ DOMAIN stack = 1..n /\ n \in DOMAIN stack /\ Top = stack[n] /\ o = stack[n].id /\ o \in L
        /\ Top.next \in Nat \ {0}
    BY <1>1, <1>n, <1>o, TopIs DEF Top
  <1>3. state[o] = 1 BY <1>2 DEF Colours
  <1>4. o \notin Members(order) /\ bad \subseteq L BY <1>2, <1>3 DEF Colours, SearchShape
  <1>5. Members(order)' = Members(order) /\ order \in Seq(L) BY <1>1 DEF Members, SearchShape
  <1>6. bad \cap Members(order) = {} BY DEF Colours
  <1>7. SearchShape' /\ Colours' /\ NoReentry' /\ Calls' /\ Loops'
    BY <1>1, <1>2, <1>4, <1>5, <1>6, <1>o, ReturnStep
  <1>8. DependencyFirst' BY <1>0, <1>1 DEF DependencyFirst
  <1>9. d \in DepSet[o]
    <2>1. dep[o] \in Seq(Ids \cup {Missing}) BY <1>2 DEF SearchShape
    <2>2. Top.next \in DOMAIN dep[o] BY <1>1, <1>2, <1>o, <2>1 DEF Looking
    <2> QED BY <1>2, <1>d, <1>o, <2>2 DEF DepSet, Members, L
  <1>10. o \notin Resolvable(L, DepSet)
    <2> SUFFICES ASSUME o \in Resolvable(L, DepSet) PROVE FALSE OBVIOUS
    <2>1. PICK S \in SUBSET L : SelfContained(DepSet, S) /\ o \in S /\ S \subseteq Resolvable(L, DepSet)
      BY ResolvableIs
    <2>2. d \in S BY <1>9, <2>1 DEF SelfContained
    <2>3. d \in L /\ d \notin bad BY <2>1, <2>2 DEF RefusedRightly
    <2>4. state[d] = 1 BY <1>1, <2>3, AnswerIs
    <2>5. PICK m \in 1..n : stack[m].id = d BY <1>2, <2>3, <2>4 DEF Colours
    <2> DEFINE T == {stack[i].id : i \in m..n} \cap S
    <2>6. T \in SUBSET S /\ o \in T BY <1>2, <2>1
    <2>7. PICK q \in T : DepSet[q] \cap T = {} 
      <3>1. \A U \in SUBSET S : U # {} => \E x \in U : DepSet[x] \cap U = {} BY <2>1 DEF SelfContained
      <3> QED BY <2>6, <3>1
    <2>8. PICK i \in m..n : q = stack[i].id BY <2>7
    <2>9. CASE i = n
      <3>1. d \in T BY <1>2, <2>2, <2>5
      <3> QED BY <1>2, <1>9, <2>7, <2>8, <2>9, <3>1
    <2>10. CASE i # n
      <3>1. i \in 1..(n - 1) /\ i + 1 \in m..n /\ i \in 1..n BY <1>2, <2>10
      <3>2. stack[i].next <= Len(dep[q]) /\ dep[q][stack[i].next] = stack[i + 1].id
        BY <1>n, <2>8, <3>1 DEF Calls
      <3>3. q \in L /\ stack[i].next \in Nat \ {0} BY <1>2, <2>8, <3>1, FramesAre
      <3>4. dep[q] \in Seq(Ids \cup {Missing}) BY <3>3 DEF SearchShape
      <3>5. stack[i + 1].id \in DepSet[q] BY <3>2, <3>3, <3>4 DEF DepSet, Members, L
      <3>6. DepSet[q] \subseteq S BY <2>1, <2>7 DEF SelfContained
      <3>7. stack[i + 1].id \in T BY <3>1, <3>5, <3>6
      <3> QED BY <2>7, <3>5, <3>7
    <2> QED BY <2>9, <2>10
  <1>11. RefusedRightly' BY <1>0, <1>1, <1>10, <1>o DEF RefusedRightly
  <1> QED BY <1>7, <1>8, <1>11 DEF TopoInv

\* An op is placed once all of its dependencies are.
LEMMA PlaceStep == ASSUME TopoInv, Place PROVE TopoInv'
  <1> /\ SearchShape /\ Colours /\ NoReentry /\ Calls /\ Loops /\ DependencyFirst /\ RefusedRightly
    BY DEF TopoInv
  <1>n. PICK n : n = Len(stack) OBVIOUS
  <1>o. PICK o : o = Top.id OBVIOUS
  <1>0. L' = L /\ DepSet' = DepSet /\ Resolvable(L, DepSet)' = Resolvable(L, DepSet)
    BY SameGraph DEF Place
  <1>1. /\ UNCHANGED <<list, dep, bad, root, last, unresolved>> /\ stack # <<>> /\ ~Looking
        /\ state' = [state EXCEPT ![Top.id] = 2] /\ stack' = Pop /\ order' = Append(order, o)
    BY <1>o DEF Place
  <1>2. n \in Nat \ {0} /\ DOMAIN stack = 1..n /\ n \in DOMAIN stack /\ Top = stack[n] /\ o = stack[n].id /\ o \in L
        /\ Top.next \in Nat \ {0}
    BY <1>1, <1>n, <1>o, TopIs DEF Top
  <1>3. state[o] = 1 BY <1>2 DEF Colours
  <1>4. o \notin Members(order) /\ o \notin bad /\ bad \subseteq L BY <1>2, <1>3 DEF Colours, SearchShape
  <1>5. order \in Seq(L) BY DEF SearchShape
  <1>6. Members(order)' = Members(order) \cup {o} BY <1>1, <1>5, MembersAppend DEF Members
  <1>7. order' \in Seq(L) BY <1>1, <1>2, <1>5
  <1>8. bad \cap Members(order) = {} BY DEF Colours
  <1>9. SearchShape' /\ Colours' /\ NoReentry' /\ Calls' /\ Loops'
    BY <1>1, <1>2, <1>4, <1>6, <1>7, <1>8, <1>o, ReturnStep
  <1>10. DepSet[o] \subseteq Members(order)
    <2>1. dep[o] \in Seq(Ids \cup {Missing}) BY <1>2 DEF SearchShape
    <2>2. Top.next > Len(dep[o]) BY <1>1, <1>2, <1>o, <2>1 DEF Looking
    <2>3. \A j \in DOMAIN dep[o] : j \in 1..(stack[n].next - 1) BY <1>2, <2>1, <2>2
    <2>4. \A j \in DOMAIN dep[o] : dep[o][j] \in Members(order) BY <1>2, <2>3 DEF Calls
    <2> QED BY <1>2, <2>4 DEF DepSet, Members, L
  <1>11. DependencyFirst'
    <2>1. PICK k : k = Len(order) OBVIOUS
    <2>2. /\ k \in Nat /\ DOMAIN order = 1..k /\ DOMAIN order' = 1..(k + 1) /\ order'[k + 1] = o
          /\ \A i \in 1..k : order'[i] = order[i]
      BY <1>1, <1>5, <2>1
    <2> SUFFICES ASSUME NEW i \in DOMAIN order'
                 PROVE  /\ DepSet[order'[i]] \subseteq {order'[j] : j \in 1 .. i - 1}
                        /\ order'[i] \notin {order'[j] : j \in 1 .. i - 1}
      BY <1>0 DEF DependencyFirst
    <2>3. CASE i = k + 1
      <3>1. {order'[j] : j \in 1 .. i - 1} = {order[j] : j \in 1..k} BY <2>2, <2>3
      <3>2. {order'[j] : j \in 1 .. i - 1} = Members(order) BY <2>2, <3>1 DEF Members
      <3> QED BY <1>4, <1>10, <2>2, <2>3, <3>2
    <2>4. CASE i # k + 1
      <3>1. i \in DOMAIN order /\ order'[i] = order[i] BY <2>2, <2>4
      <3>2. \A j \in 1 .. i - 1 : order'[j] = order[j] BY <2>2, <3>1
      <3>3. {order'[j] : j \in 1 .. i - 1} = {order[j] : j \in 1 .. i - 1} BY <3>2
      <3> QED BY <3>1, <3>3 DEF DependencyFirst
    <2> QED BY <2>3, <2>4
  <1>12. RefusedRightly' BY <1>0, <1>1 DEF RefusedRightly
  <1> QED BY <1>9, <1>11, <1>12 DEF TopoInv

\* The second loop adds the refused ops to the unresolved ones.
LEMMA CollectStep == ASSUME TopoInv, Collect PROVE TopoInv'
  <1> /\ SearchShape /\ Colours /\ NoReentry /\ Calls /\ Loops /\ DependencyFirst /\ RefusedRightly
    BY DEF TopoInv
  <1>0. L' = L /\ DepSet' = DepSet /\ Resolvable(L, DepSet)' = Resolvable(L, DepSet)
    BY SameGraph DEF Collect
  <1>1. /\ UNCHANGED <<list, dep, state, bad, order, stack, root>> /\ last' = last + 1
        /\ stack = <<>> /\ root > Len(list) /\ last <= Len(list)
        /\ unresolved' = IF list[last] \in bad THEN Append(unresolved, list[last]) ELSE unresolved
    BY DEF Collect
  <1>2. last \in 1..Len(list) /\ list[last] \in L /\ unresolved \in Seq(L) /\ Len(list) \in Nat
    BY <1>1 DEF SearchShape, L, Members
  <1>3. SearchShape' BY <1>0, <1>1, <1>2 DEF SearchShape
  <1>4. Colours' /\ NoReentry' /\ Calls' /\ DependencyFirst' /\ RefusedRightly'
    BY <1>0, <1>1 DEF Colours, NoReentry, Calls, DependencyFirst, RefusedRightly, Members
  <1>5. {list[j] : j \in 1..last} = {list[j] : j \in 1..(last - 1)} \cup {list[last]} BY <1>2
  <1>6. Members(unresolved)' = {list[j] : j \in 1..last} \cap bad
    <2>1. CASE list[last] \in bad
      <3>1. Members(unresolved)' = Members(unresolved) \cup {list[last]}
        BY <1>1, <1>2, <2>1, MembersAppend DEF Members
      <3> QED BY <1>5, <2>1, <3>1 DEF Loops
    <2>2. CASE list[last] \notin bad
      <3>1. Members(unresolved)' = Members(unresolved) BY <1>1, <2>2 DEF Members
      <3> QED BY <1>5, <2>2, <3>1 DEF Loops
    <2> QED BY <2>1, <2>2
  <1>7. last' - 1 = last BY <1>1, <1>2
  <1>8. {list'[j] : j \in 1..(last' - 1)} = {list[j] : j \in 1..last} BY <1>1, <1>7
  <1>9. Loops' BY <1>1, <1>6, <1>8 DEF Loops
  <1> QED BY <1>3, <1>4, <1>9 DEF TopoInv

\* The invariant of the search holds throughout.
LEMMA TopoInductive == TopoSpec => []TopoInv
  <1>1. TopoInv /\ [TopoNext]_topoVars => TopoInv'
    <2> SUFFICES ASSUME TopoInv, [TopoNext]_topoVars PROVE TopoInv' OBVIOUS
    <2>1. CASE UNCHANGED topoVars
      <3>1. UNCHANGED <<list, dep, state, bad, order, stack, root, last, unresolved>> BY <2>1 DEF topoVars
      <3>2. L' = L /\ DepSet' = DepSet /\ Resolvable(L, DepSet)' = Resolvable(L, DepSet) BY <3>1, SameGraph
      <3>3. Members(order)' = Members(order) /\ Members(unresolved)' = Members(unresolved)
        BY <3>1 DEF Members
      <3>4. SearchShape' BY <3>1, <3>2 DEF TopoInv, SearchShape
      <3>5. Colours' /\ NoReentry' BY <3>1, <3>2, <3>3 DEF TopoInv, Colours, NoReentry
      <3>6. Calls' BY <3>1, <3>3 DEF TopoInv, Calls
      <3>7. Loops' BY <3>1, <3>3 DEF TopoInv, Loops
      <3>8. DependencyFirst' BY <3>1, <3>2 DEF TopoInv, DependencyFirst
      <3>9. RefusedRightly' BY <3>1, <3>2 DEF TopoInv, RefusedRightly
      <3> QED BY <3>4, <3>5, <3>6, <3>7, <3>8, <3>9 DEF TopoInv
    <2> QED BY <2>1, RootStep, DepStep, PlacedStep, RefusedStep, PlaceStep, CollectStep DEF TopoNext
  <1> QED BY <1>1, TopoStart, PTL DEF TopoSpec

\* A set of numbers that is not empty has a least one.
LEMMA LeastNumber ==
    ASSUME NEW P \in SUBSET Nat, P # {} PROVE \E m \in P : \A k \in P : ~ (k < m)
  <1>1. PICK m \in P : \A k \in P : ~ (<<k, m>> \in OpToRel(<, Nat))
    BY NatLessThanWellFounded, WFMin, Zenon
  <1>2. \A k \in P : ~ (k < m) BY <1>1, Zenon DEF OpToRel
  <1> QED BY <1>2

\* What was placed, together, needs nothing else and has no cycle: the first of
\* any part of it, in the order, depends on nothing in that part.
LEMMA PlacedIsSelfContained ==
    ASSUME SearchShape, DependencyFirst
    PROVE  SelfContained(DepSet, Members(order)) /\ Members(order) \subseteq L
  <1>1. order \in Seq(L) /\ DOMAIN order \subseteq Nat BY DEF SearchShape
  <1>6. DOMAIN order = 1..Len(order) /\ Len(order) \in Nat BY <1>1
  <1>2. Members(order) \subseteq L BY <1>1 DEF Members
  <1>3. ASSUME NEW i \in DOMAIN order PROVE {order[j] : j \in 1 .. i - 1} \subseteq Members(order)
    <2>1. \A j \in 1 .. i - 1 : j \in DOMAIN order BY <1>1
    <2> QED BY <2>1 DEF Members
  <1>4. \A o \in Members(order) : DepSet[o] \subseteq Members(order)
    <2> SUFFICES ASSUME NEW i \in DOMAIN order PROVE DepSet[order[i]] \subseteq Members(order)
      BY DEF Members
    <2> QED BY <1>3 DEF DependencyFirst
  <1>5. ASSUME NEW T \in SUBSET Members(order), T # {} PROVE \E o \in T : DepSet[o] \cap T = {}
    <2> DEFINE P == {i \in DOMAIN order : order[i] \in T}
    <2>1. P \in SUBSET Nat /\ P # {} BY <1>1, <1>5 DEF Members
    <2>2. PICK m \in P : \A k \in P : ~ (k < m)
      <3> HIDE DEF P
      <3> QED BY <2>1, LeastNumber
    <2>4. \A j \in 1 .. m - 1 : j \in DOMAIN order /\ j < m
      <3>1. m \in DOMAIN order BY <2>2
      <3>2. PICK k \in Nat : DOMAIN order = 1..k BY <1>6
      <3> QED BY <3>1, <3>2
    <2>5. {order[j] : j \in 1 .. m - 1} \cap T = {} BY <2>2, <2>4
    <2>6. DepSet[order[m]] \subseteq {order[j] : j \in 1 .. m - 1} BY <2>2 DEF DependencyFirst
    <2> QED BY <2>2, <2>5, <2>6
  <1> QED BY <1>2, <1>4, <1>5 DEF SelfContained

\* TopoOrder places exactly the ops that can be placed, each once and after all
\* it depends on, for every list and every graph.
THEOREM OrderIsRightCorrect == TopoSpec => []OrderIsRight
  <1>1. TopoInv => OrderIsRight
    <2> SUFFICES ASSUME TopoInv, Returned PROVE OrdersWhatItCan
      BY DEF OrderIsRight, TopoInv
    <2>1. SearchShape /\ Colours /\ Loops /\ DependencyFirst /\ RefusedRightly BY DEF TopoInv
    <2>2. stack = <<>> /\ root = Len(list) + 1 /\ last = Len(list) + 1 /\ Len(list) \in Nat /\ list \in Seq(Ids)
      BY <2>1 DEF Returned, SearchShape
    <2>3. \A o \in L : state[o] # 1 BY <2>1, <2>2 DEF Colours
    <2>4. \A o \in L : state[o] # 0 BY <2>1, <2>2 DEF Loops, L, Members
    <2>5. \A o \in L : state[o] \in 0..2 BY <2>1 DEF SearchShape
    <2>6. \A o \in L : o \in bad \cup Members(order) BY <2>1, <2>3, <2>4, <2>5 DEF Colours
    <2>7. SelfContained(DepSet, Members(order)) /\ Members(order) \subseteq L
      BY <2>1, PlacedIsSelfContained
    <2>8. Members(order) \subseteq Resolvable(L, DepSet) BY <2>7 DEF Resolvable
    <2>9. Resolvable(L, DepSet) \subseteq L BY DEF Resolvable
    <2>10. Members(order) = Resolvable(L, DepSet) BY <2>1, <2>6, <2>8, <2>9 DEF RefusedRightly
    <2>11. {list[j] : j \in 1..(last - 1)} = L BY <2>2 DEF L, Members
    <2>12. bad = L \ Members(order) BY <2>1, <2>6 DEF SearchShape, Colours
    <2>13. Members(unresolved) = L \ Members(order) BY <2>1, <2>11, <2>12 DEF Loops
    <2> QED BY <2>10, <2>13 DEF OrdersWhatItCan, L
  <1> QED BY <1>1, TopoInductive, PTL

\* No call of visit reaches itself again, for every list and every graph.
THEOREM NoReentryCorrect == TopoSpec => []NoReentry
  <1>1. TopoInv => NoReentry BY DEF TopoInv
  <1> QED BY <1>1, TopoInductive, PTL
=============================================================================
