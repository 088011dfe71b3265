---------------------------- MODULE DeliveryProofs ----------------------------
(***************************************************************************)
(* Proof that DesiredState implements Delivery for every set of documents  *)
(* and ops, every dependency graph and every bound.                        *)
(***************************************************************************)
EXTENDS DesiredStateRefinement, DesiredStateProofs

\* The journal's entries for a version that is behind the agent are frozen:
\* Registry.Apply writes under the version it is applying, which is above the
\* cursor (Journal.Record).
LEMMA OutcomesFrozen ==
    ASSUME IInv, [Next]_vars, NEW v \in Nat, v <= lastApplied
    PROVE  EndedClean(v)' = EndedClean(v)
<1>1. ASSUME NEW o \in Ops PROVE Result(v, o)' = Result(v, o)
  <2>1. CASE UNCHANGED journal
    BY <2>1 DEF Result
  <2>2. CASE /\ pc = "apply"
             /\ \E p \in Ops, s \in Recorded : journal' = Put(journal, cur.version, p, s)
    <3>1. PICK p \in Ops, s \in Recorded : journal' = Put(journal, cur.version, p, s)
      BY <2>2
    <3>2. v # cur.version
      BY <2>2 DEF IInv, ApplyingNewer, TypeInv, TypeOK
    <3>3. Lookup(Put(journal, cur.version, p, s), v, o) = Lookup(journal, v, o)
      BY <3>2, LookupPut
    <3> QED BY <3>1, <3>3 DEF Result
  <2> QED BY <2>1, <2>2, Footprint
<1> QED BY <1>1 DEF EndedClean

\* A step issues a version, finishes one, records a report, or leaves alone all
\* that Delivery speaks of.
LEMMA StepKinds ==
    ASSUME [Next]_vars
    PROVE  \/ IssueDSD
           \/ FinishApply
           \/ \E m \in net : HandleStatus(m)
           \/ UNCHANGED <<version, lastApplied, appliedVersion, applyOK>>
<1> DEFINE Quiet == UNCHANGED <<version, lastApplied, appliedVersion, applyOK>>
<1>1. ASSUME NEW o \in Ops, ApplyStep(o) PROVE Quiet
  BY <1>1 DEF ApplyStep, FailUnresolved, ResumeOp, SkipOp, RunOp, RecordResult,
              cpVars, docVars, reportVars, diskVars
<1>2. ASSUME NEW m \in net, Lose(m) PROVE Quiet
  BY <1>2 DEF Lose, cpVars, docVars, reportVars, diskVars
<1>3. CASE ChangeDesired \/ ForceReapplyResource \/ AlertApplyStuck
  BY <1>3 DEF ChangeDesired, ForceReapplyResource, AlertApplyStuck,
              docVars, reportVars, diskVars
<1>4. CASE \/ Start \/ Rereport \/ NoRereport \/ Fetch \/ FetchNothing \/ PostAcked \/ PostFailed
           \/ JournalError \/ Crash
  BY <1>4 DEF Start, Rereport, NoRereport, Fetch, FetchNothing, PostAcked, PostFailed,
              JournalError, Crash, cpVars, docVars, reportVars, diskVars
<1>5. CASE UNCHANGED vars
  BY <1>5 DEF vars, cpVars, docVars, reportVars, diskVars
<1> QED BY <1>1, <1>2, <1>3, <1>4, <1>5 DEF Next

Outcome == [v \in 1 .. lastApplied |-> EndedClean(v)]
Verdict == IF version = 0 \/ appliedVersion < version THEN "pending"
           ELSE IF applyOK THEN "clean" ELSE "broken"

\* Before the first document nothing is issued, done or known.
LEMMA RefinesInit == Init => Promise!DeliveryInit
<1> SUFFICES ASSUME Init PROVE Promise!DeliveryInit
  OBVIOUS
<1>1. version = 0 /\ lastApplied = 0 /\ appliedVersion = 0
  BY DEF Init
<1>2. [v \in 1 .. lastApplied |-> EndedClean(v)] = [v \in 1 .. 0 |-> TRUE]
  <2>1. 1 .. lastApplied = {} /\ 1 .. 0 = {}
    BY <1>1
  <2> QED BY <2>1
<1> QED BY <1>1, <1>2 DEF Promise!DeliveryInit

\* StoreDSD: a new version is issued, and the verdict on it is open.
LEMMA IssueRefines == ASSUME IInv, [Next]_vars, IssueDSD PROVE Promise!Issue
<1>1. version \in Nat /\ appliedVersion \in Nat /\ lastApplied \in Nat
      /\ appliedVersion <= lastApplied /\ lastApplied <= version
  BY DEF IInv, TypeInv, TypeOK, NobodyAhead
<1>2. version' = version + 1 /\ UNCHANGED <<appliedVersion, lastApplied>>
  BY DEF IssueDSD, diskVars
<1>3. Outcome' = Outcome
  BY <1>1, <1>2, OutcomesFrozen DEF Outcome
<1>4. Verdict' = "pending"
  BY <1>1, <1>2 DEF Verdict
<1> QED BY <1>2, <1>3, <1>4 DEF Promise!Issue, Outcome, Verdict

\* Registry.Apply: the cursor moves to the version that was applied, the outcomes
\* behind it stay.
LEMMA FinishRefines == ASSUME IInv, [Next]_vars, FinishApply PROVE Promise!Finish
<1>1. version \in Nat /\ lastApplied \in Nat /\ cur.version \in Nat
      /\ lastApplied < cur.version /\ cur.version <= version
  BY DEF IInv, TypeInv, TypeOK, ApplyingNewer, FinishApply
<1>2. lastApplied' = cur.version /\ UNCHANGED <<version, appliedVersion, applyOK>>
  BY DEF FinishApply, cpVars, docVars, reportVars
<1>3. lastApplied' \in (lastApplied + 1) .. version
  BY <1>1, <1>2
<1> DEFINE ends == [v \in (lastApplied + 1) .. lastApplied' |-> EndedClean(v)']
<1>4. ends \in [(lastApplied + 1) .. lastApplied' -> BOOLEAN]
  BY DEF EndedClean
<1>5. Outcome' = [v \in 1 .. lastApplied' |-> IF v <= lastApplied THEN Outcome[v] ELSE ends[v]]
  <2>1. ASSUME NEW v \in 1 .. lastApplied'
        PROVE  EndedClean(v)' = IF v <= lastApplied THEN Outcome[v] ELSE ends[v]
    <3>1. CASE v <= lastApplied
      BY <1>1, <1>2, <3>1, OutcomesFrozen DEF Outcome
    <3>2. CASE ~(v <= lastApplied)
      BY <1>1, <1>2, <3>2
    <3> QED BY <3>1, <3>2
  <2> QED BY <2>1 DEF Outcome
<1>6. Verdict' = Verdict
  BY <1>2 DEF Verdict
<1> QED BY <1>2, <1>3, <1>4, <1>5, <1>6 DEF Promise!Finish, Outcome, Verdict

\* ApplyDSDStatus: a report that is taken says how a finished version ended; one
\* that is not taken changes nothing.
LEMMA StatusRefines ==
    ASSUME IInv, [Next]_vars, NEW m \in net, HandleStatus(m)
    PROVE  Promise!Learn \/ UNCHANGED Promise!deliveryVars
<1>1. /\ version \in Nat /\ appliedVersion \in Nat /\ lastApplied \in Nat /\ m.version \in Nat
      /\ appliedVersion <= lastApplied /\ lastApplied <= version
      /\ 0 < m.version /\ m.version <= lastApplied
      /\ m.states = ResultsForVersion(m.version)
  BY DEF IInv, TypeInv, TypeOK, NobodyAhead, ReportsTruthful
<1>2. UNCHANGED <<version, lastApplied>>
  BY DEF HandleStatus, docVars, diskVars
<1>3. Outcome' = Outcome
  BY <1>1, <1>2, OutcomesFrozen DEF Outcome
<1>4. CASE m.version < appliedVersion
  <2>1. UNCHANGED <<appliedVersion, applyOK>>
    BY <1>4 DEF HandleStatus, ApplyDSDStatus, reportVars
  <2>2. Verdict' = Verdict
    BY <1>2, <2>1 DEF Verdict
  <2> QED BY <1>2, <1>3, <2>1, <2>2 DEF Promise!deliveryVars, Outcome, Verdict
<1>5. CASE ~(m.version < appliedVersion)
  <2>1. appliedVersion' = m.version /\ applyOK' = (BrokenOps(m) = {})
    BY <1>1, <1>5 DEF HandleStatus, ApplyDSDStatus
  <2>2. (BrokenOps(m) = {}) <=> EndedClean(m.version)
    BY <1>1 DEF BrokenOps, EndedClean, ResultsForVersion
  <2>3. Outcome[m.version] = EndedClean(m.version)
    BY <1>1 DEF Outcome
  <2>4. appliedVersion' \in appliedVersion .. lastApplied /\ appliedVersion' > 0
    BY <1>1, <1>5, <2>1
  <2>5. Verdict' = IF appliedVersion' = version
                   THEN Promise!VerdictOf(Outcome[appliedVersion']) ELSE "pending"
    <3>1. CASE m.version = version
      <4>1. Verdict' = IF applyOK' THEN "clean" ELSE "broken"
        <5>1. ~(version' = 0 \/ appliedVersion' < version')
          BY <1>1, <1>2, <2>1, <3>1
        <5> QED BY <5>1, Zenon DEF Verdict
      <4>2. applyOK' <=> Outcome[appliedVersion']
        BY <2>1, <2>2, <2>3, Zenon
      <4>3. appliedVersion' = version
        BY <2>1, <3>1
      <4>4. (IF applyOK' THEN "clean" ELSE "broken") = Promise!VerdictOf(Outcome[appliedVersion'])
        BY <4>2, Zenon DEF Promise!VerdictOf
      <4> QED BY <4>1, <4>3, <4>4, Zenon
    <3>2. CASE m.version # version
      BY <1>1, <1>2, <2>1, <3>2 DEF Verdict
    <3> QED BY <3>1, <3>2
  <2> QED BY <1>2, <1>3, <2>4, <2>5 DEF Promise!Learn, Outcome, Verdict
<1> QED BY <1>4, <1>5

\* Every step of DesiredState is a step of Delivery or leaves it alone.
LEMMA RefinesStep == IInv /\ [Next]_vars => [Promise!DeliveryNext]_(Promise!deliveryVars)
<1> SUFFICES ASSUME IInv, [Next]_vars
             PROVE  Promise!DeliveryNext \/ UNCHANGED Promise!deliveryVars
  OBVIOUS
<1>1. CASE UNCHANGED <<version, lastApplied, appliedVersion, applyOK>>
  <2>1. lastApplied \in Nat
    BY DEF IInv, TypeInv, TypeOK
  <2>2. Outcome' = Outcome /\ Verdict' = Verdict
    BY <1>1, <2>1, OutcomesFrozen DEF Outcome, Verdict
  <2> QED BY <1>1, <2>2 DEF Promise!deliveryVars, Outcome, Verdict
<1> QED BY <1>1, StepKinds, IssueRefines, FinishRefines, StatusRefines DEF Promise!DeliveryNext

\* Journal, re-reports and the guards of StoreDSD and ApplyDSDStatus together
\* implement Delivery: whatever is lost, repeated, late, crashed or resumed, the
\* verdict on the newest version is how the agent ended it.
THEOREM DeliversAsPromisedCorrect == Spec => DeliversAsPromised
BY RefinesInit, RefinesStep, InvCorrect, PTL DEF Spec, DeliversAsPromised, Promise!DeliverySpec
=============================================================================
