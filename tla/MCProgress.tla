----------------------------- MODULE MCProgress -----------------------------
(***************************************************************************)
(* The loops that run unattended and must get somewhere: document delivery *)
(* with one document, the end of a decommission, the alert dispatchers,    *)
(* quantity billing and the back-off of its sync.  They share no state, so *)
(* that each behaviour runs one of them, `part', and leaves the others     *)
(* alone.                                                                  *)
(***************************************************************************)
EXTENDS DesiredState, Fleet, AlertsRefinement, Billing, BillingSync

VARIABLE part

OneDoc == {"d1"}
OneDocOps == {"net", "run"}
OneDocOpsOf == [d \in OneDoc |-> OneDocOps]
OneDocDependsOn == [d \in OneDoc |-> [o \in OneDocOps |-> IF o = "run" THEN {"net"} ELSE {}]]

MCAllowed == [r \in Resources |-> ServerTypes]
MCWanted == [r \in Resources |-> 1]

MCKind == [c \in Channels |-> "webhook"]
MCEvent == [k \in Keys |-> "cert_failed"]

MCUnitWeight == [t \in HostTypes |-> IF t = "gpu" THEN 3 ELSE 1]

ProgressInit ==
    /\ part \in {"documents", "fleet", "alerts", "billing", "sync"}
    /\ Init /\ FleetInit /\ AlertsInit /\ BillingInit /\ SyncInit

\* A server is followed up to where its decommission is undone, if it is.
Documents(A) == part = "documents" /\ A /\ UNCHANGED <<part, fleetVars, alertsVars, billingVars, syncVars>>
Serving(A)   == part = "fleet"     /\ undone = {} /\ A /\ UNCHANGED <<part, vars, alertsVars, billingVars, syncVars>>
Alerting(A)  == part = "alerts"    /\ A /\ UNCHANGED <<part, vars, fleetVars, billingVars, syncVars>>
Charging(A)  == part = "billing"   /\ A /\ UNCHANGED <<part, vars, fleetVars, alertsVars, syncVars>>
Syncing(A)   == part = "sync"      /\ A /\ UNCHANGED <<part, vars, fleetVars, alertsVars, billingVars>>

ProgressNext ==
    \/ Documents(Next)
    \/ Serving(FleetNext)
    \/ Alerting(AlertsNext)
    \/ Charging(BillingNext)
    \/ Syncing(SyncNext)

progressVars == <<part, vars, fleetVars, alertsVars, billingVars, syncVars>>

\* The fairness of each part, while it is the one that runs.
ProgressFairness ==
    /\ WF_vars(Documents(IssueDSD)) /\ WF_vars(Documents(AlertApplyStuck))
    /\ SF_vars(Documents(\E m \in net : HandleStatus(m)))
    /\ WF_vars(Documents(Start)) /\ WF_vars(Documents(Rereport)) /\ WF_vars(Documents(NoRereport))
    /\ SF_vars(Documents(Fetch)) /\ WF_vars(Documents(FetchNothing))
    /\ WF_vars(Documents(PostFailed))
    /\ WF_vars(Documents(\E o \in Ops : ApplyStep(o))) /\ WF_vars(Documents(FinishApply))
    /\ \A s \in Machines : /\ WF_fleetVars(Serving(TimeoutStaleDecommissions(s)))
                           /\ WF_fleetVars(Serving(TeardownOverdue(s)))
    /\ \A r \in Resources : WF_fleetVars(Serving(CreateGoesOn(r)))
    /\ \A d \in Dispatchers : WF_alertsVars(Alerting(Dispatch(d)))
    /\ WF_alertsVars(Alerting(TimePasses))
    /\ WF_billingVars(Charging(SyncQuantity)) /\ WF_billingVars(Charging(DebounceEnds))
    /\ WF_billingVars(Charging(SweepServerHours)) /\ WF_billingVars(Charging(HourExpires))
    /\ WF_billingVars(Charging(PaddleDelivers)) /\ WF_billingVars(Charging(WebhookCommits))
    /\ WF_syncVars(Syncing(Sync))

ProgressSpec == ProgressInit /\ [][ProgressNext]_progressVars /\ ProgressFairness

\* Where documents are delivered: the agent ends up at the newest version whatever
\* crashes, and the control plane ends up knowing it however many status POSTs are
\* lost (runDSDLoop, StoreDSD).
DocumentsConverge == part = "documents" => AgentCatchesUp /\ LostReportsMadeUpFor
=============================================================================
