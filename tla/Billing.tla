------------------------------- MODULE Billing -------------------------------
(***************************************************************************)
(* The subscription of one organisation and the fleet it is priced on.      *)
(*                                                                          *)
(*   cp/internal/store/billing.go, server_units.go   the meter, the row of  *)
(*                     org_billing, dunning, the caps on growth             *)
(*   cp/internal/api/billing.go   checkout and the Paddle webhook           *)
(*   cp/internal/paddle           the client                                *)
(*                                                                          *)
(* Paddle is external: it changes a subscription, on its own account or on  *)
(* a customer's, and sends an event for every change, at least once and in  *)
(* any order.  Events carry Paddle's clock.  The push of quantities is one  *)
(* action here; which pushes a pass attempts is in module BillingSync.      *)
(***************************************************************************)
EXTENDS Integers, FiniteSets, FiniteSetsExt

CONSTANTS
    Hosts, HostTypes, UnitWeight,   \* servers of the organisation and their price
    FreeTier,                       \* BillingFreeTier
    Subs,                           \* ids of Paddle subscriptions
    MaxFleet, MaxPaddle,            \* bounds: changes of the fleet, of a subscription,
    MaxRollbacks                    \* transactions that fail

ASSUME BillingAssumption ==
    /\ UnitWeight \in [HostTypes -> Nat \ {0}] /\ FreeTier \in Nat
    /\ MaxFleet \in Nat /\ MaxPaddle \in Nat /\ MaxRollbacks \in Nat

VARIABLES
    fleet,      \* servers: state and type of each
    hours,      \* server_hours of the window: <<server, unit_weight>>
    paddle,     \* Paddle's subscriptions
    sent,       \* events that Paddle sent
    webhooks,   \* webhook_deliveries
    ignored,    \* events acknowledged without an organisation
    inTx,       \* open ApplyPaddleWebhook: the event and what it read
    row,        \* org_billing
    reminding,  \* SweepBillingDunning read this status and has not written
    fleetOps, paddleClock, rollbacks

billingVars == <<fleet, hours, paddle, sent, webhooks, ignored, inTx, row, reminding,
                 fleetOps, paddleClock, rollbacks>>

NoSub == [status |-> "none", quantity |-> 0, org |-> FALSE, customer |-> "none"]
NoRow == [exists |-> FALSE, sub |-> "none", customer |-> "none", status |-> "none", quantity |-> 0,
          at |-> 0, overGrace |-> FALSE, dunned |-> "never", synced |-> 0, justSynced |-> FALSE]
Delinquent == {"past_due", "canceled"}

BillingInit ==
    /\ fleet = [h \in Hosts |-> [state |-> "none", type |-> "none"]]
    /\ hours = {} /\ paddle = [s \in Subs |-> NoSub] /\ sent = {} /\ webhooks = {} /\ ignored = {}
    /\ inTx = {}
    /\ row = NoRow /\ reminding = "none" /\ fleetOps = 0 /\ paddleClock = 0
    /\ rollbacks = 0

EventTimes == 1..(MaxPaddle + 2 * MaxFleet + 1)
Events == [time : EventTimes, sub : Subs, status : Delinquent \cup {"active", "paused"},
           quantity : Nat, org : BOOLEAN, customer : Subs]

BillingTypeOK ==
    /\ fleet \in [Hosts -> [state : {"none", "adding", "provisioning", "running", "unreachable"},
                            type : HostTypes \cup {"none"}]]
    /\ hours \subseteq Hosts \X Nat
    /\ paddle \in [Subs -> [status : Delinquent \cup {"none", "checkout", "active", "paused"},
                            quantity : Nat, org : BOOLEAN, customer : Subs \cup {"none"}]]
    /\ sent \subseteq Events /\ webhooks \subseteq sent /\ ignored \subseteq sent
    /\ row.status \in Delinquent \cup {"none", "active", "paused"} /\ row.sub \in Subs \cup {"none"}
    /\ reminding \in Delinquent \cup {"none"}

subVars == <<paddle, sent, webhooks, ignored, inTx, row, reminding, paddleClock, rollbacks>>

-----------------------------------------------------------------------------
(* The fleet and its price.                                                  *)

ServerUnitWeight(type) == UnitWeight[type]

UnitsOf(states) ==
    MapThenSumSet(LAMBDA h : ServerUnitWeight(fleet[h].type), {h \in Hosts : fleet[h].state \in states})

ConnectedServerUnits == UnitsOf({"running"})

\* The high-water mark: what is connected now, or each server of the window at
\* the most it weighed in it, whichever is more.
billedUnits ==
    LET weights(h) == {w \in {hr[2] : hr \in hours} : <<h, w>> \in hours}
    IN  Max({ConnectedServerUnits,
             MapThenSumSet(LAMBDA h : Max(weights(h)), {hr[1] : hr \in hours})})

BillableQuantity(units, holdsMinimum) ==
    Max({units - FreeTier, IF holdsMinimum THEN 1 ELSE 0})

billingDelinquent == row.status \in Delinquent

\* Growth is refused once the grace period of a delinquency is over.
assertBillingNotCapped == ~(billingDelinquent /\ row.overGrace)

\* Without a subscription the fleet stays within the free tier, the server that
\* is added included.
assertFreeTierNotExhausted(type) ==
    row.exists \/ UnitsOf({"provisioning", "running", "unreachable"}) + ServerUnitWeight(type) <= FreeTier

FleetOp == fleetOps < MaxFleet /\ fleetOps' = fleetOps + 1

\* precreateServerTx: the checks, then the insert, no lock between them.
BeginServer(h, type) ==
    /\ fleet[h].state = "none" /\ FleetOp
    /\ assertBillingNotCapped /\ assertFreeTierNotExhausted(type)
    /\ fleet' = [fleet EXCEPT ![h] = [state |-> "adding", type |-> type]]
    /\ UNCHANGED <<hours, subVars>>

InsertServer(h) ==
    /\ fleet[h].state = "adding"
    /\ fleet' = [fleet EXCEPT ![h].state = "provisioning"]
    /\ UNCHANGED <<hours, fleetOps, subVars>>

\* Heartbeats, missed heartbeats, a changed type, a removal: module Fleet.
FleetChanges(h) ==
    /\ fleet[h].state \in {"provisioning", "running", "unreachable"}
    /\ \/ /\ fleet[h].state # "running"
          /\ fleet' = [fleet EXCEPT ![h].state = "running"] /\ UNCHANGED fleetOps
       \/ /\ FleetOp
          /\ \/ fleet[h].state = "running" /\ fleet' = [fleet EXCEPT ![h].state = "unreachable"]
             \/ fleet' = [fleet EXCEPT ![h] = [state |-> "none", type |-> "none"]]
             \/ \E t \in HostTypes \ {fleet[h].type} : fleet' = [fleet EXCEPT ![h].type = t]
    /\ UNCHANGED <<hours, subVars>>

\* The hour's rows, of the weight each server has now; a row is never restamped.
SweepServerHours ==
    /\ hours' = hours \cup {<<h, ServerUnitWeight(fleet[h].type)>> :
                              h \in {g \in Hosts : fleet[g].state = "running"}}
    /\ hours' # hours
    /\ UNCHANGED <<fleet, fleetOps, subVars>>

\* An hour leaves the window (quantitySyncWindow).
HourExpires ==
    /\ \E hr \in hours :
         /\ ~(fleet[hr[1]].state = "running" /\ ServerUnitWeight(fleet[hr[1]].type) = hr[2])
         /\ hours' = hours \ {hr}
    /\ UNCHANGED <<fleet, fleetOps, subVars>>

-----------------------------------------------------------------------------
(* Paddle.                                                                   *)

\* Every change of a subscription is an event; those after the first carry the
\* organisation when the receiver stamped it.
Announce(s, status, quantity, org) ==
    /\ paddleClock' = paddleClock + 1
    /\ paddle' = [paddle EXCEPT ![s].status = status, ![s].quantity = quantity]
    /\ sent' = sent \cup {[time |-> paddleClock + 1, sub |-> s, status |-> status, quantity |-> quantity,
                           org |-> org, customer |-> paddle[s].customer]}

\* handleBillingCheckout: refused beside a subscription that is not over.
handleBillingCheckout(s) ==
    /\ paddle[s].status = "none"
    /\ row.sub = "none" \/ row.status \in {"canceled", "none"}
    /\ paddle' = [paddle EXCEPT ![s] = [status |-> "checkout", quantity |-> BillableQuantity(billedUnits, TRUE),
                                        org |-> FALSE,
                                        customer |-> IF row.exists THEN row.customer ELSE s]]
    /\ UNCHANGED <<fleet, hours, sent, webhooks, ignored, inTx, row, reminding, fleetOps, paddleClock, rollbacks>>

\* External: the checkout is paid, a card fails or works again, the customer
\* pauses, resumes or cancels.
PaddleChanges(s) ==
    /\ paddle[s].status \notin {"none", "canceled"} /\ paddleClock < MaxPaddle
    /\ \E status \in {"active", "past_due", "paused", "canceled"} \ {paddle[s].status} :
         /\ paddle[s].status = "checkout" => status = "active"
         /\ Announce(s, status, paddle[s].quantity, paddle[s].status = "checkout" \/ paddle[s].org)
    /\ UNCHANGED <<fleet, hours, webhooks, ignored, inTx, row, reminding, fleetOps, rollbacks>>

\* An event without the organisation is known by its subscription or customer.
OrgForPaddleIDs(e) == row.exists /\ (row.sub = e.sub \/ row.customer = e.customer)

\* handlePaddleWebhook up to the read of the row, which locks it when there is
\* one; the insert of the delivery id has already sorted out a duplicate.  An
\* event that came without its organisation has it stamped at Paddle.
handlePaddleWebhook(e) ==
    /\ e \in sent \ (webhooks \cup ignored)
    /\ e.org \/ OrgForPaddleIDs(e)
    /\ \A d \in inTx : d.e # e /\ ~d.locked
    /\ inTx' = inTx \cup {[e |-> e, locked |-> row.exists, at |-> row.at, status |-> row.status]}
    /\ paddle' = IF e.org THEN paddle ELSE [paddle EXCEPT ![e.sub].org = TRUE]
    /\ UNCHANGED <<fleet, hours, sent, webhooks, ignored, row, reminding, fleetOps, paddleClock, rollbacks>>

\* An event that no organisation is found for is acknowledged all the same.
IgnoreWebhook(e) ==
    /\ e \in sent \ (webhooks \cup ignored)
    /\ ~(e.org \/ OrgForPaddleIDs(e))
    /\ ignored' = ignored \cup {e}
    /\ UNCHANGED <<fleet, hours, paddle, sent, webhooks, inTx, row, reminding, fleetOps, paddleClock, rollbacks>>

\* Mutant: no last_event_at guard on the conflicting update.
Clobbers(e) == TRUE

\* The WHERE of ON CONFLICT DO UPDATE.
ConflictGuard(e) == ~row.exists \/ e.time >= row.at

\* upsertSubscriptionTx: a delivery older than what was read changes nothing; a
\* change of status restarts the grace period, a delinquency is announced.
upsertSubscription(d) ==
    LET e == d.e
        changed == row.status # e.status
        dunned == IF e.status # d.status /\ e.status \in Delinquent THEN "recent"
                  ELSE IF changed THEN "never" ELSE row.dunned
    IN  IF (d.at # 0 /\ e.time < d.at) \/ ~ConflictGuard(e) THEN row
        ELSE [row EXCEPT !.exists = TRUE, !.sub = e.sub, !.customer = e.customer, !.status = e.status,
                         !.quantity = e.quantity, !.at = e.time,
                         !.overGrace = @ /\ ~changed, !.dunned = dunned]

\* ApplyPaddleWebhook: the delivery is recorded with what it changed.
ApplyPaddleWebhook(e) ==
    /\ \E d \in inTx :
         /\ d.e = e /\ \A c \in inTx : c.locked => c = d
         /\ row' = upsertSubscription(d)
         /\ webhooks' = webhooks \cup {d.e} /\ inTx' = inTx \ {d}
    /\ UNCHANGED <<fleet, hours, paddle, sent, ignored, reminding, fleetOps, paddleClock, rollbacks>>

\* The apply fails: the delivery record goes with it, and Paddle sends again.
RollbackWebhook ==
    /\ rollbacks < MaxRollbacks /\ rollbacks' = rollbacks + 1
    /\ \E d \in inTx : inTx' = inTx \ {d}
    /\ UNCHANGED <<fleet, hours, paddle, sent, webhooks, ignored, row, reminding, fleetOps, paddleClock>>

-----------------------------------------------------------------------------
(* Quantities.                                                               *)

Want == BillableQuantity(billedUnits, TRUE)

\* Mutant: only growth counts as drift.
ScalesUpOnly == row.status = "active" /\ Want > row.quantity /\ (row.justSynced => row.synced # Want)

\* The row drifted, and its last push is not a recent one of the same quantity.
SubscriptionsNeedingQuantitySync ==
    row.status = "active" /\ Want # row.quantity /\ (row.justSynced => row.synced # Want)

\* Leaves row.quantity alone: that is Paddle's own word.
RecordQuantitySynced(q) == [row EXCEPT !.synced = q, !.justSynced = TRUE]

\* Sync of this organisation: Paddle takes the quantity and sends an event when
\* it is another, then RecordQuantitySynced, which may fail.  Paddle refuses a
\* subscription that is not active.
SyncQuantity ==
    /\ SubscriptionsNeedingQuantitySync
    /\ paddle[row.sub].status = "active"
    /\ IF paddle[row.sub].quantity = Want
       THEN UNCHANGED <<paddle, sent, paddleClock>>
       ELSE Announce(row.sub, "active", Want, paddle[row.sub].org)
    /\ \/ row' = RecordQuantitySynced(Want)
       \/ UNCHANGED row
    /\ UNCHANGED <<fleet, hours, webhooks, ignored, inTx, reminding, fleetOps, rollbacks>>

\* quantitySyncDebounce is over.
DebounceEnds ==
    /\ row.justSynced /\ row' = [row EXCEPT !.justSynced = FALSE]
    /\ UNCHANGED <<fleet, hours, paddle, sent, webhooks, ignored, inTx, reminding, fleetOps, paddleClock, rollbacks>>

-----------------------------------------------------------------------------
(* Dunning.                                                                  *)

GraceEnds ==
    /\ row.exists /\ ~row.overGrace /\ row' = [row EXCEPT !.overGrace = TRUE]
    /\ UNCHANGED <<fleet, hours, paddle, sent, webhooks, ignored, inTx, reminding, fleetOps, paddleClock, rollbacks>>

DunningIntervalEnds ==
    /\ row.dunned = "recent" /\ row' = [row EXCEPT !.dunned = "old"]
    /\ UNCHANGED <<fleet, hours, paddle, sent, webhooks, ignored, inTx, reminding, fleetOps, paddleClock, rollbacks>>

\* SweepBillingDunning: read who is due, then alert, each in a transaction of its
\* own that does not look again.
ReadDunning ==
    /\ billingDelinquent /\ row.dunned # "recent" /\ reminding = "none"
    /\ reminding' = row.status
    /\ UNCHANGED <<fleet, hours, paddle, sent, webhooks, ignored, inTx, row, fleetOps, paddleClock, rollbacks>>

SweepBillingDunning ==
    /\ reminding # "none" /\ reminding' = "none"
    /\ row' = [row EXCEPT !.dunned = "recent"]
    /\ UNCHANGED <<fleet, hours, paddle, sent, webhooks, ignored, inTx, fleetOps, paddleClock, rollbacks>>

-----------------------------------------------------------------------------
PaddleDelivers == \E e \in sent : handlePaddleWebhook(e) \/ IgnoreWebhook(e)
WebhookCommits == \E e \in sent : ApplyPaddleWebhook(e)

BillingNext ==
    \/ \E h \in Hosts, t \in HostTypes : BeginServer(h, t)
    \/ \E h \in Hosts : InsertServer(h) \/ FleetChanges(h)
    \/ SweepServerHours \/ HourExpires
    \/ \E s \in Subs : handleBillingCheckout(s) \/ PaddleChanges(s)
    \/ PaddleDelivers \/ WebhookCommits \/ RollbackWebhook
    \/ SyncQuantity \/ DebounceEnds
    \/ GraceEnds \/ DunningIntervalEnds \/ ReadDunning \/ SweepBillingDunning

\* The sweep ticks, hours age, and Paddle repeats an event until it is applied.
BillingFairness ==
    /\ WF_billingVars(SyncQuantity) /\ WF_billingVars(DebounceEnds)
    /\ WF_billingVars(SweepServerHours) /\ WF_billingVars(HourExpires)
    /\ WF_billingVars(PaddleDelivers) /\ WF_billingVars(WebhookCommits)

BillingSpec == BillingInit /\ [][BillingNext]_billingVars /\ BillingFairness

-----------------------------------------------------------------------------
(* Properties.                                                               *)

\* upsertSubscriptionTx: the row holds the newest of the events that were
\* applied, however deliveries are reordered, repeated, rolled back and crossed,
\* the first-ever ones that find no row to lock included.
NewestEventWins ==
    \A e \in webhooks :
       /\ e.time <= row.at
       /\ e.time = row.at => row.status = e.status /\ row.sub = e.sub

\* Syncer: once the fleet and the customer are quiet, Paddle charges the tracked
\* subscription for the quantity the Billing page shows, up or down.
BillsWhatRuns ==
    <>[](row.status = "active" /\ paddle[row.sub].status = "active" => paddle[row.sub].quantity = Want)

\* The free tier ("landing exactly ON the free tier is what the free tier
\* promises"): an organisation that never subscribed does not pass it.
FreeTierHolds ==
    ~row.exists => UnitsOf({"provisioning", "running", "unreachable"}) <= FreeTier

=============================================================================
