------------------------------- MODULE Alerts -------------------------------
(***************************************************************************)
(* The alert outbox of one organisation and the dispatchers that drain it.  *)
(*                                                                          *)
(*   cp/internal/store/alerts_store.go  channels, rules, outbox             *)
(*   cp/internal/alerts/dispatcher.go   claim, send, record, in every       *)
(*                                      control-plane replica               *)
(*   cp/internal/alerts/sender.go       the transports                      *)
(*                                                                          *)
(* A producer inserts outbox rows in the transaction that makes the change  *)
(* it alerts on; a dispatcher claims due rows under a lease, sends them and *)
(* records the result.  A row whose dispatcher died is claimed again when   *)
(* its lease has run out.                                                   *)
(*                                                                          *)
(* Title, body, secret and configuration of a channel are left out; of its  *)
(* destination only what its name resolves to, which may be another answer  *)
(* at every look.                                                           *)
(***************************************************************************)
EXTENDS Integers, Sequences, FiniteSets, FiniteSetsExt

CONSTANTS
    Channels,      \* ids of alert_channels
    Kind,          \* kind of each: "email", "slack", "telegram", "webhook"
    Keys,          \* dedup keys
    Event,         \* the event each dedup key is about
    Windowed,      \* keys enqueued with a cool-down; the others "once ever"
    Producers,     \* transactions that enqueue alerts
    Dispatchers,   \* control-plane replicas, each with one dispatcher
    BatchSize, Concurrency, MaxAttempts,  \* alerts.Config
    MaxRows,       \* bound: outbox rows
    MaxAlertFaults      \* bound: crashes, database errors, lost answers, stalls

ASSUME AlertsAssumption ==
    /\ Kind \in [Channels -> {"email", "slack", "telegram", "webhook"}]
    /\ DOMAIN Event = Keys /\ Windowed \subseteq Keys
    /\ IsFiniteSet(Channels) /\ IsFiniteSet(Keys)
    /\ {BatchSize, Concurrency, MaxAttempts} \subseteq Nat \ {0}
    /\ {MaxRows, MaxAlertFaults} \subseteq Nat

VARIABLES
    channel,    \* "none" before it is created, "enabled", "deleted"
    rules,      \* alert_rules: pairs <<event, channel>>
    outbox,     \* alert_outbox in insertion order
    producer,   \* open transactions: keys still to enqueue, keys locked, rows
    job,        \* what each dispatcher does with each row of its batch
    alertFaults \* history: faults so far

alertsVars == <<channel, rules, outbox, producer, job, alertFaults>>

RowIds == 1..MaxRows
New  == [open |-> FALSE, todo |-> <<"begin">>, locked |-> {}, rows |-> {}]
Done == [open |-> FALSE, todo |-> <<>>, locked |-> {}, rows |-> {}]
NoJob == [i \in RowIds |-> "none"]
InSend == {"sending", "sent", "failed"}   \* from the renewal to the record

AlertsInit ==
    /\ channel = [c \in Channels |-> "none"]
    /\ rules = {}
    /\ outbox = <<>>
    /\ producer = [p \in Producers |-> New]
    /\ job = [d \in Dispatchers |-> NoJob]
    /\ alertFaults = 0

AlertsTypeOK ==
    /\ channel \in [Channels -> {"none", "enabled", "deleted"}]
    /\ rules \subseteq {Event[k] : k \in Keys} \X Channels
    /\ Len(outbox) <= MaxRows
    /\ \A i \in DOMAIN outbox :
         outbox[i] \in [channel : Channels, key : Keys, attempts : 0..MaxAttempts,
                        status : {"pending", "sending", "sent", "failed", "deleted"},
                        due : BOOLEAN, recent : BOOLEAN]
    /\ job \in [Dispatchers -> [RowIds -> {"none", "queued"} \cup InSend]]
    /\ alertFaults \in 0..MaxAlertFaults

AlertFault == alertFaults < MaxAlertFaults /\ alertFaults' = alertFaults + 1

-----------------------------------------------------------------------------
(* Channels and rules.                                                       *)

\* External: what a look at the DNS may answer, at any time.
Answers == {"public", "internal", "none"}

\* The rule for HTTP destinations, applied at creation, at every send and to
\* every redirect: every address the name has is public.
ValidateAlertDestination(answer) == answer = "public"

\* The same rule for SMTP hosts.
ValidateEmailDestination(answer) == answer = "public"

\* At creation a Slack URL is pinned by its prefix and Telegram's is fixed.
validateChannelConfig(c, answer) ==
    CASE Kind[c] = "webhook" -> ValidateAlertDestination(answer)
      [] Kind[c] = "email"   -> ValidateEmailDestination(answer)
      [] OTHER               -> TRUE

\* A new channel is subscribed to every event.
CreateAlertChannel(c) ==
    /\ channel[c] = "none"
    /\ \E answer \in Answers : validateChannelConfig(c, answer)
    /\ channel' = [channel EXCEPT ![c] = "enabled"]
    /\ rules' = rules \cup {<<Event[k], c>> : k \in Keys}
    /\ UNCHANGED <<outbox, producer, job, alertFaults>>

\* ON DELETE CASCADE takes the rules and the outbox rows along.  An insert that
\* refers to the channel and is not committed yet holds the delete back.
DeleteAlertChannel(c) ==
    /\ channel[c] = "enabled"
    /\ \A p \in Producers : \A r \in producer[p].rows : r[1] # c
    /\ channel' = [channel EXCEPT ![c] = "deleted"]
    /\ rules' = {r \in rules : r[2] # c}
    /\ outbox' = [i \in DOMAIN outbox |->
                    IF outbox[i].channel = c
                    THEN [outbox[i] EXCEPT !.status = "deleted", !.due = FALSE]
                    ELSE outbox[i]]
    /\ UNCHANGED <<producer, job, alertFaults>>

SetAlertRules(c, events) ==
    /\ channel[c] = "enabled"
    /\ rules' = {r \in rules : r[2] # c} \cup (events \X {c})
    /\ UNCHANGED <<channel, outbox, producer, job, alertFaults>>

-----------------------------------------------------------------------------
(* Producers: a transaction that enqueues one alert or, in a sweep or the    *)
(* certificate scan, one per row it found, in no particular order.           *)

\* EnqueueCertExpiringAlerts and the sweeps of the store.
KeySeqs == {<<k>> : k \in Keys} \cup {s \in Keys \X Keys : s[1] # s[2]}

BeginProducer(p, keys) ==
    /\ producer[p] = New
    /\ producer' = [producer EXCEPT ![p].open = TRUE, ![p].todo = keys]
    /\ UNCHANGED <<channel, rules, outbox, job, alertFaults>>

\* The NOT EXISTS of the insert: committed rows of the channel with this key,
\* within the window when there is one.
AlreadyQueued(c, k) ==
    \E i \in DOMAIN outbox : /\ outbox[i].channel = c
                             /\ outbox[i].key = k
                             /\ outbox[i].status # "deleted"
                             /\ k \in Windowed => outbox[i].recent

\* Mutant: the enqueue does not take the advisory lock.
NoKeyLock(p, k) == TRUE

\* pg_advisory_xact_lock on the key: held by one transaction to its end.
KeyLock(p, k) == \A q \in Producers \ {p} : k \notin producer[q].locked

enqueueAlertTx(p) ==
    /\ producer[p].open /\ producer[p].todo # <<>>
    /\ LET k == Head(producer[p].todo)
           to == {c \in Channels : <<Event[k], c>> \in rules /\ ~AlreadyQueued(c, k)}
       IN  /\ KeyLock(p, k)
           /\ producer' = [producer EXCEPT
                 ![p] = [open |-> TRUE, todo |-> Tail(@.todo), locked |-> @.locked \cup {k},
                         rows |-> @.rows \cup (to \X {k})]]
    /\ UNCHANGED <<channel, rules, outbox, job, alertFaults>>

NewRow(c, k) == [channel |-> c, key |-> k, status |-> "pending", attempts |-> 0,
                 due |-> TRUE, recent |-> TRUE]

CommitProducer(p) ==
    /\ producer[p].open /\ producer[p].todo = <<>>
    /\ Len(outbox) + Cardinality(producer[p].rows) <= MaxRows
    /\ \E s \in [1..Cardinality(producer[p].rows) -> producer[p].rows] :
         /\ \A r \in producer[p].rows : \E n \in DOMAIN s : s[n] = r
         /\ outbox' = outbox \o [n \in DOMAIN s |-> NewRow(s[n][1], s[n][2])]
    /\ producer' = [producer EXCEPT ![p] = Done]
    /\ UNCHANGED <<channel, rules, job, alertFaults>>

\* The transaction fails: another statement of it, or the deadlock of two
\* scans that lock the same keys in different orders.
RollbackProducer(p) ==
    /\ producer[p].open
    /\ producer' = [producer EXCEPT ![p] = Done]
    /\ UNCHANGED <<channel, rules, outbox, job, alertFaults>>

\* A row grows older than the cool-down of its key.
WindowPasses(i) ==
    /\ i \in DOMAIN outbox /\ outbox[i].recent /\ outbox[i].key \in Windowed
    /\ \A p \in Producers : ~producer[p].open
    /\ outbox' = [outbox EXCEPT ![i].recent = FALSE]
    /\ UNCHANGED <<channel, rules, producer, job, alertFaults>>

-----------------------------------------------------------------------------
(* Dispatchers.                                                              *)

\* Mutant: only `pending' rows are claimed, so that the rows of a dispatcher
\* that died stay `sending' for ever.
ClaimablePending(i) == outbox[i].status = "pending" /\ outbox[i].due

Claimable(i) == outbox[i].status \in {"pending", "sending"} /\ outbox[i].due

\* Mutant: the claim marks the rows but gives them no lease.
ClaimWithoutLease(batch) ==
    outbox' = [i \in DOMAIN outbox |->
                 IF i \in batch THEN [outbox[i] EXCEPT !.status = "sending"] ELSE outbox[i]]

\* Claim a batch: mark the rows `sending' and lease them.
DueAlertDeliveries(batch) ==
    outbox' = [i \in DOMAIN outbox |->
                 IF i \in batch THEN [outbox[i] EXCEPT !.status = "sending", !.due = FALSE]
                                ELSE outbox[i]]

\* A dispatcher drains again when its last batch is through.
Drain(d) ==
    LET due == {i \in DOMAIN outbox : Claimable(i)} IN
    /\ job[d] = NoJob /\ due # {}
    /\ \E batch \in SUBSET due :
         /\ Cardinality(batch) = Min({BatchSize, Cardinality(due)})
         /\ DueAlertDeliveries(batch)
         /\ job' = [job EXCEPT ![d] = [i \in RowIds |-> IF i \in batch THEN "queued" ELSE "none"]]
    /\ UNCHANGED <<channel, rules, producer, alertFaults>>

WorkerFree(d) == Cardinality({i \in RowIds : job[d][i] \in InSend}) < Concurrency

\* Renews the lease of a row that is still `sending'; FALSE when it is not.
RenewAlertDeliveryLease(i) == outbox[i].status = "sending"

\* deliver up to the send: look the channel up, renew the lease.  A channel
\* that cannot be read is recorded as a failed send; a row that another
\* dispatcher finished is dropped.
deliver(d, i) ==
    /\ job[d][i] = "queued" /\ WorkerFree(d)
    /\ \/ /\ RenewAlertDeliveryLease(i)
          /\ job' = [job EXCEPT ![d][i] = "sending"]
          /\ outbox' = [outbox EXCEPT ![i].due = FALSE]
          /\ UNCHANGED alertFaults
       \/ /\ ~RenewAlertDeliveryLease(i)
          /\ job' = [job EXCEPT ![d][i] = "none"]
          /\ UNCHANGED <<outbox, alertFaults>>
       \/ /\ AlertFault                   \* the channel could not be read
          /\ job' = [job EXCEPT ![d][i] = "failed"]
          /\ UNCHANGED outbox
       \/ /\ AlertFault                   \* the renewal itself failed: sent anyway
          /\ job' = [job EXCEPT ![d][i] = "sending"]
          /\ UNCHANGED outbox
    /\ UNCHANGED <<channel, rules, producer>>

\* The transport resolves the name once more and dials only a public address.
pinnedDialContext(dialled) == dialled = "public"

\* Anything but a 2xx is an error, a refused connection too.
post(dialled, accepted) == pinnedDialContext(dialled) /\ accepted

\* Slack and webhook look at the destination again before they post.
checkDestination(answer) == ValidateAlertDestination(answer)

sendSlack(answer, dialled, accepted) == checkDestination(answer) /\ post(dialled, accepted)

sendWebhook(answer, dialled, accepted) == checkDestination(answer) /\ post(dialled, accepted)

\* Telegram's destination is fixed.
sendTelegram(accepted) == post("public", accepted)

\* The SMTP conversation, from the dial to QUIT, within emailSendTimeout.
sendMailTimeout(accepted) == accepted

sendEmail(answer, accepted) == ValidateEmailDestination(answer) /\ sendMailTimeout(accepted)

\* Whether a send succeeds.
SendOK(c, answer, dialled, accepted) ==
    CASE Kind[c] = "telegram" -> sendTelegram(accepted)
      [] Kind[c] = "email"    -> sendEmail(answer, accepted)
      [] Kind[c] = "slack"    -> sendSlack(answer, dialled, accepted)
      [] Kind[c] = "webhook"  -> sendWebhook(answer, dialled, accepted)

\* One delivery, over within deliverySendTimeout.
Send(d, i) ==
    /\ job[d][i] = "sending"
    /\ \E answer, dialled \in Answers, accepted \in BOOLEAN :
         job' = [job EXCEPT ![d][i] = IF SendOK(outbox[i].channel, answer, dialled, accepted)
                                      THEN "sent" ELSE "failed"]
    /\ UNCHANGED <<channel, rules, outbox, producer, alertFaults>>

\* The row after a recorded result: sent, or backed off, or given up.
AfterResult(row, ok) ==
    IF ok THEN [row EXCEPT !.status = "sent"]
    ELSE [row EXCEPT !.attempts = @ + 1,
                     !.status = IF row.attempts + 1 >= MaxAttempts THEN "failed" ELSE "pending"]

\* Mutant: whoever reports last decides.
ResultOfAnyone(d, i) ==
    /\ job[d][i] \in {"sent", "failed"}
    /\ job' = [job EXCEPT ![d][i] = "none"]
    /\ outbox' = [outbox EXCEPT ![i] = AfterResult(@, job[d][i] = "sent")]
    /\ UNCHANGED <<channel, rules, producer, alertFaults>>

\* Only a row that is `sending' takes a result.
SetAlertDeliveryResult(d, i) ==
    /\ job[d][i] \in {"sent", "failed"}
    /\ job' = [job EXCEPT ![d][i] = "none"]
    /\ outbox' = IF outbox[i].status = "sending"
                 THEN [outbox EXCEPT ![i] = AfterResult(@, job[d][i] = "sent")]
                 ELSE outbox
    /\ UNCHANGED <<channel, rules, producer, alertFaults>>

\* The result cannot be recorded; the row stays `sending'.
RecordFails(d, i) ==
    /\ job[d][i] \in {"sent", "failed"}
    /\ AlertFault
    /\ job' = [job EXCEPT ![d][i] = "none"]
    /\ UNCHANGED <<channel, rules, outbox, producer>>

DispatcherDies(d) ==
    /\ job[d] # NoJob
    /\ AlertFault
    /\ job' = [job EXCEPT ![d] = NoJob]
    /\ UNCHANGED <<channel, rules, outbox, producer>>

\* next_attempt_at passes: the end of a back-off or of a lease.  A send is over
\* within deliverySendTimeout (20 s) of its renewal and the lease is five
\* minutes, so no lease ends during a send; it ends under a queued row only
\* when the batch in front of it stalls, which counts as a fault.
NextAttemptDue(i) ==
    /\ i \in DOMAIN outbox /\ ~outbox[i].due
    /\ outbox[i].status \in {"pending", "sending"}
    /\ \A d \in Dispatchers : job[d][i] \notin InSend
    /\ IF \E d \in Dispatchers : job[d][i] = "queued" THEN AlertFault ELSE UNCHANGED alertFaults
    /\ outbox' = [outbox EXCEPT ![i].due = TRUE]
    /\ UNCHANGED <<channel, rules, producer, job>>

-----------------------------------------------------------------------------
\* A dispatcher's ticker and workers.  A batch is finite and the next one waits
\* for it, so it is enough that some step of the dispatcher is taken.
Dispatch(d) ==
    \/ Drain(d)
    \/ \E i \in DOMAIN outbox : deliver(d, i) \/ Send(d, i) \/ SetAlertDeliveryResult(d, i)

TimePasses == \E i \in RowIds : NextAttemptDue(i)

AlertsNext ==
    \/ \E c \in Channels : \/ CreateAlertChannel(c)
                           \/ DeleteAlertChannel(c)
                           \/ \E ev \in SUBSET {Event[k] : k \in Keys} : SetAlertRules(c, ev)
    \/ \E p \in Producers : \/ \E keys \in KeySeqs : BeginProducer(p, keys)
                            \/ enqueueAlertTx(p)
                            \/ CommitProducer(p)
                            \/ RollbackProducer(p)
    \/ \E d \in Dispatchers : \/ Dispatch(d)
                              \/ DispatcherDies(d)
                              \/ \E i \in DOMAIN outbox : RecordFails(d, i)
    \/ TimePasses \/ \E i \in RowIds : WindowPasses(i)

\* The dispatchers go on, and time does.
AlertsFairness ==
    /\ \A d \in Dispatchers : WF_alertsVars(Dispatch(d))
    /\ WF_alertsVars(TimePasses)

AlertsSpec == AlertsInit /\ [][AlertsNext]_alertsVars /\ AlertsFairness

-----------------------------------------------------------------------------
(* Properties.                                                               *)

\* enqueueAlertTx: of one "once ever" alert a channel never has two rows, and
\* of one with a cool-down never two within it, however many transactions
\* enqueue it at once.
OneRowPerAlert ==
    \A i, j \in DOMAIN outbox :
       (/\ i < j /\ outbox[i].status # "deleted"
        /\ outbox[i].channel = outbox[j].channel /\ outbox[i].key = outbox[j].key)
       => outbox[i].key \in Windowed /\ ~outbox[i].recent

\* DueAlertDeliveries, RenewAlertDeliveryLease: as long as nothing fails, two
\* dispatchers that drain the same outbox never send one row at the same time,
\* and none sends a row whose delivery is on record.
NoDoubleSend ==
    alertFaults = 0 =>
       \A i \in DOMAIN outbox : \A d \in Dispatchers : job[d][i] \in InSend =>
          /\ outbox[i].status # "sent"
          /\ \A e \in Dispatchers \ {d} : job[e][i] \notin InSend

\* "a dispatcher crash loses nothing": every row is sent or given up in the
\* end, or its channel deleted.
AlertsSettle ==
    \A i \in RowIds :
       (i \in DOMAIN outbox)
       ~> (i \in DOMAIN outbox /\ outbox[i].status \in {"sent", "failed", "deleted"})

=============================================================================
