-------------------------- MODULE AlertsRefinement --------------------------
(* Alerts implements Outbox.                                               *)
EXTENDS Alerts

\* What a row is from outside: pending and sending are both waiting.
Waiting == {"pending", "sending"}
LetterOf(row) ==
    [to |-> row.channel, about |-> row.key, tries |-> row.attempts,
     state |-> IF row.status \in Waiting THEN "waiting" ELSE row.status]

Letters == [i \in DOMAIN outbox |-> LetterOf(outbox[i])]

\* The sends that were accepted and have not been recorded yet.
Accepted == {i \in RowIds : \E d \in Dispatchers : job[d][i] = "sent"}

Promise == INSTANCE Outbox WITH
    Slots     <- RowIds,
    Addresses <- Channels,
    Subjects  <- Keys,
    Tries     <- MaxAttempts,
    box       <- Letters,
    heard     <- Accepted

\* Claim, lease, renewal and the guard of SetAlertDeliveryResult together make
\* an outbox: a row is sent only after its destination accepted it, a recorded
\* failure takes one try and the last one allowed gives it up, and a sent or
\* failed row stays that, although dispatchers stall, die, work on the same row
\* and report late, and channels are deleted under them.
AlertsAreAnOutbox == Promise!OutboxSpec
=============================================================================
