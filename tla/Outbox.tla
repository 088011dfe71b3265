------------------------------- MODULE Outbox -------------------------------
(***************************************************************************)
(* What an outbox promises to those who leave letters in it, without       *)
(* producers, dispatchers, leases or crashes.  A letter waits until it is  *)
(* delivered or given up, and is only counted as delivered when its        *)
(* destination has accepted it; a recorded failure is one try less, and it *)
(* is given up with the last one.  How it ended never changes, but for the *)
(* address being removed.                                                  *)
(***************************************************************************)
EXTENDS Integers

CONSTANTS
    Slots,      \* places for letters
    Addresses,  \* where letters go
    Subjects,   \* what they are about
    Tries       \* how often delivery is tried

VARIABLES
    box,    \* slot -> letter, for the slots in use
    heard   \* letters accepted of which no record has been made yet

outboxVars == <<box, heard>>

Letter == [to : Addresses, about : Subjects, tries : 0 .. Tries,
           state : {"waiting", "sent", "failed", "deleted"}]

OutboxInit == box = [s \in {} |-> s] /\ heard = {}

\* Some letters are left, all at once.
Post ==
    /\ \E new \in SUBSET (Slots \ DOMAIN box) :
          /\ box' \in [DOMAIN box \cup new -> Letter]
          /\ \A s \in DOMAIN box : box'[s] = box[s]
          /\ \A s \in new : box'[s].state = "waiting" /\ box'[s].tries = 0
    /\ UNCHANGED heard

Accept(s) == heard' = heard \cup {s} /\ UNCHANGED box

Deliver(s) ==
    /\ s \in heard /\ box[s].state = "waiting"
    /\ box' = [box EXCEPT ![s] = [@ EXCEPT !.state = "sent"]]
    /\ heard' \in {heard, heard \ {s}}

Miss(s) ==
    /\ box[s].state = "waiting"
    /\ box' = [box EXCEPT ![s] = [@ EXCEPT !.tries = box[s].tries + 1,
                                           !.state = IF box[s].tries + 1 >= Tries
                                                     THEN "failed" ELSE "waiting"]]
    /\ UNCHANGED heard

\* Whoever heard is gone before it could be recorded, or it was recorded before.
Forget == heard' \in SUBSET heard /\ UNCHANGED box

Remove(a) ==
    /\ box' = [s \in DOMAIN box |->
                 IF box[s].to = a THEN [box[s] EXCEPT !.state = "deleted"] ELSE box[s]]
    /\ UNCHANGED heard

OutboxNext ==
    \/ Post \/ Forget
    \/ \E s \in DOMAIN box : Accept(s) \/ Deliver(s) \/ Miss(s)
    \/ \E a \in Addresses : Remove(a)

OutboxSpec == OutboxInit /\ [][OutboxNext]_outboxVars
=============================================================================
