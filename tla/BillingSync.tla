----------------------------- MODULE BillingSync -----------------------------
(***************************************************************************)
(* cp/internal/billingsync: the passes that push drifted quantities, the     *)
(* backoff of a subscription that Paddle keeps refusing, and the verdict     *)
(* that nothing works for anyone.  The organisations that drift, and those   *)
(* that Paddle refuses, change from outside; a restart forgets the backoff.  *)
(***************************************************************************)
EXTENDS Integers, FiniteSets, FiniteSetsExt

CONSTANTS
    Tenants,
    MinSystemicPopulation, SystemicPasses, MaxCooldownPasses,  \* the constants of the package
    MaxFailures   \* bound: where the count of failures stops

ASSUME SyncAssumption ==
    /\ MinSystemicPopulation \in Nat \ {0} /\ SystemicPasses \in Nat \ {0}
    /\ MaxCooldownPasses \in Nat \ {0} /\ MaxFailures \in Nat \ {0}

VARIABLES
    drifted,   \* subscriptions that need a push
    refused,   \* subscriptions that Paddle refuses
    backoff,   \* Syncer.orgs: failures and cooldown of each, zero when absent
    streak,    \* systemicStreak
    alarm,     \* the last pass returned the systemic error
    pushed     \* organisations the last pass pushed

syncVars == <<drifted, refused, backoff, streak, alarm, pushed>>

NoBackoff == [failures |-> 0, cooldown |-> 0]

SyncInit ==
    /\ drifted = {} /\ refused = {} /\ backoff = [o \in Tenants |-> NoBackoff]
    /\ streak = 0 /\ alarm = FALSE /\ pushed = {}

SyncTypeOK ==
    /\ drifted \subseteq Tenants /\ refused \subseteq Tenants /\ pushed \subseteq Tenants
    /\ backoff \in [Tenants -> [failures : 0..MaxFailures, cooldown : 0..MaxCooldownPasses]]
    /\ streak \in 0..SystemicPasses /\ alarm \in BOOLEAN

\* The fleet of an organisation moves, or its echo arrives.
Drifts(o) ==
    /\ drifted' = IF o \in drifted THEN drifted \ {o} ELSE drifted \cup {o}
    /\ UNCHANGED <<refused, backoff, streak, alarm, pushed>>

\* Paddle starts to refuse an organisation, or stops.
Refuses(o) ==
    /\ refused' = IF o \in refused THEN refused \ {o} ELSE refused \cup {o}
    /\ UNCHANGED <<drifted, backoff, streak, alarm, pushed>>

cooldownAfter(failures) ==
    IF failures <= 1 THEN 0 ELSE Min({2^(failures - 2), MaxCooldownPasses})

\* Mutant: the backoff is armed again for every organisation that has a history.
ArmsAll(failedNow, after) == {o \in Tenants : after[o].failures > 1}

\* Only those that failed in this pass are backed off.
BackedOff(failedNow, after) == failedNow

\* The last part of a pass: an organisation that no longer drifts is forgotten,
\* and backoff is armed unless the pass looks systemic.
Rearmed(failedNow, unanimous, after) ==
    [o \in Tenants |->
        IF o \notin drifted THEN NoBackoff
        ELSE IF ~unanimous /\ o \in BackedOff(failedNow, after)
             THEN [after[o] EXCEPT !.cooldown = cooldownAfter(after[o].failures)]
             ELSE after[o]]

\* One pass.
Sync ==
    LET deferred == {o \in drifted : backoff[o].cooldown > 0}
        tried == drifted \ deferred
        failedNow == tried \cap refused
        unanimous == failedNow # {} /\ failedNow = tried /\ Cardinality(drifted) >= MinSystemicPopulation
        after == [o \in Tenants |->
                    IF o \in deferred THEN [backoff[o] EXCEPT !.cooldown = @ - 1]
                    ELSE IF o \in failedNow
                    THEN [backoff[o] EXCEPT !.failures = Min({@ + 1, MaxFailures})]
                    ELSE NoBackoff]
    IN  /\ pushed' = tried \ failedNow
        /\ backoff' = Rearmed(failedNow, unanimous, after)
        /\ streak' = IF unanimous THEN Min({streak + 1, SystemicPasses}) ELSE 0
        /\ alarm' = (streak' >= SystemicPasses)
        /\ drifted' \in {drifted, drifted \ pushed'}
        /\ UNCHANGED refused

RestartCP ==
    /\ backoff' = [o \in Tenants |-> NoBackoff] /\ streak' = 0 /\ alarm' = FALSE /\ pushed' = {}
    /\ UNCHANGED <<drifted, refused>>

SyncNext ==
    \/ \E o \in Tenants : Drifts(o) \/ Refuses(o)
    \/ Sync \/ RestartCP

\* The sweep ticks every ten minutes.
SyncFairness == WF_syncVars(Sync)

SyncSpec == SyncInit /\ [][SyncNext]_syncVars /\ SyncFairness

-----------------------------------------------------------------------------
\* Syncer: a subscription that keeps drifting and that Paddle accepts again is
\* pushed, whatever its history and whatever the others do.
BackoffEnds ==
    \A o \in Tenants : []<>(o \in pushed) \/ []<>(o \notin drifted) \/ []<>(o \in refused)

=============================================================================
