---------------------------- MODULE ServicesProofs ----------------------------
(***************************************************************************)
(* Proofs about the services of the control plane that work for one tenant *)
(* and share no state: webhook deliveries of the git provider (GitHooks),  *)
(* alerts (Alerts), Paddle's events (Billing), object storage (Buckets)    *)
(* and key custody (Secrets).  All are handled by several transactions at  *)
(* once; what comes from outside may come twice, late or out of order.     *)
(***************************************************************************)
EXTENDS AlertsRefinement, Billing, GitHooks, Buckets, Secrets,
        FiniteSetTheorems, SequenceTheorems, NaturalsInduction, TLAPS

(***************************************************************************)
(* Webhook deliveries.  A delivery that is not on record has queued        *)
(* nothing, one that is on record was answered with success or is awaited  *)
(* again: the record and the effect are of one transaction.                *)
(***************************************************************************)

Delivery == [event : {"push", "opened", "synchronize", "closed"}, sha : Nat, inst : BOOLEAN,
             answer : {"awaited", "200", "500"}, to : {"nobody", "us", "rival", "ambiguous"},
             deploys : Nat]

HooksShape == hooks \in Seq(Delivery) /\ seen \subseteq DOMAIN hooks

EffectIsRecorded ==
    \A i \in DOMAIN hooks :
        /\ i \notin seen => hooks[i].deploys = 0
        /\ i \in seen => hooks[i].deploys <= 1 /\ hooks[i].answer # "500"

RepoShape == repo \in [made : Nat, tip : Nat, pr : {"open", "closed"}] /\ repo.tip <= repo.made

PreviewShape ==
    /\ conn \in [id : 0..3, inst : BOOLEAN, previews : BOOLEAN, server : {"none", "fit", "unfit"}]
    /\ prEnv \in [id : 0..3, conn : 0..3, app : BOOLEAN]
    /\ prRow \in 0..3

HooksInv == HooksShape /\ EffectIsRecorded /\ RepoShape

PreviewInv == PreviewShape /\ PreviewTracked

\* An environment or a connection made anew has an id that is not in use.
LEMMA OtherIsAnother == \A x \in 0..3 : OtherThan({x}) \in 1..3 /\ OtherThan({x}) # x
  <1> SUFFICES ASSUME NEW x \in 0..3 PROVE \E i \in 1..3 : i \notin {x}
    BY DEF OtherThan
  <1>1. CASE x = 1
    <2> 2 \in 1..3 /\ 2 \notin {x} BY <1>1
    <2> QED OBVIOUS
  <1>2. CASE x # 1
    <2> 1 \in 1..3 /\ 1 \notin {x} BY <1>2
    <2> QED OBVIOUS
  <1> QED BY <1>1, <1>2

\* A delivery changes and keeps its place: what is known of the others stays.
LEMMA OneDelivery ==
    ASSUME HooksInv, NEW i \in DOMAIN hooks, NEW h \in Delivery,
           hooks' = [hooks EXCEPT ![i] = h], seen' \subseteq DOMAIN hooks,
           seen \ {i} = seen' \ {i}, repo' = repo,
           i \notin seen' => h.deploys = 0,
           i \in seen' => h.deploys <= 1 /\ h.answer # "500"
    PROVE  HooksInv'
  <1>1. hooks' \in Seq(Delivery) /\ DOMAIN hooks' = DOMAIN hooks
    BY DEF HooksInv, HooksShape
  <1>2. EffectIsRecorded' BY <1>1 DEF HooksInv, EffectIsRecorded, HooksShape
  <1> QED BY <1>1, <1>2 DEF HooksInv, HooksShape, RepoShape

\* SendHook: a new delivery is awaited and has no effect yet.
LEMMA NewDelivery ==
    ASSUME HooksInv, NEW ev \in {"push", "opened", "synchronize", "closed"}, NEW c \in Nat,
           SendHook(ev, c), seen' = seen, RepoShape'
    PROVE  HooksInv'
  <1>1. PICK inst \in BOOLEAN :
          hooks' = Append(hooks, [event |-> ev, sha |-> c, inst |-> inst,
                                  answer |-> "awaited", to |-> "nobody", deploys |-> 0])
    BY DEF SendHook
  <1>2. PICK h : h = [event |-> ev, sha |-> c, inst |-> inst,
                      answer |-> "awaited", to |-> "nobody", deploys |-> 0] OBVIOUS
  <1>7. h \in Delivery /\ h.deploys = 0 /\ h.answer = "awaited" BY <1>2 DEF Delivery
  <1>3. hooks' = Append(hooks, h) BY <1>1, <1>2
  <1>4. hooks' \in Seq(Delivery) /\ seen \subseteq DOMAIN hooks' BY <1>3, <1>7 DEF HooksInv, HooksShape
  <1>5. \A i \in DOMAIN hooks' : \/ i \in DOMAIN hooks /\ hooks'[i] = hooks[i]
                                 \/ i \notin DOMAIN hooks /\ hooks'[i] = h
    BY <1>3, <1>7 DEF HooksInv, HooksShape
  <1>6. EffectIsRecorded'
    BY <1>4, <1>5, <1>7 DEF HooksInv, EffectIsRecorded, HooksShape
  <1> QED BY <1>4, <1>6 DEF HooksInv, HooksShape

\* The provider's steps: commits, pushes, pull requests, redeliveries.
LEMMA ProviderKeepsRecords ==
    ASSUME HooksInv, Author \/ PushBranch \/ PullRequest \/ Redeliver PROVE HooksInv'
  <1>1. CASE Author
    BY <1>1 DEF Author, HooksInv, HooksShape, EffectIsRecorded, RepoShape
  <1>2. CASE PushBranch
    <2>1. PICK c \in repo.tip + 1 .. repo.made : repo' = [repo EXCEPT !.tip = c] /\ SendHook("push", c)
      BY <1>2 DEF PushBranch
    <2>2. c \in Nat /\ RepoShape' BY <2>1 DEF HooksInv, RepoShape
    <2> QED BY <1>2, <2>1, <2>2, NewDelivery DEF PushBranch
  <1>3. CASE PullRequest
    <2>1. RepoShape' /\ seen' = seen BY <1>3 DEF PullRequest, HooksInv, RepoShape
    <2>2. \E ev \in {"opened", "synchronize", "closed"} : SendHook(ev, 0) BY <1>3 DEF PullRequest
    <2> QED BY <2>1, <2>2, NewDelivery
  <1>4. CASE Redeliver
    <2>1. PICK i \in DOMAIN hooks : hooks' = [hooks EXCEPT ![i].answer = "awaited"]
      BY <1>4 DEF Redeliver
    <2>2. hooks[i] \in Delivery BY DEF HooksInv, HooksShape
    <2>3. PICK h : h = [hooks[i] EXCEPT !.answer = "awaited"] OBVIOUS
    <2>4. h \in Delivery /\ h.deploys = hooks[i].deploys /\ h.answer = "awaited"
      BY <2>2, <2>3 DEF Delivery
    <2>5. hooks' = [hooks EXCEPT ![i] = h] BY <2>1, <2>3
    <2> QED BY <1>4, <2>4, <2>5, OneDelivery
            DEF Redeliver, HooksInv, HooksShape, EffectIsRecorded
  <1> QED BY <1>1, <1>2, <1>3, <1>4

\* A failed transaction leaves no record: the delivery can come again.
LEMMA FailureKeepsRecords ==
    ASSUME HooksInv, NEW i \in DOMAIN hooks, WebhookFails(i) PROVE HooksInv'
  <1>1. hooks[i] \in Delivery /\ i \notin seen BY DEF HooksInv, HooksShape, WebhookFails
  <1>2. PICK h : h = [hooks[i] EXCEPT !.answer = "500"] OBVIOUS
  <1>3. h \in Delivery /\ h.deploys = hooks[i].deploys BY <1>1, <1>2 DEF Delivery
  <1>4. hooks' = [hooks EXCEPT ![i] = h] BY <1>2 DEF WebhookFails
  <1>5. h.deploys = 0 BY <1>1, <1>3 DEF HooksInv, EffectIsRecorded
  <1> QED BY <1>1, <1>3, <1>4, <1>5, OneDelivery
          DEF WebhookFails, RollBack, HooksInv, HooksShape

\* A committed one is recorded with what it queued, and queues once.
LEMMA HandlingKeepsRecords ==
    ASSUME HooksInv, NEW i \in DOMAIN hooks, HandleGitWebhook(i) PROVE HooksInv'
  <1>1. hooks[i] \in Delivery BY DEF HooksInv, HooksShape
  <1>2. seen' = seen \cup {i} /\ repo' = repo BY DEF HandleGitWebhook
  <1>3. \E h \in Delivery : /\ hooks' = [hooks EXCEPT ![i] = h]
                            /\ h.deploys <= 1 /\ h.answer = "200"
    <2>1. CASE i \in seen /\ hooks' = [hooks EXCEPT ![i].answer = "200"]
      <3>1. PICK h : h = [hooks[i] EXCEPT !.answer = "200"] OBVIOUS
      <3>2. h \in Delivery /\ h.deploys = hooks[i].deploys /\ h.answer = "200"
        BY <1>1, <3>1 DEF Delivery
      <3>3. hooks' = [hooks EXCEPT ![i] = h] BY <2>1, <3>1
      <3>4. hooks[i].deploys <= 1 BY <2>1 DEF HooksInv, EffectIsRecorded
      <3> QED BY <3>2, <3>3, <3>4
    <2>2. ASSUME i \notin seen, NEW to \in {"nobody", "us", "rival", "ambiguous"}, NEW n \in 0..1,
                 hooks' = [hooks EXCEPT ![i].answer = "200", ![i].to = to, ![i].deploys = @ + n]
          PROVE  \E h \in Delivery : /\ hooks' = [hooks EXCEPT ![i] = h]
                                     /\ h.deploys <= 1 /\ h.answer = "200"
      <3>1. hooks[i].deploys = 0 BY <2>2 DEF HooksInv, EffectIsRecorded
      <3>2. PICK h : h = [hooks[i] EXCEPT !.answer = "200", !.to = to, !.deploys = n] OBVIOUS
      <3>3. h.deploys = n /\ h.answer = "200" BY <1>1, <3>2 DEF Delivery
      <3>4. n \in Nat /\ n <= 1 OBVIOUS
      <3>5. h \in Delivery BY <1>1, <3>2, <3>4 DEF Delivery
      <3>6. hooks' = [hooks EXCEPT ![i] = h]
        <4>1. 0 + n = n OBVIOUS
        <4> QED BY <1>1, <2>2, <3>1, <3>2, <4>1 DEF HooksInv, HooksShape
      <3> QED BY <3>3, <3>4, <3>5, <3>6
    <2>3. CASE i \notin seen /\ gitConnectionForDelivery(hooks[i].inst) # "us"
      <3>1. PICK to : to = gitConnectionForDelivery(hooks[i].inst) OBVIOUS
      <3>2. to \in {"nobody", "us", "rival", "ambiguous"} BY <3>1 DEF gitConnectionForDelivery
      <3>3. hooks' = [hooks EXCEPT ![i].answer = "200", ![i].to = to]
        BY <2>3, <3>1 DEF HandleGitWebhook
      <3>4. hooks' = [hooks EXCEPT ![i].answer = "200", ![i].to = to, ![i].deploys = @ + 0]
        <4>1. hooks[i].deploys = hooks[i].deploys + 0 BY <1>1 DEF Delivery
        <4> QED BY <1>1, <3>3, <4>1 DEF HooksInv, HooksShape, Delivery
      <3>5. 0 \in 0..1 OBVIOUS
      <3> QED BY <2>2, <2>3, <3>2, <3>4, <3>5
    <2>4. CASE i \notin seen /\ gitConnectionForDelivery(hooks[i].inst) = "us"
      <3>1. PICK n \in 0..1 :
              hooks' = [hooks EXCEPT ![i].answer = "200", ![i].to = "us", ![i].deploys = @ + n]
        BY <2>4 DEF HandleGitWebhook
      <3> QED BY <2>2, <2>4, <3>1
    <2> QED BY <2>1, <2>3, <2>4 DEF HandleGitWebhook
  <1>4. PICK h \in Delivery : /\ hooks' = [hooks EXCEPT ![i] = h]
                              /\ h.deploys <= 1 /\ h.answer = "200"
    BY <1>3
  <1> QED BY <1>2, <1>4, OneDelivery DEF HooksInv, HooksShape

\* What users do, and what the drain does, touches no delivery.
UserSteps ==
    \/ ClaimInstallationWithMeta \/ RivalActs \/ GitConnect \/ EnsureGitConnection
    \/ SetConnectionInstallation \/ DeleteOrgInstallation \/ DeleteGitConnection
    \/ SetConnectionPreviews \/ PreviewServerGoes
    \/ SetBranchMap \/ BranchHead \/ EnqueueBranchDeploy \/ RecordBranchHead
    \/ DeleteBranchMap \/ PromoteBranch \/ DrainDeployRequests
    \/ DeleteApp \/ DeletePrEnvironment \/ DeletePrResource \/ CreateEnvironment

LEMMA UsersKeepRecords == ASSUME HooksInv, UserSteps PROVE HooksInv'
  <1>1. hooks' = hooks /\ seen' = seen /\ repo' = repo
    BY DEF UserSteps, ClaimInstallationWithMeta, RivalActs, GitConnect, EnsureGitConnection,
           CreateGitConnection, SetConnectionInstallation, DeleteOrgInstallation,
           DeleteGitConnection, SetConnectionPreviews, PreviewServerGoes, SetBranchMap, BranchHead,
           EnqueueBranchDeploy, RecordBranchHead, DeleteBranchMap, PromoteBranch,
           DrainDeployRequests, DeleteApp, DeletePrEnvironment, DeletePrResource, CreateEnvironment
  <1> QED BY <1>1 DEF HooksInv, HooksShape, EffectIsRecorded, RepoShape

\* HandleGitWebhook: however often a delivery comes, in whatever order, and
\* whatever fails or is edited in between, it queues its deployment at most
\* once, and one that was only answered with errors is not on record.
THEOREM HookOnceCorrect == GitHooksSpec => []HookOnce
  <1>1. GitHooksInit => HooksInv
    BY DEF GitHooksInit, HooksInv, HooksShape, EffectIsRecorded, RepoShape
  <1>2. HooksInv /\ [GitHooksNext]_gitHookVars => HooksInv'
    <2> SUFFICES ASSUME HooksInv, [GitHooksNext]_gitHookVars PROVE HooksInv' OBVIOUS
    <2>1. CASE UNCHANGED gitHookVars
      BY <2>1 DEF gitHookVars, HooksInv, HooksShape, EffectIsRecorded, RepoShape
    <2>2. CASE GitHooksNext
      BY <2>2, ProviderKeepsRecords, FailureKeepsRecords, HandlingKeepsRecords, UsersKeepRecords
         DEF GitHooksNext, UserSteps
    <2> QED BY <2>1, <2>2
  <1>3. HooksInv => HookOnce
    BY DEF HooksInv, HooksShape, Delivery, EffectIsRecorded, HookOnce
  <1> QED BY <1>1, <1>2, <1>3, PTL DEF GitHooksSpec

(***************************************************************************)
(* Previews.  The environment of a pull request and the row that names it  *)
(* come and go together, or the connection they belong to is gone.         *)
(***************************************************************************)

\* Connecting: a new connection is not the one an environment left behind by
\* an earlier connection was made for.
LEMMA ConnectingKeepsTracked ==
    ASSUME PreviewInv,
           GitConnect \/ EnsureGitConnection \/ SetConnectionInstallation \/ DeleteOrgInstallation
           \/ DeleteGitConnection \/ SetConnectionPreviews \/ PreviewServerGoes
    PROVE  PreviewInv'
  <1> USE DEF PreviewInv, PreviewShape, PreviewTracked, previewVars, NoConn
  <1>1. ASSUME NEW inst \in BOOLEAN, CreateGitConnection(inst) PROVE PreviewInv'
    <2>1. PICK o : o = OtherThan({prEnv.conn}) OBVIOUS
    <2>2. o \in 0..3 /\ o # prEnv.conn BY <2>1, OtherIsAnother
    <2>3. conn' = [id |-> o, inst |-> inst, previews |-> FALSE, server |-> "none"]
      BY <1>1, <2>1 DEF CreateGitConnection
    <2>4. prEnv' = prEnv /\ prRow' = prRow BY <1>1 DEF CreateGitConnection
    <2>5. PreviewShape' BY <2>2, <2>3, <2>4
    <2> QED BY <2>2, <2>3, <2>4, <2>5
  <1>2. CASE GitConnect BY <1>1, <1>2 DEF GitConnect
  <1>3. CASE EnsureGitConnection BY <1>1, <1>3 DEF EnsureGitConnection
  <1>4. CASE SetConnectionInstallation BY <1>4 DEF SetConnectionInstallation
  <1>5. CASE DeleteOrgInstallation BY <1>5 DEF DeleteOrgInstallation
  <1>6. CASE DeleteGitConnection BY <1>6 DEF DeleteGitConnection
  <1>7. CASE SetConnectionPreviews BY <1>7 DEF SetConnectionPreviews
  <1>8. CASE PreviewServerGoes BY <1>8 DEF PreviewServerGoes
  <1> QED BY <1>2, <1>3, <1>4, <1>5, <1>6, <1>7, <1>8

\* Deleting and taking environments in the dashboard.
LEMMA DashboardKeepsTracked ==
    ASSUME PreviewInv, DeletePrEnvironment \/ DeletePrResource \/ CreateEnvironment
    PROVE  PreviewInv'
  <1> USE DEF PreviewInv, PreviewShape, PreviewTracked, NoEnv
  <1>1. CASE DeletePrEnvironment BY <1>1 DEF DeletePrEnvironment, DropEnv
  <1>2. CASE DeletePrResource BY <1>2 DEF DeletePrResource
  <1>3. CASE CreateEnvironment
    <2>1. OtherThan({prRow}) \in 1..3 BY OtherIsAnother
    <2>2. prEnv' = [id |-> OtherThan({prRow}), conn |-> 0, app |-> FALSE] /\ prRow' = prRow /\ conn' = conn
      BY <1>3 DEF CreateEnvironment
    <2> QED BY <2>1, <2>2
  <1> QED BY <1>1, <1>2, <1>3

\* A delivery of the pull request makes both, or removes both.
LEMMA DeliveryKeepsTracked ==
    ASSUME PreviewInv, NEW i \in DOMAIN hooks, HandleGitWebhook(i) PROVE PreviewInv'
  <1> USE DEF PreviewInv, PreviewShape, PreviewTracked, NoEnv, previewVars
  <1>0. conn' = conn BY DEF HandleGitWebhook
  <1>1. CASE UNCHANGED <<prEnv, prRow>> BY <1>0, <1>1
  <1>2. CASE ensurePreviewTx
    <2>1. CASE Standing BY <1>1, <1>2, <2>1 DEF ensurePreviewTx
    <2>2. CASE ~Standing
      <3>1. PICK o : o = OtherThan({prRow}) OBVIOUS
      <3>2. o \in 0..3 BY <3>1, OtherIsAnother
      <3>3. prEnv' = [id |-> o, conn |-> conn.id, app |-> TRUE] /\ prRow' = prEnv'.id
        BY <1>2, <2>2, <3>1 DEF ensurePreviewTx
      <3>4. prRow' = o BY <3>3
      <3> QED BY <1>0, <3>2, <3>3, <3>4
    <2> QED BY <2>1, <2>2
  <1>3. CASE teardownPreviewTx
    <2>1. CASE prRow # 0 /\ prRow = prEnv.id
      <3>1. prRow' = 0 /\ prEnv' = [id |-> 0, conn |-> 0, app |-> FALSE]
        BY <1>3, <2>1 DEF teardownPreviewTx, DropEnv
      <3> QED BY <1>0, <3>1
    <2>2. CASE ~(prRow # 0 /\ prRow = prEnv.id)
      BY <1>0, <1>3, <2>2 DEF teardownPreviewTx
    <2> QED BY <2>1, <2>2
  <1> QED BY <1>1, <1>2, <1>3 DEF HandleGitWebhook, Handle

\* A preview environment is tracked by its row as long as its connection
\* stands (ensurePreviewTx, teardownPreviewTx), whatever users delete of it
\* and in whatever order deliveries come: closing the request finds it.
THEOREM PreviewTrackedCorrect == GitHooksSpec => []PreviewTracked
  <1>1. GitHooksInit => PreviewInv
    BY DEF GitHooksInit, PreviewInv, PreviewShape, PreviewTracked, NoConn, NoEnv
  <1>2. PreviewInv /\ [GitHooksNext]_gitHookVars => PreviewInv'
    <2> SUFFICES ASSUME PreviewInv, [GitHooksNext]_gitHookVars PROVE PreviewInv' OBVIOUS
    <2>1. CASE UNCHANGED <<conn, prEnv, prRow>>
      BY <2>1 DEF PreviewInv, PreviewShape, PreviewTracked
    <2>2. CASE UNCHANGED gitHookVars BY <2>1, <2>2 DEF gitHookVars
    <2>3. CASE Author \/ PushBranch \/ PullRequest \/ Redeliver
      BY <2>1, <2>3 DEF Author, PushBranch, PullRequest, Redeliver, previewVars
    <2>4. CASE \/ ClaimInstallationWithMeta \/ RivalActs \/ SetBranchMap \/ BranchHead
               \/ EnqueueBranchDeploy \/ RecordBranchHead \/ DeleteBranchMap \/ PromoteBranch
               \/ DrainDeployRequests \/ DeleteApp
      BY <2>1, <2>4 DEF ClaimInstallationWithMeta, RivalActs, SetBranchMap, BranchHead,
               EnqueueBranchDeploy, RecordBranchHead, DeleteBranchMap, PromoteBranch,
               DrainDeployRequests, DeleteApp, previewVars
    <2>5. CASE \E i \in DOMAIN hooks : WebhookFails(i)
      BY <2>1, <2>5 DEF WebhookFails, previewVars
    <2> QED BY <2>2, <2>3, <2>4, <2>5, ConnectingKeepsTracked, DashboardKeepsTracked,
               DeliveryKeepsTracked DEF GitHooksNext
  <1>3. PreviewInv => PreviewTracked BY DEF PreviewInv
  <1> QED BY <1>1, <1>2, <1>3, PTL DEF GitHooksSpec

(***************************************************************************)
(* The alert outbox.                                                       *)
(*                                                                         *)
(* Once per alert: a transaction holds the lock of every key it has rows   *)
(* for, no two hold the same one, and what it has inserted is not queued   *)
(* in the rows that are committed.  One send at a time: as long as nothing *)
(* fails, a row that some dispatcher works on is leased, and by it alone.  *)
(***************************************************************************)

OutboxRow == [channel : Channels, key : Keys, attempts : 0..MaxAttempts,
              status : {"pending", "sending", "sent", "failed", "deleted"},
              due : BOOLEAN, recent : BOOLEAN]

OutboxShape ==
    /\ outbox \in Seq(OutboxRow) /\ Len(outbox) <= MaxRows
    /\ \A i \in DOMAIN outbox : outbox[i].status \in {"pending", "sending"}
                               => outbox[i].attempts < MaxAttempts

ChannelsShape ==
    /\ channel \in [Channels -> {"none", "enabled", "deleted"}]
    /\ rules \subseteq {Event[k] : k \in Keys} \X Channels

ProducersShape ==
    /\ producer \in [Producers -> [open : BOOLEAN, todo : Seq(Keys \cup {"begin"}),
                                   locked : SUBSET Keys, rows : SUBSET (Channels \X Keys)]]
    /\ \A p \in Producers : IF producer[p].open THEN producer[p].todo \in Seq(Keys)
                             ELSE producer[p].locked = {} /\ producer[p].rows = {}

LocksExclude ==
    \A p, q \in Producers : p # q => producer[p].locked \cap producer[q].locked = {}

RowsAreLocked == \A p \in Producers : \A r \in producer[p].rows : r[2] \in producer[p].locked

RowsAreNew == \A p \in Producers : \A r \in producer[p].rows : ~AlreadyQueued(r[1], r[2])

OutboxInv == /\ OutboxShape /\ ProducersShape
             /\ LocksExclude /\ RowsAreLocked /\ RowsAreNew /\ OneRowPerAlert

\* What a later version of a row may be.
KeepsRow(old, new) ==
    /\ new.channel = old.channel /\ new.key = old.key
    /\ old.status = "deleted" => new.status = "deleted"
    /\ new.recent => old.recent
    /\ new.status \in {"pending", "sending"} => new.attempts < MaxAttempts

\* Rows that stay the rows they were keep the outbox as it should be.
LEMMA RowsStay ==
    ASSUME OutboxInv, producer' = producer, outbox' \in [DOMAIN outbox -> OutboxRow],
           \A i \in DOMAIN outbox : KeepsRow(outbox[i], outbox'[i])
    PROVE  OutboxInv' /\ DOMAIN outbox' = DOMAIN outbox
  <1>1. DOMAIN outbox = 1..Len(outbox) /\ Len(outbox) \in Nat /\ DOMAIN outbox' = DOMAIN outbox
    BY DEF OutboxInv, OutboxShape
  <1>2. outbox' \in Seq(OutboxRow) BY <1>1
  <1>3. Len(outbox') = Len(outbox) BY <1>1, <1>2
  <1>4. OutboxShape' BY <1>1, <1>2, <1>3 DEF OutboxInv, OutboxShape, KeepsRow
  <1>5. ASSUME NEW c, NEW k, AlreadyQueued(c, k)' PROVE AlreadyQueued(c, k)
    <2>1. PICK i \in DOMAIN outbox' : /\ outbox'[i].channel = c /\ outbox'[i].key = k
                                      /\ outbox'[i].status # "deleted"
                                      /\ k \in Windowed => outbox'[i].recent
      BY <1>5 DEF AlreadyQueued
    <2>2. i \in DOMAIN outbox /\ KeepsRow(outbox[i], outbox'[i]) BY <1>1
    <2> QED BY <2>1, <2>2 DEF AlreadyQueued, KeepsRow
  <1>6. RowsAreNew' BY <1>5 DEF OutboxInv, RowsAreNew
  <1>7. OneRowPerAlert' BY <1>1 DEF OutboxInv, OneRowPerAlert, KeepsRow
  <1> QED BY <1>1, <1>4, <1>6, <1>7 DEF OutboxInv, ProducersShape, LocksExclude, RowsAreLocked

\* enqueueAlertTx: the transaction takes the lock, then inserts what is not
\* queued yet.
LEMMA EnqueueKeepsOutbox ==
    ASSUME OutboxInv, NEW p \in Producers, enqueueAlertTx(p) PROVE OutboxInv'
  <1>1. PICK P : P = producer[p] OBVIOUS
  <1>2. PICK k : k = Head(producer[p].todo) OBVIOUS
  <1>3. PICK to : to = {c \in Channels : <<Event[k], c>> \in rules /\ ~AlreadyQueued(c, k)} OBVIOUS
  <1>4. PICK new : new = [open |-> TRUE, todo |-> Tail(P.todo), locked |-> P.locked \cup {k},
                          rows |-> P.rows \cup (to \X {k})] OBVIOUS
  <1>5. producer' = [producer EXCEPT ![p] = new] /\ KeyLock(p, k) /\ outbox' = outbox
    BY <1>1, <1>2, <1>3, <1>4 DEF enqueueAlertTx
  <1>6. P \in [open : BOOLEAN, todo : Seq(Keys \cup {"begin"}),
               locked : SUBSET Keys, rows : SUBSET (Channels \X Keys)]
    BY <1>1 DEF OutboxInv, ProducersShape
  <1>7. P.open /\ P.todo # <<>> /\ P.todo \in Seq(Keys)
    BY <1>1 DEF OutboxInv, ProducersShape, enqueueAlertTx
  <1>8. k \in Keys /\ Tail(P.todo) \in Seq(Keys) BY <1>1, <1>2, <1>7
  <1>9. to \subseteq Channels BY <1>3
  <1>10. Tail(P.todo) \in Seq(Keys \cup {"begin"}) BY <1>6, <1>7
  <1>11. new.open = TRUE /\ new.todo = Tail(P.todo) /\ new.locked = P.locked \cup {k}
         /\ new.rows = P.rows \cup (to \X {k})
    BY <1>4
  <1>12. new.rows \subseteq Channels \X Keys BY <1>6, <1>8, <1>9, <1>11
  <1>13. new \in [open : BOOLEAN, todo : Seq(Keys \cup {"begin"}),
                  locked : SUBSET Keys, rows : SUBSET (Channels \X Keys)]
    BY <1>4, <1>6, <1>8, <1>10, <1>11, <1>12
  <1>14. producer' \in [Producers -> [open : BOOLEAN, todo : Seq(Keys \cup {"begin"}),
                                     locked : SUBSET Keys, rows : SUBSET (Channels \X Keys)]]
    BY <1>5, <1>13 DEF OutboxInv, ProducersShape
  <1>15. producer'[p] = new /\ \A q \in Producers \ {p} : producer'[q] = producer[q]
    BY <1>5 DEF OutboxInv, ProducersShape
  <1>16. ProducersShape' BY <1>8, <1>11, <1>14, <1>15 DEF OutboxInv, ProducersShape
  <1>17. LocksExclude'
    <2>1. \A q \in Producers \ {p} : new.locked \cap producer[q].locked = {}
      BY <1>1, <1>5, <1>11 DEF OutboxInv, LocksExclude, KeyLock
    <2> QED BY <1>15, <2>1 DEF OutboxInv, LocksExclude
  <1>18. \A r \in to \X {k} : r[1] \in to /\ r[2] = k OBVIOUS
  <1>19. RowsAreLocked'
    <2>1. \A r \in new.rows : r[2] \in new.locked
      BY <1>1, <1>11, <1>18 DEF OutboxInv, RowsAreLocked
    <2> QED BY <1>15, <2>1 DEF OutboxInv, RowsAreLocked
  <1>20. RowsAreNew'
    <2>1. \A c, j : AlreadyQueued(c, j)' <=> AlreadyQueued(c, j) BY <1>5 DEF AlreadyQueued
    <2>2. \A r \in new.rows : ~AlreadyQueued(r[1], r[2])
      BY <1>1, <1>3, <1>11, <1>18 DEF OutboxInv, RowsAreNew
    <2> QED BY <1>15, <2>1, <2>2 DEF OutboxInv, RowsAreNew
  <1> QED BY <1>5, <1>16, <1>17, <1>19, <1>20 DEF OutboxInv, OutboxShape, OneRowPerAlert

\* A transaction that ends lets go of its keys and its rows.
LEMMA EndKeepsProducers ==
    ASSUME OutboxInv, NEW p \in Producers, producer' = [producer EXCEPT ![p] = Done]
    PROVE  /\ ProducersShape' /\ LocksExclude' /\ RowsAreLocked'
           /\ producer'[p].rows = {} /\ \A q \in Producers \ {p} : producer'[q] = producer[q]
  <1>1. Done.open = FALSE /\ Done.locked = {} /\ Done.rows = {} BY DEF Done
  <1>2. Done \in [open : BOOLEAN, todo : Seq(Keys \cup {"begin"}),
                  locked : SUBSET Keys, rows : SUBSET (Channels \X Keys)]
    BY DEF Done
  <1>3. producer' \in [Producers -> [open : BOOLEAN, todo : Seq(Keys \cup {"begin"}),
                                     locked : SUBSET Keys, rows : SUBSET (Channels \X Keys)]]
    BY <1>2 DEF OutboxInv, ProducersShape
  <1>4. producer'[p] = Done /\ \A q \in Producers \ {p} : producer'[q] = producer[q]
    BY DEF OutboxInv, ProducersShape
  <1> QED BY <1>1, <1>3, <1>4 DEF OutboxInv, ProducersShape, LocksExclude, RowsAreLocked

\* BeginProducer: a transaction starts with no keys and no rows.
LEMMA BeginKeepsOutbox ==
    ASSUME OutboxInv, NEW p \in Producers, NEW keys \in KeySeqs, BeginProducer(p, keys)
    PROVE  OutboxInv'
  <1>1. keys \in Seq(Keys)
    <2>1. CASE \E k \in Keys : keys = <<k>> BY <2>1
    <2>2. CASE keys \in Keys \X Keys
      <3>1. PICK a \in Keys, b \in Keys : keys = <<a, b>> BY <2>2
      <3> QED BY <3>1
    <2> QED BY <2>1, <2>2 DEF KeySeqs
  <1>2. PICK n \in [open : BOOLEAN, todo : Seq(Keys \cup {"begin"}),
                   locked : SUBSET Keys, rows : SUBSET (Channels \X Keys)] :
          n = producer[p] /\ n.locked = {} /\ n.rows = {}
    <2>1. producer[p] = New BY DEF BeginProducer
    <2>2. producer[p].locked = {} /\ producer[p].rows = {} BY <2>1 DEF New
    <2> QED BY <2>2 DEF OutboxInv, ProducersShape
  <1>5. keys \in Seq(Keys \cup {"begin"}) BY <1>1
  <1>15. PICK new : new = [n EXCEPT !.open = TRUE, !.todo = keys] OBVIOUS
  <1>3. producer' = [producer EXCEPT ![p] = new]
    BY <1>2, <1>15 DEF BeginProducer, OutboxInv, ProducersShape
  <1>4. new.open = TRUE /\ new.todo = keys /\ new.locked = {} /\ new.rows = {} BY <1>2, <1>15
  <1>6. new \in [open : BOOLEAN, todo : Seq(Keys \cup {"begin"}),
                 locked : SUBSET Keys, rows : SUBSET (Channels \X Keys)]
    BY <1>2, <1>5, <1>15
  <1>7. producer' \in [Producers -> [open : BOOLEAN, todo : Seq(Keys \cup {"begin"}),
                                     locked : SUBSET Keys, rows : SUBSET (Channels \X Keys)]]
    BY <1>3, <1>6 DEF OutboxInv, ProducersShape
  <1>8. producer'[p] = new /\ \A q \in Producers \ {p} : producer'[q] = producer[q]
    BY <1>3 DEF OutboxInv, ProducersShape
  <1>13. ProducersShape' BY <1>1, <1>4, <1>7, <1>8 DEF OutboxInv, ProducersShape
  <1>14. LocksExclude' BY <1>4, <1>8 DEF OutboxInv, LocksExclude
  <1>9. RowsAreLocked' BY <1>4, <1>8 DEF OutboxInv, RowsAreLocked
  <1>10. outbox' = outbox BY DEF BeginProducer
  <1>11. \A c, k : AlreadyQueued(c, k)' <=> AlreadyQueued(c, k) BY <1>10 DEF AlreadyQueued
  <1>12. RowsAreNew' BY <1>4, <1>8, <1>11 DEF OutboxInv, RowsAreNew
  <1> QED BY <1>9, <1>10, <1>12, <1>13, <1>14 DEF OutboxInv, OutboxShape, OneRowPerAlert

LEMMA RollbackKeepsOutbox ==
    ASSUME OutboxInv, NEW p \in Producers, RollbackProducer(p) PROVE OutboxInv'
  <1>1. producer' = [producer EXCEPT ![p] = Done] /\ outbox' = outbox BY DEF RollbackProducer
  <1>2. \A c, k : AlreadyQueued(c, k)' <=> AlreadyQueued(c, k) BY <1>1 DEF AlreadyQueued
  <1>3. RowsAreNew' BY <1>1, <1>2, EndKeepsProducers DEF OutboxInv, RowsAreNew
  <1> QED BY <1>1, <1>3, EndKeepsProducers DEF OutboxInv, OutboxShape, OneRowPerAlert

\* The rows of a transaction, in the order they are inserted: each of them once.
LEMMA EachRowOnce ==
    ASSUME OutboxInv, NEW p \in Producers,
           NEW s \in [1..Cardinality(producer[p].rows) -> producer[p].rows],
           \A r \in producer[p].rows : \E n \in DOMAIN s : s[n] = r
    PROVE  /\ Cardinality(producer[p].rows) \in Nat
           /\ \A m, n \in DOMAIN s : s[m] = s[n] => m = n
  <1>1. PICK R : R = producer[p].rows OBVIOUS
  <1>2. R \in SUBSET (Channels \X Keys) BY <1>1 DEF OutboxInv, ProducersShape
  <1>3. IsFiniteSet(Channels \X Keys) BY FS_Product, AlertsAssumption
  <1>4. IsFiniteSet(R) BY <1>2, <1>3, FS_Subset
  <1>5. PICK n : n = Cardinality(R) OBVIOUS
  <1>6. n \in Nat BY <1>4, <1>5, FS_CardinalityType
  <1>7. IsFiniteSet(1..n) /\ Cardinality(1..n) = n
    <2>1. n \in Int /\ 1 \in Int BY <1>6
    <2>2. IsFiniteSet(1..n) /\ Cardinality(1..n) = IF 1 > n THEN 0 ELSE n - 1 + 1
      BY <2>1, FS_Interval, Zenon
    <2> QED BY <1>6, <2>2
  <1>8. s \in Surjection(1..n, R) BY <1>1, <1>5 DEF Surjection
  <1>9. s \in Injection(1..n, R) BY <1>5, <1>7, <1>8, FS_Surjection
  <1> QED BY <1>1, <1>5, <1>6, <1>9 DEF Injection, IsInjective

\* CommitProducer: its rows are new to the outbox, and no open transaction has
\* one of them, for it would hold the same key.
LEMMA CommitKeepsOutbox ==
    ASSUME OutboxInv, NEW p \in Producers, CommitProducer(p)
    PROVE  /\ OutboxInv' /\ DOMAIN outbox \subseteq DOMAIN outbox'
           /\ \A i \in DOMAIN outbox : outbox'[i] = outbox[i]
           /\ \A i \in DOMAIN outbox' \ DOMAIN outbox :
                outbox'[i].status = "pending" /\ outbox'[i].attempts = 0
  <1>1. PICK s \in [1..Cardinality(producer[p].rows) -> producer[p].rows] :
          /\ \A r \in producer[p].rows : \E n \in DOMAIN s : s[n] = r
          /\ outbox' = outbox \o [n \in DOMAIN s |-> NewRow(s[n][1], s[n][2])]
    BY DEF CommitProducer
  <1>2. PICK R : R = producer[p].rows OBVIOUS
  <1>3. PICK card : card = Cardinality(R) OBVIOUS
  <1>4. card \in Nat /\ \A m, n \in DOMAIN s : s[m] = s[n] => m = n
    BY <1>1, <1>2, <1>3, EachRowOnce
  <1>5. s \in [1..card -> R] /\ R \subseteq Channels \X Keys
    BY <1>2, <1>3 DEF OutboxInv, ProducersShape
  <1>6. PICK new : new = [n \in 1..card |-> NewRow(s[n][1], s[n][2])] OBVIOUS
  <1>7. \A n \in 1..card : /\ s[n] \in R /\ s[n] = <<s[n][1], s[n][2]>>
                            /\ s[n][1] \in Channels /\ s[n][2] \in Keys
    <2>1. \A r \in Channels \X Keys : r = <<r[1], r[2]>> /\ r[1] \in Channels /\ r[2] \in Keys
      OBVIOUS
    <2>2. \A n \in 1..card : s[n] \in R BY <1>5
    <2> QED BY <1>5, <2>1, <2>2
  <1>8. 0 \in 0..MaxAttempts /\ 0 < MaxAttempts /\ MaxAttempts \in Nat BY AlertsAssumption
  <1>9. \A n \in 1..card : /\ new[n] \in OutboxRow /\ new[n].attempts = 0
                            /\ new[n].channel = s[n][1] /\ new[n].key = s[n][2]
                            /\ new[n].status = "pending" /\ new[n].recent = TRUE
    BY <1>6, <1>7, <1>8 DEF NewRow, OutboxRow
  <1>10. new \in Seq(OutboxRow) /\ Len(new) = card BY <1>4, <1>6, <1>9
  <1>11. outbox' = outbox \o new BY <1>1, <1>5, <1>6
  <1>12. PICK len \in Nat : len = Len(outbox) BY DEF OutboxInv, OutboxShape
  <1>13. outbox \in Seq(OutboxRow) /\ DOMAIN outbox = 1..len BY <1>12 DEF OutboxInv, OutboxShape
  <1>14. outbox' \in Seq(OutboxRow) /\ Len(outbox') = len + card /\ DOMAIN outbox' = 1..(len + card)
    <2>1. outbox' \in Seq(OutboxRow) BY <1>10, <1>11, <1>13
    <2>2. Len(outbox') = Len(outbox) + Len(new)
      BY <1>10, <1>11, <1>13, ConcatProperties, Zenon
    <2>3. DOMAIN outbox' = 1..Len(outbox') BY <2>1
    <2> QED BY <1>10, <1>12, <2>1, <2>2, <2>3
  <1>15. \A i \in 1..len : outbox'[i] = outbox[i] BY <1>4, <1>10, <1>11, <1>12, <1>13
  <1>16. \A i \in 1..(len + card) : i \notin 1..len => i - len \in 1..card /\ outbox'[i] = new[i - len]
    BY <1>4, <1>10, <1>11, <1>12, <1>13
  <1>17. OutboxShape'
    <2>1. len + card <= MaxRows BY <1>2, <1>3, <1>12 DEF CommitProducer
    <2>2. ASSUME NEW i \in DOMAIN outbox', outbox'[i].status \in {"pending", "sending"}
          PROVE  outbox'[i].attempts < MaxAttempts
      <3>1. CASE i \in 1..len BY <1>13, <1>15, <2>2, <3>1 DEF OutboxInv, OutboxShape
      <3>2. CASE i \notin 1..len BY <1>8, <1>9, <1>14, <1>16, <3>2
      <3> QED BY <3>1, <3>2
    <2> QED BY <1>14, <2>1, <2>2 DEF OutboxShape
  <1>18. producer' = [producer EXCEPT ![p] = Done] BY DEF CommitProducer
  <1>19. RowsAreNew'
    <2> SUFFICES ASSUME NEW q \in Producers, NEW r \in producer'[q].rows, AlreadyQueued(r[1], r[2])'
                 PROVE  FALSE
      BY DEF RowsAreNew
    <2>1. q # p /\ r \in producer[q].rows BY <1>18, EndKeepsProducers
    <2>2. PICK i \in DOMAIN outbox' : /\ outbox'[i].channel = r[1] /\ outbox'[i].key = r[2]
                                      /\ outbox'[i].status # "deleted"
                                      /\ r[2] \in Windowed => outbox'[i].recent
      BY DEF AlreadyQueued
    <2>3. CASE i \in 1..len
      BY <1>13, <1>15, <2>1, <2>2, <2>3 DEF OutboxInv, RowsAreNew, AlreadyQueued
    <2>4. CASE i \notin 1..len
      <3>1. i - len \in 1..card /\ r[2] = s[i - len][2] BY <1>9, <1>14, <1>16, <2>2, <2>4
      <3>2. s[i - len] \in producer[p].rows BY <1>2, <1>7, <3>1
      <3> QED BY <2>1, <3>1, <3>2 DEF OutboxInv, RowsAreLocked, LocksExclude
    <2> QED BY <2>3, <2>4
  <1>20. OneRowPerAlert'
    <2> SUFFICES ASSUME NEW i \in DOMAIN outbox', NEW j \in DOMAIN outbox', i < j,
                        outbox'[i].status # "deleted",
                        outbox'[i].channel = outbox'[j].channel, outbox'[i].key = outbox'[j].key
                 PROVE  outbox'[i].key \in Windowed /\ ~outbox'[i].recent
      BY DEF OneRowPerAlert
    <2>1. i \in 1..(len + card) /\ j \in 1..(len + card) /\ i \in Nat /\ j \in Nat BY <1>14
    <2>2. CASE j \in 1..len
      <3>1. i \in 1..len BY <2>1, <2>2
      <3> QED BY <1>13, <1>15, <2>2, <3>1 DEF OutboxInv, OneRowPerAlert
    <2>3. CASE j \notin 1..len
      <3>1. j - len \in 1..card /\ outbox'[j] = new[j - len] BY <1>16, <2>1, <2>3
      <3>2. s[j - len] \in producer[p].rows /\ outbox'[j].channel = s[j - len][1]
            /\ outbox'[j].key = s[j - len][2]
        BY <1>2, <1>7, <1>9, <3>1
      <3>3. CASE i \in 1..len
        <4>1. ~AlreadyQueued(s[j - len][1], s[j - len][2]) BY <3>2 DEF OutboxInv, RowsAreNew
        <4> QED BY <1>13, <1>15, <3>2, <3>3, <4>1 DEF AlreadyQueued
      <3>4. CASE i \notin 1..len
        <4>1. i - len \in 1..card /\ outbox'[i] = new[i - len] BY <1>16, <2>1, <3>4
        <4>2. s[i - len] = s[j - len] BY <1>7, <1>9, <3>1, <3>2, <4>1
        <4>3. i - len = j - len BY <1>4, <1>5, <3>1, <4>1, <4>2
        <4> QED BY <1>12, <2>1, <4>3
      <3> QED BY <3>3, <3>4
    <2> QED BY <2>2, <2>3
  <1>21. ProducersShape' /\ LocksExclude' /\ RowsAreLocked' BY <1>18, EndKeepsProducers
  <1>22. DOMAIN outbox \subseteq DOMAIN outbox' BY <1>4, <1>12, <1>13, <1>14
  <1>23. \A i \in DOMAIN outbox' \ DOMAIN outbox :
           outbox'[i].status = "pending" /\ outbox'[i].attempts = 0
    BY <1>9, <1>13, <1>14, <1>16
  <1> QED BY <1>13, <1>15, <1>17, <1>19, <1>20, <1>21, <1>22, <1>23 DEF OutboxInv

JobStates == {"none", "queued"} \cup InSend

JobShape ==
    /\ job \in [Dispatchers -> [RowIds -> JobStates]]
    /\ alertFaults \in 0..MaxAlertFaults

NoStrayJob == \A d \in Dispatchers : \A i \in RowIds : i \notin DOMAIN outbox => job[d][i] = "none"

Leased ==
    alertFaults = 0 =>
       \A i \in DOMAIN outbox : \A d \in Dispatchers : job[d][i] # "none" =>
          /\ ~outbox[i].due /\ outbox[i].status \in {"sending", "deleted"}
          /\ \A e \in Dispatchers \ {d} : job[e][i] = "none"

LeaseInv == JobShape /\ NoStrayJob /\ Leased

AlertsInv == OutboxInv /\ ChannelsShape /\ LeaseInv

\* The outbox never has more rows than there are ids.
LEMMA RowsHaveIds == OutboxShape => DOMAIN outbox \subseteq RowIds
  BY AlertsAssumption DEF OutboxShape, RowIds

\* One job of one dispatcher changes; only a row it holds is worked on.
LEMMA OneJob ==
    ASSUME AlertsInv, NEW d \in Dispatchers, NEW i \in RowIds, NEW v \in JobStates,
           job' = [job EXCEPT ![d][i] = v], outbox' = outbox,
           v # "none" => job[d][i] # "none",
           alertFaults' \in 0..MaxAlertFaults, alertFaults' = 0 => alertFaults = 0
    PROVE  LeaseInv'
  <1> USE DEF AlertsInv, LeaseInv, JobShape
  <1>1. job' \in [Dispatchers -> [RowIds -> JobStates]] OBVIOUS
  <1>2. \A e \in Dispatchers : \A j \in RowIds :
          job'[e][j] = IF e = d /\ j = i THEN v ELSE job[e][j]
    OBVIOUS
  <1>3. NoStrayJob' BY <1>2 DEF NoStrayJob
  <1>4. DOMAIN outbox \subseteq RowIds BY RowsHaveIds DEF OutboxInv
  <1>5. Leased' BY <1>2, <1>4 DEF Leased
  <1> QED BY <1>1, <1>3, <1>5

\* The jobs stay as they are, and a row that some dispatcher works on keeps its
\* lease.
LEMMA JobsStay ==
    ASSUME AlertsInv, job' = job, OutboxShape',
           DOMAIN outbox \subseteq DOMAIN outbox',
           alertFaults' \in 0..MaxAlertFaults, alertFaults' = 0 => alertFaults = 0,
           alertFaults' = 0 =>
             \A i \in DOMAIN outbox : (\E d \in Dispatchers : job[d][i] # "none") =>
                /\ ~outbox[i].due => ~outbox'[i].due
                /\ outbox[i].status \in {"sending", "deleted"}
                   => outbox'[i].status \in {"sending", "deleted"}
    PROVE  LeaseInv'
  <1> USE DEF AlertsInv, LeaseInv, JobShape
  <1>1. DOMAIN outbox' \subseteq RowIds BY AlertsAssumption DEF OutboxShape, RowIds
  <1>2. NoStrayJob' BY DEF NoStrayJob
  <1>3. Leased' BY <1>1 DEF Leased, NoStrayJob
  <1> QED BY <1>2, <1>3

\* Channels and rules.
LEMMA ChannelsKeepAlerts ==
    ASSUME AlertsInv, NEW c \in Channels,
           \/ CreateAlertChannel(c) \/ DeleteAlertChannel(c)
           \/ \E ev \in SUBSET {Event[k] : k \in Keys} : SetAlertRules(c, ev)
    PROVE  AlertsInv'
  <1>1. CASE \/ CreateAlertChannel(c)
             \/ \E ev \in SUBSET {Event[k] : k \in Keys} : SetAlertRules(c, ev)
    <2>1. ChannelsShape'
      BY <1>1 DEF AlertsInv, ChannelsShape, CreateAlertChannel, SetAlertRules
    <2>2. UNCHANGED <<outbox, producer, job, alertFaults>>
      BY <1>1 DEF CreateAlertChannel, SetAlertRules
    <2> QED BY <2>1, <2>2 DEF AlertsInv, OutboxInv, OutboxShape, ProducersShape, LocksExclude,
               RowsAreLocked, RowsAreNew, AlreadyQueued, OneRowPerAlert, LeaseInv, JobShape,
               NoStrayJob, Leased
  <1>2. CASE DeleteAlertChannel(c)
    <2>1. ChannelsShape' BY <1>2 DEF AlertsInv, ChannelsShape, DeleteAlertChannel
    <2>2. outbox' = [i \in DOMAIN outbox |->
                       IF outbox[i].channel = c
                       THEN [outbox[i] EXCEPT !.status = "deleted", !.due = FALSE]
                       ELSE outbox[i]]
          /\ UNCHANGED <<producer, job, alertFaults>>
      BY <1>2 DEF DeleteAlertChannel
    <2>3. \A i \in DOMAIN outbox : outbox[i] \in OutboxRow BY DEF AlertsInv, OutboxInv, OutboxShape
    <2>4. \A i \in DOMAIN outbox :
             \/ outbox'[i] = outbox[i]
             \/ outbox'[i] = [outbox[i] EXCEPT !.status = "deleted", !.due = FALSE]
      BY <2>2
    <2>5. \A i \in DOMAIN outbox : outbox'[i] \in OutboxRow BY <2>3, <2>4 DEF OutboxRow
    <2>6. outbox' \in [DOMAIN outbox -> OutboxRow] BY <2>2, <2>5
    <2>7. \A i \in DOMAIN outbox :
            /\ KeepsRow(outbox[i], outbox'[i])
            /\ ~outbox[i].due => ~outbox'[i].due
            /\ outbox[i].status = "sending" => outbox'[i].status \in {"sending", "deleted"}
      <3> SUFFICES ASSUME NEW i \in DOMAIN outbox
                   PROVE  /\ KeepsRow(outbox[i], outbox'[i])
                          /\ ~outbox[i].due => ~outbox'[i].due
                          /\ outbox[i].status = "sending" => outbox'[i].status \in {"sending", "deleted"}
        OBVIOUS
      <3>1. PICK o \in OutboxRow : o = outbox[i] BY <2>3
      <3>2. o.status \in {"pending", "sending"} => o.attempts < MaxAttempts
        BY <3>1 DEF AlertsInv, OutboxInv, OutboxShape
      <3>3. CASE outbox'[i] = outbox[i] BY <3>1, <3>2, <3>3 DEF KeepsRow
      <3>4. CASE outbox'[i] = [outbox[i] EXCEPT !.status = "deleted", !.due = FALSE]
        <4>1. PICK n : n = [o EXCEPT !.status = "deleted", !.due = FALSE] OBVIOUS
        <4>2. /\ n.status = "deleted" /\ n.due = FALSE /\ n.channel = o.channel
              /\ n.key = o.key /\ n.recent = o.recent
          BY <4>1 DEF OutboxRow
        <4>3. outbox'[i] = n BY <3>1, <3>4, <4>1
        <4> QED BY <3>1, <4>2, <4>3 DEF KeepsRow
      <3> QED BY <2>4, <3>3, <3>4
    <2>8. OutboxInv' /\ DOMAIN outbox' = DOMAIN outbox BY <2>2, <2>6, <2>7, RowsStay DEF AlertsInv
    <2>9. LeaseInv' BY <2>2, <2>7, <2>8, JobsStay
                    DEF AlertsInv, LeaseInv, JobShape, OutboxInv, KeepsRow
    <2> QED BY <2>1, <2>8, <2>9 DEF AlertsInv
  <1> QED BY <1>1, <1>2

\* Transactions that enqueue.
LEMMA ProducersKeepAlerts ==
    ASSUME AlertsInv, NEW p \in Producers,
           \/ \E keys \in KeySeqs : BeginProducer(p, keys)
           \/ enqueueAlertTx(p) \/ CommitProducer(p) \/ RollbackProducer(p)
    PROVE  AlertsInv'
  <1>1. OutboxInv'
    BY BeginKeepsOutbox, EnqueueKeepsOutbox, CommitKeepsOutbox, RollbackKeepsOutbox DEF AlertsInv
  <1>2. UNCHANGED <<channel, rules, job, alertFaults>>
    BY DEF BeginProducer, enqueueAlertTx, CommitProducer, RollbackProducer
  <1>3. ChannelsShape' BY <1>2 DEF AlertsInv, ChannelsShape
  <1>4. DOMAIN outbox \subseteq DOMAIN outbox' /\ \A i \in DOMAIN outbox : outbox'[i] = outbox[i]
    <2>1. CASE CommitProducer(p) BY <2>1, CommitKeepsOutbox DEF AlertsInv
    <2>2. CASE outbox' = outbox BY <2>2
    <2> QED BY <2>1, <2>2 DEF BeginProducer, enqueueAlertTx, RollbackProducer
  <1>5. LeaseInv' BY <1>1, <1>2, <1>4, JobsStay DEF AlertsInv, LeaseInv, JobShape, OutboxInv
  <1> QED BY <1>1, <1>3, <1>5 DEF AlertsInv

\* One row changes under its dispatchers' hands.
LEMMA OneRow ==
    ASSUME AlertsInv, NEW i \in DOMAIN outbox, NEW r \in OutboxRow, KeepsRow(outbox[i], r),
           outbox' = [outbox EXCEPT ![i] = r], producer' = producer
    PROVE  /\ OutboxInv' /\ DOMAIN outbox' = DOMAIN outbox
           /\ outbox'[i] = r /\ \A j \in DOMAIN outbox \ {i} : outbox'[j] = outbox[j]
  <1>1. outbox' \in [DOMAIN outbox -> OutboxRow] BY DEF AlertsInv, OutboxInv, OutboxShape
  <1>2. outbox'[i] = r /\ \A j \in DOMAIN outbox \ {i} : outbox'[j] = outbox[j]
    BY DEF AlertsInv, OutboxInv, OutboxShape
  <1>3. \A j \in DOMAIN outbox : KeepsRow(outbox[j], outbox'[j])
    BY <1>2 DEF KeepsRow, AlertsInv, OutboxInv, OutboxShape
  <1> QED BY <1>1, <1>2, <1>3, RowsStay DEF AlertsInv

\* Drain: the claim takes rows that are due, which nobody works on.
LEMMA DrainKeepsAlerts ==
    ASSUME AlertsInv, NEW d \in Dispatchers, Drain(d) PROVE AlertsInv'
  <1> USE DEF AlertsInv
  <1>1. PICK due : due = {i \in DOMAIN outbox : Claimable(i)} OBVIOUS
  <1>2. PICK batch \in SUBSET due :
          /\ DueAlertDeliveries(batch)
          /\ job' = [job EXCEPT ![d] = [i \in RowIds |-> IF i \in batch THEN "queued" ELSE "none"]]
    BY <1>1 DEF Drain
  <1>3. job[d] = NoJob /\ UNCHANGED <<channel, rules, producer, alertFaults>> BY DEF Drain
  <1>4. \A i \in batch : i \in DOMAIN outbox /\ outbox[i].due
                          /\ outbox[i].status \in {"pending", "sending"}
    BY <1>1 DEF Claimable
  <1>5. \A i \in DOMAIN outbox : outbox[i] \in OutboxRow BY DEF OutboxInv, OutboxShape
  <1>6. DOMAIN outbox' = DOMAIN outbox /\
        \A i \in DOMAIN outbox :
           IF i \in batch THEN outbox'[i] = [outbox[i] EXCEPT !.status = "sending", !.due = FALSE]
           ELSE outbox'[i] = outbox[i]
    BY <1>2 DEF DueAlertDeliveries
  <1>7. ASSUME NEW i \in DOMAIN outbox
        PROVE  /\ outbox'[i] \in OutboxRow /\ KeepsRow(outbox[i], outbox'[i])
               /\ i \in batch => outbox'[i].status = "sending" /\ outbox'[i].due = FALSE
    <2>1. PICK o \in OutboxRow : o = outbox[i] BY <1>5
    <2>2. o.status \in {"pending", "sending"} => o.attempts < MaxAttempts
      BY <2>1 DEF OutboxInv, OutboxShape
    <2>3. CASE i \notin batch BY <1>6, <2>1, <2>2, <2>3 DEF KeepsRow
    <2>4. CASE i \in batch
      <3>1. PICK n : n = [o EXCEPT !.status = "sending", !.due = FALSE] OBVIOUS
      <3>2. /\ n.status = "sending" /\ n.due = FALSE /\ n.channel = o.channel
            /\ n.key = o.key /\ n.recent = o.recent /\ n.attempts = o.attempts
        BY <3>1 DEF OutboxRow
      <3>3. n \in OutboxRow BY <3>1 DEF OutboxRow
      <3>4. outbox'[i] = n BY <1>6, <2>1, <2>4, <3>1
      <3>5. o.status \in {"pending", "sending"} BY <1>4, <2>1, <2>4
      <3> QED BY <2>1, <2>2, <3>2, <3>3, <3>4, <3>5 DEF KeepsRow
    <2> QED BY <2>3, <2>4
  <1>8. outbox' \in [DOMAIN outbox -> OutboxRow]
    <2>1. outbox' = [i \in DOMAIN outbox |-> outbox'[i]] BY <1>2 DEF DueAlertDeliveries
    <2> QED BY <1>7, <2>1
  <1>9. OutboxInv' BY <1>3, <1>7, <1>8, RowsStay
  <1>10. DOMAIN outbox \subseteq RowIds BY RowsHaveIds DEF OutboxInv
  <1>11. \A e \in Dispatchers : \A i \in RowIds :
           job'[e][i] = IF e = d THEN IF i \in batch THEN "queued" ELSE "none" ELSE job[e][i]
    BY <1>2 DEF LeaseInv, JobShape
  <1>12. JobShape'
    <2>1. [i \in RowIds |-> IF i \in batch THEN "queued" ELSE "none"] \in [RowIds -> JobStates]
      BY DEF JobStates
    <2> QED BY <1>2, <1>3, <2>1 DEF LeaseInv, JobShape
  <1>13. NoStrayJob'
    <2> SUFFICES ASSUME NEW e \in Dispatchers, NEW i \in RowIds, i \notin DOMAIN outbox
                 PROVE  job'[e][i] = "none"
      BY <1>6 DEF NoStrayJob
    <2>1. i \notin batch BY <1>4
    <2>2. job[e][i] = "none" BY DEF LeaseInv, NoStrayJob
    <2> QED BY <1>11, <2>1, <2>2
  <1>14. Leased'
    <2> SUFFICES ASSUME alertFaults = 0, NEW i \in DOMAIN outbox, NEW f \in Dispatchers,
                        job'[f][i] # "none"
                 PROVE  /\ ~outbox'[i].due /\ outbox'[i].status \in {"sending", "deleted"}
                        /\ \A e \in Dispatchers \ {f} : job'[e][i] = "none"
      BY <1>3, <1>6 DEF Leased
    <2>1. i \in RowIds BY <1>10
    <2>2. CASE i \in batch
      <3>1. \A e \in Dispatchers : job[e][i] = "none" BY <1>4, <2>2 DEF LeaseInv, Leased
      <3> QED BY <1>7, <1>11, <2>1, <2>2, <3>1
    <2>3. CASE i \notin batch
      <3>1. f # d /\ job[f][i] # "none" BY <1>11, <2>1, <2>3
      <3>2. outbox'[i] = outbox[i] BY <1>6, <2>3
      <3>3. \A e \in Dispatchers \ {f} : job'[e][i] = "none"
        BY <1>11, <2>1, <2>3, <3>1 DEF LeaseInv, Leased
      <3> QED BY <3>1, <3>2, <3>3 DEF LeaseInv, Leased
    <2> QED BY <2>2, <2>3
  <1> QED BY <1>3, <1>9, <1>12, <1>13, <1>14 DEF LeaseInv, ChannelsShape

\* A dispatcher moves on with a row that it holds, and changes that row.
LEMMA HolderMoves ==
    ASSUME AlertsInv, NEW d \in Dispatchers, NEW i \in DOMAIN outbox, NEW v \in JobStates,
           NEW r \in OutboxRow, KeepsRow(outbox[i], r), job[d][i] # "none",
           outbox' = [outbox EXCEPT ![i] = r], job' = [job EXCEPT ![d][i] = v],
           v # "none" => ~r.due /\ r.status \in {"sending", "deleted"},
           UNCHANGED <<channel, rules, producer, alertFaults>>
    PROVE  AlertsInv'
  <1> USE DEF AlertsInv
  <1>1. /\ OutboxInv' /\ DOMAIN outbox' = DOMAIN outbox
        /\ outbox'[i] = r /\ \A j \in DOMAIN outbox \ {i} : outbox'[j] = outbox[j]
    BY OneRow
  <1>2. DOMAIN outbox \subseteq RowIds BY RowsHaveIds DEF OutboxInv
  <1>3. JobShape' BY <1>2 DEF LeaseInv, JobShape
  <1>4. \A e \in Dispatchers : \A j \in RowIds :
          job'[e][j] = IF e = d /\ j = i THEN v ELSE job[e][j]
    BY <1>2 DEF LeaseInv, JobShape
  <1>5. NoStrayJob' BY <1>1, <1>4 DEF LeaseInv, NoStrayJob
  <1>6. Leased'
    <2> SUFFICES ASSUME alertFaults = 0, NEW j \in DOMAIN outbox, NEW f \in Dispatchers,
                        job'[f][j] # "none"
                 PROVE  /\ ~outbox'[j].due /\ outbox'[j].status \in {"sending", "deleted"}
                        /\ \A e \in Dispatchers \ {f} : job'[e][j] = "none"
      BY <1>1 DEF Leased
    <2>1. CASE j = i
      <3>1. \A e \in Dispatchers \ {d} : job[e][i] = "none" BY DEF LeaseInv, Leased
      <3>2. f = d /\ v # "none" BY <1>2, <1>4, <2>1, <3>1
      <3> QED BY <1>1, <1>2, <1>4, <2>1, <3>1, <3>2
    <2>2. CASE j # i
      <3>1. outbox'[j] = outbox[j] /\ \A e \in Dispatchers : job'[e][j] = job[e][j]
        BY <1>1, <1>2, <1>4, <2>2
      <3> QED BY <3>1 DEF LeaseInv, Leased
    <2> QED BY <2>1, <2>2
  <1> QED BY <1>1, <1>3, <1>5, <1>6 DEF LeaseInv, ChannelsShape

\* A dispatcher moves on with a row that it holds, which stays as it is.
LEMMA HolderWaits ==
    ASSUME AlertsInv, NEW d \in Dispatchers, NEW i \in DOMAIN outbox, NEW v \in JobStates,
           job[d][i] # "none", job' = [job EXCEPT ![d][i] = v],
           alertFaults' \in 0..MaxAlertFaults, alertFaults' = 0 => alertFaults = 0,
           UNCHANGED <<channel, rules, outbox, producer>>
    PROVE  AlertsInv'
  <1>1. i \in RowIds BY RowsHaveIds DEF AlertsInv, OutboxInv
  <1>2. LeaseInv' BY <1>1, OneJob
  <1> QED BY <1>2 DEF AlertsInv, OutboxInv, OutboxShape, ProducersShape, LocksExclude, RowsAreLocked,
             RowsAreNew, AlreadyQueued, OneRowPerAlert, ChannelsShape

LEMMA FaultCounts ==
    ASSUME AlertsInv, AlertFault
    PROVE  alertFaults' \in 0..MaxAlertFaults /\ alertFaults' # 0
  BY AlertsAssumption DEF AlertsInv, LeaseInv, JobShape, AlertFault

\* deliver: the lease is renewed or the row dropped; what cannot be read or
\* renewed is a fault.
LEMMA DeliverKeepsAlerts ==
    ASSUME AlertsInv, NEW d \in Dispatchers, NEW i \in DOMAIN outbox, deliver(d, i) PROVE AlertsInv'
  <1>1. job[d][i] # "none" /\ UNCHANGED <<channel, rules, producer>> BY DEF deliver
  <1>2. "sending" \in JobStates /\ "none" \in JobStates /\ "failed" \in JobStates
    BY DEF JobStates, InSend
  <1>3. alertFaults \in 0..MaxAlertFaults BY DEF AlertsInv, LeaseInv, JobShape
  <1>4. CASE /\ RenewAlertDeliveryLease(i) /\ job' = [job EXCEPT ![d][i] = "sending"]
             /\ outbox' = [outbox EXCEPT ![i].due = FALSE] /\ UNCHANGED alertFaults
    <2>1. PICK o \in OutboxRow : o = outbox[i] BY DEF AlertsInv, OutboxInv, OutboxShape
    <2>2. PICK r : r = [o EXCEPT !.due = FALSE] OBVIOUS
    <2>3. r \in OutboxRow BY <2>2 DEF OutboxRow
    <2>4. r.status = "sending" BY <1>4, <2>1, <2>2 DEF OutboxRow, RenewAlertDeliveryLease
    <2>5. /\ r.due = FALSE /\ r.channel = o.channel /\ r.key = o.key /\ r.status = o.status
          /\ r.recent = o.recent /\ r.attempts = o.attempts
      BY <2>2 DEF OutboxRow
    <2>6. o.status \in {"pending", "sending"} => o.attempts < MaxAttempts
      BY <2>1 DEF AlertsInv, OutboxInv, OutboxShape
    <2>7. KeepsRow(outbox[i], r) BY <2>1, <2>5, <2>6 DEF KeepsRow
    <2>8. outbox' = [outbox EXCEPT ![i] = r] BY <1>4, <2>1, <2>2
    <2> QED BY <1>1, <1>2, <1>4, <2>3, <2>4, <2>5, <2>7, <2>8, HolderMoves
  <1>5. CASE /\ job' = [job EXCEPT ![d][i] = "none"] /\ UNCHANGED <<outbox, alertFaults>>
    BY <1>1, <1>2, <1>3, <1>5, HolderWaits
  <1>6. CASE AlertFault /\ job' = [job EXCEPT ![d][i] = "failed"] /\ UNCHANGED outbox
    BY <1>1, <1>2, <1>6, FaultCounts, HolderWaits
  <1>7. CASE AlertFault /\ job' = [job EXCEPT ![d][i] = "sending"] /\ UNCHANGED outbox
    BY <1>1, <1>2, <1>7, FaultCounts, HolderWaits
  <1> QED BY <1>4, <1>5, <1>6, <1>7 DEF deliver

LEMMA SendKeepsAlerts ==
    ASSUME AlertsInv, NEW d \in Dispatchers, NEW i \in DOMAIN outbox, Send(d, i) PROVE AlertsInv'
  <1>1. PICK v \in {"sent", "failed"} : job' = [job EXCEPT ![d][i] = v] BY DEF Send
  <1>2. v \in JobStates BY DEF JobStates, InSend
  <1>3. job[d][i] # "none" /\ UNCHANGED <<channel, rules, outbox, producer, alertFaults>> BY DEF Send
  <1>4. alertFaults \in 0..MaxAlertFaults BY DEF AlertsInv, LeaseInv, JobShape
  <1> QED BY <1>1, <1>2, <1>3, <1>4, HolderWaits

\* SetAlertDeliveryResult: the result is for a row that is still being sent.
LEMMA ResultKeepsAlerts ==
    ASSUME AlertsInv, NEW d \in Dispatchers, NEW i \in DOMAIN outbox, SetAlertDeliveryResult(d, i)
    PROVE  AlertsInv'
  <1>1. /\ job[d][i] # "none" /\ job' = [job EXCEPT ![d][i] = "none"]
        /\ UNCHANGED <<channel, rules, producer, alertFaults>>
    BY DEF SetAlertDeliveryResult
  <1>2. "none" \in JobStates BY DEF JobStates
  <1>3. alertFaults \in 0..MaxAlertFaults BY DEF AlertsInv, LeaseInv, JobShape
  <1>4. CASE outbox[i].status = "sending"
    <2>1. PICK o \in OutboxRow : o = outbox[i] BY DEF AlertsInv, OutboxInv, OutboxShape
    <2>2. PICK r : r = AfterResult(o, job[d][i] = "sent") OBVIOUS
    <2>3. o.attempts < MaxAttempts /\ o.attempts \in Nat /\ MaxAttempts \in Nat
      BY <1>4, <2>1, AlertsAssumption DEF AlertsInv, OutboxInv, OutboxShape, OutboxRow
    <2>4. r \in OutboxRow /\ KeepsRow(o, r)
      <3>1. CASE job[d][i] = "sent"
        <4>1. r = [o EXCEPT !.status = "sent"] BY <2>2, <3>1 DEF AfterResult
        <4>2. r \in OutboxRow BY <4>1 DEF OutboxRow
        <4>3. /\ r.status = "sent" /\ r.channel = o.channel /\ r.key = o.key
              /\ r.recent = o.recent
          BY <4>1 DEF OutboxRow
        <4>4. o.status # "deleted" BY <1>4, <2>1
        <4> QED BY <4>2, <4>3, <4>4 DEF KeepsRow
      <3>2. CASE job[d][i] # "sent"
        <4>1. PICK st : st = IF o.attempts + 1 >= MaxAttempts THEN "failed" ELSE "pending" OBVIOUS
        <4>2. PICK at : at = o.attempts + 1 OBVIOUS
        <4>3. r = [o EXCEPT !.attempts = at, !.status = st] BY <2>2, <3>2, <4>1, <4>2 DEF AfterResult
        <4>4. at \in 0..MaxAttempts /\ st \in {"failed", "pending"} BY <2>3, <4>1, <4>2
        <4>5. r \in OutboxRow BY <4>3, <4>4 DEF OutboxRow
        <4>6. /\ r.attempts = at /\ r.status = st /\ r.channel = o.channel /\ r.key = o.key
              /\ r.recent = o.recent
          BY <4>3 DEF OutboxRow
        <4>7. st = "pending" => at < MaxAttempts BY <2>3, <4>1, <4>2
        <4>8. o.status # "deleted" BY <1>4, <2>1
        <4> QED BY <4>4, <4>5, <4>6, <4>7, <4>8 DEF KeepsRow
      <3> QED BY <3>1, <3>2
    <2>5. outbox' = [outbox EXCEPT ![i] = r] BY <1>4, <2>1, <2>2 DEF SetAlertDeliveryResult
    <2> QED BY <1>1, <1>2, <2>1, <2>4, <2>5, HolderMoves
  <1>5. CASE outbox[i].status # "sending"
    <2>1. outbox' = outbox BY <1>5 DEF SetAlertDeliveryResult
    <2> QED BY <1>1, <1>2, <1>3, <2>1, HolderWaits
  <1> QED BY <1>4, <1>5

LEMMA RecordFailsKeepsAlerts ==
    ASSUME AlertsInv, NEW d \in Dispatchers, NEW i \in DOMAIN outbox, RecordFails(d, i) PROVE AlertsInv'
  <1>1. "none" \in JobStates BY DEF JobStates
  <1> QED BY <1>1, FaultCounts, HolderWaits DEF RecordFails

LEMMA DeathKeepsAlerts ==
    ASSUME AlertsInv, NEW d \in Dispatchers, DispatcherDies(d) PROVE AlertsInv'
  <1>1. job' = [job EXCEPT ![d] = NoJob] /\ UNCHANGED <<channel, rules, outbox, producer>>
    BY DEF DispatcherDies
  <1>2. alertFaults' \in 0..MaxAlertFaults /\ alertFaults' # 0 BY FaultCounts DEF DispatcherDies
  <1>3. NoJob \in [RowIds -> JobStates] BY DEF NoJob, JobStates
  <1>4. JobShape' BY <1>1, <1>2, <1>3 DEF AlertsInv, LeaseInv, JobShape
  <1>5. NoStrayJob' BY <1>1 DEF AlertsInv, LeaseInv, JobShape, NoStrayJob, NoJob
  <1>6. Leased' BY <1>2 DEF Leased
  <1> QED BY <1>1, <1>4, <1>5, <1>6 DEF AlertsInv, LeaseInv, OutboxInv, OutboxShape, ProducersShape,
             LocksExclude, RowsAreLocked, RowsAreNew, AlreadyQueued, OneRowPerAlert, ChannelsShape

\* Time: a lease ends under no send, and under a queued row only by a fault.
LEMMA TimeKeepsAlerts ==
    ASSUME AlertsInv, NEW i \in RowIds, NextAttemptDue(i) \/ WindowPasses(i) PROVE AlertsInv'
  <1>1. i \in DOMAIN outbox /\ UNCHANGED <<channel, rules, producer, job>>
    BY DEF NextAttemptDue, WindowPasses
  <1>2. PICK o \in OutboxRow : o = outbox[i] BY <1>1 DEF AlertsInv, OutboxInv, OutboxShape
  <1>3. o.status \in {"pending", "sending"} => o.attempts < MaxAttempts
    BY <1>1, <1>2 DEF AlertsInv, OutboxInv, OutboxShape
  <1>4. ChannelsShape' BY <1>1 DEF AlertsInv, ChannelsShape
  <1>5. alertFaults \in 0..MaxAlertFaults BY DEF AlertsInv, LeaseInv, JobShape
  <1>6. CASE NextAttemptDue(i)
    <2>1. PICK r : r = [o EXCEPT !.due = TRUE] OBVIOUS
    <2>2. r \in OutboxRow /\ KeepsRow(outbox[i], r)
      BY <1>2, <1>3, <2>1 DEF OutboxRow, KeepsRow
    <2>3. outbox' = [outbox EXCEPT ![i] = r] BY <1>2, <1>6, <2>1 DEF NextAttemptDue
    <2>4. /\ OutboxInv' /\ DOMAIN outbox' = DOMAIN outbox
          /\ \A j \in DOMAIN outbox \ {i} : outbox'[j] = outbox[j]
      BY <1>1, <2>2, <2>3, OneRow
    <2>5. alertFaults' \in 0..MaxAlertFaults /\ (alertFaults' = 0 => alertFaults = 0)
      BY <1>5, <1>6, FaultCounts DEF NextAttemptDue
    <2>6. ASSUME alertFaults' = 0 PROVE \A e \in Dispatchers : job[e][i] = "none"
      <3>1. \A e \in Dispatchers : job[e][i] \in JobStates BY DEF AlertsInv, LeaseInv, JobShape
      <3>2. \A e \in Dispatchers : job[e][i] \notin InSend /\ job[e][i] # "queued"
        BY <1>6, <2>6, FaultCounts DEF NextAttemptDue
      <3> QED BY <3>1, <3>2 DEF JobStates
    <2>7. LeaseInv' BY <1>1, <2>4, <2>5, <2>6, JobsStay DEF OutboxInv
    <2> QED BY <1>4, <2>4, <2>7 DEF AlertsInv
  <1>7. CASE WindowPasses(i)
    <2>1. PICK r : r = [o EXCEPT !.recent = FALSE] OBVIOUS
    <2>2. r \in OutboxRow /\ KeepsRow(outbox[i], r) /\ r.due = o.due /\ r.status = o.status
      BY <1>2, <1>3, <2>1 DEF OutboxRow, KeepsRow
    <2>3. outbox' = [outbox EXCEPT ![i] = r] BY <1>2, <1>7, <2>1 DEF WindowPasses
    <2>4. /\ OutboxInv' /\ DOMAIN outbox' = DOMAIN outbox /\ outbox'[i] = r
          /\ \A j \in DOMAIN outbox \ {i} : outbox'[j] = outbox[j]
      BY <1>1, <2>2, <2>3, OneRow
    <2>5. \A j \in DOMAIN outbox : outbox'[j].due = outbox[j].due /\ outbox'[j].status = outbox[j].status
      BY <1>2, <2>2, <2>4
    <2>6. LeaseInv' BY <1>1, <1>5, <1>7, <2>4, <2>5, JobsStay DEF OutboxInv, WindowPasses
    <2> QED BY <1>4, <2>4, <2>6 DEF AlertsInv
  <1> QED BY <1>6, <1>7

\* The inductive invariant of the outbox and its dispatchers.
LEMMA AlertsInductive == AlertsSpec => []AlertsInv
  <1>1. AlertsInit => AlertsInv
    <2> SUFFICES ASSUME AlertsInit PROVE AlertsInv OBVIOUS
    <2> USE AlertsAssumption DEF AlertsInit
    <2>1. OutboxShape BY DEF OutboxShape
    <2>2. New \in [open : BOOLEAN, todo : Seq(Keys \cup {"begin"}),
                   locked : SUBSET Keys, rows : SUBSET (Channels \X Keys)]
          /\ New.open = FALSE /\ New.locked = {} /\ New.rows = {}
      BY DEF New
    <2>3. ProducersShape BY <2>2 DEF ProducersShape
    <2>4. LocksExclude /\ RowsAreLocked /\ RowsAreNew BY <2>2 DEF LocksExclude, RowsAreLocked, RowsAreNew
    <2>5. OneRowPerAlert BY DEF OneRowPerAlert
    <2>6. ChannelsShape BY DEF ChannelsShape
    <2>7. NoJob \in [RowIds -> JobStates] BY DEF NoJob, JobStates
    <2>8. JobShape BY <2>7 DEF JobShape
    <2>9. NoStrayJob /\ Leased BY DEF NoStrayJob, Leased, NoJob
    <2> QED BY <2>1, <2>3, <2>4, <2>5, <2>6, <2>8, <2>9 DEF AlertsInv, OutboxInv, LeaseInv
  <1>2. AlertsInv /\ [AlertsNext]_alertsVars => AlertsInv'
    <2> SUFFICES ASSUME AlertsInv, [AlertsNext]_alertsVars PROVE AlertsInv' OBVIOUS
    <2>1. CASE UNCHANGED alertsVars
      BY <2>1 DEF alertsVars, AlertsInv, OutboxInv, OutboxShape, ProducersShape, LocksExclude,
             RowsAreLocked, RowsAreNew, AlreadyQueued, OneRowPerAlert, ChannelsShape, LeaseInv,
             JobShape, NoStrayJob, Leased
    <2>2. CASE AlertsNext
      BY <2>2, ChannelsKeepAlerts, ProducersKeepAlerts, DrainKeepsAlerts, DeliverKeepsAlerts,
         SendKeepsAlerts, ResultKeepsAlerts, RecordFailsKeepsAlerts, DeathKeepsAlerts, TimeKeepsAlerts
         DEF AlertsNext, Dispatch, TimePasses
    <2> QED BY <2>1, <2>2
  <1> QED BY <1>1, <1>2, PTL DEF AlertsSpec

\* Rows, jobs, channels and rules keep their types: in particular a row that is
\* not given up has attempts left, and the outbox keeps its bound.
THEOREM AlertsTypeCorrect == AlertsSpec => []AlertsTypeOK
  <1>1. AlertsInv => AlertsTypeOK
    <2> SUFFICES ASSUME AlertsInv PROVE AlertsTypeOK OBVIOUS
    <2>1. \A i \in DOMAIN outbox : outbox[i] \in OutboxRow BY DEF AlertsInv, OutboxInv, OutboxShape
    <2>2. Len(outbox) <= MaxRows BY DEF AlertsInv, OutboxInv, OutboxShape
    <2> QED BY <2>1, <2>2, Zenon
            DEF AlertsInv, OutboxRow, ChannelsShape, LeaseInv, JobShape, JobStates, AlertsTypeOK
  <1> QED BY <1>1, AlertsInductive, PTL

\* enqueueAlertTx: however many transactions enqueue one alert at once, a
\* channel has one row of it, or one within the cool-down.
THEOREM OneRowPerAlertCorrect == AlertsSpec => []OneRowPerAlert
  <1>1. AlertsInv => OneRowPerAlert BY DEF AlertsInv, OutboxInv
  <1> QED BY <1>1, AlertsInductive, PTL

\* DueAlertDeliveries, RenewAlertDeliveryLease: without a fault no two
\* dispatchers send one row at a time, and a delivered one is not sent again.
THEOREM NoDoubleSendCorrect == AlertsSpec => []NoDoubleSend
  <1>1. AlertsInv => NoDoubleSend
    <2>1. "none" \notin InSend BY DEF InSend
    <2> QED BY <2>1 DEF AlertsInv, LeaseInv, Leased, NoDoubleSend
  <1> QED BY <1>1, AlertsInductive, PTL

(***************************************************************************)
(* The alerts are an outbox.  A step of the dispatchers is a step of the   *)
(* abstract outbox when it changes what a row is from outside, or which    *)
(* sends were accepted and not recorded yet; claims, leases and time are   *)
(* no steps at all.                                                        *)
(***************************************************************************)

\* A row whose letter is the same before and after.
LEMMA LettersStay ==
    ASSUME DOMAIN outbox' = DOMAIN outbox,
           \A i \in DOMAIN outbox : LetterOf(outbox'[i]) = LetterOf(outbox[i])
    PROVE  Letters' = Letters
  BY DEF Letters, LetterOf

\* A letter has the type the abstract outbox gives it.
LEMMA LettersAreTyped ==
    ASSUME NEW o \in OutboxRow
    PROVE  /\ LetterOf(o) \in Promise!Letter
           /\ LetterOf(o).to = o.channel /\ LetterOf(o).tries = o.attempts
           /\ LetterOf(o).state = IF o.status \in Waiting THEN "waiting" ELSE o.status
  <1>1. PICK st : st = IF o.status \in Waiting THEN "waiting" ELSE o.status OBVIOUS
  <1>2. st \in {"waiting", "sent", "failed", "deleted"} BY <1>1 DEF OutboxRow, Waiting
  <1>3. LetterOf(o) = [to |-> o.channel, about |-> o.key, tries |-> o.attempts, state |-> st]
    BY <1>1 DEF LetterOf
  <1>4. o.channel \in Channels /\ o.key \in Keys /\ o.attempts \in 0..MaxAttempts BY DEF OutboxRow
  <1> QED BY <1>1, <1>2, <1>3, <1>4 DEF Promise!Letter

\* One job changes: only its row is accepted or forgotten.
LEMMA OneAccepted ==
    ASSUME JobShape, NEW d \in Dispatchers, NEW i \in RowIds, NEW v,
           job' = [job EXCEPT ![d][i] = v]
    PROVE  /\ v = "sent" => Accepted' = Accepted \cup {i}
           /\ v # "sent" => Accepted' \in {Accepted, Accepted \ {i}}
           /\ v # "sent" /\ job[d][i] # "sent" => Accepted' = Accepted
  <1>1. \A e \in Dispatchers : \A j \in RowIds :
          job'[e][j] = IF e = d /\ j = i THEN v ELSE job[e][j]
    BY DEF JobShape
  <1>2. \A j \in RowIds \ {i} : j \in Accepted' <=> j \in Accepted BY <1>1 DEF Accepted
  <1>3. Accepted \subseteq RowIds /\ Accepted' \subseteq RowIds BY DEF Accepted
  <1>4. v = "sent" => i \in Accepted' BY <1>1 DEF Accepted
  <1>5. v # "sent" => (i \in Accepted' => i \in Accepted) BY <1>1 DEF Accepted
  <1>6. v # "sent" /\ job[d][i] # "sent" => (i \in Accepted' <=> i \in Accepted)
    BY <1>1 DEF Accepted
  <1> QED BY <1>2, <1>3, <1>4, <1>5, <1>6

\* The transaction of a producer leaves its letters when it commits.
LEMMA CommitPosts ==
    ASSUME AlertsInv, NEW p \in Producers, CommitProducer(p) PROVE Promise!Post
  <1>1. /\ OutboxInv' /\ DOMAIN outbox \subseteq DOMAIN outbox'
        /\ \A i \in DOMAIN outbox : outbox'[i] = outbox[i]
        /\ \A i \in DOMAIN outbox' \ DOMAIN outbox :
             outbox'[i].status = "pending" /\ outbox'[i].attempts = 0
    BY CommitKeepsOutbox DEF AlertsInv
  <1>2. job' = job BY DEF CommitProducer
  <1>3. PICK new : new = DOMAIN outbox' \ DOMAIN outbox OBVIOUS
  <1>4. DOMAIN outbox' \subseteq RowIds BY <1>1, AlertsAssumption DEF OutboxInv, OutboxShape, RowIds
  <1>5. DOMAIN Letters = DOMAIN outbox /\ DOMAIN Letters' = DOMAIN outbox' BY DEF Letters
  <1>6. \A i \in DOMAIN outbox' : outbox'[i] \in OutboxRow BY <1>1 DEF OutboxInv, OutboxShape
  <1>7. \A i \in DOMAIN outbox' : Letters'[i] = LetterOf(outbox'[i]) BY DEF Letters, LetterOf
  <1>8. \A i \in DOMAIN outbox' : Letters'[i] \in Promise!Letter BY <1>6, <1>7, LettersAreTyped
  <1>9. Letters' \in [DOMAIN outbox' -> Promise!Letter]
    <2>1. Letters' = [i \in DOMAIN outbox' |-> Letters'[i]] BY DEF Letters
    <2> QED BY <1>8, <2>1
  <1>10. \A i \in DOMAIN Letters : Letters'[i] = Letters[i] BY <1>1, <1>5, <1>7 DEF Letters
  <1>11. \A i \in new : Letters'[i].state = "waiting" /\ Letters'[i].tries = 0
    BY <1>1, <1>3, <1>6, <1>7, LettersAreTyped DEF Waiting
  <1>12. DOMAIN outbox' = DOMAIN Letters \cup new /\ new \in SUBSET (RowIds \ DOMAIN Letters)
    BY <1>1, <1>3, <1>4, <1>5
  <1>13. Accepted' = Accepted BY <1>2 DEF Accepted
  <1> QED BY <1>9, <1>10, <1>11, <1>12, <1>13 DEF Promise!Post

\* The rows of a deleted channel go with it.
LEMMA DeleteRemoves ==
    ASSUME AlertsInv, NEW c \in Channels, DeleteAlertChannel(c) PROVE Promise!Remove(c)
  <1>1. /\ DOMAIN outbox' = DOMAIN outbox /\ job' = job
        /\ \A i \in DOMAIN outbox :
             outbox'[i] = IF outbox[i].channel = c
                          THEN [outbox[i] EXCEPT !.status = "deleted", !.due = FALSE]
                          ELSE outbox[i]
    BY DEF DeleteAlertChannel
  <1>2. \A i \in DOMAIN outbox : outbox[i] \in OutboxRow BY DEF AlertsInv, OutboxInv, OutboxShape
  <1>3. ASSUME NEW i \in DOMAIN outbox
        PROVE  LetterOf(outbox'[i]) = IF LetterOf(outbox[i]).to = c
                                      THEN [LetterOf(outbox[i]) EXCEPT !.state = "deleted"]
                                      ELSE LetterOf(outbox[i])
    <2>1. PICK o \in OutboxRow : o = outbox[i] BY <1>2
    <2>2. CASE o.channel = c
      <3>1. PICK n : n = [o EXCEPT !.status = "deleted", !.due = FALSE] OBVIOUS
      <3>2. /\ n.status = "deleted" /\ n.channel = o.channel /\ n.key = o.key
            /\ n.attempts = o.attempts
        BY <3>1 DEF OutboxRow
      <3>3. LetterOf(n) = [LetterOf(o) EXCEPT !.state = "deleted"]
        BY <3>2 DEF LetterOf, Waiting
      <3>4. outbox'[i] = n BY <1>1, <2>1, <2>2, <3>1
      <3> QED BY <2>1, <2>2, <3>3, <3>4, LettersAreTyped
    <2>3. CASE o.channel # c BY <1>1, <2>1, <2>3, LettersAreTyped
    <2> QED BY <2>2, <2>3
  <1>4. DOMAIN Letters = DOMAIN outbox /\ \A i \in DOMAIN outbox : Letters[i] = LetterOf(outbox[i])
    BY DEF Letters
  <1>5. Letters' = [i \in DOMAIN outbox |-> LetterOf(outbox'[i])] BY <1>1 DEF Letters, LetterOf
  <1>6. Letters' = [i \in DOMAIN Letters |->
                      IF Letters[i].to = c THEN [Letters[i] EXCEPT !.state = "deleted"]
                      ELSE Letters[i]]
    BY <1>3, <1>4, <1>5
  <1>7. Accepted' = Accepted BY <1>1 DEF Accepted
  <1> QED BY <1>6, <1>7 DEF Promise!Remove

\* A claim shows from outside as little as a renewal or the passing of time.
LEMMA ClaimsDoNotShow ==
    ASSUME AlertsInv, NEW d \in Dispatchers, Drain(d) PROVE UNCHANGED <<Letters, Accepted>>
  <1>1. PICK due : due = {i \in DOMAIN outbox : Claimable(i)} OBVIOUS
  <1>2. PICK batch \in SUBSET due :
          /\ DueAlertDeliveries(batch)
          /\ job' = [job EXCEPT ![d] = [i \in RowIds |-> IF i \in batch THEN "queued" ELSE "none"]]
    BY <1>1 DEF Drain
  <1>3. \A i \in batch : i \in DOMAIN outbox /\ outbox[i].status \in Waiting
    BY <1>1 DEF Claimable, Waiting
  <1>4. \A i \in DOMAIN outbox : outbox[i] \in OutboxRow BY DEF AlertsInv, OutboxInv, OutboxShape
  <1>5. DOMAIN outbox' = DOMAIN outbox /\
        \A i \in DOMAIN outbox :
           IF i \in batch THEN outbox'[i] = [outbox[i] EXCEPT !.status = "sending", !.due = FALSE]
           ELSE outbox'[i] = outbox[i]
    BY <1>2 DEF DueAlertDeliveries
  <1>6. ASSUME NEW i \in batch PROVE LetterOf(outbox'[i]) = LetterOf(outbox[i])
    <2>1. PICK o \in OutboxRow : o = outbox[i] BY <1>3, <1>4
    <2>2. PICK n : n = [o EXCEPT !.status = "sending", !.due = FALSE] OBVIOUS
    <2>3. /\ n.status = "sending" /\ n.channel = o.channel /\ n.key = o.key
          /\ n.attempts = o.attempts
      BY <2>2 DEF OutboxRow
    <2>4. outbox'[i] = n /\ o.status \in Waiting BY <1>3, <1>5, <2>1, <2>2
    <2> QED BY <2>1, <2>3, <2>4 DEF LetterOf, Waiting
  <1>7. Letters' = Letters BY <1>5, <1>6, LettersStay
  <1>8. \A e \in Dispatchers : \A i \in RowIds : job'[e][i] = "sent" <=> job[e][i] = "sent"
    <2>1. \A i \in RowIds : job[d][i] = "none" BY DEF Drain, NoJob
    <2> QED BY <1>2, <2>1 DEF AlertsInv, LeaseInv, JobShape
  <1>9. Accepted' = Accepted BY <1>8 DEF Accepted
  <1> QED BY <1>7, <1>9

\* A row that changes only when it is due or how old it is.
LEMMA ClockDoesNotShow ==
    ASSUME AlertsInv, NEW i \in DOMAIN outbox, NEW r,
           \/ \E t : r = [outbox[i] EXCEPT !.due = t]
           \/ \E t : r = [outbox[i] EXCEPT !.recent = t],
           outbox' = [outbox EXCEPT ![i] = r]
    PROVE  Letters' = Letters
  <1>1. PICK o \in OutboxRow : o = outbox[i] BY DEF AlertsInv, OutboxInv, OutboxShape
  <1>2. r.status = o.status /\ r.channel = o.channel /\ r.key = o.key /\ r.attempts = o.attempts
    BY <1>1 DEF OutboxRow
  <1>3. LetterOf(r) = LetterOf(outbox[i]) BY <1>1, <1>2 DEF LetterOf
  <1>4. DOMAIN outbox' = DOMAIN outbox /\ outbox'[i] = r
        /\ \A j \in DOMAIN outbox \ {i} : outbox'[j] = outbox[j]
    BY DEF AlertsInv, OutboxInv, OutboxShape
  <1> QED BY <1>3, <1>4, LettersStay

\* SetAlertDeliveryResult: the result of the dispatcher counts as long as the
\* row waits for one; then it is the delivery, or one more failed try.
LEMMA ResultShows ==
    ASSUME AlertsInv, NEW d \in Dispatchers, NEW i \in DOMAIN outbox, SetAlertDeliveryResult(d, i)
    PROVE  Promise!Deliver(i) \/ Promise!Miss(i) \/ Promise!Forget
  <1>1. job[d][i] \in {"sent", "failed"} /\ job' = [job EXCEPT ![d][i] = "none"]
    BY DEF SetAlertDeliveryResult
  <1>2. i \in RowIds BY RowsHaveIds DEF AlertsInv, OutboxInv
  <1>3. JobShape BY DEF AlertsInv, LeaseInv
  <1>4. /\ Accepted' \in {Accepted, Accepted \ {i}}
        /\ job[d][i] # "sent" => Accepted' = Accepted
    <2>1. PICK v : v = "none" OBVIOUS
    <2>2. v # "sent" /\ job' = [job EXCEPT ![d][i] = v] BY <1>1, <2>1
    <2> QED BY <1>2, <1>3, <2>2, OneAccepted
  <1>5. CASE outbox[i].status # "sending"
    <2>1. outbox' = outbox BY <1>5 DEF SetAlertDeliveryResult
    <2>2. Letters' = Letters BY <2>1, LettersStay
    <2> QED BY <1>4, <2>2 DEF Promise!Forget
  <1>6. CASE outbox[i].status = "sending"
    <2>1. PICK o \in OutboxRow : o = outbox[i] BY DEF AlertsInv, OutboxInv, OutboxShape
    <2>2. PICK r : r = AfterResult(o, job[d][i] = "sent") OBVIOUS
    <2>3. outbox' = [outbox EXCEPT ![i] = r] BY <1>6, <2>1, <2>2 DEF SetAlertDeliveryResult
    <2>4. DOMAIN outbox' = DOMAIN outbox /\ outbox'[i] = r
          /\ \A j \in DOMAIN outbox \ {i} : outbox'[j] = outbox[j]
      BY <2>3 DEF AlertsInv, OutboxInv, OutboxShape
    <2>5. Letters' = [Letters EXCEPT ![i] = LetterOf(r)]
      <3>1. Letters' = [j \in DOMAIN outbox |-> LetterOf(outbox'[j])] BY <2>4 DEF Letters, LetterOf
      <3>2. DOMAIN Letters = DOMAIN outbox /\ \A j \in DOMAIN outbox : Letters[j] = LetterOf(outbox[j])
        BY DEF Letters
      <3>3. Letters = [j \in DOMAIN outbox |-> LetterOf(outbox[j])] BY DEF Letters
      <3> QED BY <2>4, <3>1, <3>2, <3>3
    <2>6. Letters[i] = LetterOf(o) /\ Letters[i].state = "waiting" /\ Letters[i].tries = o.attempts
      BY <1>6, <2>1, LettersAreTyped DEF Letters, Waiting
    <2>7. CASE job[d][i] = "sent"
      <3>1. r = [o EXCEPT !.status = "sent"] BY <2>2, <2>7 DEF AfterResult
      <3>2. /\ r.status = "sent" /\ r.channel = o.channel /\ r.key = o.key
            /\ r.attempts = o.attempts
        BY <3>1 DEF OutboxRow
      <3>3. LetterOf(r) = [LetterOf(o) EXCEPT !.state = "sent"] BY <3>2 DEF LetterOf, Waiting
      <3>4. i \in Accepted BY <1>2, <2>7 DEF Accepted
      <3> QED BY <1>4, <2>5, <2>6, <3>3, <3>4 DEF Promise!Deliver
    <2>8. CASE job[d][i] # "sent"
      <3>1. PICK st : st = IF o.attempts + 1 >= MaxAttempts THEN "failed" ELSE "pending" OBVIOUS
      <3>2. PICK at : at = o.attempts + 1 OBVIOUS
      <3>3. r = [o EXCEPT !.attempts = at, !.status = st] BY <2>2, <2>8, <3>1, <3>2 DEF AfterResult
      <3>4. r.attempts = at /\ r.status = st /\ r.channel = o.channel /\ r.key = o.key
        BY <3>3 DEF OutboxRow
      <3>5. PICK ls : ls = IF o.attempts + 1 >= MaxAttempts THEN "failed" ELSE "waiting" OBVIOUS
      <3>6. (IF st \in Waiting THEN "waiting" ELSE st) = ls BY <3>1, <3>5 DEF Waiting
      <3>7. LetterOf(r) = [to |-> o.channel, about |-> o.key, tries |-> at, state |-> ls]
        BY <3>4, <3>6 DEF LetterOf
      <3>8. LetterOf(r) = [LetterOf(o) EXCEPT !.tries = at, !.state = ls]
        <4>1. PICK so : so = IF o.status \in Waiting THEN "waiting" ELSE o.status OBVIOUS
        <4>2. PICK c, k, a : c = o.channel /\ k = o.key /\ a = o.attempts OBVIOUS
        <4>3. LetterOf(o) = [to |-> c, about |-> k, tries |-> a, state |-> so]
          BY <4>1, <4>2 DEF LetterOf
        <4>4. LetterOf(r) = [to |-> c, about |-> k, tries |-> at, state |-> ls] BY <3>7, <4>2
        <4>5. [[to |-> c, about |-> k, tries |-> a, state |-> so] EXCEPT !.tries = at, !.state = ls]
              = [to |-> c, about |-> k, tries |-> at, state |-> ls]
          <5>1. [[to |-> c, about |-> k, tries |-> a, state |-> so] EXCEPT !.tries = at]
                = [to |-> c, about |-> k, tries |-> at, state |-> so]
            OBVIOUS
          <5>2. [[to |-> c, about |-> k, tries |-> at, state |-> so] EXCEPT !.state = ls]
                = [to |-> c, about |-> k, tries |-> at, state |-> ls]
            OBVIOUS
          <5> QED BY <5>1, <5>2
        <4> QED BY <4>3, <4>4, <4>5
      <3> QED BY <1>4, <2>5, <2>6, <2>8, <3>2, <3>5, <3>8 DEF Promise!Miss
    <2> QED BY <2>7, <2>8
  <1> QED BY <1>5, <1>6

\* The other steps of a dispatcher.
LEMMA DispatcherShows ==
    ASSUME AlertsInv, NEW d \in Dispatchers, NEW i \in DOMAIN outbox,
           deliver(d, i) \/ Send(d, i) \/ RecordFails(d, i)
    PROVE  UNCHANGED <<Letters, Accepted>> \/ Promise!Accept(i) \/ Promise!Forget
  <1>1. i \in RowIds BY RowsHaveIds DEF AlertsInv, OutboxInv
  <1>2. JobShape BY DEF AlertsInv, LeaseInv
  <1>3. CASE deliver(d, i)
    <2>1. PICK v \in {"sending", "none", "failed"} : job' = [job EXCEPT ![d][i] = v]
      BY <1>3 DEF deliver
    <2>2. job[d][i] # "sent" BY <1>3 DEF deliver
    <2>3. Accepted' = Accepted BY <1>1, <1>2, <2>1, <2>2, OneAccepted
    <2>4. CASE outbox' = outbox BY <2>3, <2>4, LettersStay
    <2>5. CASE outbox' = [outbox EXCEPT ![i].due = FALSE]
      <3>1. PICK r : r = [outbox[i] EXCEPT !.due = FALSE] OBVIOUS
      <3>2. outbox' = [outbox EXCEPT ![i] = r] BY <2>5, <3>1
      <3>3. Letters' = Letters BY <3>1, <3>2, ClockDoesNotShow
      <3> QED BY <2>3, <3>3
    <2> QED BY <1>3, <2>4, <2>5 DEF deliver
  <1>4. CASE Send(d, i)
    <2>1. PICK v \in {"sent", "failed"} : job' = [job EXCEPT ![d][i] = v] BY <1>4 DEF Send
    <2>2. job[d][i] # "sent" /\ outbox' = outbox BY <1>4 DEF Send
    <2>3. Letters' = Letters BY <2>2, LettersStay
    <2>4. v = "sent" => Accepted' = Accepted \cup {i} BY <1>1, <1>2, <2>1, OneAccepted
    <2>5. v # "sent" => Accepted' = Accepted BY <1>1, <1>2, <2>1, <2>2, OneAccepted
    <2> QED BY <2>3, <2>4, <2>5 DEF Promise!Accept
  <1>5. CASE RecordFails(d, i)
    <2>1. outbox' = outbox /\ job' = [job EXCEPT ![d][i] = "none"] BY <1>5 DEF RecordFails
    <2>2. PICK v : v = "none" OBVIOUS
    <2>3. v # "sent" /\ job' = [job EXCEPT ![d][i] = v] BY <2>1, <2>2
    <2>4. Accepted' \in {Accepted, Accepted \ {i}} BY <1>1, <1>2, <2>3, OneAccepted
    <2>5. Accepted' \in SUBSET Accepted BY <2>4
    <2> QED BY <2>1, <2>5, LettersStay DEF Promise!Forget
  <1> QED BY <1>3, <1>4, <1>5

\* What a dispatcher had heard dies with it.
LEMMA DeathForgets ==
    ASSUME AlertsInv, NEW d \in Dispatchers, DispatcherDies(d) PROVE Promise!Forget
  <1>1. outbox' = outbox /\ job' = [job EXCEPT ![d] = NoJob] BY DEF DispatcherDies
  <1>2. \A e \in Dispatchers : \A i \in RowIds : job'[e][i] = "sent" => job[e][i] = "sent"
    BY <1>1 DEF AlertsInv, LeaseInv, JobShape, NoJob
  <1>3. Accepted' \in SUBSET Accepted BY <1>2 DEF Accepted
  <1> QED BY <1>1, <1>3, LettersStay DEF Promise!Forget

\* Every step of the alerts is one of the outbox, or does not show.
LEMMA OutboxStep ==
    ASSUME AlertsInv, AlertsNext PROVE Promise!OutboxNext \/ UNCHANGED <<Letters, Accepted>>
  <1>1. DOMAIN Letters = DOMAIN outbox BY DEF Letters
  <1>2. CASE outbox' = outbox /\ job' = job BY <1>2, LettersStay DEF Accepted
  <1>3. ASSUME NEW c \in Channels,
               \/ CreateAlertChannel(c) \/ DeleteAlertChannel(c)
               \/ \E ev \in SUBSET {Event[k] : k \in Keys} : SetAlertRules(c, ev)
        PROVE  Promise!OutboxNext \/ UNCHANGED <<Letters, Accepted>>
    BY <1>2, <1>3, DeleteRemoves DEF CreateAlertChannel, SetAlertRules, Promise!OutboxNext
  <1>4. ASSUME NEW p \in Producers,
               \/ \E keys \in KeySeqs : BeginProducer(p, keys)
               \/ enqueueAlertTx(p) \/ CommitProducer(p) \/ RollbackProducer(p)
        PROVE  Promise!OutboxNext \/ UNCHANGED <<Letters, Accepted>>
    BY <1>2, <1>4, CommitPosts
       DEF BeginProducer, enqueueAlertTx, RollbackProducer, Promise!OutboxNext
  <1>5. ASSUME NEW d \in Dispatchers, Drain(d) \/ DispatcherDies(d)
        PROVE  Promise!OutboxNext \/ UNCHANGED <<Letters, Accepted>>
    BY <1>5, ClaimsDoNotShow, DeathForgets DEF Promise!OutboxNext
  <1>6. ASSUME NEW d \in Dispatchers, NEW i \in DOMAIN outbox,
               deliver(d, i) \/ Send(d, i) \/ SetAlertDeliveryResult(d, i) \/ RecordFails(d, i)
        PROVE  Promise!OutboxNext \/ UNCHANGED <<Letters, Accepted>>
    BY <1>1, <1>6, DispatcherShows, ResultShows DEF Promise!OutboxNext
  <1>7. ASSUME NEW i \in RowIds, NextAttemptDue(i) \/ WindowPasses(i)
        PROVE  UNCHANGED <<Letters, Accepted>>
    <2>1. i \in DOMAIN outbox /\ job' = job BY <1>7 DEF NextAttemptDue, WindowPasses
    <2>2. PICK r : /\ outbox' = [outbox EXCEPT ![i] = r]
                   /\ \/ \E t : r = [outbox[i] EXCEPT !.due = t]
                      \/ \E t : r = [outbox[i] EXCEPT !.recent = t]
      BY <1>7 DEF NextAttemptDue, WindowPasses
    <2>3. Letters' = Letters BY <2>1, <2>2, ClockDoesNotShow
    <2> QED BY <2>1, <2>3 DEF Accepted
  <1> QED BY <1>3, <1>4, <1>5, <1>6, <1>7 DEF AlertsNext, Dispatch, TimePasses

\* DueAlertDeliveries, RenewAlertDeliveryLease, SetAlertDeliveryResult: with any
\* number of dispatchers that stall, die and report late, alerts are an outbox: a
\* row counts as sent only after a send was accepted, a recorded failure takes
\* one try, and how a row ended never changes.
THEOREM AlertsAreAnOutboxCorrect == AlertsSpec => AlertsAreAnOutbox
  <1>1. AlertsInit => Promise!OutboxInit
    <2> SUFFICES ASSUME AlertsInit PROVE Promise!OutboxInit OBVIOUS
    <2>1. Letters = [s \in {} |-> s] BY DEF AlertsInit, Letters
    <2>2. Accepted = {} BY DEF AlertsInit, Accepted, NoJob
    <2> QED BY <2>1, <2>2 DEF Promise!OutboxInit
  <1>2. AlertsInv /\ [AlertsNext]_alertsVars => [Promise!OutboxNext]_(Promise!outboxVars)
    <2> SUFFICES ASSUME AlertsInv, [AlertsNext]_alertsVars
                 PROVE  Promise!OutboxNext \/ UNCHANGED <<Letters, Accepted>>
      BY DEF Promise!outboxVars
    <2>1. CASE UNCHANGED alertsVars BY <2>1, LettersStay DEF alertsVars, Accepted
    <2> QED BY <2>1, OutboxStep
  <1> QED BY <1>1, <1>2, AlertsInductive, PTL
          DEF AlertsSpec, AlertsAreAnOutbox, Promise!OutboxSpec

(***************************************************************************)
(* Paddle's events.  Each has its own time, and the row never goes back in *)
(* time, so that what a transaction read of it is not newer than the row   *)
(* it finds at the end.  A transaction that found no row locked nothing:   *)
(* the guard of its update is what keeps it from undoing another one.      *)
(***************************************************************************)

IsRow(r) == r = [exists |-> r.exists, sub |-> r.sub, customer |-> r.customer, status |-> r.status,
                 quantity |-> r.quantity, at |-> r.at, overGrace |-> r.overGrace,
                 dunned |-> r.dunned, synced |-> r.synced, justSynced |-> r.justSynced]

EventsInv ==
    /\ paddleClock \in Nat
    /\ \A e \in sent : e.time \in Nat /\ e.time <= paddleClock
    /\ \A e, f \in sent : e.time = f.time => e = f

RowInv ==
    /\ IsRow(row) /\ row.exists \in BOOLEAN /\ row.at \in Nat
    /\ webhooks \subseteq sent
    /\ \A d \in inTx : d.e \in sent /\ d.at \in Nat /\ d.at <= row.at
    /\ ~row.exists => row.at = 0 /\ webhooks = {}
    /\ NewestEventWins

BillingInv == EventsInv /\ RowInv

\* What the invariant says of the row.
SameSubscription(r) ==
    IsRow(r) /\ r.exists = row.exists /\ r.at = row.at /\ r.status = row.status /\ r.sub = row.sub

\* A step that leaves deliveries alone, and of the row what came from Paddle.
LEMMA RowKept ==
    ASSUME BillingInv, SameSubscription(row'), UNCHANGED <<webhooks, inTx>>, sent \subseteq sent',
           EventsInv'
    PROVE  BillingInv'
  BY DEF BillingInv, RowInv, NewestEventWins, SameSubscription

LEMMA RowFieldsKept ==
    ASSUME RowInv
    PROVE  /\ SameSubscription(row)
           /\ \A q, x : SameSubscription([row EXCEPT !.synced = q, !.justSynced = x])
           /\ \A x : SameSubscription([row EXCEPT !.justSynced = x])
           /\ \A x : SameSubscription([row EXCEPT !.overGrace = x])
           /\ \A x : SameSubscription([row EXCEPT !.dunned = x])
  <1> USE DEF RowInv, SameSubscription, IsRow
  <1>1. SameSubscription(row) OBVIOUS
  <1>2. ASSUME NEW q, NEW x PROVE SameSubscription([row EXCEPT !.synced = q, !.justSynced = x])
    <2>1. PICK m : m = [row EXCEPT !.synced = q] OBVIOUS
    <2>2. SameSubscription(m) BY <2>1
    <2>3. PICK n : n = [m EXCEPT !.justSynced = x] OBVIOUS
    <2>4. SameSubscription(n) BY <2>2, <2>3
    <2>5. n = [row EXCEPT !.synced = q, !.justSynced = x] BY <2>1, <2>3
    <2> QED BY <2>4, <2>5
  <1>3. ASSUME NEW x PROVE SameSubscription([row EXCEPT !.justSynced = x]) OBVIOUS
  <1>4. ASSUME NEW x PROVE SameSubscription([row EXCEPT !.overGrace = x]) OBVIOUS
  <1>5. ASSUME NEW x PROVE SameSubscription([row EXCEPT !.dunned = x]) OBVIOUS
  <1> QED BY <1>1, <1>2, <1>3, <1>4, <1>5

\* Announce: an event has a time of its own.
LEMMA AnnounceKeepsEvents ==
    ASSUME EventsInv, NEW s, NEW st, NEW q, NEW o, Announce(s, st, q, o)
    PROVE  EventsInv' /\ sent \subseteq sent'
  <1>1. PICK n : n = [time |-> paddleClock + 1, sub |-> s, status |-> st, quantity |-> q,
                      org |-> o, customer |-> paddle[s].customer] OBVIOUS
  <1>2. sent' = sent \cup {n} /\ n.time = paddleClock + 1 /\ paddleClock' = paddleClock + 1
    BY <1>1 DEF Announce
  <1> QED BY <1>2 DEF EventsInv

\* upsertSubscriptionTx: an event is applied unless the row has a newer one.
LEMMA UpsertKeepsNewest ==
    ASSUME BillingInv, NEW e \in sent, ApplyPaddleWebhook(e) PROVE BillingInv'
  <1>1. PICK d \in inTx : d.e = e /\ row' = upsertSubscription(d)
                          /\ webhooks' = webhooks \cup {d.e} /\ inTx' = inTx \ {d}
    BY DEF ApplyPaddleWebhook
  <1>2. UNCHANGED <<sent, paddleClock>> BY DEF ApplyPaddleWebhook
  <1>3. EventsInv' BY <1>2 DEF BillingInv, EventsInv
  <1>4. e.time \in Nat /\ row.at \in Nat /\ d.at \in Nat /\ d.at <= row.at
    BY <1>1 DEF BillingInv, EventsInv, RowInv
  <1>5. CASE (d.at # 0 /\ e.time < d.at) \/ ~ConflictGuard(e)
    <2>1. row' = row BY <1>1, <1>5 DEF upsertSubscription
    <2>2. e.time < row.at BY <1>4, <1>5 DEF ConflictGuard
    <2>3. row.exists BY <1>4, <2>2 DEF BillingInv, RowInv
    <2> QED BY <1>1, <1>2, <1>3, <1>4, <2>1, <2>2, <2>3 DEF BillingInv, RowInv, NewestEventWins
  <1>6. CASE ~((d.at # 0 /\ e.time < d.at) \/ ~ConflictGuard(e))
    <2>1. \E og, dn : row' = [row EXCEPT !.exists = TRUE, !.sub = e.sub, !.customer = e.customer,
                                !.status = e.status, !.quantity = e.quantity, !.at = e.time,
                                !.overGrace = og, !.dunned = dn]
      BY <1>1, <1>6 DEF upsertSubscription
    <2>2. IsRow(row') /\ row'.exists = TRUE /\ row'.at = e.time /\ row'.status = e.status
          /\ row'.sub = e.sub
      BY <2>1 DEF BillingInv, RowInv, IsRow
    <2>3. row.at <= e.time BY <1>4, <1>6 DEF ConflictGuard, BillingInv, RowInv
    <2>4. \A f \in webhooks : f \in sent /\ f.time \in Nat /\ f.time <= e.time /\ (f.time = e.time => f = e)
      BY <1>4, <2>3 DEF BillingInv, RowInv, EventsInv, NewestEventWins
    <2>5. NewestEventWins' BY <1>1, <1>4, <2>2, <2>4 DEF NewestEventWins
    <2>6. \A c \in inTx' : c.e \in sent /\ c.at \in Nat /\ c.at <= e.time
      BY <1>1, <1>4, <2>3 DEF BillingInv, RowInv
    <2> QED BY <1>1, <1>2, <1>3, <1>4, <2>2, <2>5, <2>6 DEF BillingInv, RowInv
  <1> QED BY <1>5, <1>6

\* A transaction that opens has read the row as it is.
LEMMA WebhooksKeepNewest ==
    ASSUME BillingInv, NEW e \in sent,
           handlePaddleWebhook(e) \/ IgnoreWebhook(e) \/ RollbackWebhook
    PROVE  BillingInv'
  <1>1. UNCHANGED <<sent, paddleClock, row, webhooks>>
    BY DEF handlePaddleWebhook, IgnoreWebhook, RollbackWebhook
  <1>2. EventsInv' BY <1>1 DEF BillingInv, EventsInv
  <1>3. \A d \in inTx' : d.e \in sent /\ d.at \in Nat /\ d.at <= row.at
    <2>1. CASE inTx' \subseteq inTx BY <2>1 DEF BillingInv, RowInv
    <2>2. CASE handlePaddleWebhook(e)
      <3>1. PICK n : n = [e |-> e, locked |-> row.exists, at |-> row.at, status |-> row.status] OBVIOUS
      <3>2. inTx' = inTx \cup {n} /\ n.e = e /\ n.at = row.at BY <2>2, <3>1 DEF handlePaddleWebhook
      <3> QED BY <3>2 DEF BillingInv, RowInv
    <2> QED BY <2>1, <2>2 DEF IgnoreWebhook, RollbackWebhook
  <1> QED BY <1>1, <1>2, <1>3 DEF BillingInv, RowInv, NewestEventWins

\* The fleet, the meter, checkout and dunning do not touch what Paddle said.
LEMMA OthersKeepNewest ==
    ASSUME BillingInv,
           \/ \E h \in Hosts, t \in HostTypes : BeginServer(h, t)
           \/ \E h \in Hosts : InsertServer(h) \/ FleetChanges(h)
           \/ SweepServerHours \/ HourExpires
           \/ \E s \in Subs : handleBillingCheckout(s)
           \/ DebounceEnds \/ GraceEnds \/ DunningIntervalEnds \/ ReadDunning \/ SweepBillingDunning
    PROVE  BillingInv'
  <1>1. UNCHANGED <<sent, paddleClock, webhooks, inTx>>
    BY DEF BeginServer, InsertServer, FleetChanges, SweepServerHours, HourExpires, subVars,
           handleBillingCheckout, DebounceEnds, GraceEnds, DunningIntervalEnds, ReadDunning,
           SweepBillingDunning
  <1>2. \/ row' = row
        \/ \E x : row' = [row EXCEPT !.justSynced = x]
        \/ \E x : row' = [row EXCEPT !.overGrace = x]
        \/ \E x : row' = [row EXCEPT !.dunned = x]
    BY DEF BeginServer, InsertServer, FleetChanges, SweepServerHours, HourExpires, subVars,
           handleBillingCheckout, DebounceEnds, GraceEnds, DunningIntervalEnds, ReadDunning,
           SweepBillingDunning
  <1>3. SameSubscription(row') BY <1>2, RowFieldsKept DEF BillingInv
  <1>4. EventsInv' BY <1>1 DEF BillingInv, EventsInv
  <1> QED BY <1>1, <1>3, <1>4, RowKept

LEMMA PaddleKeepsNewest ==
    ASSUME BillingInv, (\E s \in Subs : PaddleChanges(s)) \/ SyncQuantity PROVE BillingInv'
  <1>1. CASE \E s \in Subs : PaddleChanges(s)
    <2>1. PICK s \in Subs : PaddleChanges(s) BY <1>1
    <2>2. UNCHANGED <<webhooks, inTx, row>> BY <2>1 DEF PaddleChanges
    <2>3. \E st, q, o : Announce(s, st, q, o) BY <2>1 DEF PaddleChanges
    <2>4. EventsInv' /\ sent \subseteq sent' BY <2>3, AnnounceKeepsEvents DEF BillingInv
    <2>5. SameSubscription(row') BY <2>2, RowFieldsKept DEF BillingInv
    <2> QED BY <2>2, <2>4, <2>5, RowKept
  <1>2. CASE SyncQuantity
    <2>1. UNCHANGED <<webhooks, inTx>> BY <1>2 DEF SyncQuantity
    <2>2. row' = row \/ \E q, x : row' = [row EXCEPT !.synced = q, !.justSynced = x]
      BY <1>2 DEF SyncQuantity, RecordQuantitySynced
    <2>3. UNCHANGED <<sent, paddleClock>> \/ \E s, st, q, o : Announce(s, st, q, o)
      BY <1>2 DEF SyncQuantity
    <2>4. EventsInv' /\ sent \subseteq sent'
      <3>1. CASE UNCHANGED <<sent, paddleClock>> BY <3>1 DEF BillingInv, EventsInv
      <3>2. CASE \E s, st, q, o : Announce(s, st, q, o) BY <3>2, AnnounceKeepsEvents DEF BillingInv
      <3> QED BY <2>3, <3>1, <3>2
    <2>5. SameSubscription(row')
      <3>1. RowInv BY DEF BillingInv
      <3>2. CASE row' = row BY <3>1, <3>2, RowFieldsKept
      <3>3. CASE \E q, x : row' = [row EXCEPT !.synced = q, !.justSynced = x]
        <4>1. PICK q, x : row' = [row EXCEPT !.synced = q, !.justSynced = x] BY <3>3
        <4>2. SameSubscription([row EXCEPT !.synced = q, !.justSynced = x]) BY <3>1, RowFieldsKept
        <4> QED BY <4>1, <4>2
      <3> QED BY <2>2, <3>2, <3>3
    <2> QED BY <2>1, <2>4, <2>5, RowKept
  <1> QED BY <1>1, <1>2

\* upsertSubscriptionTx: in whatever order Paddle's events come, and however
\* their transactions cross, fail and repeat, the row holds the newest of the
\* events that were applied.
THEOREM NewestEventWinsCorrect == BillingSpec => []NewestEventWins
  <1>1. BillingInit => BillingInv
    BY DEF BillingInit, BillingInv, EventsInv, RowInv, NewestEventWins, IsRow, NoRow
  <1>2. BillingInv /\ [BillingNext]_billingVars => BillingInv'
    <2> SUFFICES ASSUME BillingInv, [BillingNext]_billingVars PROVE BillingInv' OBVIOUS
    <2>1. CASE UNCHANGED billingVars
      BY <2>1 DEF billingVars, BillingInv, EventsInv, RowInv, NewestEventWins
    <2>2. CASE RollbackWebhook
      <3>1. inTx # {} BY <2>2 DEF RollbackWebhook
      <3>2. PICK e : e \in sent BY <3>1 DEF BillingInv, RowInv
      <3> QED BY <2>2, <3>2, WebhooksKeepNewest
    <2>3. CASE PaddleDelivers \/ WebhookCommits
      BY <2>3, WebhooksKeepNewest, UpsertKeepsNewest DEF PaddleDelivers, WebhookCommits
    <2> QED BY <2>1, <2>2, <2>3, OthersKeepNewest, PaddleKeepsNewest DEF BillingNext
  <1>3. BillingInv => NewestEventWins BY DEF BillingInv, RowInv
  <1> QED BY <1>1, <1>2, <1>3, PTL DEF BillingSpec

(***************************************************************************)
(* Object storage.  The row of a bucket and its open operations: a bucket  *)
(* waits for a create that is still open, for every way to settle that     *)
(* create takes the row out of its waiting.                                *)
(***************************************************************************)

S3Op == [action : {"create-bucket", "delete-bucket", "set-quota", "create-key", "measure"},
         arg : Nat, state : {"open", "applied", "failed"}]
S3Post == [op : S3OpIds, ok : BOOLEAN]

BucketShape == bucket \in [status : {"none", "provisioning", "active", "failed", "deleting"},
                           quota : Nat, key : Nat]
S3OpsShape == s3ops \in Seq(S3Op)
S3AgentShape ==
    /\ s3doc \subseteq S3OpIds
    /\ s3agent \in [seen : SUBSET S3OpIds, todo : SUBSET S3OpIds, running : S3OpIds \cup {0},
                    failed : SUBSET S3OpIds, waits : SUBSET S3Post]
    /\ posts \subseteq S3Post /\ s3faults \in 0..MaxS3Faults

BucketsInv == BucketShape /\ S3OpsShape /\ S3AgentShape /\ NoBucketStuck

\* The first number of a set of numbers.
LEMMA FirstOf ==
    ASSUME NEW S \in SUBSET Nat, S # {}
    PROVE  \E m \in S : \A k \in S : m <= k
  <1>1. PICK m \in S : \A k \in S : ~ (<<k, m>> \in OpToRel(<, Nat))
    BY NatLessThanWellFounded, WFMin, Zenon
  <1>2. \A k \in S : ~ (k < m) BY <1>1 DEF OpToRel
  <1> QED BY <1>2

\* What is typed by the numbers of the ops is so with more of them.
LEMMA MoreOps ==
    ASSUME S3AgentShape, S3OpsShape, S3OpsShape', Len(s3ops) <= Len(s3ops'),
           UNCHANGED <<s3doc, s3agent, posts, s3faults>>
    PROVE  S3AgentShape'
  <1>1. S3OpIds \subseteq S3OpIds' BY DEF S3OpIds, S3OpsShape
  <1>2. S3Post \subseteq S3Post' BY <1>1 DEF S3Post
  <1> QED BY <1>1, <1>2 DEF S3AgentShape

\* The dashboard: a new op is open; only a create waits.
LEMMA DashboardKeepsBuckets ==
    ASSUME BucketsInv, NEW a \in {"create-bucket", "delete-bucket", "set-quota", "create-key", "measure"},
           NEW x \in Nat, insertPendingS3Op(a, x), BucketShape',
           bucket'.status = "provisioning" => bucket.status = "provisioning" \/ a = "create-bucket",
           UNCHANGED <<s3doc, s3agent, posts, s3faults>>
    PROVE  BucketsInv'
  <1>1. PICK o : o = [action |-> a, arg |-> x, state |-> "open"] OBVIOUS
  <1>2. s3ops' = Append(s3ops, o) BY <1>1 DEF insertPendingS3Op
  <1>3. o \in S3Op /\ o.action = a /\ o.state = "open" BY <1>1 DEF S3Op
  <1>4. s3ops \in Seq(S3Op) BY DEF BucketsInv, S3OpsShape
  <1>5. /\ s3ops' \in Seq(S3Op) /\ Len(s3ops') = Len(s3ops) + 1 /\ Len(s3ops) \in Nat
        /\ \A i \in 1..Len(s3ops) : s3ops'[i] = s3ops[i]
        /\ s3ops'[Len(s3ops) + 1] = o
    BY <1>2, <1>3, <1>4
  <1>6. S3AgentShape' BY <1>4, <1>5, MoreOps DEF BucketsInv, S3OpsShape
  <1>7. NoBucketStuck'
    <2> SUFFICES ASSUME bucket'.status = "provisioning"
                 PROVE  \E i \in S3OpIds' : s3ops'[i].state = "open" /\ s3ops'[i].action = "create-bucket"
      BY DEF NoBucketStuck, OpenS3
    <2>1. CASE a = "create-bucket" BY <1>3, <1>5, <2>1 DEF S3OpIds
    <2>2. CASE a # "create-bucket"
      <3>1. PICK i \in S3OpIds : OpenS3(i) /\ s3ops[i].action = "create-bucket"
        BY <2>2 DEF BucketsInv, NoBucketStuck
      <3>2. i \in S3OpIds' /\ s3ops'[i] = s3ops[i] BY <1>5 DEF S3OpIds
      <3> QED BY <3>1, <3>2 DEF OpenS3
    <2> QED BY <2>1, <2>2
  <1> QED BY <1>5, <1>6, <1>7 DEF BucketsInv, S3OpsShape

LEMMA EditsKeepBuckets ==
    ASSUME BucketsInv,
           \/ CreateBucket \/ DeleteBucket \/ (\E q \in Quotas : SetBucketQuota(q))
           \/ CreateBucketKey \/ SweepS3Measure
    PROVE  BucketsInv'
  <1> USE BucketsAssumption DEF BucketsInv, BucketShape
  <1>1. CASE CreateBucket
    BY <1>1, DashboardKeepsBuckets DEF CreateBucket, NoBucket
  <1>2. CASE DeleteBucket
    BY <1>2, DashboardKeepsBuckets DEF DeleteBucket
  <1>3. CASE \E q \in Quotas : SetBucketQuota(q)
    <2>1. PICK q \in Quotas : SetBucketQuota(q) BY <1>3
    <2>2. q \in Nat OBVIOUS
    <2> QED BY <2>1, <2>2, DashboardKeepsBuckets DEF SetBucketQuota
  <1>4. CASE CreateBucketKey
    <2>1. Len(s3ops) + 1 \in Nat BY DEF S3OpsShape
    <2> QED BY <1>4, <2>1, DashboardKeepsBuckets DEF CreateBucketKey
  <1>5. CASE SweepS3Measure
    BY <1>5, DashboardKeepsBuckets DEF SweepS3Measure
  <1> QED BY <1>1, <1>2, <1>3, <1>4, <1>5

\* The reconciler and the agent leave rows and ops alone.
LEMMA AgentKeepsBuckets ==
    ASSUME BucketsInv,
           \/ renderS3ConfigureOps \/ TakeS3Doc \/ SkipS3Ops \/ S3OpCredentialForOp \/ opConfigure
           \/ PostS3DocStatus \/ GiveUpPost
    PROVE  BucketsInv'
  <1>1. UNCHANGED <<bucket, s3ops>>
    BY DEF renderS3ConfigureOps, TakeS3Doc, SkipS3Ops, S3OpCredentialForOp, opConfigure,
           PostS3DocStatus, GiveUpPost, storeS3
  <1>2. BucketShape' /\ S3OpsShape' /\ NoBucketStuck'
    BY <1>1 DEF BucketsInv, BucketShape, S3OpsShape, NoBucketStuck, OpenS3, S3OpIds
  <1>3. S3OpIds' = S3OpIds /\ S3Post' = S3Post BY <1>1 DEF S3OpIds, S3Post
  <1>4. s3agent.todo # {} => NextS3Op \in S3OpIds
    <2>1. s3agent.todo \subseteq S3OpIds /\ S3OpIds \subseteq Nat
      BY DEF BucketsInv, S3AgentShape, S3OpIds, S3OpsShape
    <2>2. s3agent.todo # {} => \E m \in s3agent.todo : \A k \in s3agent.todo : m <= k
      BY <2>1, FirstOf
    <2> QED BY <2>1, <2>2 DEF NextS3Op
  <1>5. S3Fault => s3faults' \in 0..MaxS3Faults
    BY BucketsAssumption DEF S3Fault, BucketsInv, S3AgentShape
  <1>6. S3AgentShape'
    <2> USE DEF BucketsInv, S3AgentShape
    <2>1. CASE renderS3ConfigureOps
      BY <1>3, <2>1 DEF renderS3ConfigureOps, PendingS3OpsForServer
    <2>2. CASE TakeS3Doc BY <1>3, <2>2 DEF TakeS3Doc
    <2>3. CASE SkipS3Ops BY <1>3, <1>5, <2>3 DEF SkipS3Ops
    <2>4. CASE S3OpCredentialForOp
      <3>1. PICK n : n = NextS3Op OBVIOUS
      <3>2. n \in S3OpIds BY <1>4, <2>4, <3>1 DEF S3OpCredentialForOp
      <3>3. UNCHANGED <<s3doc, posts>> BY <2>4 DEF S3OpCredentialForOp
      <3>4. s3faults' \in 0..MaxS3Faults BY <1>5, <2>4 DEF S3OpCredentialForOp
      <3>5. CASE s3agent' = [s3agent EXCEPT !.running = n] BY <1>3, <3>2, <3>3, <3>4, <3>5
      <3>6. CASE s3agent' = DoneS3(n, FALSE)
        <4>1. s3agent' = [s3agent EXCEPT !.todo = s3agent.todo \ {n}, !.running = 0,
                                         !.failed = s3agent.failed]
          BY <3>6 DEF DoneS3
        <4> QED BY <1>3, <3>3, <3>4, <4>1
      <3>7. CASE s3agent' = DoneS3(n, TRUE)
        <4>1. s3agent' = [s3agent EXCEPT !.todo = s3agent.todo \ {n}, !.running = 0,
                                         !.failed = s3agent.failed \cup {n}]
          BY <3>7 DEF DoneS3
        <4> QED BY <1>3, <3>2, <3>3, <3>4, <4>1
      <3> QED BY <2>4, <3>1, <3>5, <3>6, <3>7 DEF S3OpCredentialForOp
    <2>5. CASE opConfigure
      <3>1. PICK i : i = s3agent.running OBVIOUS
      <3>2. i \in S3OpIds BY <2>5, <3>1 DEF opConfigure
      <3>b. PICK b \in BOOLEAN : PostS3(DoneS3(i, ~b), {[op |-> i, ok |-> b]})
        BY <2>5, <3>1 DEF opConfigure
      <3>3. PICK m : m = {[op |-> i, ok |-> b]} /\ PostS3(DoneS3(i, ~b), m)
        BY <3>b
      <3>4. m \subseteq S3Post
        <4>1. PICK x : x = [op |-> i, ok |-> b] OBVIOUS
        <4>2. x \in S3Post BY <3>2, <4>1 DEF S3Post
        <4> QED BY <3>3, <4>1, <4>2
      <3>5. s3faults' \in 0..MaxS3Faults BY <1>5, <2>5 DEF opConfigure
      <3>6. s3doc' = s3doc BY <2>5 DEF opConfigure
      <3> QED BY <1>3, <3>2, <3>3, <3>4, <3>5, <3>6 DEF PostS3, DoneS3
    <2>6. CASE PostS3DocStatus
      <3>1. PICK m : m = {[op |-> i, ok |-> FALSE] : i \in s3agent.failed} OBVIOUS
      <3>2. m \subseteq S3Post
        <4>1. s3agent.failed \subseteq S3OpIds /\ FALSE \in BOOLEAN OBVIOUS
        <4>2. ASSUME NEW i \in s3agent.failed PROVE [op |-> i, ok |-> FALSE] \in S3Post
          BY <4>1, Zenon DEF S3Post
        <4> QED BY <3>1, <4>2, Zenon
      <3> QED BY <1>3, <2>6, <3>1, <3>2 DEF PostS3DocStatus, PostS3
    <2>7. CASE GiveUpPost BY <1>3, <1>5, <2>7 DEF GiveUpPost
    <2> QED BY <2>1, <2>2, <2>3, <2>4, <2>5, <2>6, <2>7
  <1> QED BY <1>2, <1>6 DEF BucketsInv

\* A result: settling the last create a bucket waits for ends its waiting.
LEMMA ResultKeepsBuckets == ASSUME BucketsInv, HandleAgentS3OpStatus PROVE BucketsInv'
  <1>1. PICK m \in posts :
          /\ posts' = posts \ {m} /\ s3agent' = [s3agent EXCEPT !.waits = @ \ {m}]
          /\ \/ OpenS3(m.op) /\ m.ok /\ MarkS3OpApplied(m.op)
             \/ OpenS3(m.op) /\ ~m.ok /\ MarkS3OpFailed(m.op)
             \/ ~OpenS3(m.op) /\ UNCHANGED storeS3
          /\ UNCHANGED <<s3doc, engine, rerun, s3faults>>
    BY DEF HandleAgentS3OpStatus
  <1>2. PICK i \in S3OpIds : i = m.op BY DEF BucketsInv, S3AgentShape, S3Post
  <1>3. CASE UNCHANGED storeS3
    BY <1>1, <1>3 DEF storeS3, BucketsInv, BucketShape, S3OpsShape, S3AgentShape, NoBucketStuck,
       OpenS3, S3OpIds, S3Post
  <1>4. CASE MarkS3OpApplied(i) \/ MarkS3OpFailed(i)
    <2>1. PICK st \in {"applied", "failed"} : s3ops' = [s3ops EXCEPT ![i].state = st]
      BY <1>4 DEF MarkS3OpApplied, MarkS3OpFailed, Settle
    <2>2. s3ops \in Seq(S3Op) BY DEF BucketsInv, S3OpsShape
    <2>3. i \in DOMAIN s3ops /\ s3ops[i] \in S3Op BY <2>2 DEF S3OpIds
    <2>4. PICK o : o = [s3ops[i] EXCEPT !.state = st] OBVIOUS
    <2>5. o \in S3Op /\ o.action = s3ops[i].action BY <2>3, <2>4 DEF S3Op
    <2>6. s3ops' = [s3ops EXCEPT ![i] = o] BY <2>1, <2>4
    <2>7. s3ops' \in Seq(S3Op) /\ Len(s3ops') = Len(s3ops)
          /\ \A j \in S3OpIds \ {i} : s3ops'[j] = s3ops[j]
      BY <2>2, <2>3, <2>5, <2>6 DEF S3OpIds
    <2>8. S3OpIds' = S3OpIds /\ S3Post' = S3Post BY <2>7 DEF S3OpIds, S3Post
    <2>9. S3AgentShape' BY <1>1, <2>8 DEF BucketsInv, S3AgentShape
    <2>10. BucketShape'
      BY <1>4 DEF MarkS3OpApplied, MarkS3OpFailed, BucketsInv, BucketShape, NoBucket
    <2>11. bucket'.status = "provisioning"
           => bucket.status = "provisioning" /\ s3ops[i].action # "create-bucket"
      BY <1>4 DEF MarkS3OpApplied, MarkS3OpFailed, BucketsInv, BucketShape, NoBucket
    <2>12. NoBucketStuck'
      <3> SUFFICES ASSUME bucket'.status = "provisioning"
                   PROVE  \E j \in S3OpIds : s3ops'[j].state = "open" /\ s3ops'[j].action = "create-bucket"
        BY <2>8 DEF NoBucketStuck, OpenS3
      <3>1. PICK j \in S3OpIds : OpenS3(j) /\ s3ops[j].action = "create-bucket"
        BY <2>11 DEF BucketsInv, NoBucketStuck
      <3>2. j # i BY <2>11, <3>1
      <3> QED BY <2>7, <3>1, <3>2 DEF OpenS3
    <2> QED BY <2>7, <2>9, <2>10, <2>12 DEF BucketsInv, S3OpsShape
  <1> QED BY <1>1, <1>2, <1>3, <1>4

LEMMA BucketsInductive == BucketsSpec => []BucketsInv
  <1>1. BucketsInit => BucketsInv
    BY BucketsAssumption DEF BucketsInit, BucketsInv, BucketShape, S3OpsShape, S3AgentShape,
       NoBucketStuck, NoBucket, S3OpIds, S3Post
  <1>2. BucketsInv /\ [BucketsNext]_bucketVars => BucketsInv'
    <2> SUFFICES ASSUME BucketsInv, [BucketsNext]_bucketVars PROVE BucketsInv' OBVIOUS
    <2>1. CASE UNCHANGED bucketVars
      BY <2>1 DEF bucketVars, BucketsInv, BucketShape, S3OpsShape, S3AgentShape, NoBucketStuck,
         OpenS3, S3OpIds, S3Post
    <2>2. CASE BucketsNext
      BY <2>2, EditsKeepBuckets, AgentKeepsBuckets, ResultKeepsBuckets DEF BucketsNext
    <2> QED BY <2>1, <2>2
  <1> QED BY <1>1, <1>2, PTL DEF BucketsSpec

\* Rows, ops, the agent's sets and the posts keep their types: a result that is
\* on its way is about an op of the control plane.
THEOREM BucketsTypeCorrect == BucketsSpec => []BucketsTypeOK
  <1>1. BucketsInv => BucketsTypeOK
    <2> SUFFICES ASSUME BucketsInv PROVE BucketsTypeOK OBVIOUS
    <2>1. bucket.status \in {"none", "provisioning", "active", "failed", "deleting"}
      BY DEF BucketsInv, BucketShape
    <2>2. s3agent.todo \subseteq S3OpIds BY DEF BucketsInv, S3AgentShape
    <2> QED BY <2>1, <2>2, Zenon DEF BucketsInv, S3AgentShape, S3Post, BucketsTypeOK
  <1> QED BY <1>1, BucketsInductive, PTL

\* SIGMA-73 (MarkS3OpFailed, MarkS3OpApplied): whatever results are lost, late
\* or repeated, and although rows and ops are matched by name, a bucket never
\* waits for a create that nobody will answer any more.
THEOREM NoBucketStuckCorrect == BucketsSpec => []NoBucketStuck
  <1>1. BucketsInv => NoBucketStuck BY DEF BucketsInv
  <1> QED BY <1>1, BucketsInductive, PTL

(***************************************************************************)
(* Key custody.  A data key that was made is never unmade, and every       *)
(* transaction that is on its way to write a cell seals it with one that   *)
(* was made or that it makes itself.  A version of the custody key is let  *)
(* go when everything that the rotations know of is wrapped by the newest. *)
(***************************************************************************)

Cell == [dek : 0..MaxDeks, value : 0..MaxUpdates]

Made(d) == deks[d].state # "none"

DeksShape == deks \in [DekIds -> [state : {"none", "active", "draining", "retired"}, kek : 0..MaxKeks]]

KekShape ==
    /\ kek \in [now : 1..MaxKeks, oldest : 1..MaxKeks, orgDone : BOOLEAN, globalDone : BOOLEAN]
    /\ kek.oldest <= kek.now

\* What is wrapped at all is wrapped by a version that opens, and by the newest
\* once the rotation is through.
DeksWrapped ==
    \A d \in DekIds : Made(d) => /\ deks[d].kek >= kek.oldest
                                 /\ kek.orgDone => deks[d].kek = kek.now

EnvelopesWrapped ==
    /\ envelopes \in [Envelopes -> 1..MaxKeks]
    /\ \A e \in OrgEnvelopes : envelopes[e] >= kek.oldest /\ (kek.orgDone => envelopes[e] = kek.now)
    /\ \A e \in GlobalEnvelopes :
          envelopes[e] >= kek.oldest /\ (kek.globalDone => envelopes[e] = kek.now)

CellsSealed ==
    /\ cells \in [Cells -> Cell]
    /\ \A c \in Cells : cells[c].dek # 0 => Made(cells[c].dek)

ReencTxn == [pc : {"reenc"}, dek : DekIds, table : 1..4, read : Cell,
             done : UNION {[D -> Cell] : D \in SUBSET Cells}]

\* What a transaction is going to write.
TxnOK(x) ==
    /\ x.pc = "write" => /\ x.cell \in Cells /\ x.dek \in DekIds /\ x.value \in 0..MaxUpdates
                         /\ x.fresh \in BOOLEAN /\ (~x.fresh => Made(x.dek))
    /\ x.pc = "archive" => x.read \in Cell /\ (x.read.dek # 0 => Made(x.read.dek))
    /\ x.pc = "reenc" => /\ x \in ReencTxn /\ Made(x.dek) /\ (x.read # NoCell => x.table <= 3)
                         /\ \A c \in DOMAIN x.done : x.done[c].dek = x.dek

TxnsOK ==
    /\ sealing = [t \in SecretTxns |-> sealing[t]]
    /\ \A t \in SecretTxns : TxnOK(sealing[t])

LocksShape == locked \in [Cells -> SecretTxns \cup {NoOneT}] /\ value \in 0..MaxUpdates

SecretsInv == /\ DeksShape /\ KekShape /\ DeksWrapped /\ EnvelopesWrapped
              /\ CellsSealed /\ TxnsOK /\ LocksShape

\* No key is unmade by a step.
DeksGrow == \A d \in DekIds : Made(d) => Made(d)'

LEMMA TxnStays ==
    ASSUME NEW x, TxnOK(x), DeksGrow PROVE TxnOK(x)'
  <1>1. \A d \in 0..MaxDeks : d # 0 => d \in DekIds BY SecretsAssumption DEF DekIds
  <1>2. x.pc = "reenc" => x.dek \in DekIds BY DEF TxnOK, ReencTxn
  <1>3. x.pc = "archive" => x.read.dek \in 0..MaxDeks BY DEF TxnOK, Cell
  <1> QED BY <1>1, <1>2, <1>3 DEF TxnOK, DeksGrow

\* One transaction goes on.
LEMMA OneTxn ==
    ASSUME TxnsOK, NEW t \in SecretTxns, NEW x, sealing' = [sealing EXCEPT ![t] = x],
           TxnOK(x)', DeksGrow
    PROVE  TxnsOK'
  <1>1. \A u \in SecretTxns : sealing'[u] = IF u = t THEN x ELSE sealing[u] BY DEF TxnsOK
  <1>2. sealing' = [u \in SecretTxns |-> sealing'[u]] BY DEF TxnsOK
  <1>3. \A u \in SecretTxns : TxnOK(sealing[u])'
    <2> SUFFICES ASSUME NEW u \in SecretTxns PROVE TxnOK(sealing[u])' OBVIOUS
    <2>1. CASE u = t BY <1>1, <2>1 DEF TxnOK
    <2>2. CASE u # t
      <3>1. PICK y : y = sealing[u] OBVIOUS
      <3>2. TxnOK(y)' BY <3>1, TxnStays DEF TxnsOK
      <3>3. sealing'[u] = y BY <1>1, <2>2, <3>1
      <3> QED BY <3>2, <3>3 DEF TxnOK
    <2> QED BY <2>1, <2>2
  <1> QED BY <1>2, <1>3 DEF TxnsOK

LEMMA QuietIsOK == TxnOK(Quiet)'
  <1>1. Quiet.pc = "idle" BY DEF Quiet
  <1> QED BY <1>1 DEF TxnOK

\* A key that is made now is made under the newest version.
LEMMA LowestIsFresh == FreshDeks # {} => LowestFresh \in DekIds /\ LowestFresh \in FreshDeks
  <1>1. FreshDeks \subseteq DekIds /\ DekIds \subseteq Nat BY SecretsAssumption DEF FreshDeks, DekIds
  <1>2. FreshDeks # {} => \E m \in FreshDeks : \A k \in FreshDeks : m <= k BY <1>1, FirstOf
  <1> QED BY <1>1, <1>2 DEF LowestFresh

\* The key of a write: the active one, or one that the transaction will make.
LEMMA ActiveIsMade == HaveDEK => ActiveDEK \in DekIds /\ (Active # {} => Made(ActiveDEK))
  BY LowestIsFresh DEF HaveDEK, ActiveDEK, Active, Made

\* Steps that leave cells and keys alone, with a transaction that goes on.
LEMMA TxnGoesOn ==
    ASSUME SecretsInv, NEW t \in SecretTxns, NEW x, sealing' = [sealing EXCEPT ![t] = x], TxnOK(x),
           UNCHANGED <<deks, cells, value, kek, envelopes>>,
           locked' \in [Cells -> SecretTxns \cup {NoOneT}]
    PROVE  SecretsInv'
  <1>1. DeksGrow BY DEF DeksGrow, Made
  <1>2. TxnsOK' BY <1>1, TxnStays, OneTxn DEF SecretsInv
  <1> QED BY <1>2 DEF SecretsInv, DeksShape, KekShape, DeksWrapped, EnvelopesWrapped, CellsSealed,
             LocksShape, Made

LEMMA BeginKeepsSecrets ==
    ASSUME SecretsInv, NEW t \in SecretTxns, CreateSecret(t) \/ UpdateSecretValue(t) \/ ensureRepoKey(t)
    PROVE  SecretsInv'
  <1>1. PICK c \in Cells, to \in 0..MaxUpdates : BeginWrite(t, c, to)
    <2>1. "secret" \in Cells /\ "repokey" \in Cells BY DEF Cells
    <2>2. value \in 0..MaxUpdates /\ 0 \in 0..MaxUpdates BY SecretsAssumption DEF SecretsInv, LocksShape
    <2>3. value < MaxUpdates => value + 1 \in 0..MaxUpdates BY <2>2, SecretsAssumption
    <2> QED BY <2>1, <2>2, <2>3 DEF CreateSecret, UpdateSecretValue, ensureRepoKey
  <1>2. locked' \in [Cells -> SecretTxns \cup {NoOneT}]
    BY DEF CreateSecret, UpdateSecretValue, ensureRepoKey, SecretsInv, LocksShape, Cells
  <1>3. PICK f \in BOOLEAN, n \in BOOLEAN : f = (Active = {}) /\ n = (cells[c].dek = 0) OBVIOUS
  <1>4. PICK d : d = ActiveDEK OBVIOUS
  <1>5. PICK x : x = [pc |-> "write", cell |-> c, dek |-> d, fresh |-> f, value |-> to, new |-> n] OBVIOUS
  <1>6. sealing' = [sealing EXCEPT ![t] = x] /\ HaveDEK /\ UNCHANGED <<deks, cells, value, kek, envelopes>>
    BY <1>1, <1>3, <1>4, <1>5 DEF BeginWrite, keyVars
  <1>7. d \in DekIds /\ (~f => Made(d)) BY <1>3, <1>4, <1>6, ActiveIsMade
  <1>8. x.pc = "write" /\ x.cell = c /\ x.dek = d /\ x.fresh = f /\ x.value = to BY <1>5
  <1>9. TxnOK(x) BY <1>7, <1>8 DEF TxnOK
  <1> QED BY <1>2, <1>6, <1>9, TxnGoesOn

LEMMA UnlockType == LocksShape => \A t : Unlock(t) \in [Cells -> SecretTxns \cup {NoOneT}]
  BY DEF LocksShape, Unlock

LEMMA AbortKeepsSecrets ==
    ASSUME SecretsInv, NEW t \in SecretTxns, AbortWrite(t) \/ ReencryptFails(t) PROVE SecretsInv'
  <1>1. /\ sealing' = [sealing EXCEPT ![t] = Quiet] /\ locked' = Unlock(t)
        /\ UNCHANGED <<deks, cells, value, kek, envelopes>>
    BY DEF AbortWrite, ReencryptFails, keyVars
  <1>2. TxnOK(Quiet)
    <2>1. Quiet.pc = "idle" BY DEF Quiet
    <2> QED BY <2>1 DEF TxnOK
  <1>3. locked' \in [Cells -> SecretTxns \cup {NoOneT}] BY <1>1, UnlockType DEF SecretsInv
  <1> QED BY <1>1, <1>2, <1>3, TxnGoesOn

\* The write and the commit.
LEMMA CommitKeepsSecrets ==
    ASSUME SecretsInv, NEW t \in SecretTxns, CommitWrite(t) PROVE SecretsInv'
  <1>1. PICK w : w = sealing[t] OBVIOUS
  <1>2. w.pc = "write" /\ locked' = Unlock(t) /\ sealing' = [sealing EXCEPT ![t] = Quiet]
        /\ UNCHANGED <<kek, envelopes>>
    BY <1>1 DEF CommitWrite, keyVars
  <1>3. TxnOK(w) BY <1>1 DEF SecretsInv, TxnsOK
  <1>4. /\ w.cell \in Cells /\ w.dek \in DekIds /\ w.value \in 0..MaxUpdates
        /\ w.fresh \in BOOLEAN /\ (~w.fresh => Made(w.dek))
    BY <1>2, <1>3 DEF TxnOK
  <1>5. locked' \in [Cells -> SecretTxns \cup {NoOneT}] BY <1>2, UnlockType DEF SecretsInv
  <1>6. CASE UNCHANGED <<deks, cells, value>>
    <2>1. TxnOK(Quiet)
      <3>1. Quiet.pc = "idle" BY DEF Quiet
      <3> QED BY <3>1 DEF TxnOK
    <2> QED BY <1>2, <1>5, <1>6, <2>1, TxnGoesOn
  <1>7. CASE /\ deks' = IF w.fresh THEN [deks EXCEPT ![w.dek] = [state |-> "active", kek |-> kek.now]]
                        ELSE deks
             /\ cells' = [cells EXCEPT ![w.cell] = [dek |-> w.dek, value |-> w.value]]
             /\ value' = IF w.cell = "secret" THEN w.value ELSE value
    <2>1. kek.now \in 0..MaxKeks /\ kek.now >= kek.oldest
      BY SecretsAssumption DEF SecretsInv, KekShape
    <2>2. [state |-> "active", kek |-> kek.now]
            \in [state : {"none", "active", "draining", "retired"}, kek : 0..MaxKeks]
      BY <2>1
    <2>3. DeksShape' BY <1>4, <1>7, <2>2 DEF SecretsInv, DeksShape
    <2>4. \A d \in DekIds : deks'[d] = IF w.fresh /\ d = w.dek THEN [state |-> "active", kek |-> kek.now]
                                       ELSE deks[d]
      BY <1>4, <1>7 DEF SecretsInv, DeksShape
    <2>5. DeksGrow /\ Made(w.dek)' BY <1>4, <2>4 DEF DeksGrow, Made
    <2>6. DeksWrapped' BY <1>2, <2>1, <2>4 DEF SecretsInv, DeksWrapped, Made
    <2>7. TxnsOK' BY <1>2, <2>5, OneTxn, QuietIsOK DEF SecretsInv
    <2>8. CellsSealed'
      <3>1. PICK x : x = [dek |-> w.dek, value |-> w.value] OBVIOUS
      <3>2. x \in Cell /\ x.dek = w.dek BY <1>4, <3>1, SecretsAssumption DEF Cell, DekIds
      <3>3. cells' = [cells EXCEPT ![w.cell] = x] BY <1>7, <3>1
      <3>4. cells' \in [Cells -> Cell] BY <3>2, <3>3 DEF SecretsInv, CellsSealed
      <3>5. \A c \in Cells : cells'[c] = IF c = w.cell THEN x ELSE cells[c]
        BY <3>3 DEF SecretsInv, CellsSealed
      <3>6. \A c \in Cells : cells[c].dek # 0 => cells[c].dek \in DekIds
        BY SecretsAssumption DEF SecretsInv, CellsSealed, Cell, DekIds
      <3>7. ASSUME NEW c \in Cells, cells'[c].dek # 0 PROVE Made(cells[c].dek)'
        <4>1. CASE c = w.cell BY <2>5, <3>2, <3>5, <4>1 DEF Made
        <4>2. CASE c # w.cell
          <5>1. PICK d \in DekIds : d = cells[c].dek /\ d = cells'[c].dek BY <3>5, <3>6, <3>7, <4>2
          <5>2. Made(d) BY <5>1, <3>7 DEF SecretsInv, CellsSealed
          <5> QED BY <2>5, <5>1, <5>2 DEF DeksGrow, Made
        <4> QED BY <4>1, <4>2
      <3> QED BY <3>4, <3>7 DEF CellsSealed, Made
    <2>9. LocksShape' BY <1>4, <1>5, <1>7 DEF SecretsInv, LocksShape
    <2> QED BY <1>2, <2>3, <2>6, <2>7, <2>8, <2>9 DEF SecretsInv, KekShape, EnvelopesWrapped
  <1> QED BY <1>1, <1>6, <1>7 DEF CommitWrite

\* Cells that are sealed by keys that were made stay so when no key is unmade.
LEMMA CellsStay ==
    ASSUME SecretsInv, DeksGrow, cells' \in [Cells -> Cell],
           \A c \in Cells : \/ cells'[c] = cells[c] \/ cells'[c].dek = 0
                            \/ cells'[c].dek \in DekIds /\ Made(cells[c].dek)'
    PROVE  CellsSealed'
  <1> SUFFICES ASSUME NEW c \in Cells, cells'[c].dek # 0 PROVE Made(cells[c].dek)'
    BY DEF CellsSealed
  <1>1. CASE cells'[c] = cells[c]
    <2>1. cells[c] \in Cell BY DEF SecretsInv, CellsSealed
    <2>2. PICK d : d = cells[c].dek /\ d = cells'[c].dek BY <1>1
    <2>3. d \in DekIds BY <2>1, <2>2, SecretsAssumption DEF Cell, DekIds
    <2>4. Made(d) BY <2>2 DEF SecretsInv, CellsSealed
    <2> QED BY <2>2, <2>3, <2>4 DEF DeksGrow, Made
  <1> QED BY <1>1

LEMMA DeletesKeepSecrets ==
    ASSUME SecretsInv, NEW t \in SecretTxns, DeleteSecret(t) \/ ArchiveRepoKeys(t) PROVE SecretsInv'
  <1>1. CASE DeleteSecret(t)
    <2>1. cells' = [cells EXCEPT !["secret"] = NoCell]
          /\ UNCHANGED <<deks, locked, sealing, value, kek, envelopes>>
      BY <1>1 DEF DeleteSecret, keyVars
    <2>2. NoCell \in Cell /\ NoCell.dek = 0 BY SecretsAssumption DEF NoCell, Cell
    <2>3. cells' \in [Cells -> Cell] BY <2>1, <2>2 DEF SecretsInv, CellsSealed
    <2>4. \A c \in Cells : cells'[c] = cells[c] \/ cells'[c].dek = 0
      BY <2>1, <2>2 DEF SecretsInv, CellsSealed
    <2>5. DeksGrow BY <2>1 DEF DeksGrow, Made
    <2>6. CellsSealed' BY <2>3, <2>4, <2>5, CellsStay
    <2>7. TxnsOK' BY <2>1 DEF SecretsInv, TxnsOK, TxnOK, Made
    <2> QED BY <2>1, <2>6, <2>7 DEF SecretsInv, DeksShape, KekShape, DeksWrapped, EnvelopesWrapped,
               LocksShape, Made
  <1>2. CASE ArchiveRepoKeys(t)
    <2>1. PICK r : r = cells["repokey"] OBVIOUS
    <2>2. "repokey" \in Cells BY DEF Cells
    <2>3. r \in Cell /\ (r.dek # 0 => Made(r.dek)) BY <2>1, <2>2 DEF SecretsInv, CellsSealed
    <2>4. PICK x : x = [pc |-> "archive", read |-> r] OBVIOUS
    <2>5. x.pc = "archive" /\ x.read = r BY <2>4
    <2>6. TxnOK(x) BY <2>3, <2>5 DEF TxnOK
    <2>7. sealing' = [sealing EXCEPT ![t] = x] /\ UNCHANGED <<deks, cells, locked, value, kek, envelopes>>
      BY <1>2, <2>1, <2>4 DEF ArchiveRepoKeys, keyVars
    <2> QED BY <2>6, <2>7, TxnGoesOn DEF SecretsInv, LocksShape
  <1> QED BY <1>1, <1>2

\* DeleteWithArchive: the archive takes the key that was read.
LEMMA ArchiveKeepsSecrets ==
    ASSUME SecretsInv, NEW t \in SecretTxns, DeleteWithArchive(t) PROVE SecretsInv'
  <1>1. PICK x : x = sealing[t] OBVIOUS
  <1>2. x.pc = "archive" /\ sealing' = [sealing EXCEPT ![t] = Quiet]
        /\ UNCHANGED <<deks, locked, value, kek, envelopes>>
    BY <1>1 DEF DeleteWithArchive, keyVars
  <1>3. x.read \in Cell /\ (x.read.dek # 0 => Made(x.read.dek))
    BY <1>1, <1>2 DEF SecretsInv, TxnsOK, TxnOK
  <1>4. NoCell \in Cell /\ NoCell.dek = 0 BY SecretsAssumption DEF NoCell, Cell
  <1>5. DeksGrow BY <1>2 DEF DeksGrow, Made
  <1>6. \/ cells' = cells
        \/ cells' = [cells EXCEPT !["archived"] = x.read, !["repokey"] = NoCell]
    BY <1>1 DEF DeleteWithArchive
  <1>7. cells' \in [Cells -> Cell] BY <1>3, <1>4, <1>6 DEF SecretsInv, CellsSealed
  <1>8. \A c \in Cells : cells'[c] = cells[c] \/ cells'[c] = NoCell \/ cells'[c] = x.read
    BY <1>6 DEF SecretsInv, CellsSealed
  <1>9. ASSUME NEW c \in Cells
        PROVE  \/ cells'[c] = cells[c] \/ cells'[c].dek = 0
               \/ cells'[c].dek \in DekIds /\ Made(cells[c].dek)'
    <2>1. CASE cells'[c] = x.read /\ x.read.dek # 0
      <3>1. PICK d : d = x.read.dek /\ d = cells'[c].dek BY <2>1
      <3>2. d \in DekIds /\ Made(d) BY <1>3, <2>1, <3>1, SecretsAssumption DEF Cell, DekIds
      <3> QED BY <1>2, <3>1, <3>2 DEF Made
    <2> QED BY <1>4, <1>8, <2>1
  <1>10. CellsSealed' BY <1>5, <1>7, <1>9, CellsStay
  <1>11. TxnsOK' BY <1>2, <1>5, OneTxn, QuietIsOK DEF SecretsInv
  <1> QED BY <1>2, <1>10, <1>11 DEF SecretsInv, DeksShape, KekShape, DeksWrapped, EnvelopesWrapped,
             LocksShape, Made

\* RotateDEK: a new key, under the newest version of the custody key.
LEMMA RotateKeepsSecrets ==
    ASSUME SecretsInv, NEW t \in SecretTxns, RotateDEK(t) PROVE SecretsInv'
  <1>1. PICK f : f = LowestFresh OBVIOUS
  <1>2. f \in DekIds BY <1>1, LowestIsFresh DEF RotateDEK
  <1>3. PICK new : new = [state |-> "active", kek |-> kek.now] OBVIOUS
  <1>4. kek.now \in 0..MaxKeks /\ kek.now >= kek.oldest BY SecretsAssumption DEF SecretsInv, KekShape
  <1>5. new \in [state : {"none", "active", "draining", "retired"}, kek : 0..MaxKeks]
        /\ new.state = "active" /\ new.kek = kek.now
    BY <1>3, <1>4
  <1>6. deks' = [d \in DekIds |-> IF d \in Active THEN [deks[d] EXCEPT !.state = "draining"]
                                  ELSE IF d = f THEN new ELSE deks[d]]
    BY <1>1, <1>3 DEF RotateDEK
  <1>7. ASSUME NEW d \in DekIds
        PROVE  /\ deks'[d] \in [state : {"none", "active", "draining", "retired"}, kek : 0..MaxKeks]
               /\ \/ Made(d) /\ deks'[d].state = "draining" /\ deks'[d].kek = deks[d].kek
                  \/ deks'[d] = new \/ deks'[d] = deks[d]
    <2>1. deks[d] \in [state : {"none", "active", "draining", "retired"}, kek : 0..MaxKeks]
      BY DEF SecretsInv, DeksShape
    <2>2. CASE d \in Active
      <3>1. Made(d) BY <2>2 DEF Active, Made
      <3>2. deks'[d] = [deks[d] EXCEPT !.state = "draining"] BY <1>6, <2>2
      <3> QED BY <2>1, <3>1, <3>2
    <2>3. CASE d \notin Active
      <3>1. deks'[d] = new \/ deks'[d] = deks[d] BY <1>6, <2>3
      <3> QED BY <1>5, <2>1, <3>1
    <2> QED BY <2>2, <2>3
  <1>8. DeksShape' BY <1>6, <1>7 DEF DeksShape
  <1>9. DeksGrow BY <1>5, <1>7 DEF DeksGrow, Made
  <1>10. UNCHANGED <<cells, locked, value, kek, envelopes>> BY DEF RotateDEK, keyVars
  <1>11. DeksWrapped' BY <1>4, <1>5, <1>7, <1>10 DEF SecretsInv, DeksWrapped, Made
  <1>12. CellsSealed' BY <1>9, <1>10, CellsStay DEF SecretsInv, CellsSealed
  <1>13. PICK none : none = [c \in {} |-> NoCell] OBVIOUS
  <1>14. NoCell \in Cell BY SecretsAssumption DEF NoCell, Cell
  <1>15. none \in [{} -> Cell] /\ DOMAIN none = {} BY <1>13
  <1>16. none \in UNION {[D -> Cell] : D \in SUBSET Cells} BY <1>15
  <1>17. PICK x : x = [pc |-> "reenc", dek |-> f, table |-> 1, read |-> NoCell, done |-> none] OBVIOUS
  <1>18. sealing' = [sealing EXCEPT ![t] = x] BY <1>1, <1>13, <1>17 DEF RotateDEK
  <1>19. 1 \in 1..4 OBVIOUS
  <1>20. x \in ReencTxn BY <1>2, <1>14, <1>16, <1>17, <1>19 DEF ReencTxn
  <1>21. x.pc = "reenc" /\ x.dek = f /\ x.read = NoCell /\ x.done = none BY <1>17
  <1>22. Made(f)'
    <2>1. f \notin Active BY <1>1, LowestIsFresh DEF RotateDEK, Active, FreshDeks
    <2>2. deks'[f] = new BY <1>2, <1>6, <2>1
    <2> QED BY <1>5, <2>2 DEF Made
  <1>23. TxnOK(x)' BY <1>15, <1>20, <1>21, <1>22 DEF TxnOK, Made
  <1>24. TxnsOK' BY <1>9, <1>18, <1>23, OneTxn DEF SecretsInv
  <1> QED BY <1>8, <1>10, <1>11, <1>12, <1>24 DEF SecretsInv, KekShape, EnvelopesWrapped, LocksShape

\* The rotation goes to the next table with what it has written so far.
LEMMA NextTableKeepsSecrets ==
    ASSUME SecretsInv, NEW t \in SecretTxns, sealing[t].pc = "reenc", sealing[t].table <= 3,
           NEW done \in UNION {[D -> Cell] : D \in SUBSET Cells},
           \A c \in DOMAIN done : done[c].dek = sealing[t].dek,
           sealing' = NextTable(t, done),
           UNCHANGED <<deks, cells, value, kek, envelopes>>,
           locked' \in [Cells -> SecretTxns \cup {NoOneT}]
    PROVE  SecretsInv'
  <1>1. PICK x : x = sealing[t] OBVIOUS
  <1>2. TxnOK(x) /\ x \in ReencTxn /\ Made(x.dek) BY <1>1 DEF SecretsInv, TxnsOK, TxnOK
  <1>3. PICK n : n = x.table + 1 OBVIOUS
  <1>4. n \in 1..4 BY <1>1, <1>2, <1>3 DEF ReencTxn
  <1>5. NoCell \in Cell BY SecretsAssumption DEF NoCell, Cell
  <1>6. PICK y : y = [x EXCEPT !.read = NoCell, !.table = n, !.done = done] OBVIOUS
  <1>7. y \in ReencTxn BY <1>2, <1>4, <1>5, <1>6 DEF ReencTxn
  <1>8. y.pc = "reenc" /\ y.dek = x.dek /\ y.read = NoCell /\ y.done = done
    BY <1>2, <1>6 DEF ReencTxn
  <1>9. TxnOK(y) BY <1>1, <1>2, <1>7, <1>8 DEF TxnOK
  <1>10. sealing' = [sealing EXCEPT ![t] = y]
    BY <1>1, <1>2, <1>3, <1>6 DEF NextTable, SecretsInv, TxnsOK, ReencTxn
  <1> QED BY <1>9, <1>10, TxnGoesOn

\* Every table of the list holds cells.
LEMMA RowsAreCells ==
    ASSUME NEW t, sealing[t].table \in 1..3 PROVE Rows(t) \in Cells
  <1>1. PICK n \in 1..3 : n = sealing[t].table OBVIOUS
  <1>2. n = 1 \/ n = 2 \/ n = 3 OBVIOUS
  <1> QED BY <1>1, <1>2 DEF Rows, dekReencTargets, Cells

LEMMA ReencReadKeepsSecrets ==
    ASSUME SecretsInv, NEW t \in SecretTxns, ReencRead(t) PROVE SecretsInv'
  <1>1. PICK x : x = sealing[t] OBVIOUS
  <1>2. x.pc = "reenc" /\ x.table <= 3 /\ UNCHANGED <<deks, cells, locked, value, kek, envelopes>>
    BY <1>1 DEF ReencRead, dekReencTargets, keyVars
  <1>3. TxnOK(x) /\ x \in ReencTxn /\ Made(x.dek) /\ \A c \in DOMAIN x.done : x.done[c].dek = x.dek
    BY <1>1, <1>2 DEF SecretsInv, TxnsOK, TxnOK
  <1>4. locked' \in [Cells -> SecretTxns \cup {NoOneT}] BY <1>2 DEF SecretsInv, LocksShape
  <1>5. x.done \in UNION {[D -> Cell] : D \in SUBSET Cells} /\ x.table \in 1..4 BY <1>3 DEF ReencTxn
  <1>6. x.table \in 1..3 BY <1>2, <1>5
  <1>7. PICK r : r = cells[Rows(t)] OBVIOUS
  <1>8. r \in Cell BY <1>1, <1>6, <1>7, RowsAreCells DEF SecretsInv, CellsSealed
  <1>9. CASE sealing' = NextTable(t, x.done)
    BY <1>1, <1>2, <1>3, <1>4, <1>5, <1>9, NextTableKeepsSecrets
  <1>10. CASE sealing' = [sealing EXCEPT ![t].read = r]
    <2>1. PICK y : y = [x EXCEPT !.read = r] OBVIOUS
    <2>2. y \in ReencTxn BY <1>3, <1>8, <2>1 DEF ReencTxn
    <2>3. y.pc = "reenc" /\ y.dek = x.dek /\ y.table = x.table /\ y.done = x.done
      BY <1>3, <2>1 DEF ReencTxn
    <2>4. TxnOK(y) BY <1>2, <1>3, <2>2, <2>3 DEF TxnOK
    <2>5. sealing' = [sealing EXCEPT ![t] = y] BY <1>1, <1>10, <2>1
    <2> QED BY <1>2, <1>4, <2>4, <2>5, TxnGoesOn
  <1> QED BY <1>1, <1>7, <1>9, <1>10 DEF ReencRead

LEMMA ReencWriteKeepsSecrets ==
    ASSUME SecretsInv, NEW t \in SecretTxns, ReencWrite(t) PROVE SecretsInv'
  <1>1. PICK x : x = sealing[t] OBVIOUS
  <1>2. x.pc = "reenc" /\ x.read # NoCell /\ UNCHANGED <<deks, cells, value, kek, envelopes>>
    BY <1>1 DEF ReencWrite, keyVars
  <1>3. TxnOK(x) /\ x \in ReencTxn /\ x.table <= 3 /\ \A c \in DOMAIN x.done : x.done[c].dek = x.dek
    BY <1>1, <1>2 DEF SecretsInv, TxnsOK, TxnOK
  <1>4. /\ x.done \in UNION {[D -> Cell] : D \in SUBSET Cells} /\ x.table \in 1..4
        /\ x.read \in Cell /\ x.dek \in DekIds
    BY <1>3 DEF ReencTxn
  <1>5. x.table \in 1..3 BY <1>3, <1>4
  <1>6. PICK c \in Cells : c = Rows(t) BY <1>1, <1>5, RowsAreCells
  <1>7. PICK w : w = [dek |-> x.dek, value |-> x.read.value] OBVIOUS
  <1>8. w \in Cell /\ w.dek = x.dek BY <1>4, <1>7, SecretsAssumption DEF Cell, DekIds
  <1>9. PICK D \in SUBSET Cells : x.done \in [D -> Cell] BY <1>4
  <1>10. DOMAIN x.done = D BY <1>9
  <1>11. PICK done : done = [b \in D \cup {c} |-> IF b = c THEN w ELSE x.done[b]] OBVIOUS
  <1>12. done \in [D \cup {c} -> Cell] /\ DOMAIN done = D \cup {c} BY <1>8, <1>9, <1>11
  <1>13. done \in UNION {[E -> Cell] : E \in SUBSET Cells} BY <1>12
  <1>14. \A b \in DOMAIN done : done[b].dek = x.dek BY <1>3, <1>8, <1>9, <1>11, <1>12
  <1>15. locked \in [Cells -> SecretTxns \cup {NoOneT}] BY DEF SecretsInv, LocksShape
  <1>16. CASE sealing' = NextTable(t, x.done) /\ locked' = locked
    BY <1>1, <1>2, <1>3, <1>4, <1>15, <1>16, NextTableKeepsSecrets
  <1>17. CASE sealing' = NextTable(t, done) /\ locked' = [locked EXCEPT ![c] = t]
    BY <1>1, <1>2, <1>3, <1>13, <1>14, <1>15, <1>17, NextTableKeepsSecrets
  <1> QED BY <1>1, <1>6, <1>7, <1>10, <1>11, <1>16, <1>17 DEF ReencWrite

\* ReencryptSecrets: the commit of a rotation.
LEMMA ReencryptKeepsSecrets ==
    ASSUME SecretsInv, NEW t \in SecretTxns, ReencryptSecrets(t) PROVE SecretsInv'
  <1>1. PICK x : x = sealing[t] OBVIOUS
  <1>2. PICK after : after = [c \in Cells |-> IF c \in DOMAIN x.done THEN x.done[c] ELSE cells[c]] OBVIOUS
  <1>3. /\ x.pc = "reenc" /\ cells' = after /\ locked' = Unlock(t)
        /\ sealing' = [sealing EXCEPT ![t] = Quiet] /\ UNCHANGED <<value, kek, envelopes>>
    BY <1>1, <1>2 DEF ReencryptSecrets, keyVars
  <1>4. deks' = [d \in DekIds |-> IF deks[d].state = "draining" /\ BacksNothing(after, d)
                                  THEN [deks[d] EXCEPT !.state = "retired"] ELSE deks[d]]
    BY <1>1, <1>2 DEF ReencryptSecrets
  <1>5. TxnOK(x) /\ x \in ReencTxn /\ Made(x.dek) /\ \A c \in DOMAIN x.done : x.done[c].dek = x.dek
    BY <1>1, <1>3 DEF SecretsInv, TxnsOK, TxnOK
  <1>6. x.dek \in DekIds /\ x.done \in UNION {[D -> Cell] : D \in SUBSET Cells} BY <1>5 DEF ReencTxn
  <1>7. PICK D \in SUBSET Cells : x.done \in [D -> Cell] BY <1>6
  <1>8. ASSUME NEW d \in DekIds
        PROVE  /\ deks'[d] \in [state : {"none", "active", "draining", "retired"}, kek : 0..MaxKeks]
               /\ deks'[d].kek = deks[d].kek /\ (Made(d) <=> deks'[d].state # "none")
    <2>1. deks[d] \in [state : {"none", "active", "draining", "retired"}, kek : 0..MaxKeks]
      BY DEF SecretsInv, DeksShape
    <2>2. CASE deks[d].state = "draining" /\ BacksNothing(after, d)
      <3>1. deks'[d] = [deks[d] EXCEPT !.state = "retired"] BY <1>4, <2>2
      <3> QED BY <2>1, <2>2, <3>1 DEF Made
    <2>3. CASE ~(deks[d].state = "draining" /\ BacksNothing(after, d))
      <3>1. deks'[d] = deks[d] BY <1>4, <2>3
      <3> QED BY <2>1, <3>1 DEF Made
    <2> QED BY <2>2, <2>3
  <1>9. DeksShape' BY <1>4, <1>8 DEF DeksShape
  <1>10. DeksGrow BY <1>8 DEF DeksGrow, Made
  <1>11. DeksWrapped' BY <1>3, <1>8 DEF SecretsInv, DeksWrapped, Made
  <1>12. cells' \in [Cells -> Cell] BY <1>2, <1>3, <1>7 DEF SecretsInv, CellsSealed
  <1>13. ASSUME NEW c \in Cells
         PROVE  \/ cells'[c] = cells[c]
                \/ cells'[c].dek \in DekIds /\ Made(cells[c].dek)'
    <2>1. CASE c \in DOMAIN x.done
      <3>1. PICK d : d = cells'[c].dek /\ d = x.dek BY <1>2, <1>3, <1>5, <2>1
      <3>2. d \in DekIds /\ Made(d)' BY <1>5, <1>6, <1>10, <3>1 DEF DeksGrow
      <3> QED BY <3>1, <3>2 DEF Made
    <2>2. CASE c \notin DOMAIN x.done BY <1>2, <1>3, <2>2
    <2> QED BY <2>1, <2>2
  <1>14. CellsSealed' BY <1>10, <1>12, <1>13, CellsStay
  <1>15. TxnsOK' BY <1>3, <1>10, OneTxn, QuietIsOK DEF SecretsInv
  <1>16. LocksShape' BY <1>3, UnlockType DEF SecretsInv, LocksShape
  <1> QED BY <1>3, <1>9, <1>11, <1>14, <1>15, <1>16 DEF SecretsInv, KekShape, EnvelopesWrapped

\* The custody key: a version is let go when both rotations are through.
LEMMA CustodyKeepsSecrets ==
    ASSUME SecretsInv,
           ResealBootstrapKey \/ NewKekVersion \/ RotateKEK \/ RotateGlobalKEK \/ PruneKek
    PROVE  SecretsInv'
  <1>1. UNCHANGED <<cells, locked, sealing, value>>
    BY DEF ResealBootstrapKey, NewKekVersion, RotateKEK, RotateGlobalKEK, PruneKek
  <1>2. LocksShape' BY <1>1 DEF SecretsInv, LocksShape
  <1>3. kek \in [now : 1..MaxKeks, oldest : 1..MaxKeks, orgDone : BOOLEAN, globalDone : BOOLEAN]
        /\ kek.oldest <= kek.now /\ MaxKeks \in Nat
    BY SecretsAssumption DEF SecretsInv, KekShape
  <1>4. ASSUME UNCHANGED deks PROVE DeksShape' /\ CellsSealed' /\ TxnsOK'
    BY <1>1, <1>4 DEF SecretsInv, DeksShape, CellsSealed, TxnsOK, TxnOK, Made
  <1>5. "bootstrap" \in OrgEnvelopes /\ "bootstrap" \notin GlobalEnvelopes
        /\ OrgEnvelopes \cap GlobalEnvelopes = {}
        /\ OrgEnvelopes \cup GlobalEnvelopes \subseteq Envelopes
    BY DEF OrgEnvelopes, GlobalEnvelopes, Envelopes
  <1>6. CASE ResealBootstrapKey
    <2>1. envelopes' = [envelopes EXCEPT !["bootstrap"] = kek.now] /\ UNCHANGED <<deks, kek>>
      BY <1>6 DEF ResealBootstrapKey
    <2>2. envelopes' \in [Envelopes -> 1..MaxKeks] BY <1>3, <1>5, <2>1 DEF SecretsInv, EnvelopesWrapped
    <2>3. \A e \in OrgEnvelopes \cup GlobalEnvelopes :
            envelopes'[e] = IF e = "bootstrap" THEN kek.now ELSE envelopes[e]
      BY <1>5, <2>1 DEF SecretsInv, EnvelopesWrapped
    <2>4. EnvelopesWrapped' BY <1>3, <1>5, <2>1, <2>2, <2>3 DEF SecretsInv, EnvelopesWrapped
    <2>5. DeksWrapped' /\ KekShape' BY <2>1 DEF SecretsInv, DeksWrapped, KekShape, Made
    <2> QED BY <1>2, <1>4, <2>1, <2>4, <2>5 DEF SecretsInv
  <1>7. CASE NewKekVersion
    <2>1. /\ kek' = [kek EXCEPT !.now = kek.now + 1, !.orgDone = FALSE, !.globalDone = FALSE]
          /\ kek.now < MaxKeks /\ UNCHANGED <<deks, envelopes>>
      BY <1>7 DEF NewKekVersion
    <2>2. kek'.now = kek.now + 1 /\ kek'.oldest = kek.oldest /\ kek'.orgDone = FALSE
          /\ kek'.globalDone = FALSE
      BY <1>3, <2>1
    <2>3. kek.now + 1 \in 1..MaxKeks BY <1>3, <2>1
    <2>4. KekShape'
      <3>1. PICK f \in BOOLEAN : f = FALSE OBVIOUS
      <3>2. PICK n \in 1..MaxKeks : n = kek.now + 1 BY <2>3
      <3>3. kek' = [kek EXCEPT !.now = n, !.orgDone = f, !.globalDone = f] BY <2>1, <3>1, <3>2
      <3>4. kek' \in [now : 1..MaxKeks, oldest : 1..MaxKeks, orgDone : BOOLEAN, globalDone : BOOLEAN]
        BY <1>3, <3>3
      <3>5. kek.oldest <= kek.now + 1 BY <1>3
      <3> QED BY <2>2, <3>4, <3>5 DEF KekShape
    <2>5. EnvelopesWrapped' BY <2>1, <2>2 DEF SecretsInv, EnvelopesWrapped
    <2>6. DeksWrapped' BY <2>1, <2>2 DEF SecretsInv, DeksWrapped, Made
    <2> QED BY <1>2, <1>4, <2>1, <2>4, <2>5, <2>6 DEF SecretsInv
  <1>8. CASE RotateKEK
    <2>1. /\ deks' = [d \in DekIds |-> IF d \in RewrappedDeks THEN [deks[d] EXCEPT !.kek = kek.now] ELSE deks[d]]
          /\ envelopes' = [e \in Envelopes |-> IF e \in OrgEnvelopes THEN kek.now ELSE envelopes[e]]
          /\ kek' = [kek EXCEPT !.orgDone = TRUE]
      BY <1>8 DEF RotateKEK, Rewrap
    <2>2. kek'.now = kek.now /\ kek'.oldest = kek.oldest /\ kek'.globalDone = kek.globalDone BY <1>3, <2>1
    <2>3. KekShape' BY <1>3, <2>1, <2>2 DEF KekShape
    <2>4. EnvelopesWrapped' BY <1>3, <1>5, <2>1, <2>2 DEF SecretsInv, EnvelopesWrapped
    <2>5. ASSUME NEW d \in DekIds
          PROVE  /\ deks'[d] \in [state : {"none", "active", "draining", "retired"}, kek : 0..MaxKeks]
                 /\ deks'[d].state = deks[d].state /\ (Made(d) => deks'[d].kek = kek.now)
      <3>1. deks[d] \in [state : {"none", "active", "draining", "retired"}, kek : 0..MaxKeks]
        BY DEF SecretsInv, DeksShape
      <3>2. kek.now \in 0..MaxKeks BY <1>3
      <3>3. CASE d \in RewrappedDeks
        <4>1. deks'[d] = [deks[d] EXCEPT !.kek = kek.now] BY <2>1, <3>3
        <4> QED BY <3>1, <3>2, <4>1
      <3>4. CASE d \notin RewrappedDeks
        <4>1. deks'[d] = deks[d] /\ ~Made(d) BY <2>1, <3>4 DEF RewrappedDeks, Made
        <4> QED BY <3>1, <4>1
      <3> QED BY <3>3, <3>4
    <2>6. DeksShape' BY <2>1, <2>5 DEF DeksShape
    <2>7. DeksGrow BY <2>5 DEF DeksGrow, Made
    <2>8. DeksWrapped' BY <1>3, <2>2, <2>5 DEF DeksWrapped, Made
    <2>9. CellsSealed' BY <1>1, <2>7, CellsStay DEF SecretsInv, CellsSealed
    <2>10. TxnsOK'
      <3>1. ASSUME NEW t \in SecretTxns PROVE TxnOK(sealing[t])'
        <4>1. PICK x : x = sealing[t] /\ x = sealing'[t] BY <1>1
        <4>2. TxnOK(x)' BY <2>7, <4>1, TxnStays DEF SecretsInv, TxnsOK
        <4> QED BY <4>1, <4>2 DEF TxnOK
      <3> QED BY <1>1, <3>1 DEF SecretsInv, TxnsOK
    <2> QED BY <1>2, <2>3, <2>4, <2>6, <2>8, <2>9, <2>10 DEF SecretsInv
  <1>9. CASE RotateGlobalKEK
    <2>1. /\ envelopes' = [e \in Envelopes |-> IF e \in GlobalEnvelopes THEN kek.now ELSE envelopes[e]]
          /\ kek' = [kek EXCEPT !.globalDone = TRUE] /\ UNCHANGED deks
      BY <1>9 DEF RotateGlobalKEK, Rewrap
    <2>2. kek'.now = kek.now /\ kek'.oldest = kek.oldest /\ kek'.orgDone = kek.orgDone BY <1>3, <2>1
    <2>3. KekShape' BY <1>3, <2>1, <2>2 DEF KekShape
    <2>4. EnvelopesWrapped' BY <1>3, <1>5, <2>1, <2>2 DEF SecretsInv, EnvelopesWrapped
    <2>5. DeksWrapped' BY <2>1, <2>2 DEF SecretsInv, DeksWrapped, Made
    <2> QED BY <1>2, <1>4, <2>1, <2>3, <2>4, <2>5 DEF SecretsInv
  <1>10. CASE PruneKek
    <2>1. /\ kek' = [kek EXCEPT !.oldest = kek.now] /\ kek.orgDone /\ kek.globalDone
          /\ UNCHANGED <<deks, envelopes>>
      BY <1>10 DEF PruneKek
    <2>2. kek'.now = kek.now /\ kek'.oldest = kek.now /\ kek'.orgDone = kek.orgDone
          /\ kek'.globalDone = kek.globalDone
      BY <1>3, <2>1
    <2>3. KekShape' BY <1>3, <2>1, <2>2 DEF KekShape
    <2>4. EnvelopesWrapped' BY <1>3, <2>1, <2>2 DEF SecretsInv, EnvelopesWrapped
    <2>5. DeksWrapped' BY <1>3, <2>1, <2>2 DEF SecretsInv, DeksWrapped, Made
    <2> QED BY <1>2, <1>4, <2>1, <2>3, <2>4, <2>5 DEF SecretsInv
  <1> QED BY <1>6, <1>7, <1>8, <1>9, <1>10

LEMMA SecretsInductive == SecretsSpec => []SecretsInv
  <1>1. SecretsInit => SecretsInv
    <2> SUFFICES ASSUME SecretsInit PROVE SecretsInv OBVIOUS
    <2> USE SecretsAssumption DEF SecretsInit
    <2>1. 0 \in 0..MaxKeks /\ 1 \in 1..MaxKeks /\ 0 \in 0..MaxDeks /\ 0 \in 0..MaxUpdates OBVIOUS
    <2>2. DeksShape BY <2>1 DEF DeksShape
    <2>3. DeksWrapped BY DEF DeksWrapped, Made
    <2>4. KekShape BY <2>1 DEF KekShape
    <2>5. OrgEnvelopes \cup GlobalEnvelopes \subseteq Envelopes BY DEF Envelopes
    <2>6. EnvelopesWrapped BY <2>1, <2>5 DEF EnvelopesWrapped
    <2>7. NoCell \in Cell /\ NoCell.dek = 0 BY <2>1 DEF NoCell, Cell
    <2>8. CellsSealed BY <2>7 DEF CellsSealed
    <2>9. Quiet.pc = "idle" BY DEF Quiet
    <2>10. TxnsOK BY <2>9 DEF TxnsOK, TxnOK
    <2>11. LocksShape BY <2>1 DEF LocksShape
    <2> QED BY <2>2, <2>3, <2>4, <2>6, <2>8, <2>10, <2>11 DEF SecretsInv
  <1>2. SecretsInv /\ [SecretsNext]_secretVars => SecretsInv'
    <2> SUFFICES ASSUME SecretsInv, [SecretsNext]_secretVars PROVE SecretsInv' OBVIOUS
    <2>1. CASE UNCHANGED secretVars
      BY <2>1 DEF secretVars, SecretsInv, DeksShape, KekShape, DeksWrapped, EnvelopesWrapped,
         CellsSealed, TxnsOK, TxnOK, LocksShape, Made
    <2>2. CASE SecretsNext
      BY <2>2, BeginKeepsSecrets, CommitKeepsSecrets, AbortKeepsSecrets, DeletesKeepSecrets,
         ArchiveKeepsSecrets, RotateKeepsSecrets, ReencReadKeepsSecrets, ReencWriteKeepsSecrets,
         ReencryptKeepsSecrets, CustodyKeepsSecrets
         DEF SecretsNext
    <2> QED BY <2>1, <2>2
  <1> QED BY <1>1, <1>2, PTL DEF SecretsSpec

\* Keys, cells, locks and envelopes keep their types.
THEOREM SecretsTypeCorrect == SecretsSpec => []SecretsTypeOK
  <1>1. SecretsInv => SecretsTypeOK
    BY Zenon DEF SecretsInv, DeksShape, CellsSealed, Cell, LocksShape, EnvelopesWrapped, SecretsTypeOK
  <1> QED BY <1>1, SecretsInductive, PTL

\* Every ciphertext, the archived repository keys included, has its data key,
\* and that is wrapped by a version of the custody key that was not let go,
\* whatever rotates, fails, commits late or is pruned.
THEOREM EveryCiphertextOpensCorrect == SecretsSpec => []EveryCiphertextOpens
  <1>1. SecretsInv => EveryCiphertextOpens
    <2> SUFFICES ASSUME SecretsInv, NEW c \in Cells, cells[c].dek # 0 PROVE dekPlaintext(cells[c].dek)
      BY DEF EveryCiphertextOpens
    <2>1. cells[c].dek \in DekIds /\ Made(cells[c].dek)
      BY SecretsAssumption DEF SecretsInv, CellsSealed, Cell, DekIds
    <2> QED BY <2>1 DEF SecretsInv, DeksWrapped, Made, dekPlaintext, Unwrap
  <1> QED BY <1>1, SecretsInductive, PTL

\* RotateKEK, RotateGlobalKEK: a prune strands nothing that the rotations wrap.
THEOREM EnvelopesOpenCorrect == SecretsSpec => []EnvelopesOpen
  <1>1. SecretsInv => EnvelopesOpen
    BY DEF SecretsInv, EnvelopesWrapped, EnvelopesOpen, Unwrap
  <1> QED BY <1>1, SecretsInductive, PTL
=============================================================================
