------------------------------ MODULE GitHooks ------------------------------
(***************************************************************************)
(* From the git provider to deploy requests: connecting a repository,      *)
(* routing webhook deliveries to the org that holds it, branch maps, and   *)
(* the preview environment of a pull request.                              *)
(*                                                                         *)
(*   cp/internal/store/git.go, previews.go, github_integration.go          *)
(*   cp/internal/api/git.go, webhooks.go                                   *)
(*                                                                         *)
(* One org (us) and one repository, which another org (rival) may hold     *)
(* too; one mapped branch, whose environment stands; one pull request from *)
(* another branch.  Deliveries arrive in any order, and an operator may    *)
(* redeliver one.  A webhook is one transaction.  Commit c of the mapped   *)
(* branch was made at time 2c, and now() lies between two commits.         *)
(***************************************************************************)
EXTENDS Naturals, Sequences, FiniteSets

CONSTANTS
    MaxCommits,         \* bound: commits made on the mapped branch
    MaxHooks,           \* bound: deliveries sent
    MaxRedeliveries,    \* bound: redeliveries, and transactions that fail
    MaxGitEdits         \* bound: what users do

ASSUME GitHooksAssumption ==
    MaxCommits \in Nat \ {0} /\ MaxHooks \in Nat /\ MaxRedeliveries \in Nat /\ MaxGitEdits \in Nat

VARIABLES
    repo,       \* the provider: commits made, the branch's tip, the pull request
    hooks,      \* deliveries: event, commit, whether the installation is named,
                \* the last answer, where it was routed, deploys it queued
    seen,       \* webhook_deliveries
    claim,      \* github_installations, and whether the rival holds the repository
    conn,       \* our row of git_connections (id 0: none)
    bmap,       \* git_branch_map: policy ("none": no row), last_sha, last_pushed_at
    mapping,    \* the handler of a branch mapping, between its calls
    prEnv,      \* the environment named pr-n: id (0: none), the connection it
                \* was made for (0: by a user), whether its app is there
    prRow,      \* the open preview_environments row: its environment (0: no row)
    requests,   \* queued deploy_requests, by environment (0: the mapped one)
    live,       \* environments whose app has a deployment that did not fail
    again,      \* redeliveries and failures so far
    gitEdits    \* what users did so far

gitHookVars == <<repo, hooks, seen, claim, conn, bmap, mapping, prEnv, prRow, requests, live,
                 again, gitEdits>>
previewVars == <<prEnv, prRow>>
deployVars == <<requests, live>>

NoConn == [id |-> 0, inst |-> FALSE, previews |-> FALSE, server |-> "none"]
NoMap == [policy |-> "none", sha |-> 0, at |-> 0]
NoEnv == [id |-> 0, conn |-> 0, app |-> FALSE]
Idle == [pc |-> "idle", policy |-> "none", sha |-> 0]
CommitTime(c) == 2 * c
Now == 2 * repo.made + 1
UserStep == gitEdits < MaxGitEdits /\ gitEdits' = gitEdits + 1
OtherThan(S) == CHOOSE i \in 1..3 : i \notin S

GitHooksInit ==
    /\ repo = [made |-> 1, tip |-> 1, pr |-> "closed"]
    /\ hooks = <<>> /\ seen = {} /\ claim = [owner |-> "none", rival |-> FALSE]
    /\ conn = NoConn /\ bmap = NoMap /\ mapping = Idle
    /\ prEnv = NoEnv /\ prRow = 0 /\ requests = {} /\ live = {} /\ again = 0 /\ gitEdits = 0

(***************************************************************************)
(* The provider.  A delivery comes from the App, and names its             *)
(* installation, or from a webhook of the repository, and does not.        *)
(***************************************************************************)
SendHook(event, c) ==
    /\ Len(hooks) < MaxHooks
    /\ \E inst \in BOOLEAN :
          hooks' = Append(hooks, [event |-> event, sha |-> c, inst |-> inst,
                                  answer |-> "awaited", to |-> "nobody", deploys |-> 0])

Author ==
    /\ repo.made < MaxCommits /\ repo' = [repo EXCEPT !.made = @ + 1]
    /\ UNCHANGED <<hooks, seen, claim, conn, bmap, mapping, previewVars, deployVars, again, gitEdits>>

PushBranch ==
    /\ \E c \in repo.tip + 1 .. repo.made : repo' = [repo EXCEPT !.tip = c] /\ SendHook("push", c)
    /\ UNCHANGED <<seen, claim, conn, bmap, mapping, previewVars, deployVars, again, gitEdits>>

\* "opened" stands for "reopened" and "ready_for_review" too, which are handled
\* alike.
PullRequest ==
    /\ \/ repo.pr = "closed" /\ SendHook("opened", 0)      /\ repo' = [repo EXCEPT !.pr = "open"]
       \/ repo.pr = "open"   /\ SendHook("synchronize", 0) /\ UNCHANGED repo
       \/ repo.pr = "open"   /\ SendHook("closed", 0)      /\ repo' = [repo EXCEPT !.pr = "closed"]
    /\ UNCHANGED <<seen, claim, conn, bmap, mapping, previewVars, deployVars, again, gitEdits>>

Redeliver ==
    /\ again < MaxRedeliveries /\ again' = again + 1
    /\ \E i \in DOMAIN hooks :
          hooks[i].answer # "awaited" /\ hooks' = [hooks EXCEPT ![i].answer = "awaited"]
    /\ UNCHANGED <<repo, seen, claim, conn, bmap, mapping, previewVars, deployVars, gitEdits>>

(***************************************************************************)
(* Connecting.  An installation belongs to the org that claims it first.   *)
(***************************************************************************)
ClaimInstallation == claim.owner # "rival" /\ claim' = [claim EXCEPT !.owner = "us"]

ClaimInstallationWithMeta ==
    /\ UserStep /\ claim.owner = "none" /\ ClaimInstallation
    /\ UNCHANGED <<repo, hooks, seen, conn, bmap, mapping, previewVars, deployVars, again>>

\* The rival claims, connects and disconnects as we do.
RivalActs ==
    /\ UserStep
    /\ \/ claim.owner = "none" /\ claim' = [claim EXCEPT !.owner = "rival"]
       \/ claim' = [claim EXCEPT !.rival = ~@]
    /\ UNCHANGED <<repo, hooks, seen, conn, bmap, mapping, previewVars, deployVars, again>>

CreateGitConnection(inst) ==
    /\ UserStep /\ conn = NoConn
    /\ conn' = [NoConn EXCEPT !.id = OtherThan({prEnv.conn}), !.inst = inst]
    /\ UNCHANGED <<repo, hooks, seen, bmap, mapping, previewVars, deployVars, again>>

\* With a token, or with an installation that is claimed first.
GitConnect ==
    \E inst \in BOOLEAN :
        /\ CreateGitConnection(inst)
        /\ IF inst THEN ClaimInstallation ELSE UNCHANGED claim

\* The repository picker takes the org's installation.
EnsureGitConnection == CreateGitConnection(claim.owner = "us") /\ UNCHANGED claim

SetConnectionInstallation ==
    /\ UserStep /\ conn # NoConn /\ ~conn.inst /\ ClaimInstallation
    /\ conn' = [conn EXCEPT !.inst = TRUE]
    /\ UNCHANGED <<repo, hooks, seen, bmap, mapping, previewVars, deployVars, again>>

\* Forced, if the connection uses it.
DeleteOrgInstallation ==
    /\ UserStep /\ claim.owner = "us" /\ claim' = [claim EXCEPT !.owner = "none"]
    /\ conn' = [conn EXCEPT !.inst = FALSE]
    /\ UNCHANGED <<repo, hooks, seen, bmap, mapping, previewVars, deployVars, again>>

\* Refused while a resource is deployed from it.  Branch maps, previews and
\* requests go with the row; the environment of a preview stays.
DeleteGitConnection ==
    /\ UserStep /\ conn # NoConn /\ live = {}
    /\ conn' = NoConn /\ bmap' = NoMap /\ prRow' = 0 /\ requests' = {}
    /\ UNCHANGED <<repo, hooks, seen, claim, mapping, prEnv, live, again>>

SetConnectionPreviews ==
    /\ UserStep /\ conn # NoConn
    /\ \E s \in {"none", "fit"} :
          conn' = [conn EXCEPT !.previews = (s = "fit"), !.server = s] /\ conn' # conn
    /\ UNCHANGED <<repo, hooks, seen, claim, bmap, mapping, previewVars, deployVars, again>>

\* The preview server is removed or changes its type: not while it runs an app.
PreviewServerGoes ==
    /\ UserStep /\ conn.server = "fit" /\ ~prEnv.app
    /\ conn' = [conn EXCEPT !.server = "unfit"]
    /\ UNCHANGED <<repo, hooks, seen, claim, bmap, mapping, previewVars, deployVars, again>>

(***************************************************************************)
(* Branch maps.  The handler that maps a branch goes on to ask for the     *)
(* head of a branch with no commit yet, and deploys or records it.         *)
(***************************************************************************)
SetBranchMap ==
    /\ UserStep /\ conn # NoConn /\ mapping = Idle
    /\ \E p \in {"auto", "manual"} \ {bmap.policy} :
          /\ bmap' = [bmap EXCEPT !.policy = p]
          /\ mapping' = IF bmap.sha = 0 THEN [Idle EXCEPT !.pc = "asks", !.policy = p] ELSE Idle
    /\ UNCHANGED <<repo, hooks, seen, claim, conn, previewVars, deployVars, again>>

\* The provider answers, or does not.
BranchHead ==
    /\ mapping.pc = "asks"
    /\ mapping' \in {Idle, [mapping EXCEPT !.pc = "knows", !.sha = repo.tip]}
    /\ UNCHANGED <<repo, hooks, seen, claim, conn, bmap, previewVars, deployVars, again, gitEdits>>

\* Only a map with no commit is written, and not its time.
FillsABlank(c) == IF bmap.sha = 0 THEN [bmap EXCEPT !.sha = c] ELSE bmap

\* Writes the map whatever it holds by now.
EnqueueBranchDeploy ==
    /\ mapping.pc = "knows" /\ mapping.policy = "auto" /\ mapping' = Idle
    /\ \/ bmap # NoMap /\ requests' = requests \cup {0}
          /\ bmap' = [bmap EXCEPT !.sha = mapping.sha, !.at = Now]
       \/ bmap = NoMap /\ UNCHANGED <<requests, bmap>>
    /\ UNCHANGED <<repo, hooks, seen, claim, conn, previewVars, live, again, gitEdits>>

RecordBranchHead ==
    /\ mapping.pc = "knows" /\ mapping.policy = "manual" /\ mapping' = Idle
    /\ bmap' = IF bmap = NoMap THEN bmap ELSE FillsABlank(mapping.sha)
    /\ UNCHANGED <<repo, hooks, seen, claim, conn, previewVars, deployVars, again, gitEdits>>

DeleteBranchMap ==
    /\ UserStep /\ bmap # NoMap /\ bmap' = NoMap
    /\ UNCHANGED <<repo, hooks, seen, claim, conn, mapping, previewVars, deployVars, again>>

PromoteBranch ==
    /\ UserStep /\ bmap.sha # 0 /\ 0 \notin requests /\ requests' = requests \cup {0}
    /\ UNCHANGED <<repo, hooks, seen, claim, conn, bmap, mapping, previewVars, live, again>>

\* A deployment per app of the environment; it may fail.
DrainDeployRequests ==
    \E e \in requests :
        /\ requests' = requests \ {e}
        /\ \/ (e # 0 => prEnv.app) /\ live' = live \cup {e}
           \/ UNCHANGED live
        /\ UNCHANGED <<repo, hooks, seen, claim, conn, bmap, mapping, previewVars, again, gitEdits>>

(***************************************************************************)
(* The dashboard removes what a connection or a preview stands on.         *)
(***************************************************************************)
DeleteApp ==
    /\ UserStep /\ 0 \in live /\ live' = live \ {0}
    /\ UNCHANGED <<repo, hooks, seen, claim, conn, bmap, mapping, previewVars, requests, again>>

\* The environment takes its app, requests and deployments along.
DropEnv == prEnv' = NoEnv /\ requests' = requests \ {prEnv.id} /\ live' = live \ {prEnv.id}

DeletePrEnvironment ==
    /\ UserStep /\ prEnv # NoEnv /\ DropEnv
    /\ UNCHANGED <<repo, hooks, seen, claim, conn, bmap, mapping, prRow, again>>

DeletePrResource ==
    /\ UserStep /\ prEnv.app /\ prEnv' = [prEnv EXCEPT !.app = FALSE] /\ live' = live \ {prEnv.id}
    /\ UNCHANGED <<repo, hooks, seen, claim, conn, bmap, mapping, prRow, requests, again>>

\* A user takes the name.
CreateEnvironment ==
    /\ UserStep /\ prEnv = NoEnv /\ prEnv' = [NoEnv EXCEPT !.id = OtherThan({prRow})]
    /\ UNCHANGED <<repo, hooks, seen, claim, conn, bmap, mapping, prRow, deployVars, again>>

(***************************************************************************)
(* A delivery.                                                             *)
(***************************************************************************)
\* By the org that claimed the installation, by a connection that recorded it,
\* by being the only one.
gitConnectionForDelivery(inst) ==
    CASE inst /\ claim.owner = "us" /\ conn # NoConn -> "us"
      [] inst /\ claim.owner = "rival" /\ claim.rival -> "rival"
      [] inst /\ conn.inst -> "us"
      [] OTHER -> IF conn # NoConn THEN IF claim.rival THEN "ambiguous" ELSE "us"
                  ELSE IF claim.rival THEN "rival" ELSE "nobody"

Standing == prRow # 0 /\ prRow = prEnv.id /\ prEnv.app
CanCreate == conn.server = "fit" /\ prEnv = NoEnv

\* The preview is refreshed, or made anew if its environment or its app is
\* gone; without a server, or with the name taken, that is an error.
ensurePreviewTx ==
    \/ Standing /\ UNCHANGED previewVars
    \/ /\ ~Standing /\ CanCreate
       /\ prEnv' = [id |-> OtherThan({prRow}), conn |-> conn.id, app |-> TRUE]
       /\ prRow' = prEnv'.id

\* Mutant: a preview whose app is gone is only marked closed.
ClosesRowOnly ==
    IF Standing THEN DropEnv /\ prRow' = 0 ELSE prRow' = 0 /\ UNCHANGED <<prEnv, deployVars>>

\* The environment the row names goes, with what is in it.
teardownPreviewTx ==
    /\ prRow' = 0
    /\ IF prRow # 0 /\ prRow = prEnv.id THEN DropEnv ELSE UNCHANGED <<prEnv, deployVars>>

Opens == {"opened", "synchronize"}
OlderPush(h) == CommitTime(h.sha) < bmap.at

\* What a routed delivery does; n deploys are queued.
Handle(h, n) ==
    \/ /\ h.event = "push" /\ bmap # NoMap /\ ~OlderPush(h)
       /\ bmap' = [bmap EXCEPT !.sha = h.sha, !.at = CommitTime(h.sha)]
       /\ n = IF bmap.policy = "auto" THEN 1 ELSE 0
       /\ requests' = IF n = 1 THEN requests \cup {0} ELSE requests
       /\ UNCHANGED <<previewVars, live>>
    \/ /\ h.event \in Opens /\ conn.previews /\ ensurePreviewTx
       /\ n = 1 /\ requests' = requests \cup {prRow'} /\ UNCHANGED <<bmap, live>>
    \/ h.event = "closed" /\ conn.previews /\ teardownPreviewTx /\ n = 0 /\ UNCHANGED bmap
    \/ /\ IF h.event = "push" THEN bmap = NoMap \/ OlderPush(h) ELSE ~conn.previews
       /\ n = 0 /\ UNCHANGED <<bmap, previewVars, deployVars>>

Refused(h) == h.event \in Opens /\ conn.previews /\ ~Standing /\ ~CanCreate

\* Mutant: the delivery is recorded in a transaction of its own.
RecordedApart(i) == seen' = seen \cup {i}

\* An error rolls everything back, the record of the delivery too.
RollBack(i) == UNCHANGED seen

\* The transaction fails: an error of the preview, or of the database.
WebhookFails(i) ==
    /\ hooks[i].answer = "awaited" /\ i \notin seen
    /\ \/ Refused(hooks[i]) /\ gitConnectionForDelivery(hooks[i].inst) = "us" /\ UNCHANGED again
       \/ again < MaxRedeliveries /\ again' = again + 1
    /\ RollBack(i) /\ hooks' = [hooks EXCEPT ![i].answer = "500"]
    /\ UNCHANGED <<repo, claim, conn, bmap, mapping, previewVars, deployVars, gitEdits>>

\* The transaction commits: a duplicate and a delivery of another org's change
\* nothing.
HandleGitWebhook(i) ==
    LET h  == hooks[i]
        to == gitConnectionForDelivery(h.inst)
    IN  /\ h.answer = "awaited" /\ seen' = seen \cup {i}
        /\ \/ /\ i \in seen /\ hooks' = [hooks EXCEPT ![i].answer = "200"]
              /\ UNCHANGED <<bmap, previewVars, deployVars>>
           \/ /\ i \notin seen /\ to # "us"
              /\ hooks' = [hooks EXCEPT ![i].answer = "200", ![i].to = to]
              /\ UNCHANGED <<bmap, previewVars, deployVars>>
           \/ /\ i \notin seen /\ to = "us"
              /\ \E n \in 0..1 :
                    /\ Handle(h, n)
                    /\ hooks' = [hooks EXCEPT ![i].answer = "200", ![i].to = "us", ![i].deploys = @ + n]
        /\ UNCHANGED <<repo, claim, conn, mapping, again, gitEdits>>

GitHooksNext ==
    \/ Author \/ PushBranch \/ PullRequest \/ Redeliver
    \/ ClaimInstallationWithMeta \/ RivalActs \/ GitConnect \/ EnsureGitConnection
    \/ SetConnectionInstallation \/ DeleteOrgInstallation \/ DeleteGitConnection
    \/ SetConnectionPreviews \/ PreviewServerGoes
    \/ SetBranchMap \/ BranchHead \/ EnqueueBranchDeploy \/ RecordBranchHead
    \/ DeleteBranchMap \/ PromoteBranch \/ DrainDeployRequests
    \/ DeleteApp \/ DeletePrEnvironment \/ DeletePrResource \/ CreateEnvironment
    \/ \E i \in DOMAIN hooks : WebhookFails(i) \/ HandleGitWebhook(i)

GitHooksSpec == GitHooksInit /\ [][GitHooksNext]_gitHookVars

GitHooksTypeOK ==
    /\ repo.tip <= repo.made /\ seen \subseteq DOMAIN hooks /\ conn.id \in 0..3
    /\ prRow \in 0..3 /\ prEnv.id \in 0..3 /\ requests \subseteq 0..3 /\ live \subseteq 0..3

\* A delivery has its effect once (HandleGitWebhook): redelivered, it deploys
\* nothing more, and one that was only ever answered with an error left no
\* trace and can be redelivered.
HookOnce ==
    \A i \in DOMAIN hooks :
        /\ hooks[i].deploys <= 1
        /\ hooks[i].answer = "500" => i \notin seen /\ hooks[i].deploys = 0

\* The environment made for a pull request has its open preview row as long as
\* its connection stands, so that closing the request removes it, whatever a
\* user deleted of it in between and however deliveries came.
PreviewTracked == prEnv.conn # 0 /\ prEnv.conn = conn.id => prRow = prEnv.id

\* SIGMA-165: a user who deletes something of a preview does not stop it from
\* deploying for ever.  Not so: with the app deleted and the environment left,
\* its name is taken, and each delivery is an error.
PreviewHeals == prRow # 0 /\ conn.server = "fit" => ~Refused([event |-> "synchronize"])

\* A push wins over the head resolved when the branch was mapped: with all
\* pushes taken and no mapping under way, the map has the branch's tip.  Not
\* so: EnqueueBranchDeploy overwrites a later push, and its now() makes later
\* pushes of commits that are already made look stale.
PushWins ==
    /\ mapping = Idle /\ bmap.sha # 0
    /\ \A i \in DOMAIN hooks : hooks[i].event = "push" => hooks[i].answer = "200" /\ hooks[i].to = "us"
    => bmap.sha = repo.tip
=============================================================================
