-------------------------- MODULE ContainerDriver --------------------------
(***************************************************************************)
(* The agent's Docker driver (agent/internal/container) and one group of   *)
(* containers, the generations of one app or service.  Two goroutines work *)
(* on the group: the document loop, which garbage-collects and then runs   *)
(* the group's op (a blue-green rollout, a recreate swap, or a             *)
(* container.apply), and the reconcile loop, which repairs drift from the  *)
(* desired-record store.  A Docker call is one step; between any two the   *)
(* agent may die, and Docker and the store survive it.                     *)
(*                                                                         *)
(* Generations are numbered in the order they are deployed; generation 0   *)
(* is released and serving at the start.  A rollout or recreate group has  *)
(* a container name per generation; under container.apply the one name     *)
(* takes a new spec with each generation.                                  *)
(***************************************************************************)
EXTENDS Integers, FiniteSets, FiniteSetsExt

CONSTANTS
    Kinds,      \* kinds of op to consider
    MaxGen,     \* bound: deployments after the first
    MaxDocs,    \* bound: documents issued
    MaxFaults,  \* bound: crashes, failed Docker calls, interference
    Keep,       \* defaultImageRetention
    Window      \* RollbackWindow, the releases the control plane offers

Hold == -1      \* a document that retains the group and has no op for it
Gone == -2      \* a document without the group
None == -3      \* no generation
Gens == 0..MaxGen

ASSUME ConstantsAssumption ==
    /\ Kinds \subseteq {"rollout", "recreate", "apply"}
    /\ {MaxGen, MaxFaults} \subseteq Nat
    /\ {MaxDocs, Keep, Window} \subseteq Nat \ {0} /\ Window <= Keep

VARIABLES
    kind,      \* the kind of op this group is deployed with
    good,      \* the generations that become healthy when they run
    head, doc, failed, released,  \* control plane: newest deployment,
               \* current document, finished deployments
    cont,      \* Docker: the container of each name
    nextId,    \* Docker: the next container id
    images,    \* Docker: generations whose image is on the host
    desired,   \* containers.db: the generation recorded for each name
    applied,   \* version of the last document that was processed
    mu,        \* who holds Driver.mu
    proc,      \* where the two goroutines are
    cur,       \* the document the loop works on
    drain,     \* ids the loop is still to drain
    todo,      \* generations the reconcile loop is still to look at
    settled,   \* the op of `cur` succeeded
    gated,     \* history: generations that passed a health gate
    orphaned,  \* history: generations left running before or at their gate
    stuck,     \* history: Docker failed to remove a container
    faults     \* failures so far

cpVars   == <<head, doc, failed, released>>
hostVars == <<cont, nextId, images>>
loopVars == <<cur, drain, applied, settled>>
history  == <<gated, orphaned, stuck>>
fixed    == <<kind, good>>
vars == <<fixed, cpVars, hostVars, desired, loopVars, mu, proc, todo, history, faults>>

Absent == [id |-> 0, gen |-> None, running |-> FALSE]
Idle   == [pc |-> "idle", gen |-> None, id |-> 0]

\* rolloutName: each deployment has a container name of its own.
NameOf(g) == IF kind = "apply" THEN 0 ELSE g

\* converged, for the keep-running restart policies.
Converged(g) == cont[NameOf(g)].gen = g /\ cont[NameOf(g)].running

Exists(i)  == \E n \in Gens : cont[n].id = i
Without(i) == [n \in Gens |-> IF cont[n].id = i THEN Absent ELSE cont[n]]
Fault == faults < MaxFaults /\ faults' = faults + 1

----------------------------------------------------------------------------
(* The control plane, as far as the group's part of a document goes.       *)

\* DeployTargetsForServer: the newest deployment that has not failed.
Target == IF kind = "apply" THEN head ELSE Max((0..head) \ failed)

Issue(g) ==
    /\ doc.v < MaxDocs /\ doc.gen # Gone
    /\ doc' = [v |-> doc.v + 1, gen |-> g]

\* A new deployment, whose rollout may be held back while it is built
\* elsewhere.
Deploy ==
    /\ head < MaxGen
    /\ head' = head + 1
    /\ Issue(head + 1) \/ (kind # "apply" /\ Issue(Hold))
    /\ UNCHANGED <<fixed, failed, released, hostVars, desired, loopVars, mu, proc, todo, history, faults>>

\* The end of a hold, a re-drive, a fall-back to the last release, or a change
\* elsewhere in the document.
Rerender ==
    /\ Issue(Target)
    /\ UNCHANGED <<fixed, head, failed, released, hostVars, desired, loopVars, mu, proc, todo, history, faults>>

Delete ==
    /\ Issue(Gone)
    /\ UNCHANGED <<fixed, head, failed, released, hostVars, desired, loopVars, mu, proc, todo, history, faults>>

----------------------------------------------------------------------------
(* The document loop.                                                      *)

At(p, label) == proc[p].pc = label
Go(p, label) == proc' = [proc EXCEPT ![p].pc = label]

\* The op is over and reported; a finished deployment stays as it is.
Finish(ok) ==
    /\ proc' = [proc EXCEPT !["loop"] = Idle]
    /\ applied' = cur.v /\ settled' = ok /\ drain' = {}
    /\ released' = IF ok /\ cur.gen \in Gens \ failed THEN released \cup {cur.gen} ELSE released
    /\ failed' = IF ~ok /\ cur.gen \in Gens \ released THEN failed \cup {cur.gen} ELSE failed
    /\ UNCHANGED <<head, doc, cur>>

Fetch ==
    /\ At("loop", "idle") /\ doc.v > applied
    /\ cur' = doc /\ settled' = FALSE
    /\ proc' = [proc EXCEPT !["loop"] = [pc |-> "prune", gen |-> doc.gen, id |-> 0]]
    /\ UNCHANGED <<fixed, cpVars, hostVars, desired, drain, applied, mu, todo, history, faults>>

\* Mutant: the records of older generations stay.
PruneNothing ==
    /\ At("loop", "prune") /\ mu = "free"
    /\ mu' = "loop"
    /\ Go("loop", "reap")
    /\ UNCHANGED <<fixed, cpVars, hostVars, desired, loopVars, todo, history, faults>>

\* GC, first half: forget every name the document does not want.
GCPrune ==
    /\ At("loop", "prune") /\ mu = "free"
    /\ mu' = "loop"
    /\ desired' = [n \in Gens |-> IF cur.gen \in Gens /\ n = NameOf(cur.gen)
                                  THEN desired[n] ELSE None]
    /\ Go("loop", "reap")
    /\ UNCHANGED <<fixed, cpVars, hostVars, loopVars, todo, history, faults>>

\* GC, second half: reap what is neither wanted nor in a group with an op or
\* on a retain list.  Then the ops: the clone and build ops leave the image.
GCReap ==
    /\ At("loop", "reap")
    /\ mu' = "free"
    /\ \/ /\ cur.gen = Gone
          /\ \/ cont' = [n \in Gens |-> Absent] /\ UNCHANGED <<stuck, faults>>
             \/ /\ \E S \in SUBSET Gens : cont' = [n \in Gens |-> IF n \in S THEN cont[n] ELSE Absent]
                /\ stuck' = TRUE /\ Fault
          /\ Finish(TRUE) /\ UNCHANGED <<nextId, images, fixed, desired, todo, gated, orphaned>>
       \/ /\ cur.gen = Hold
          /\ Finish(TRUE) /\ UNCHANGED <<hostVars, fixed, desired, todo, history, faults>>
       \/ /\ cur.gen \in Gens
          /\ images' = images \cup {cur.gen}
          /\ Go("loop", IF kind = "apply" THEN "lock" ELSE "inspect")
          /\ UNCHANGED <<cont, nextId, fixed, cpVars, desired, loopVars, todo, history, faults>>

\* performRollout: a running container of this generation is taken as
\* converged, a stopped one removed.
InspectRollout ==
    /\ kind = "rollout" /\ At("loop", "inspect")
    /\ LET c == cont[cur.gen]
       IN  IF c.running
           THEN Go("loop", "list")
           ELSE proc' = [proc EXCEPT !["loop"].id = c.id,
                            !["loop"].pc = IF c = Absent THEN "create" ELSE "remove"]
    /\ UNCHANGED <<fixed, cpVars, hostVars, desired, loopVars, mu, todo, history, faults>>

\* performRecreate: a running container of this generation is gated again,
\* anything else is removed first.
InspectRecreate ==
    /\ kind = "recreate" /\ At("loop", "inspect")
    /\ Go("loop", IF cont[cur.gen].running THEN "gate" ELSE "listall")
    /\ UNCHANGED <<fixed, cpVars, hostVars, desired, loopVars, mu, todo, history, faults>>

\* opContainerApply converges under the lock.
LockApply ==
    /\ At("loop", "lock") /\ mu = "free"
    /\ mu' = "loop"
    /\ LET c == cont[NameOf(cur.gen)]
       IN  proc' = [proc EXCEPT !["loop"].id = c.id,
                      !["loop"].pc = IF Converged(cur.gen) THEN "put"
                                     ELSE IF c = Absent THEN "create" ELSE "remove"]
    /\ UNCHANGED <<fixed, cpVars, hostVars, desired, loopVars, todo, history, faults>>

----------------------------------------------------------------------------
(* Steps that both goroutines take: converge, and the start of a swap.     *)

\* The call fails: the op fails, or the reconcile loop goes to the next name.
Fails(p) ==
    /\ IF p = "loop" THEN Finish(FALSE)
       ELSE /\ proc' = [proc EXCEPT !["tick"] = Idle]
            /\ UNCHANGED <<cpVars, loopVars>>
    /\ mu' = IF mu = p THEN "free" ELSE mu

ContainerRemove(p) ==
    /\ At(p, "remove")
    /\ cont' = Without(proc[p].id)
    /\ Go(p, "create")
    /\ UNCHANGED <<fixed, cpVars, nextId, images, desired, loopVars, mu, todo, history, faults>>

\* The name may have been taken by the other goroutine meanwhile.
ContainerCreate(p) ==
    /\ At(p, "create")
    /\ LET n == NameOf(proc[p].gen)
       IN  IF cont[n] = Absent /\ proc[p].gen \in images
           THEN /\ cont' = [cont EXCEPT ![n] = [id |-> nextId, gen |-> proc[p].gen, running |-> FALSE]]
                /\ nextId' = nextId + 1
                /\ proc' = [proc EXCEPT ![p].pc = "start", ![p].id = nextId]
                /\ UNCHANGED <<cpVars, loopVars, mu>>
           ELSE Fails(p) /\ UNCHANGED <<cont, nextId>>
    /\ UNCHANGED <<fixed, images, desired, todo, history, faults>>

\* With the secret files seeded; what follows is the op's business.
ContainerStart(p) ==
    /\ At(p, "start")
    /\ IF Exists(proc[p].id)
       THEN /\ cont' = [n \in Gens |-> IF cont[n].id = proc[p].id
                                       THEN [cont[n] EXCEPT !.running = TRUE] ELSE cont[n]]
            /\ IF p = "tick" THEN proc' = [proc EXCEPT ![p] = Idle] /\ mu' = "free"
               ELSE Go(p, IF kind = "apply" THEN "put" ELSE "gate") /\ UNCHANGED mu
            /\ UNCHANGED <<cpVars, loopVars>>
       ELSE Fails(p) /\ UNCHANGED cont
    /\ UNCHANGED <<fixed, nextId, images, desired, todo, history, faults>>

\* Docker refuses; only a swap removes what it could not start.
CallFails(p) ==
    /\ proc[p].pc \in {"lock", "inspect", "remove", "create", "start", "list", "listall"}
    /\ Fault /\ Fails(p)
    /\ cont' = IF At(p, "start") /\ p = "loop" /\ kind # "apply" THEN Without(proc[p].id) ELSE cont
    /\ UNCHANGED <<fixed, nextId, images, desired, todo, history>>

----------------------------------------------------------------------------
(* The rest of a swap, and the record it leaves.                           *)

Passes(n) == cont[n].running /\ cont[n].gen \in good

\* Mutant: a rollout drains without waiting for the gate.
GateNothing ==
    /\ At("loop", "gate")
    /\ Go("loop", IF kind = "rollout" THEN "list" ELSE "persist")
    /\ UNCHANGED <<fixed, cpVars, hostVars, desired, loopVars, mu, todo, history, faults>>

\* A recreated container that was found running has still to drain the rest.
GatePasses ==
    /\ At("loop", "gate") /\ Passes(cur.gen)
    /\ gated' = gated \cup {cur.gen}
    /\ Go("loop", IF kind = "rollout" \/ proc["loop"].id = 0 THEN "list" ELSE "persist")
    /\ UNCHANGED <<fixed, cpVars, hostVars, desired, loopVars, mu, todo, orphaned, stuck, faults>>

\* A failed rollout takes its own container away; Docker may refuse.  A failed
\* recreate leaves it.
GateFails ==
    /\ At("loop", "gate") /\ ~Passes(cur.gen)
    /\ \/ /\ cont' = IF kind = "rollout" THEN Without(proc["loop"].id) ELSE cont
          /\ UNCHANGED <<orphaned, faults>>
       \/ /\ kind = "rollout" /\ Fault
          /\ orphaned' = orphaned \cup {cur.gen}
          /\ UNCHANGED cont
    /\ Finish(FALSE)
    /\ UNCHANGED <<fixed, nextId, images, desired, mu, todo, gated, stuck>>

\* drainOld lists the other generations, or every one.
DrainList ==
    /\ proc["loop"].pc \in {"list", "listall"}
    /\ drain' = {cont[n].id : n \in {m \in Gens : cont[m] # Absent
                                        /\ (At("loop", "list") => m # cur.gen)}}
    /\ Go("loop", IF At("loop", "list") THEN "drain" ELSE "drainall")
    /\ UNCHANGED <<fixed, cpVars, hostVars, desired, cur, applied, settled, mu, todo, history, faults>>

\* Stop and remove one of them; an error is logged and the drain goes on.
DrainOld(i) ==
    /\ proc["loop"].pc \in {"drain", "drainall"} /\ i \in drain
    /\ drain' = drain \ {i}
    /\ \/ cont' = Without(i) /\ UNCHANGED <<stuck, faults>>
       \/ stuck' = TRUE /\ Fault /\ UNCHANGED cont
    /\ UNCHANGED <<fixed, cpVars, nextId, images, desired, cur, applied, settled, mu, proc, todo,
                   gated, orphaned>>

Drained ==
    /\ proc["loop"].pc \in {"drain", "drainall"} /\ drain = {}
    /\ Go("loop", IF At("loop", "drain") THEN "persist" ELSE "create")
    /\ UNCHANGED <<fixed, cpVars, hostVars, desired, loopVars, mu, todo, history, faults>>

\* Mutant: the live generation is not recorded (SIGMA-146).
PersistNothing ==
    /\ At("loop", "persist")
    /\ desired' = [n \in Gens |-> None]
    /\ Go("loop", "retain")
    /\ UNCHANGED <<fixed, cpVars, hostVars, loopVars, mu, todo, history, faults>>

PersistRolloutGeneration ==
    /\ At("loop", "persist")
    /\ desired' = [n \in Gens |-> IF n = cur.gen THEN cur.gen ELSE None]
    /\ Go("loop", "retain")
    /\ UNCHANGED <<fixed, cpVars, hostVars, loopVars, mu, todo, history, faults>>

InUse == {cur.gen} \cup {cont[n].gen : n \in {m \in Gens : cont[m] # Absent}}

\* Mutant: an image in use takes one of the places.
RetainCountsAll ==
    /\ At("loop", "retain")
    /\ images' = {g \in images : g \in InUse \/ Cardinality({h \in images : h > g}) < Keep}
    /\ Finish(TRUE)
    /\ UNCHANGED <<fixed, cont, nextId, desired, mu, todo, history, faults>>

\* retainImages: the newest Keep that are not in use, and those in use.
RetainImages ==
    /\ At("loop", "retain")
    /\ images' = {g \in images : g \in InUse \/ Cardinality({h \in images \ InUse : h > g}) < Keep}
    /\ Finish(TRUE)
    /\ UNCHANGED <<fixed, cont, nextId, desired, mu, todo, history, faults>>

\* opContainerApply records what it converged to.
PutDesired ==
    /\ At("loop", "put")
    /\ desired' = [desired EXCEPT ![NameOf(cur.gen)] = cur.gen]
    /\ mu' = "free"
    /\ Finish(TRUE)
    /\ UNCHANGED <<fixed, hostVars, todo, history, faults>>

----------------------------------------------------------------------------
(* The reconcile loop.                                                     *)

TickStart ==
    /\ At("tick", "idle") /\ todo = {}
    /\ todo' = {desired[n] : n \in {m \in Gens : desired[m] # None}}
    /\ UNCHANGED <<fixed, cpVars, hostVars, desired, loopVars, mu, proc, history, faults>>

\* Mutant: the snapshot is taken at its word.
ReconcileStale(g) ==
    /\ At("tick", "idle") /\ g \in todo /\ mu = "free"
    /\ todo' = todo \ {g}
    /\ LET c == cont[NameOf(g)]
       IN  IF Converged(g)
           THEN UNCHANGED <<mu, proc>>
           ELSE /\ mu' = "tick"
                /\ proc' = [proc EXCEPT !["tick"] =
                     [pc |-> IF c = Absent THEN "create" ELSE "remove", gen |-> g, id |-> c.id]]
    /\ UNCHANGED <<fixed, cpVars, hostVars, desired, loopVars, history, faults>>

\* reconcileOne: still desired by name, and not what the snapshot asks for.
ReconcileOne(g) ==
    /\ At("tick", "idle") /\ g \in todo /\ mu = "free"
    /\ todo' = todo \ {g}
    /\ LET c == cont[NameOf(g)]
       IN  IF desired[NameOf(g)] = None \/ Converged(g)
           THEN UNCHANGED <<mu, proc>>
           ELSE /\ mu' = "tick"
                /\ proc' = [proc EXCEPT !["tick"] =
                     [pc |-> IF c = Absent THEN "create" ELSE "remove", gen |-> g, id |-> c.id]]
    /\ UNCHANGED <<fixed, cpVars, hostVars, desired, loopVars, history, faults>>

----------------------------------------------------------------------------
(* The agent dies; a container is stopped or removed by someone else.      *)

Crash ==
    /\ Fault
    /\ proc' = [p \in {"loop", "tick"} |-> Idle]
    /\ mu' = "free" /\ drain' = {} /\ todo' = {}
    /\ orphaned' = IF proc["loop"].pc \in {"start", "gate"} THEN orphaned \cup {cur.gen} ELSE orphaned
    /\ UNCHANGED <<fixed, cpVars, hostVars, desired, cur, applied, settled, gated, stuck>>

Interfere(n) ==
    /\ cont[n].running
    /\ Fault
    /\ \/ cont' = [cont EXCEPT ![n].running = FALSE]
       \/ cont' = [cont EXCEPT ![n] = Absent]
    /\ UNCHANGED <<fixed, cpVars, nextId, images, desired, loopVars, mu, proc, todo, history>>

----------------------------------------------------------------------------
Init ==
    /\ kind \in Kinds /\ good \in {S \cup {0} : S \in SUBSET Gens}
    /\ head = 0 /\ doc = [v |-> 1, gen |-> 0] /\ failed = {} /\ released = {0}
    /\ cont = [n \in Gens |-> IF n = 0 THEN [id |-> 1, gen |-> 0, running |-> TRUE] ELSE Absent]
    /\ nextId = 2 /\ images = {0}
    /\ desired = [n \in Gens |-> IF n = 0 THEN 0 ELSE None]
    /\ applied = 1 /\ mu = "free" /\ proc = [p \in {"loop", "tick"} |-> Idle]
    /\ cur = doc /\ drain = {} /\ todo = {} /\ settled = TRUE
    /\ gated = {0} /\ orphaned = {} /\ stuck = FALSE /\ faults = 0

Converge(p) == ContainerRemove(p) \/ ContainerCreate(p) \/ ContainerStart(p)

LoopStep ==
    \/ Fetch \/ GCPrune \/ GCReap
    \/ InspectRollout \/ InspectRecreate \/ LockApply
    \/ Converge("loop")
    \/ GatePasses \/ GateFails
    \/ DrainList \/ (\E i \in drain : DrainOld(i)) \/ Drained
    \/ PersistRolloutGeneration \/ RetainImages \/ PutDesired

TickStep == TickStart \/ (\E g \in todo : ReconcileOne(g)) \/ Converge("tick")

Next ==
    \/ Deploy \/ Rerender \/ Delete
    \/ LoopStep \/ TickStep
    \/ CallFails("loop") \/ CallFails("tick")
    \/ Crash \/ \E n \in Gens : Interfere(n)

Spec == Init /\ [][Next]_vars

\* systemd restarts the agent, its two loops go on; nothing is assumed of the
\* control plane or of faults.
FairSpec == Spec /\ WF_vars(LoopStep) /\ WF_vars(TickStep)

----------------------------------------------------------------------------
(* Properties.                                                             *)

\* Every variable keeps its type.
TypeOK ==
    /\ kind \in Kinds /\ good \subseteq Gens /\ head \in Gens
    /\ doc \in [v : 1..MaxDocs, gen : Gens \cup {Hold, Gone}]
    /\ cur \in [v : 1..MaxDocs, gen : Gens \cup {Hold, Gone}]
    /\ failed \subseteq Gens /\ released \subseteq Gens /\ failed \cap released = {}
    /\ cont \in [Gens -> [id : Nat, gen : Gens \cup {None}, running : BOOLEAN]]
    /\ desired \in [Gens -> Gens \cup {None}] /\ images \subseteq Gens
    /\ mu \in {"free", "loop", "tick"} /\ todo \subseteq Gens
    /\ {nextId, applied, faults} \subseteq Nat
    /\ gated \cup orphaned \subseteq Gens /\ drain \subseteq 1..nextId
    /\ {stuck, settled} \subseteq BOOLEAN

\* A container that serves: it runs and is healthy.
Serves(n) == cont[n].running /\ cont[n].gen \in good

\* What drains, in favour of what: some container that serves is removed by
\* the document loop while the document has a rollout for the group.
Cuts == /\ kind = "rollout" /\ cur.gen \in Gens /\ ~At("loop", "idle")
        /\ faults' = faults /\ UNCHANGED proc["tick"]
        /\ \E n \in Gens : Serves(n) /\ cont'[n] = Absent

\* "The new container is created, started, and HEALTH-GATED before any old
\* generation is touched" (rollout.go:300): whatever the interleaving, a
\* serving generation goes only for one that passed its gate, or that an
\* earlier attempt left behind when it was cut short.
NeverCut == [][Cuts => cur.gen \in gated \cup orphaned]_vars

\* The same without the exception: does not hold.
NeverCutOnResume == [][Cuts => cur.gen \in gated]_vars

\* "A service holding an exclusive resource never has two live generations"
\* (spec.go): neither the swap nor a repair starts a second container, unless
\* Docker failed to remove the first.
Exclusive ==
    kind = "recreate" /\ ~stuck
    => \A m, n \in Gens : cont[m].running /\ cont[n].running => m = n

\* A drained generation is never resurrected (SIGMA-146) and neither is a
\* deleted app's container: after an op that succeeded the group has at most
\* the container the document names, while the reconcile loop keeps running.
OnlyWhatIsDesired ==
    At("loop", "idle") /\ settled /\ ~stuck /\ cur.gen # Hold
    => \A n \in Gens : cont[n] # Absent => cur.gen \in Gens /\ n = NameOf(cur.gen)

\* SIGMA-362: a release that the control plane offers for rollback is still on
\* the host, unless more unsuccessful builds came after it than the difference
\* of the two windows allows.
Offered == {g \in released : Cardinality({h \in released : h > g}) < Window}
OfferedIsRetained ==
    kind # "apply" =>
        \A g \in Offered \ images :
            Cardinality({h \in 1..head : h > g /\ h \notin released}) >= Keep - Window + 2

\* "A healthy running generation is seen as converged rather than needlessly
\* recreated" (driver.go:339): the reconcile loop never removes a container
\* that runs what is recorded for it.  Does not hold.
RepairSparesRunning ==
    [][\A n \in Gens :
         /\ At("tick", "remove") /\ proc'["tick"].pc = "create"
         /\ cont[n].running /\ cont[n].gen = desired[n]
         => cont'[n] # Absent]_vars

\* Drift is repaired with no help of the control plane: when faults and
\* documents stop, what the last successful op deployed runs.
SelfHeals ==
    <>[](settled /\ cur.gen \in Gens =>
            LET c == cont[NameOf(cur.gen)] IN c.gen = cur.gen /\ c.running)
=============================================================================
