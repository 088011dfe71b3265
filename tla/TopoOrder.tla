----------------------------- MODULE TopoOrder -----------------------------
(***************************************************************************)
(* dsd.TopoOrder (agent/internal/dsd/dsd.go, mirrored in                   *)
(* cp/internal/dsd/dsd.go): the depth-first search that puts a document's  *)
(* ops in dependency order and lists the ones it cannot place.  The list   *)
(* may name an id twice (byID keeps the last), an op may depend on an id   *)
(* that is not in the list, and dependencies may be cyclic.                *)
(*                                                                         *)
(* The recursive closure visit is a machine with a stack: a frame per call *)
(* under way, holding the id and the dependency that is looked at.  A call *)
(* that returned has left its answer in state and bad, where the caller    *)
(* reads it as any later visit does.                                       *)
(***************************************************************************)
EXTENDS Naturals, Sequences, OpGraph

CONSTANTS
    Ids,      \* op ids a document can hold
    Missing,  \* an id no document holds
    MaxLen,   \* bound: length of the op list
    MaxDeps   \* bound: length of a dependsOn list

ASSUME TopoAssumption == MaxLen \in Nat /\ MaxDeps \in Nat

VARIABLES
    list,      \* the ids of the op list, in order
    dep,       \* dep[o], for o of the list: the dependsOn list of byID[o]
    state,     \* 0 unvisited, 1 on the stack, 2 finished
    bad,       \* finished and refused
    order,     \* finished and placed
    stack,     \* the calls of visit under way, the outermost first
    root,      \* the loop over the list that visits
    last,      \* the loop over the list that collects the refused
    unresolved \* the result next to order

topoVars == <<list, dep, state, bad, order, stack, root, last, unresolved>>

Members(s) == {s[i] : i \in DOMAIN s}
Lists(S, n) == UNION {[1 .. m -> S] : m \in 0 .. n}

Frame(id) == [id |-> id, next |-> 1]
Top == stack[Len(stack)]
Pop == SubSeq(stack, 1, Len(stack) - 1)
Looking == stack # <<>> /\ Top.next <= Len(dep[Top.id])

TopoInit ==
    /\ list \in Lists(Ids, MaxLen)
    /\ dep \in [Members(list) -> Lists(Ids \cup {Missing}, MaxDeps)]
    /\ state = [o \in Members(list) |-> 0] /\ bad = {} /\ order = <<>>
    /\ stack = <<>> /\ root = 1 /\ last = 1 /\ unresolved = <<>>

-----------------------------------------------------------------------------
\* Mutant: an op on the stack counts as placed.
AnswerMissesCycle(id) ==
    IF id \notin Members(list) THEN "no"
    ELSE IF state[id] = 0 THEN "call"
    ELSE IF id \in bad THEN "no" ELSE "yes"

\* How visit(id) begins: it has an answer at once, or goes through the
\* dependencies of id.
Answer(id) ==
    IF id \notin Members(list) THEN "no"
    ELSE IF state[id] = 2 THEN IF id \in bad THEN "no" ELSE "yes"
    ELSE IF state[id] = 1 THEN "no"
    ELSE "call"

\* The loop over the list: each op not visited yet is a root.
VisitRoot ==
    /\ stack = <<>> /\ root <= Len(list)
    /\ root' = root + 1
    /\ IF state[list[root]] = 0
       THEN /\ state' = [state EXCEPT ![list[root]] = 1]
            /\ stack' = <<Frame(list[root])>>
       ELSE UNCHANGED <<state, stack>>
    /\ UNCHANGED <<list, dep, bad, order, last, unresolved>>

\* visit of the next dependency is called.
VisitDep ==
    /\ Looking
    /\ LET d == dep[Top.id][Top.next]
       IN  /\ Answer(d) = "call"
           /\ state' = [state EXCEPT ![d] = 1]
           /\ stack' = Append(stack, Frame(d))
    /\ UNCHANGED <<list, dep, bad, order, root, last, unresolved>>

\* It is placed: on to the one after it.
DepPlaced ==
    /\ Looking /\ Answer(dep[Top.id][Top.next]) = "yes"
    /\ stack' = [stack EXCEPT ![Len(stack)].next = @ + 1]
    /\ UNCHANGED <<list, dep, state, bad, order, root, last, unresolved>>

\* It is not: the op is refused, and the rest of its dependencies not visited.
DepRefused ==
    /\ Looking /\ Answer(dep[Top.id][Top.next]) = "no"
    /\ state' = [state EXCEPT ![Top.id] = 2]
    /\ bad' = bad \cup {Top.id}
    /\ stack' = Pop
    /\ UNCHANGED <<list, dep, order, root, last, unresolved>>

\* All dependencies are placed, and so is the op.
Place ==
    /\ stack # <<>> /\ ~Looking
    /\ state' = [state EXCEPT ![Top.id] = 2]
    /\ order' = Append(order, Top.id)
    /\ stack' = Pop
    /\ UNCHANGED <<list, dep, bad, root, last, unresolved>>

\* The second loop over the list.
Collect ==
    /\ stack = <<>> /\ root > Len(list) /\ last <= Len(list)
    /\ last' = last + 1
    /\ unresolved' = IF list[last] \in bad THEN Append(unresolved, list[last]) ELSE unresolved
    /\ UNCHANGED <<list, dep, state, bad, order, stack, root>>

TopoNext == VisitRoot \/ VisitDep \/ DepPlaced \/ DepRefused \/ Place \/ Collect

TopoSpec == TopoInit /\ [][TopoNext]_topoVars

\* TopoOrder has returned.
Returned == root > Len(list) /\ stack = <<>> /\ last > Len(list)

-----------------------------------------------------------------------------
DepSet == [o \in Members(list) |-> Members(dep[o])]

\* What can be ordered is: exactly the ops that wait on no missing id and no
\* cycle, none refused because of an unrelated bad op or of the order in which
\* the search met a cycle; the others are reported unresolved.
OrdersWhatItCan ==
    /\ Members(order) = Resolvable(Members(list), DepSet)
    /\ Members(unresolved) = Members(list) \ Members(order)

\* Every op comes after all of its dependencies and appears once: Apply, which
\* reads only results already computed, sees each prerequisite's outcome.
DependencyFirst ==
    \A i \in DOMAIN order :
        /\ DepSet[order[i]] \subseteq {order[j] : j \in 1 .. i - 1}
        /\ order[i] \notin {order[j] : j \in 1 .. i - 1}

\* TopoOrder, for every list with duplicates, missing ids and cycles: it places
\* exactly the ops that can be placed, each once and after all it depends on.
OrderIsRight == DependencyFirst /\ (Returned => OrdersWhatItCan)

\* A call of visit never reaches itself again, whatever the cycles: the
\* recursion is no deeper than the document has ops, and ends.
NoReentry == \A i, j \in DOMAIN stack : stack[i].id = stack[j].id => i = j
=============================================================================
