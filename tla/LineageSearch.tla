--------------------------- MODULE LineageSearch ---------------------------
(***************************************************************************)
(* LineageGraph.record as it runs: a loop over the parents of the call,    *)
(* and for each of them the depth-first search of _reaches, with its stack *)
(* and its set of nodes already seen.  An edge is appended as soon as its  *)
(* own search has found nothing, so the next search runs on a larger graph.*)
(***************************************************************************)
EXTENDS Lineage, SequencesExt

CONSTANTS
    Requests,     \* the calls record(child, parents)
    NoCall,       \* what is being recorded between calls
    MaxEdges      \* bound: calls are made while the graph has room for them

ASSUME SearchAssumption ==
    /\ Requests \subseteq [child : Keys, parents : Seq(Keys)]
    /\ NoCall \notin Requests
    /\ MaxEdges \in Nat

VARIABLES
    parents,    \* _edges: key -> its parents, in the order recorded
    call, at,   \* the call of record() and the parent its loop is at
    stack, seen,    \* the locals of _reaches
    pc,         \* "idle"; "record", the loop of record(); "search"
    answer,     \* how the last call ended
    \* History, which no action reads:
    settled,    \* the edges as the last call left them
    pushed      \* nodes the search has put on its stack so far

searchVars == <<parents, call, at, stack, seen, pc, answer, settled, pushed>>

EdgeSets(lists) == [k \in Keys |-> ToSet(lists[k])]

\* An edge is a place in its child's list of parents: a parent named twice makes two.
EdgeSlots == UNION { {k} \X DOMAIN parents[k] : k \in Keys }

EdgeCount == Cardinality(EdgeSlots)

Parent == call.parents[at]

Call(q) ==
    /\ pc = "idle"
    /\ EdgeCount + Len(q.parents) <= MaxEdges
    /\ call' = q
    /\ at' = 1
    /\ pc' = "record"
    /\ UNCHANGED <<parents, stack, seen, answer, settled, pushed>>

EndSearch == stack' = <<>> /\ seen' = {} /\ pushed' = 0

Return(out) ==
    /\ pc' = "idle"
    /\ call' = NoCall /\ at' = 0
    /\ answer' = out
    /\ settled' = EdgeSets(parents)
    /\ EndSearch
    /\ UNCHANGED parents

\* The loop is done.
Recorded ==
    /\ pc = "record" /\ at > Len(call.parents)
    /\ Return("recorded")

\* A key is not its own parent.
SelfParent ==
    /\ pc = "record" /\ at <= Len(call.parents)
    /\ Parent = call.child
    /\ Return("raised")

\* Mutant: whether the child reaches the parent is asked.
SearchedFromChild(parent) == parents[call.child]

\* _reaches(parent, child) starts from the parents of the parent.
SearchedFrom(parent) == parents[parent]

StartSearch ==
    /\ pc = "record" /\ at <= Len(call.parents)
    /\ Parent # call.child
    /\ stack' = SearchedFrom(Parent)
    /\ seen' = {}
    /\ pc' = "search"
    /\ pushed' = Len(SearchedFrom(Parent))
    /\ UNCHANGED <<parents, call, at, answer, settled>>

-----------------------------------------------------------------------------
(* The loop of _reaches: pop a node, compare it, skip or visit it. *)

\* Mutant: the node is looked at and stays on the stack.
Peeked == stack

\* Mutant: the other end of the stack is popped.
PoppedFirst == Tail(stack)

Popped == Front(stack)

\* Mutant: no node counts as seen.
NeverSeen(node) == FALSE

Seen(node) == node \in seen

Encounter ==
    /\ pc = "search" /\ stack # <<>>
    /\ Last(stack) = call.child
    /\ Return("raised")

Skip ==
    /\ pc = "search" /\ stack # <<>>
    /\ Last(stack) # call.child /\ Seen(Last(stack))
    /\ stack' = Popped
    /\ UNCHANGED <<parents, call, at, seen, pc, answer, settled, pushed>>

Visit ==
    /\ pc = "search" /\ stack # <<>>
    /\ Last(stack) # call.child /\ ~Seen(Last(stack))
    /\ stack' = Popped \o parents[Last(stack)]
    /\ seen' = seen \cup {Last(stack)}
    /\ pushed' = pushed + Len(parents[Last(stack)])
    /\ UNCHANGED <<parents, call, at, pc, answer, settled>>

\* _reaches answers False: the edge is appended.
Exhausted ==
    /\ pc = "search" /\ stack = <<>>
    /\ parents' = [parents EXCEPT ![call.child] = Append(@, Parent)]
    /\ at' = at + 1
    /\ pc' = "record"
    /\ EndSearch
    /\ UNCHANGED <<call, answer, settled>>

Step == Recorded \/ SelfParent \/ StartSearch \/ Encounter \/ Skip \/ Visit \/ Exhausted

SearchInit ==
    /\ parents = [k \in Keys |-> <<>>]
    /\ call = NoCall /\ at = 0
    /\ stack = <<>> /\ seen = {}
    /\ pc = "idle"
    /\ answer = "none"
    /\ settled = [k \in Keys |-> {}]
    /\ pushed = 0

SearchNext == Step \/ \E q \in Requests : Call(q)

\* A call that has begun runs on; nobody has to make a call.
SearchSpec == SearchInit /\ [][SearchNext]_searchVars /\ WF_searchVars(Step)

-----------------------------------------------------------------------------

Atomic == INSTANCE LineageRecord WITH edges <- settled

\* record() with its searches does what Record says of the graph of the moment
\* it was called, including the edges it leaves when it raises: no search
\* misses a path or is misled by the edges appended since.
ImplementsRecord == Atomic!RecordSpec

\* The graph is acyclic at every moment of a call, not only between calls: a
\* record() that raises leaves the edges it has appended.
GraphStaysAcyclic == Acyclic(EdgeSets(parents))

\* A search puts no more nodes on its stack than the graph has edges, however
\* many paths lead to a node (the seen set of _reaches).
SearchIsLinear == pushed <= EdgeCount

\* How many steps the call in progress may still take: for each parent left, a
\* search that pops each edge once, of a graph that grows by an edge per parent.
FuelLeft ==
    LET left == Len(call.parents) - at + 1
        round == EdgeCount + left + 2
    IN  CASE pc = "idle"   -> 0
          [] pc = "record" -> 1 + left * round
          [] pc = "search" -> 2 + (left - 1) * round + (EdgeCount - pushed + Len(stack))

\* Every step of a call brings it nearer to its end, so that record() with n
\* parents returns after at most 1 + n * (E + n + 2) steps on a graph of E
\* edges: no cycle, no second way to a node and no edge it appends itself makes
\* a search go on (LineageGraph.record, _reaches).
StepsAreCounted ==
    [][pc # "idle" => FuelLeft' \in 0 .. FuelLeft - 1]_searchVars

\* Every call of record() returns.
CallsReturn == pc # "idle" ~> pc = "idle"

=============================================================================
