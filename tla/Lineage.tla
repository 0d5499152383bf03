------------------------------ MODULE Lineage ------------------------------
(***************************************************************************)
(* The trust lattice and the derivation graph of lineage.py, as operators  *)
(* on the two dictionaries a LineageGraph keeps: edges[k] is the set of    *)
(* parents recorded for k (the code keeps a list: the same parent twice    *)
(* changes neither what is reachable nor a minimum), trust[k] the level    *)
(* set for k, UNTRUSTED for a key never set.                               *)
(***************************************************************************)
EXTENDS Integers, FiniteSetsExt, Classification

CONSTANT Keys   \* the memory keys, as written and as named as parents

UNTRUSTED == 0
LOW       == 1
MEDIUM    == 2
HIGH      == 3
VERIFIED  == 4
TrustLevel == UNTRUSTED .. VERIFIED

SourceClass == {"system", "user_input", "agent_authored", "external_tool", "unknown"}

SourceClassTrust ==
    [s \in SourceClass |->
        CASE s = "system"         -> HIGH
          [] s = "user_input"     -> MEDIUM
          [] s = "agent_authored" -> MEDIUM
          [] s = "external_tool"  -> LOW
          [] s = "unknown"        -> UNTRUSTED]

\* Mutant: the class does not matter.
BaseTrustUncapped(source, class) == SourceClassTrust[source]

\* base_trust: the untrusted classes cap at LOW whatever the source claims.
BaseTrust(source, class) ==
    IF class \in UNTRUSTED_CLASSES /\ SourceClassTrust[source] > LOW
    THEN LOW ELSE SourceClassTrust[source]

-----------------------------------------------------------------------------
\* What LineageGraph._reaches answers: target is in every set that holds the
\* parents of start and is closed under "parent of".  (LineageSearch models
\* the depth-first loop that computes it.)
ClosedUnder(edges, S) == \A n \in S : edges[n] \subseteq S

Reaches(edges, start, target) ==
    \A S \in SUBSET Keys :
        edges[start] \subseteq S /\ ClosedUnder(edges, S) => target \in S

\* Mutant: only self-loops are refused.
ClosesSelfLoop(edges, child, parent) == parent = child

\* The test of record: an edge child -> parent would close a cycle.
ClosesCycle(edges, child, parent) ==
    parent = child \/ Reaches(edges, parent, child)

\* record takes the parents one by one and raises at the first that would
\* close a cycle, keeping the edges it has already appended.  Edges of child
\* itself never change whether a parent reaches child, so each test reads the
\* graph as it was before the call.
Recordable(edges, child, parents) ==
    { i \in DOMAIN parents :
        \A j \in 1 .. i : ~ClosesCycle(edges, child, parents[j]) }

RecordRaises(edges, child, parents) ==
    Recordable(edges, child, parents) # DOMAIN parents

Record(edges, child, parents) ==
    [edges EXCEPT ![child] =
        @ \cup { parents[i] : i \in Recordable(edges, child, parents) }]

\* assess: the base trust, capped at the lowest trust among all the parents
\* ever recorded, unless the write is verified or there are none.
Assess(edges, trust, child, base, verified) ==
    IF verified \/ edges[child] = {}
    THEN base
    ELSE Min({base} \cup { trust[p] : p \in edges[child] })

Acyclic(edges) == \A k \in Keys : ~Reaches(edges, k, k)

=============================================================================
