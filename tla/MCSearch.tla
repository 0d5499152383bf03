------------------------------ MODULE MCSearch ------------------------------
(***************************************************************************)
(* LineageSearch for TLC: every call with one or two parents over four     *)
(* keys, in any order, until the graph has MaxEdges edges.                 *)
(***************************************************************************)
EXTENDS LineageSearch

MCRequests ==
    { [child |-> k, parents |-> <<p>>] : k \in Keys, p \in Keys }
    \cup { [child |-> k, parents |-> <<p, q>>] : k \in Keys, p \in Keys, q \in Keys }

=============================================================================
