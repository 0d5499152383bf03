--------------------------- MODULE LineageRecord ---------------------------
(***************************************************************************)
(* What LineageGraph.record promises, a call being one step: the parents   *)
(* before the first that would close a cycle are recorded, and the call    *)
(* raises if there is such a parent.  It is what MemoryGuard's writes use. *)
(***************************************************************************)
EXTENDS Lineage

CONSTANT Requests   \* the calls record(child, parents), a set of records

VARIABLES
    edges,      \* key -> set of its parents
    answer      \* how the last call ended

RecordInit ==
    /\ edges = [k \in Keys |-> {}]
    /\ answer = "none"

RecordCall(q) ==
    /\ edges' = Record(edges, q.child, q.parents)
    /\ answer' = IF RecordRaises(edges, q.child, q.parents) THEN "raised"
                 ELSE "recorded"

RecordSpec == RecordInit /\ [][\E q \in Requests : RecordCall(q)]_<<edges, answer>>

=============================================================================
