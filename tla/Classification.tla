--------------------------- MODULE Classification ---------------------------
(***************************************************************************)
(* The memory classes of classification.py and the promotion graph between *)
(* them.  The registry itself (the class and the origin task of each key)  *)
(* is state of the guard: see MemoryGuard.                                 *)
(***************************************************************************)

MemoryClass == {"ephemeral", "user_preference_candidate", "verified_preference",
                "retrieved_fact", "tool_observation", "policy"}

\* The answer of ClassificationRegistry.get for a key it does not know (None).
NoClass == "unclassified"

UNTRUSTED_CLASSES == {"retrieved_fact", "tool_observation"}

DURABLE_CLASSES ==
    {"verified_preference", "policy"} \cup UNTRUSTED_CLASSES

PromotionEdge(source, target, requires_verification) ==
    [source |-> source, target |-> target,
     requires_verification |-> requires_verification]

DEFAULT_PROMOTION_GRAPH ==
    { PromotionEdge("ephemeral", "user_preference_candidate", FALSE),
      PromotionEdge("user_preference_candidate", "verified_preference", TRUE),
      PromotionEdge("retrieved_fact", "tool_observation", FALSE) }

\* PromotionRules.edge: at most one edge joins two classes.
EdgesBetween(source, target) ==
    { e \in DEFAULT_PROMOTION_GRAPH : e.source = source /\ e.target = target }

=============================================================================
