------------------------------ MODULE MCGuard ------------------------------
(***************************************************************************)
(* Instances of MemoryGuard for TLC.  A run looks at one side of the guard *)
(* with the few calls that matter to it: the definitions below are the     *)
(* values its cfg gives to the constants.                                  *)
(***************************************************************************)
EXTENDS MemoryGuardProps

CONSTANTS a, b, c,                       \* keys
          plain, secret, masked, inject  \* values

\* What the content detectors find in the values, all with severity HIGH.
MCContent ==
    [v \in Values |->
        CASE v = secret -> {Found("sensitive_data", SevHigh)}
          [] v = inject -> {Found("prompt_injection", SevHigh)}
          [] OTHER -> {}]

MCRedacted == [v \in Values |-> IF v = secret THEN masked ELSE v]

SizeOnly == {Found("size_anomaly", SevMedium)}
AllAnomalies == SizeOnly \cup {Found("rapid_change", SevMedium),
                               Found("self_reinforcement", SevMedium)}

None == {}
EmptyStore == {[k \in Keys |-> NoValue]}

Call(key, value, source) ==
    [key |-> key, value |-> value, source |-> source, receipt |-> FALSE,
     cls |-> NoClass, task |-> NoTask, parents |-> <<>>, verified |-> FALSE]

From(r, parents) == [r EXCEPT !.parents = parents]

-----------------------------------------------------------------------------
(* Trust: three keys, derivations along and against every edge between them *)

TrustWrites ==
    { Call(a, plain, "external_tool"),
      [Call(a, plain, "system") EXCEPT !.receipt = TRUE],
      Call(a, plain, "system"),
      Call(b, plain, "user_input"),
      Call(b, plain, "external_tool"),
      From(Call(b, plain, "agent_authored"), <<a>>),
      [From(Call(b, plain, "system"), <<a>>) EXCEPT !.receipt = TRUE],
      [From(Call(b, plain, "agent_authored"), <<a>>) EXCEPT !.verified = TRUE],
      From(Call(c, plain, "agent_authored"), <<a, b>>),
      From(Call(a, plain, "agent_authored"), <<c>>),
      From(Call(b, plain, "agent_authored"), <<c, b>>) }

RecipientContract ==
    [arguments |-> [to |-> [role |-> "recipient", min_trust |-> NoTrust],
                    cmd |-> [role |-> "command", min_trust |-> NoTrust]],
     on_violation |-> "block"]

FromKey(k) == [key |-> k, trust |-> NoTrust]

TrustAuthorizations ==
    { [arguments |-> RecipientContract.arguments, on_violation |-> "block",
       args |-> [to |-> FromKey(k), body |-> FromKey(a)]] : k \in {a, b} }
    \cup
    { [arguments |-> RecipientContract.arguments, on_violation |-> "block",
       args |-> [cmd |-> FromKey(k)]] : k \in {a, c} }

\* b, which no policy protects, is given a baseline by hand.
TrustBaselines == { <<b, NoValue>> }

-----------------------------------------------------------------------------
(* Screening: a is an immutable key (listed literally) that the store holds *)
(* when the guard is built, b an ordinary key.  A secret or an injection    *)
(* may be written, or put in the store from outside.                        *)

ScreenStores == { [k \in Keys |-> IF k = a THEN plain ELSE NoValue] }

OnlyA == {a}

ScreenWrites ==
    { Call(k, v, "agent_authored") :
        k \in {a, b}, v \in {plain, secret, inject} }

ScreenTampers == { <<a, masked>>, <<b, secret>>, <<b, inject>> }

RetireAll == {Keys}

Manual == {"manual"}

-----------------------------------------------------------------------------
(* Classes: one key goes through every class and two tasks; b is a          *)
(* low-trust parent that launders it.                                       *)

Declared(k, source, cls) == [Call(k, plain, source) EXCEPT !.cls = cls]

ClassWrites ==
    { Declared(a, s, cl) :
        s \in {"user_input", "external_tool"}, cl \in MemoryClass \cup {NoClass} }
    \cup { [Call(a, plain, "system") EXCEPT !.receipt = TRUE],
           Call(b, plain, "external_tool"),
           From(Call(a, plain, "agent_authored"), <<b>>) }

ClassPromotions ==
    { [key |-> a, target |-> cl, verified |-> v] :
        cl \in MemoryClass, v \in BOOLEAN }

=============================================================================
