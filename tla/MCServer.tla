------------------------------ MODULE MCServer ------------------------------
(***************************************************************************)
(* The REST server for TLC, under the strict policy with one protected key.*)
(***************************************************************************)
EXTENDS RestServerProps

CONSTANTS note, config,                         \* keys
          plain, secret, masked, inject, null   \* values

MCContent ==
    [v \in Values |->
        CASE v = secret -> {Found("sensitive_data", SevHigh)}
          [] v = inject -> {Found("prompt_injection", SevHigh),
                            Found("sensitive_data", SevMedium)}
          [] OTHER -> {}]

MCRedacted == [v \in Values |-> IF v = secret THEN masked ELSE v]
MCAnomalies == {Found("size_anomaly", SevMedium), Found("self_reinforcement", SevHigh)}
MCNone == {}
MCEmpty == {[k \in Keys |-> NoValue]}
MCLimits == {0, 1, -1}

\* The server hands on neither classes nor parents nor receipts.
Call(key, value, source) ==
    [key |-> key, value |-> value, source |-> source, receipt |-> FALSE,
     cls |-> NoClass, task |-> NoTask, parents |-> <<>>, verified |-> FALSE]

MCWrites ==
    { Call(note, v, "agent_authored") : v \in {secret, inject, null} }
    \cup {Call(note, plain, "system"), Call(config, plain, "unknown")}
=============================================================================
