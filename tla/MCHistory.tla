----------------------------- MODULE MCHistory -----------------------------
(***************************************************************************)
(* An instance of GuardHistory for TLC: one key, under a policy that       *)
(* quarantines what is suspicious by its size or a loop of the agent's own *)
(* writes and blocks by rate, taking no snapshot.  Windows and counts are  *)
(* small; a big value is more than growth_factor times a small one.        *)
(***************************************************************************)
EXTENDS GuardHistoryProps

CONSTANTS a, small, big

NoFindings == [v \in Values |-> {}]
Unredacted == [v \in Values |-> v]
Sizes == [v \in Values |-> IF v = small THEN 1 ELSE 20]
Alike == [v \in Values |-> {v}]

Anything == {Found("size_anomaly", SevMedium), Found("rapid_change", SevMedium),
             Found("self_reinforcement", SevMedium)}

None == {}
EmptyStore == {[k \in Keys |-> NoValue]}
AllKeys == {Keys}

ReviewRules ==
    <<Rule("rapid_change", "block"), Rule("self_reinforcement", "quarantine")>>
        \o StrictRules

ResultWrite(value, source) ==
    [key |-> a, value |-> value, source |-> source, receipt |-> FALSE,
     cls |-> NoClass, task |-> NoTask, parents |-> <<>>, verified |-> FALSE]

ResultWrites ==
    { ResultWrite(small, "agent_authored"), ResultWrite(big, "agent_authored"),
      ResultWrite(big, "external_tool") }

=============================================================================
