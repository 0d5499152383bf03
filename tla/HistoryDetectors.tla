-------------------------- MODULE HistoryDetectors --------------------------
(***************************************************************************)
(* The three detectors that remember earlier operations: SizeAnomaly and   *)
(* RapidChange (detectors/anomaly.py) and SelfReinforcement                *)
(* (detectors/self_reinforcement.py), as operators on what each of them    *)
(* keeps for one key.  Times are whole seconds of time.monotonic().        *)
(***************************************************************************)
EXTENDS Policy

CONSTANTS
    Size,           \* value -> bytes of its text; 0 for an empty one
    MaxBytes, GrowthFactor,        \* SizeAnomalyDetector
    Window, MaxWrites,             \* RapidChangeDetector
    Cooldown, MaxSelfWrites, HistorySize,    \* SelfReinforcementDetector
    Similar         \* value -> the values at least similarity_threshold like it

ASSUME HistoryAssumption ==
    /\ MaxBytes \in Nat /\ GrowthFactor \in Nat
    /\ Window \in Nat /\ MaxWrites \in Nat
    /\ Cooldown \in Nat /\ HistorySize \in Nat
    /\ MaxSelfWrites \in Nat \ {0}      \* the constructor's check

FindingIf(detector, condition) ==
    IF condition THEN {Found(detector, SevMedium)} ELSE {}

-----------------------------------------------------------------------------
\* Sizes.  previous = 0 stands for a key not yet inspected: the code treats
\* both alike.  Whatever it answers, the detector remembers the new size.
SizeFindings(previous, size) ==
    FindingIf("size_anomaly",
              \/ size > MaxBytes
              \/ previous > 0 /\ size > previous * GrowthFactor)

-----------------------------------------------------------------------------
\* Histories lose their old members from the front (popleft while the first is
\* too old): what is left starts with the first member to be kept.
Purged(list, keep) ==
    IF keep = {} THEN <<>> ELSE SubSeq(list, Min(keep), Len(list))

\* Write times: the present write counts.

\* Mutant: a write exactly window_seconds old is purged.
WritesAfterStrict(times, now) ==
    LET all == Append(times, now)
    IN  Purged(all, { i \in DOMAIN all : all[i] > now - Window })

WritesAfter(times, now) ==
    LET all == Append(times, now)
    IN  Purged(all, { i \in DOMAIN all : all[i] >= now - Window })

RapidFindings(times, now) ==
    FindingIf("rapid_change", Len(WritesAfter(times, now)) > MaxWrites)

-----------------------------------------------------------------------------
\* The agent's own writes: a sequence of [at, text].
RecentSelfWrites(writes, now) ==
    Purged(writes, { i \in DOMAIN writes : writes[i].at >= now - Cooldown })

SelfFindings(writes, value, now) ==
    LET recent == RecentSelfWrites(writes, now)
    IN  FindingIf("self_reinforcement",
                  /\ Len(recent) >= MaxSelfWrites
                  /\ \E i \in DOMAIN recent : recent[i].text \in Similar[value])

\* The new write joins the history, which forgets its oldest beyond HistorySize.
SelfWritesAfter(writes, value, now) ==
    LET all == Append(RecentSelfWrites(writes, now), [at |-> now, text |-> value])
    IN  IF Len(all) > HistorySize THEN Tail(all) ELSE all

=============================================================================
