------------------------- MODULE GuardHistoryProps -------------------------
(***************************************************************************)
(* What the detectors with a history promise, told from the log of calls   *)
(* and not from what they remember of it.                                  *)
(***************************************************************************)
EXTENDS GuardHistory

Writes(k, S) == { i \in S : log[i].op = "write" /\ k \in log[i].keys }

\* The last call screened a write of k (which is then the last of the log).
ScreenedWrite(k) ==
    /\ last.op = "write" /\ last.out # "class_error" /\ last.key = k
    /\ log # <<>> /\ log[Len(log)].at = now

Reported(detector) == \E f \in reported : f.detector = detector

\* The screened writes of k in the window that ends now, the present one
\* among them.
WritesInWindow(k) ==
    { i \in Writes(k, DOMAIN log) : log[i].at >= now - Window }

\* RapidChangeDetector reports exactly when more than max_writes writes of the
\* key, whatever became of them, fall in the window: purging forgets none of
\* them, and neither deletions nor refusals reset the count.
RapidChangeExact ==
    \A k \in Keys : ScreenedWrite(k) =>
        (Reported("rapid_change") <=> Cardinality(WritesInWindow(k)) > MaxWrites)

\* What ends a run of the agent's own writes of k.
Breaks(k, i) ==
    /\ k \in log[i].keys
    /\ IF log[i].op = "write"
       THEN ~log[i].agent /\ log[i].out \in {"allow", "redact"} ELSE TRUE

\* The agent's earlier writes of k within the cool-down, since the last break.
SelfRun(k) ==
    { i \in Writes(k, 1 .. Len(log) - 1) :
        /\ log[i].agent
        /\ log[i].at >= now - Cooldown
        /\ \A j \in i .. Len(log) : ~Breaks(k, j) }

\* Those of them the detector is still bound to know.
Latest(S) == { i \in S : Cardinality({ j \in S : j > i }) < HistorySize }

\* SelfReinforcementDetector reports an agent's write exactly when the run
\* behind it has max_self_writes members and one of the latest history_size is
\* like it: only evidence that was really stored breaks a run.  It announces the
\* length of the run and the likeness as two rules, each of which flags by itself
\* (self_reinforcement.py:9-18); the code asks for both (lines 141-144), so a long
\* run of unlike writes passes, and so does a short run of copies.
SelfLoopExact ==
    \A k \in Keys : ScreenedWrite(k) /\ log[Len(log)].agent =>
        (Reported("self_reinforcement") <=>
            /\ Cardinality(SelfRun(k)) >= MaxSelfWrites
            /\ \E i \in Latest(SelfRun(k)) :
                  log[i].value \in Similar[log[Len(log)].value])

\* The guard with these detectors implements the guard that leaves their
\* findings open, so what is proved of the one holds of the other.
ImplementsGuard == Spec

\* The sizes the detector may have met under k before the present write.
SizesMet(k) ==
    LET written == { log[i].value : i \in Writes(k, 1 .. Len(log) - 1) }
    IN  { Size[v] : v \in written \cup { Redacted[v] : v \in written }
                          \cup (outside[k] \ {NoValue}) }

\* SizeAnomalyDetector reports a jump when it first happens: a write that is
\* more than growth_factor times anything a key was ever offered or held is
\* reported, over reads, refused writes, deletions and retirements (a retry of
\* it is not: the refused write was met; nor is what follows an empty text, which
\* inspect takes for no size at all).
JumpIsReported ==
    \A k \in Keys :
        /\ ScreenedWrite(k)
        /\ Writes(k, 1 .. Len(log) - 1) # {}
        /\ \A s \in SizesMet(k) :
              s > 0 /\ Size[log[Len(log)].value] > s * GrowthFactor
        => Reported("size_anomaly")

\* The two detectors of anomaly.py report what the log of the calls deserves.
AnomaliesExact == RapidChangeExact /\ JumpIsReported

=============================================================================
