--------------------------- MODULE HistoryProofs ---------------------------
(***************************************************************************)
(* GuardHistory implements MemoryGuard: the reports its detectors compute  *)
(* are among the anomalies MemoryGuard chooses from, and nothing else that *)
(* MemoryGuard can see is changed by the clock or the histories.  And what *)
(* the detectors report is what the log of the calls deserves.             *)
(***************************************************************************)
EXTENDS GuardHistoryProps, GuardProofs, FunctionTheorems, FiniteSetTheorems

\* What is reported for a write may be reported for it.
LEMMA WriteReportPossible ==
  ASSUME NEW r \in WriteCall
  PROVE  WriteReport(r) \in SUBSET PossibleAnomalies("write", r.source)
<1>1. SizeFindings(lastSize[r.key], Size[r.value])
        \subseteq PossibleAnomalies("write", r.source)
  BY AnomaliesAssumption DEF SizeFindings, FindingIf, PossibleAnomalies, Found
<1>2. RapidFindings(writeTimes[r.key], now)
        \subseteq PossibleAnomalies("write", r.source)
  BY AnomaliesAssumption DEF RapidFindings, FindingIf, PossibleAnomalies, Found
<1>3. FromAgent(r) => SelfFindings(selfWrites[r.key], r.value, now)
        \subseteq PossibleAnomalies("write", r.source)
  BY AnomaliesAssumption
     DEF SelfFindings, FindingIf, PossibleAnomalies, Found, FromAgent
<1> QED
  BY <1>1, <1>2, <1>3 DEF WriteReport

\* What is reported for a read may be reported for it.
LEMMA ReadReportPossible ==
  ASSUME NEW k \in Keys
  PROVE  ReadReport(k) \in SUBSET PossibleAnomalies("read", "unknown")
  BY AnomaliesAssumption DEF ReadReport, SizeFindings, FindingIf, PossibleAnomalies, Found

\* Every step of the guard with its detectors is a step of MemoryGuard, or
\* leaves all it can see unchanged.
LEMMA HistoryStep ==
  ASSUME [HistoryNext]_allVars
  PROVE  [Next]_vars
<1>1. ASSUME NEW r \in WriteCalls, HWrite(r)
      PROVE  Next
  <2>1. r \in WriteCall
    BY CallsAssumption
  <2>2. WriteReport(r) \in SUBSET PossibleAnomalies("write", r.source)
    BY <2>1, WriteReportPossible
  <2>3. Write(r)
    BY <1>1, <2>2 DEF HWrite, HWriteReclassifying, HWriteRefused, HWriteCommitted,
                      Write
  <2> QED
    BY <2>3 DEF Next
<1>2. ASSUME NEW k \in Keys, HRead(k)
      PROVE  Next
  <2>1. Read(k)
    BY <1>2, ReadReportPossible DEF HRead, HReadScreened, HReadUnscreened, Read
  <2> QED
    BY <2>1 DEF Next
<1>3. ASSUME NEW k \in Keys, HDelete(k)
      PROVE  Next
  BY <1>3 DEF HDelete, Next
<1>4. ASSUME NEW chosen \in RetireCalls, HRetire(chosen)
      PROVE  Next
  BY <1>4 DEF HRetire, Next
<1>5. CASE HOther
  BY <1>5 DEF HOther, Next
<1>6. CASE Tick
  BY <1>6 DEF Tick
<1>7. CASE UNCHANGED allVars
  BY <1>7 DEF allVars
<1> QED
  BY <1>1, <1>2, <1>3, <1>4, <1>5, <1>6, <1>7 DEF HistoryNext

\* The guard with the detectors that keep a history implements MemoryGuard,
\* for any windows, limits and clock.
THEOREM HistoryImplements == HistorySpec => ImplementsGuard
<1>1. HistoryInit => Init
  BY DEF HistoryInit
<1>2. [HistoryNext]_allVars => [Next]_vars
  BY HistoryStep
<1> QED
  BY <1>1, <1>2, PTL DEF HistorySpec, ImplementsGuard, Spec

\* So it inherits what is proved of MemoryGuard; for instance HIGH trust still
\* needs a system write with a valid receipt.
COROLLARY HistoryHighTrust == HistorySpec => []HighTrustIsAttested
  BY HistoryImplements, HighTrustAttested DEF ImplementsGuard

\* Nor does any of its other promises depend on what these detectors choose to
\* report: lineage, trust, classes, baselines and retirements keep theirs.
COROLLARY HistoryKeepsPromises ==
  HistorySpec => /\ [](TypeOK /\ LineageAcyclic /\ UntrustedClassCapped)
                 /\ []VerifiedRolesNeverFilled
                 /\ DerivedWithinParents /\ UntrustedNeverElevated
                 /\ PreferenceNeedsOptIn /\ BaselineStable /\ RetiredIsCaptured
<1>1. HistorySpec => Spec
  BY HistoryImplements DEF ImplementsGuard
<1>2. Spec => [](TypeOK /\ LineageAcyclic /\ UntrustedClassCapped)
  BY TypeCorrect, LineageStaysAcyclic, UntrustedCapped, PTL
<1>3. Spec => DerivedWithinParents /\ UntrustedNeverElevated
  BY DerivedBounded, UntrustedStays
<1>4. Spec => PreferenceNeedsOptIn /\ BaselineStable /\ RetiredIsCaptured
  BY PreferenceAsked, BaselinesStable, RetirementsCaptured
<1>5. Spec => []VerifiedRolesNeverFilled
  BY VerifiedNeverFilled
<1> QED
  BY <1>1, <1>2, <1>3, <1>4, <1>5

\* And under Policy.strict whatever they report is never what lets a value in:
\* their findings only add to what the content detectors ask for.
COROLLARY HistoryStrictScreens ==
  ASSUME Rules = StrictRules, ContentCounts, RedactionCleans
  PROVE  HistorySpec => [](ProtectedFromGuard /\ NoUnsafeCommit /\ ReadReturnsSafe)
<1>1. HistorySpec => Spec
  BY HistoryImplements DEF ImplementsGuard
<1>2. Spec => [](ProtectedFromGuard /\ NoUnsafeCommit /\ ReadReturnsSafe)
  BY StrictScreens
<1> QED
  BY <1>1, <1>2

-----------------------------------------------------------------------------
(* What a step does to the clock, the log and the histories *)

\* A write that was screened, with its answer.
WriteNoted(r, out) ==
    /\ out \in {"allow", "redact", "block", "quarantine", "lineage_error"}
    /\ last'.op = "write" /\ last'.key = r.key /\ last'.out = out
    /\ NoteWrite(r, out \in {"allow", "redact"})
    /\ UNCHANGED outside
    /\ store' \in {store, [store EXCEPT ![r.key] = r.value],
                   [store EXCEPT ![r.key] = Redacted[r.value]]}

RemovalNoted(op, S) == op \in {"delete", "retire"} /\ last'.op = op /\ Forget(op, S)

\* Any other call; only a read may touch a history, that of the sizes.
NothingNoted ==
    /\ UNCHANGED <<now, writeTimes, selfWrites, log>>
    /\ last'.op # "write" \/ last'.out = "class_error"
    /\ \/ UNCHANGED lastSize
       \/ \E k \in Keys :
             Stored(k) /\ lastSize' = [lastSize EXCEPT ![k] = Size[store[k]]]

LEMMA HistoryMoves ==
  ASSUME [HistoryNext]_allVars
  PROVE  \/ \E r \in WriteCalls : \E out : WriteNoted(r, out)
         \/ \E op : \E S \in SUBSET Keys : RemovalNoted(op, S)
         \/ NothingNoted
         \/ Tick
         \/ UNCHANGED allVars
<1>1. ASSUME NEW r \in WriteCalls, HWrite(r)
      PROVE  NothingNoted \/ \E out : WriteNoted(r, out)
  <2>1. CASE HWriteReclassifying(r)
    BY <2>1 DEF HWriteReclassifying, WriteReclassifying, Answer, NothingNoted, historyVars
  <2>2. CASE HWriteRefused(r)
    <3>1. PICK out \in {"block", "lineage_error", "quarantine"} :
            Answer("write", r.key, out, NoValue)
      BY <2>2 DEF HWriteRefused, WriteBlocked, WriteCyclic, WriteLaundered,
                  WriteQuarantined
    <3>2. NoteWrite(r, out \in {"allow", "redact"})
      <4>1. (out \in {"allow", "redact"}) = FALSE
        BY <3>1
      <4> QED
        BY <2>2, <4>1 DEF HWriteRefused
    <3>3. UNCHANGED <<store, outside>>
      BY <2>2 DEF HWriteRefused, WriteBlocked, WriteCyclic, WriteLaundered,
                  WriteQuarantined
    <3> QED
      BY <3>1, <3>2, <3>3 DEF WriteNoted, Answer
  <2>3. CASE HWriteCommitted(r)
    <3> DEFINE out == WriteDecision(r, WriteReport(r))
    <3>1. out \in {"allow", "redact"} /\ Answer("write", r.key, out, NoValue)
      BY <2>3 DEF HWriteCommitted, WriteCommitted
    <3>2. NoteWrite(r, out \in {"allow", "redact"})
      <4>1. (out \in {"allow", "redact"}) = TRUE
        BY <3>1
      <4> QED
        BY <2>3, <4>1 DEF HWriteCommitted
    <3>3. store' \in {[store EXCEPT ![r.key] = r.value],
                     [store EXCEPT ![r.key] = Redacted[r.value]]}
      BY <2>3 DEF HWriteCommitted, WriteCommitted, Committed
    <3>4. UNCHANGED outside
      BY <2>3 DEF HWriteCommitted, WriteCommitted
    <3> QED
      BY <3>1, <3>2, <3>3, <3>4 DEF WriteNoted, Answer
  <2> QED
    BY <1>1, <2>1, <2>2, <2>3 DEF HWrite
<1>2. ASSUME NEW k \in Keys, HRead(k)
      PROVE  NothingNoted
  BY <1>2 DEF HRead, HReadScreened, HReadUnscreened, ReadMissing, ReadDrifted,
              ReadScreened, Answer, NothingNoted, historyVars
<1>3. ASSUME NEW k \in Keys, HDelete(k)
      PROVE  RemovalNoted("delete", {k})
  BY <1>3 DEF HDelete, DeleteEntry, Answer, RemovalNoted
<1>4. ASSUME NEW chosen \in RetireCalls, HRetire(chosen)
      PROVE  \E S \in SUBSET Keys : RemovalNoted("retire", S)
  <2> DEFINE S == { k \in chosen \ ProtectedKeys : Stored(k) }
  <2>1. S \in SUBSET Keys
    BY CallsAssumption
  <2>2. RemovalNoted("retire", S)
    BY <1>4 DEF HRetire, Retire, Answer, RemovalNoted
  <2> QED
    BY <2>1, <2>2
<1>5. CASE HOther
  <2>1. last'.op # "write"
    BY <1>5 DEF HOther, DeleteProtected, Promote, PromoteRefused, PromoteAlready,
       PromoteMoves, Baseline, BaselineMissing, BaselineSet, TakeSnapshot, Rollback,
       RollbackNone, RollbackTo, Authorize, SetCurrentTask, Tamper, Answer
  <2> QED
    BY <1>5, <2>1 DEF HOther, NothingNoted, historyVars
<1> QED
  <2>1. ASSUME NEW k \in Keys, HDelete(k)
        PROVE  \E op : \E S \in SUBSET Keys : RemovalNoted(op, S)
    BY <1>3, <2>1
  <2>2. CASE HistoryNext
    BY <1>1, <1>2, <1>4, <1>5, <2>1, <2>2 DEF HistoryNext
  <2> QED
    BY <2>2

LogEntry ==
    [op : {"write", "delete", "retire"}, keys : SUBSET Keys, value : Entry,
     agent : BOOLEAN, at : Nat,
     out : {"allow", "redact", "block", "quarantine", "lineage_error", "removed"}]

\* The log is in the order of the clock.
LogInv ==
    /\ now \in Nat
    /\ log \in Seq(LogEntry)
    /\ \A i, j \in DOMAIN log : i <= j => log[i].at <= log[j].at
    /\ \A i \in DOMAIN log :
          log[i].at <= now /\ (log[i].op = "write" => log[i].value \in Values)

LEMMA LogEntries ==
  ASSUME LogInv
  PROVE  /\ Len(log) \in Nat /\ DOMAIN log = 1 .. Len(log)
         /\ \A i \in DOMAIN log : log[i] \in LogEntry /\ log[i].at \in Nat
<1>1. \A i \in DOMAIN log : log[i] \in LogEntry
  BY DEF LogInv
<1> QED
  BY <1>1 DEF LogInv, LogEntry

\* The log with one more entry.
LEMMA LogGrows ==
  ASSUME LogInv, NEW e \in LogEntry, e.at = now, e.op = "write" => e.value \in Values,
         log' = Append(log, e), now' = now
  PROVE  /\ LogInv'
         /\ Len(log) \in Nat /\ DOMAIN log = 1 .. Len(log)
         /\ Len(log') = Len(log) + 1 /\ DOMAIN log' = 1 .. Len(log) + 1
         /\ log'[Len(log) + 1] = e
         /\ \A i \in DOMAIN log : log'[i] = log[i]
<1>1. /\ Len(log) \in Nat /\ DOMAIN log = 1 .. Len(log) /\ log' \in Seq(LogEntry)
      /\ Len(log') = Len(log) + 1 /\ DOMAIN log' = 1 .. Len(log) + 1
      /\ log'[Len(log) + 1] = e /\ \A i \in DOMAIN log : log'[i] = log[i]
  BY DEF LogInv
<1>2. \A i \in DOMAIN log' : log'[i].at \in Nat /\ log'[i].at <= now
  <2> SUFFICES ASSUME NEW i \in DOMAIN log'
               PROVE  log'[i].at \in Nat /\ log'[i].at <= now
    OBVIOUS
  <2>1. CASE i \in DOMAIN log
    <3>1. log[i] \in LogEntry /\ log[i].at <= now
      BY <2>1 DEF LogInv
    <3>2. log[i].at \in Nat
      BY <3>1 DEF LogEntry
    <3> QED
      BY <1>1, <2>1, <3>1, <3>2
  <2>2. CASE i = Len(log) + 1
    BY <1>1, <2>2 DEF LogInv
  <2> QED
    BY <1>1, <2>1, <2>2
<1>3. ASSUME NEW i \in DOMAIN log', NEW j \in DOMAIN log', i <= j
      PROVE  log'[i].at <= log'[j].at
  <2>1. CASE j \in DOMAIN log
    <3>1. i \in DOMAIN log
      BY <1>1, <1>3, <2>1
    <3> QED
      BY <1>1, <1>3, <2>1, <3>1 DEF LogInv
  <2>2. CASE j = Len(log) + 1
    BY <1>1, <1>2, <2>2
  <2> QED
    BY <1>1, <2>1, <2>2
<1>4. \A i \in DOMAIN log' : log'[i].op = "write" => log'[i].value \in Values
  <2> SUFFICES ASSUME NEW i \in DOMAIN log', log'[i].op = "write"
               PROVE  log'[i].value \in Values
    OBVIOUS
  <2>1. CASE i \in DOMAIN log
    BY <1>1, <2>1 DEF LogInv
  <2>2. CASE i = Len(log) + 1
    BY <1>1, <2>2
  <2> QED
    BY <1>1, <2>1, <2>2
<1> QED
  BY <1>1, <1>2, <1>3, <1>4 DEF LogInv

\* What a screened write and a removal log.
WriteEntry(r, out) ==
    [op |-> "write", keys |-> {r.key}, value |-> r.value, agent |-> FromAgent(r),
     out |-> out, at |-> now]

RemovalEntry(op, S) ==
    [op |-> op, keys |-> S, value |-> NoValue, agent |-> FALSE, out |-> "removed",
     at |-> now]

LEMMA WriteLogged ==
  ASSUME LogInv, NEW r \in WriteCalls, NEW out, WriteNoted(r, out)
  PROVE  /\ LogInv' /\ now' = now
         /\ Len(log) \in Nat /\ DOMAIN log = 1 .. Len(log)
         /\ Len(log') = Len(log) + 1 /\ DOMAIN log' = 1 .. Len(log) + 1
         /\ log'[Len(log) + 1] = WriteEntry(r, out)
         /\ \A i \in DOMAIN log : log'[i] = log[i]
<1> DEFINE e == WriteEntry(r, out)
<1>1. log' = Append(log, e) /\ now' = now
  BY DEF WriteNoted, NoteWrite, Logged, WriteEntry
<1>2. r.key \in Keys /\ r.value \in Values
  BY WriteCallFields
<1>3. e \in LogEntry /\ e.at = now /\ e.value \in Values
  <2>1. now \in Nat /\ FromAgent(r) \in BOOLEAN
    BY DEF LogInv, FromAgent
  <2> QED
    BY <1>2, <2>1 DEF WriteEntry, LogEntry, WriteNoted, Entry
<1> QED
  BY <1>1, <1>3, LogGrows

LEMMA RemovalLogged ==
  ASSUME LogInv, NEW op, NEW S \in SUBSET Keys, RemovalNoted(op, S)
  PROVE  /\ LogInv' /\ now' = now
         /\ Len(log) \in Nat /\ DOMAIN log = 1 .. Len(log)
         /\ Len(log') = Len(log) + 1 /\ DOMAIN log' = 1 .. Len(log) + 1
         /\ log'[Len(log) + 1] = RemovalEntry(op, S)
         /\ \A i \in DOMAIN log : log'[i] = log[i]
<1> DEFINE e == RemovalEntry(op, S)
<1>1. log' = Append(log, e) /\ now' = now
  BY DEF RemovalNoted, Forget, Logged, RemovalEntry
<1>2. e \in LogEntry /\ e.at = now /\ e.op # "write"
  BY DEF LogInv, RemovalEntry, LogEntry, RemovalNoted, Entry
<1> QED
  BY <1>1, <1>2, LogGrows

\* What is left of a list without its first m members.
IsRest(rest, list, m) ==
    /\ m \in 0 .. Len(list)
    /\ Len(rest) = Len(list) - m
    /\ \A i \in 1 .. Len(list) - m : rest[i] = list[i + m]

\* Popping the old members from the front takes just those not to be kept, when
\* whatever follows a member to be kept is to be kept.
LEMMA PurgedIsRest ==
  ASSUME NEW T, NEW list \in Seq(T), NEW keep \in SUBSET DOMAIN list,
         \A i \in keep : \A j \in DOMAIN list : i <= j => j \in keep
  PROVE  /\ Purged(list, keep) \in Seq(T)
         /\ \E m : /\ IsRest(Purged(list, keep), list, m)
                   /\ \A i \in DOMAIN list : i \in keep <=> i > m
<1>1. Len(list) \in Nat /\ DOMAIN list = 1 .. Len(list)
  OBVIOUS
<1>2. CASE keep = {}
  <2>1. Purged(list, keep) = <<>>
    BY <1>2 DEF Purged
  <2>2. \A i \in DOMAIN list : i \in keep <=> i > Len(list)
    BY <1>1, <1>2
  <2>3. /\ <<>> \in Seq(T) /\ Len(<<>>) = Len(list) - Len(list)
        /\ 1 .. Len(list) - Len(list) = {}
    BY <1>1
  <2>4. IsRest(<<>>, list, Len(list))
    BY <1>1, <2>3 DEF IsRest
  <2> QED
    BY <2>1, <2>2, <2>3, <2>4
<1>3. CASE keep # {}
  <2> DEFINE n == Min(keep)
             rest == SubSeq(list, n, Len(list))
  <2>1. n \in keep /\ \A i \in keep : n <= i
    BY <1>1, <1>3, MinNat
  <2>2. n \in 1 .. Len(list) /\ Purged(list, keep) = rest
    BY <1>1, <1>3, <2>1 DEF Purged
  <2> HIDE DEF n
  <2>3. /\ rest \in Seq(T) /\ Len(rest) = Len(list) - (n - 1)
        /\ \A i \in 1 .. Len(list) - (n - 1) : rest[i] = list[i + (n - 1)]
    BY <1>1, <2>2
  <2>4. \A i \in DOMAIN list : i \in keep <=> i > n - 1
    BY <1>1, <2>1
  <2>5. IsRest(rest, list, n - 1)
    BY <1>1, <2>2, <2>3 DEF IsRest
  <2> HIDE DEF rest
  <2> QED
    BY <2>2, <2>3, <2>4, <2>5
<1> QED
  BY <1>2, <1>3

-----------------------------------------------------------------------------
(* RapidChangeDetector *)

\* f tells of each write time the detector knows which entry of the log it is of;
\* the entries it has forgotten are too old to count.
Recalls(k, f) ==
    /\ f \in [1 .. Len(writeTimes[k]) -> Writes(k, DOMAIN log)]
    /\ \A i, j \in 1 .. Len(writeTimes[k]) : i < j => f[i] < f[j]
    /\ \A i \in 1 .. Len(writeTimes[k]) : writeTimes[k][i] = log[f[i]].at
    /\ \A w \in Writes(k, DOMAIN log) :
          log[w].at >= now - Window => \E i \in 1 .. Len(writeTimes[k]) : f[i] = w

RapidInv ==
    /\ writeTimes \in [Keys -> Seq(Nat)]
    /\ \A k \in Keys : \E f : Recalls(k, f)
    /\ RapidChangeExact

\* A further write: what is left of the times is that of the writes in the window.
LEMMA RapidWrite ==
  ASSUME LogInv, NEW r \in WriteCalls, NEW out, WriteNoted(r, out),
         writeTimes \in [Keys -> Seq(Nat)], NEW f, Recalls(r.key, f)
  PROVE  /\ writeTimes'[r.key] \in Seq(Nat)
         /\ \E g : Recalls(r.key, g)'
         /\ Cardinality(WritesInWindow(r.key)') = Len(writeTimes'[r.key])
<1> DEFINE k == r.key
           times == writeTimes[k]
           all == Append(times, now)
           keep == { i \in DOMAIN all : all[i] >= now - Window }
           kept == writeTimes'[k]
           size == Len(times)
           end == Len(log) + 1
<1>1. /\ LogInv' /\ now' = now /\ now \in Nat
      /\ Len(log) \in Nat /\ DOMAIN log = 1 .. Len(log)
      /\ DOMAIN log' = 1 .. end
      /\ log'[end] = WriteEntry(r, out)
      /\ \A i \in DOMAIN log : log'[i] = log[i]
  BY WriteLogged DEF LogInv
<1>2. k \in Keys /\ times \in Seq(Nat) /\ size \in Nat /\ Window \in Nat
  BY WriteCallFields, HistoryAssumption
<1>3. kept = Purged(all, keep)
  BY <1>2 DEF WriteNoted, NoteWrite, WritesAfter
<1>4. /\ all \in Seq(Nat) /\ Len(all) = size + 1 /\ DOMAIN all = 1 .. size + 1
      /\ all[size + 1] = now /\ \A i \in 1 .. size : all[i] = times[i]
  BY <1>1, <1>2
<1>5. \A i \in 1 .. size :
        /\ f[i] \in DOMAIN log /\ log[f[i]].op = "write" /\ k \in log[f[i]].keys
        /\ times[i] = log[f[i]].at
        /\ \A j \in 1 .. size : i < j => f[i] < f[j]
  BY DEF Recalls, Writes
<1> HIDE DEF all, times, size, kept
<1>6. ASSUME NEW i \in 1 .. size + 1, NEW j \in 1 .. size + 1, i < j
      PROVE  all[i] <= all[j]
  <2>1. i \in 1 .. size /\ all[i] = log[f[i]].at /\ all[i] <= now
    BY <1>2, <1>4, <1>5, <1>6 DEF LogInv
  <2>2. CASE j = size + 1
    BY <1>4, <2>1, <2>2
  <2>3. CASE j \in 1 .. size
    <3>1. /\ all[j] = log[f[j]].at /\ f[i] < f[j]
          /\ f[i] \in DOMAIN log /\ f[j] \in DOMAIN log
      BY <1>4, <1>5, <1>6, <2>1, <2>3
    <3>2. f[i] <= f[j]
      BY <1>1, <3>1
    <3> QED
      BY <2>1, <3>1, <3>2 DEF LogInv
  <2> QED
    BY <1>2, <2>2, <2>3
<1>7. PICK m :
        /\ kept \in Seq(Nat) /\ IsRest(kept, all, m)
        /\ \A i \in DOMAIN all : all[i] >= now - Window <=> i > m
  <2>1. \A i \in keep : \A j \in DOMAIN all : i <= j => j \in keep
    <3> SUFFICES ASSUME NEW i \in DOMAIN all, all[i] >= now - Window,
                        NEW j \in DOMAIN all, i <= j
                 PROVE  all[j] >= now - Window
      OBVIOUS
    <3>1. CASE i = j
      BY <3>1
    <3>2. CASE i < j
      <4>1. all[i] <= all[j]
        BY <1>4, <1>6, <3>2
      <4>2. all[i] \in Nat /\ all[j] \in Nat /\ now - Window \in Int
        BY <1>1, <1>2, <1>4
      <4> QED
        BY <4>1, <4>2
    <3> QED
      BY <1>2, <1>4, <3>1, <3>2
  <2>2. keep \in SUBSET DOMAIN all
    OBVIOUS
  <2> HIDE DEF keep
  <2>3. /\ kept \in Seq(Nat)
        /\ \E m : IsRest(kept, all, m) /\ \A i \in DOMAIN all : i \in keep <=> i > m
    BY <1>3, <1>4, <2>1, <2>2, PurgedIsRest
  <2>4. \A i \in DOMAIN all : i \in keep <=> all[i] >= now - Window
    BY DEF keep
  <2> QED
    BY <2>3, <2>4
<1> DEFINE last1 == size + 1 - m
<1>8. /\ m \in 0 .. size /\ Len(kept) = last1
      /\ \A i \in 1 .. last1 : kept[i] = all[i + m]
  <2>1. size + 1 \in DOMAIN all /\ all[size + 1] >= now - Window
    BY <1>1, <1>2, <1>4
  <2>2. size + 1 > m
    BY <1>7, <2>1, Zenon
  <2> QED
    BY <1>2, <1>4, <1>7, <2>2 DEF IsRest
<1>g. PICK g : g = [i \in 1 .. last1 |-> IF i + m <= size THEN f[i + m] ELSE end]
  OBVIOUS
<1> DEFINE window == { w \in 1 .. end :
                         /\ log'[w].op = "write" /\ k \in log'[w].keys
                         /\ log'[w].at >= now - Window }
<1>9. WritesInWindow(k)' = window /\ last1 \in Nat
  BY <1>1, <1>2, <1>7, <1>8 DEF WritesInWindow, Writes
<1>10. \A i \in 1 .. last1 :
         /\ g[i] \in window /\ kept[i] = log'[g[i]].at
         /\ \A j \in 1 .. last1 : i < j => g[i] < g[j]
  <2> SUFFICES ASSUME NEW i \in 1 .. last1
               PROVE  /\ g[i] \in window /\ kept[i] = log'[g[i]].at
                      /\ \A j \in 1 .. last1 : i < j => g[i] < g[j]
    OBVIOUS
  <2>1. i + m \in DOMAIN all /\ kept[i] = all[i + m] /\ all[i + m] >= now - Window
    <3>1. i + m \in 1 .. size + 1 /\ i + m > m
      BY <1>2, <1>8
    <3>2. all[i + m] >= now - Window
      BY <1>4, <1>7, <3>1
    <3> QED
      BY <1>4, <1>8, <3>1, <3>2
  <2>2. CASE i + m <= size
    <3>1. i + m \in 1 .. size /\ g[i] = f[i + m]
      BY <1>2, <1>8, <1>g, <2>2
    <3>2. f[i + m] \in 1 .. Len(log) /\ all[i + m] = log[f[i + m]].at
      BY <1>1, <1>4, <1>5, <3>1
    <3>3. log'[g[i]] = log[f[i + m]] /\ g[i] \in 1 .. end
      BY <1>1, <3>1, <3>2
    <3>4. g[i] \in window /\ kept[i] = log'[g[i]].at
      BY <1>5, <2>1, <3>1, <3>2, <3>3
    <3>5. ASSUME NEW j \in 1 .. last1, i < j
          PROVE  g[i] < g[j]
      <4>1. CASE j + m <= size
        <5>1. j + m \in 1 .. size /\ g[j] = f[j + m] /\ i + m < j + m
          BY <1>2, <1>8, <1>g, <3>5, <4>1
        <5> QED
          BY <1>5, <3>1, <5>1
      <4>2. CASE ~(j + m <= size)
        BY <1>1, <1>g, <3>1, <3>2, <4>2
      <4> QED
        BY <4>1, <4>2
    <3> QED
      BY <3>4, <3>5
  <2>3. CASE ~(i + m <= size)
    <3>1. i = last1 /\ i + m = size + 1 /\ g[i] = end
      BY <1>2, <1>8, <1>g, <2>3
    <3>2. log'[end].op = "write" /\ k \in log'[end].keys /\ log'[end].at = now
      BY <1>1 DEF WriteEntry
    <3>3. g[i] \in window /\ kept[i] = log'[g[i]].at
      BY <1>1, <1>2, <1>4, <2>1, <3>1, <3>2
    <3> QED
      BY <3>1, <3>3
  <2> QED
    BY <2>2, <2>3
<1>11. \A w \in window : \E i \in 1 .. last1 : g[i] = w
  <2> SUFFICES ASSUME NEW w \in window
               PROVE  \E i \in 1 .. last1 : g[i] = w
    OBVIOUS
  <2>1. CASE w = end
    <3>1. last1 \in 1 .. last1 /\ g[last1] = end
      BY <1>2, <1>8, <1>g
    <3> QED
      BY <2>1, <3>1
  <2>2. CASE w \in 1 .. Len(log)
    <3>1. w \in Writes(k, DOMAIN log) /\ log[w].at >= now - Window
      BY <1>1, <2>2 DEF Writes
    <3>2. PICK j \in 1 .. size : f[j] = w
      BY <3>1 DEF Recalls, size, times
    <3>3. all[j] >= now - Window /\ j \in DOMAIN all
      BY <1>2, <1>4, <1>5, <3>1, <3>2
    <3>4. j > m
      BY <1>7, <3>3
    <3>5. j - m \in 1 .. last1 /\ (j - m) + m = j
      BY <1>2, <1>8, <3>4
    <3>6. g[j - m] = w
      BY <1>2, <1>g, <3>2, <3>5
    <3> QED
      BY <3>5, <3>6
  <2> QED
    BY <1>1, <2>1, <2>2
<1> HIDE DEF window, keep, last1
<1>12. ASSUME NEW w \in Writes(k, DOMAIN log)', log'[w].at >= now - Window
       PROVE  w \in window
  BY <1>1, <1>12 DEF Writes, window
<1>13. g \in [1 .. last1 -> window] /\ window \subseteq Writes(k, DOMAIN log)'
  BY <1>1, <1>10, <1>g DEF window, Writes
<1>14. Recalls(k, g)'
  <2>1. Len(writeTimes'[k]) = last1
    BY <1>8 DEF kept
  <2>2. \A w \in Writes(k, DOMAIN log)' :
          log'[w].at >= now' - Window => \E i \in 1 .. last1 : g[i] = w
    BY <1>1, <1>11, <1>12
  <2>3. g \in [1 .. last1 -> Writes(k, DOMAIN log)']
    BY <1>13
  <2> QED
    BY <1>10, <2>1, <2>2, <2>3 DEF Recalls, kept
<1>15. g \in Bijection(1 .. last1, window)
  <2>1. \A i, j \in 1 .. last1 : g[i] = g[j] => i = j
    <3> SUFFICES ASSUME NEW i \in 1 .. last1, NEW j \in 1 .. last1, g[i] = g[j]
                 PROVE  i = j
      OBVIOUS
    <3>1. g[i] \in Nat /\ g[j] \in Nat
      BY <1>1, <1>10 DEF window
    <3>2. ~(i < j) /\ ~(j < i)
      BY <1>10, <3>1
    <3> QED
      BY <1>9, <3>2
  <2> QED
    BY <1>11, <1>13, <2>1, Fun_IsBij
<1>16. Cardinality(window) = last1
  <2>1. IsFiniteSet(1 .. last1) /\ Cardinality(1 .. last1) = last1
    BY <1>9, FS_Interval
  <2>2. ExistsBijection(1 .. last1, window)
    BY <1>15 DEF ExistsBijection
  <2> QED
    BY <2>1, <2>2, FS_Bijection
<1> QED
  BY <1>7, <1>8, <1>9, <1>14, <1>16 DEF kept

\* What the detector finds is found of what it keeps.
LEMMA RapidReported ==
  ASSUME NEW r, NEW out, WriteNoted(r, out)
  PROVE  Reported("rapid_change")' <=> Len(WritesAfter(writeTimes[r.key], now)) > MaxWrites
<1>1. reported' = WriteReport(r)
  BY DEF WriteNoted, NoteWrite
<1>2. \A f \in WriteReport(r) : f.detector = "rapid_change" =>
        f \in RapidFindings(writeTimes[r.key], now)
  BY DEF WriteReport, SizeFindings, SelfFindings, FindingIf, Found
<1>3. \A f \in RapidFindings(writeTimes[r.key], now) :
        f \in WriteReport(r) /\ f.detector = "rapid_change"
  BY DEF WriteReport, RapidFindings, FindingIf, Found
<1>4. RapidFindings(writeTimes[r.key], now) # {}
        <=> Len(WritesAfter(writeTimes[r.key], now)) > MaxWrites
  BY DEF RapidFindings, FindingIf
<1> QED
  BY <1>1, <1>2, <1>3, <1>4 DEF Reported

\* No call but a write, and no tick of the clock, leaves a screened write just made.
LEMMA NotScreened ==
  ASSUME LogInv, NEW k
  PROVE  /\ \A op : \A S \in SUBSET Keys : RemovalNoted(op, S) => ~ScreenedWrite(k)'
         /\ NothingNoted => ~ScreenedWrite(k)'
         /\ Tick => ~ScreenedWrite(k)'
         /\ \A r \in WriteCalls : \A out :
               WriteNoted(r, out) /\ ScreenedWrite(k)' => k = r.key
<1>1. ASSUME Tick, ScreenedWrite(k)'
      PROVE  FALSE
  <2>1. /\ log' = log /\ now' = now + 1 /\ now \in Nat
        /\ log # <<>> /\ log[Len(log)].at = now + 1
    BY <1>1 DEF Tick, ScreenedWrite, LogInv
  <2>2. Len(log) \in DOMAIN log
    BY <2>1 DEF LogInv
  <2>3. log[Len(log)].at <= now
    BY <2>2 DEF LogInv
  <2> QED
    BY <2>1, <2>3
<1> QED
  BY <1>1 DEF RemovalNoted, NothingNoted, WriteNoted, ScreenedWrite

LEMMA StepRapid ==
  ASSUME LogInv, RapidInv, [HistoryNext]_allVars
  PROVE  RapidInv'
<1>1. ASSUME NEW r \in WriteCalls, NEW out, WriteNoted(r, out)
      PROVE  RapidInv'
  <2>1. /\ r.key \in Keys /\ writeTimes \in [Keys -> Seq(Nat)]
        /\ writeTimes' = [writeTimes EXCEPT ![r.key] = WritesAfter(@, now)]
    BY <1>1, WriteCallFields DEF RapidInv, WriteNoted, NoteWrite
  <2>2. PICK f : Recalls(r.key, f)
    BY <2>1 DEF RapidInv
  <2>3. /\ writeTimes'[r.key] \in Seq(Nat)
        /\ \E g : Recalls(r.key, g)'
        /\ Cardinality(WritesInWindow(r.key)') = Len(writeTimes'[r.key])
    BY <1>1, <2>1, <2>2, RapidWrite
  <2>4. /\ writeTimes' \in [Keys -> Seq(Nat)]
        /\ writeTimes'[r.key] = WritesAfter(writeTimes[r.key], now)
        /\ \A k \in Keys \ {r.key} : writeTimes'[k] = writeTimes[k]
    BY <2>1, <2>3
  <2>5. ASSUME NEW k \in Keys \ {r.key}
        PROVE  \E g : Recalls(k, g)'
    <3>1. /\ LogInv' /\ now' = now /\ DOMAIN log = 1 .. Len(log) /\ Len(log) \in Nat
          /\ DOMAIN log' = 1 .. Len(log) + 1
          /\ log'[Len(log) + 1] = WriteEntry(r, out)
          /\ \A i \in DOMAIN log : log'[i] = log[i]
      BY <1>1, WriteLogged
    <3>2. Writes(k, DOMAIN log)' = Writes(k, DOMAIN log)
      <4>1. k \notin log'[Len(log) + 1].keys
        BY <2>5, <3>1 DEF WriteEntry
      <4> QED
        BY <3>1, <4>1 DEF Writes
    <3>3. \A w \in Writes(k, DOMAIN log) : log'[w] = log[w]
      BY <3>1 DEF Writes
    <3>4. PICK g : Recalls(k, g)
      BY DEF RapidInv
    <3>5. \A i \in 1 .. Len(writeTimes[k]) : g[i] \in Writes(k, DOMAIN log)
      BY <3>4 DEF Recalls
    <3>6. Recalls(k, g)'
      BY <2>4, <3>1, <3>2, <3>3, <3>4, <3>5 DEF Recalls
    <3> QED
      BY <3>6
  <2>6. RapidChangeExact'
    <3> SUFFICES ASSUME ScreenedWrite(r.key)'
                 PROVE  Reported("rapid_change")'
                          <=> Cardinality(WritesInWindow(r.key)') > MaxWrites
      BY <1>1, NotScreened DEF RapidChangeExact
    <3>1. Reported("rapid_change")' <=> Len(WritesAfter(writeTimes[r.key], now)) > MaxWrites
      BY <1>1, RapidReported
    <3> QED
      BY <2>3, <2>4, <3>1
  <2> QED
    BY <2>3, <2>4, <2>5, <2>6 DEF RapidInv
<1>2. ASSUME NEW op, NEW S \in SUBSET Keys, RemovalNoted(op, S)
      PROVE  RapidInv'
  <2>1. /\ now' = now /\ DOMAIN log = 1 .. Len(log) /\ Len(log) \in Nat
        /\ DOMAIN log' = 1 .. Len(log) + 1
        /\ log'[Len(log) + 1].op # "write"
        /\ \A i \in DOMAIN log : log'[i] = log[i]
    <3>1. RemovalEntry(op, S).op # "write"
      BY <1>2 DEF RemovalEntry, RemovalNoted
    <3> QED
      BY <1>2, <3>1, RemovalLogged
  <2>2. writeTimes' = writeTimes
    BY <1>2 DEF RemovalNoted, Forget
  <2>3. ASSUME NEW k \in Keys
        PROVE  \E g : Recalls(k, g)'
    <3>1. Writes(k, DOMAIN log)' = Writes(k, DOMAIN log)
      BY <2>1 DEF Writes
    <3>2. \A w \in Writes(k, DOMAIN log) : log'[w] = log[w]
      BY <2>1 DEF Writes
    <3>3. PICK g : Recalls(k, g)
      BY DEF RapidInv
    <3>4. \A i \in 1 .. Len(writeTimes[k]) : g[i] \in Writes(k, DOMAIN log)
      BY <3>3 DEF Recalls
    <3>5. Recalls(k, g)'
      BY <2>1, <2>2, <3>1, <3>2, <3>3, <3>4 DEF Recalls
    <3> QED
      BY <3>5
  <2> QED
    BY <1>2, <2>2, <2>3, NotScreened DEF RapidInv, RapidChangeExact
<1>3. ASSUME UNCHANGED <<writeTimes, log>>, now' = now \/ now' = now + 1
      PROVE  writeTimes' \in [Keys -> Seq(Nat)] /\ \A k \in Keys : \E g : Recalls(k, g)'
  <2> SUFFICES ASSUME NEW k \in Keys
               PROVE  \E g : Recalls(k, g)'
    BY <1>3 DEF RapidInv
  <2>1. PICK g : Recalls(k, g)
    BY DEF RapidInv
  <2>2. \A w \in Writes(k, DOMAIN log) : log[w].at >= now' - Window => log[w].at >= now - Window
    <3>1. \A w \in DOMAIN log : log[w].at \in Nat
      BY LogEntries
    <3> QED
      BY <1>3, <3>1, HistoryAssumption DEF Writes, LogInv
  <2>3. Recalls(k, g)'
    BY <1>3, <2>1, <2>2 DEF Recalls, Writes
  <2> QED
    BY <2>3
<1>4. CASE NothingNoted
  BY <1>3, <1>4, NotScreened DEF NothingNoted, RapidInv, RapidChangeExact
<1>5. CASE Tick
  BY <1>3, <1>5, NotScreened DEF Tick, RapidInv, RapidChangeExact
<1>6. CASE UNCHANGED allVars
  <2>1. UNCHANGED <<now, writeTimes, log, reported, last>>
    BY <1>6 DEF allVars, historyVars, vars
  <2>2. RapidChangeExact'
    BY <2>1 DEF RapidInv, RapidChangeExact, ScreenedWrite, Reported, WritesInWindow, Writes
  <2> QED
    BY <1>3, <2>1, <2>2 DEF RapidInv
<1> QED
  BY <1>1, <1>2, <1>4, <1>5, <1>6, HistoryMoves

LEMMA StepLog ==
  ASSUME LogInv, [HistoryNext]_allVars
  PROVE  LogInv'
<1>1. ASSUME UNCHANGED log, now' = now \/ now' = now + 1
      PROVE  LogInv'
  BY <1>1, LogEntries DEF LogInv
<1> QED
  BY <1>1, HistoryMoves, WriteLogged, RemovalLogged
     DEF NothingNoted, Tick, allVars, historyVars

-----------------------------------------------------------------------------
(* SizeAnomalyDetector *)

\* What was offered under k, the redactions of it, and what was put there without
\* the guard.
Met(k) ==
    { log[i].value : i \in Writes(k, DOMAIN log) }
        \cup { Redacted[log[i].value] : i \in Writes(k, DOMAIN log) }
        \cup (outside[k] \ {NoValue})

\* The store, and what a rollback may restore, were met, and so was what the
\* detector remembers the size of.
SizeInv ==
    /\ TypeOK
    /\ lastSize \in [Keys -> Nat]
    /\ \A k \in Keys :
          /\ store[k] = NoValue \/ store[k] \in Met(k)
          /\ \A i \in DOMAIN snapshots :
                snapshots[i].data[k] = NoValue \/ snapshots[i].data[k] \in Met(k)
          /\ Writes(k, DOMAIN log) # {} => \E v \in Met(k) : lastSize[k] = Size[v]
    /\ JumpIsReported

\* The log only grows.
LEMMA LogKept ==
  ASSUME LogInv, [HistoryNext]_allVars
  PROVE  /\ DOMAIN log \subseteq DOMAIN log'
         /\ \A i \in DOMAIN log : log'[i] = log[i]
<1>1. CASE \E r \in WriteCalls : \E out : WriteNoted(r, out)
  <2>1. PICK r \in WriteCalls : \E out : WriteNoted(r, out)
    BY <1>1
  <2>3. PICK out : WriteNoted(r, out)
    BY <2>1
  <2>2. /\ DOMAIN log' = 1 .. Len(log) + 1 /\ DOMAIN log = 1 .. Len(log)
        /\ Len(log) \in Nat /\ \A i \in DOMAIN log : log'[i] = log[i]
    BY <2>3, WriteLogged
  <2> QED
    BY <2>2
<1>2. CASE \E op : \E S \in SUBSET Keys : RemovalNoted(op, S)
  <2>1. PICK op : \E S \in SUBSET Keys : RemovalNoted(op, S)
    BY <1>2
  <2>3. PICK S \in SUBSET Keys : RemovalNoted(op, S)
    BY <2>1
  <2>2. /\ DOMAIN log' = 1 .. Len(log) + 1 /\ DOMAIN log = 1 .. Len(log)
        /\ Len(log) \in Nat /\ \A i \in DOMAIN log : log'[i] = log[i]
    BY <2>3, RemovalLogged
  <2> QED
    BY <2>2
<1>3. CASE NothingNoted \/ Tick \/ UNCHANGED allVars
  BY <1>3 DEF NothingNoted, Tick, allVars
<1> QED
  BY <1>1, <1>2, <1>3, HistoryMoves

LEMMA MetStays ==
  ASSUME LogInv, TypeOK, [HistoryNext]_allVars, NEW k \in Keys, NEW v, v \in Met(k)
  PROVE  v \in Met(k)'
<1>1. outside[k] \subseteq outside'[k]
  BY HistoryStep, SnapshotsComeFrom
<1>2. Writes(k, DOMAIN log) \subseteq Writes(k, DOMAIN log)'
  BY LogKept DEF Writes
<1>3. \A i \in Writes(k, DOMAIN log) : log'[i] = log[i]
  BY LogKept DEF Writes
<1> QED
  BY <1>1, <1>2, <1>3 DEF Met

LEMMA MetIsValue ==
  ASSUME LogInv, TypeOK, NEW k \in Keys, NEW v, v \in Met(k)
  PROVE  v \in Values /\ Size[v] \in Nat
<1>1. \A i \in Writes(k, DOMAIN log) : log[i].value \in Values
  BY DEF Writes, LogInv
<1>2. v \in Values
  BY <1>1, ValuesAssumption DEF Met, TypeOK, Entry
<1> QED
  BY <1>2, SizesAssumption

\* The store and the snapshots hold only what was met.
LEMMA StoreMet ==
  ASSUME LogInv, SizeInv, [HistoryNext]_allVars, NEW k \in Keys
  PROVE  /\ store'[k] = NoValue \/ store'[k] \in Met(k)'
         /\ \A i \in DOMAIN snapshots' :
               snapshots'[i].data[k] = NoValue \/ snapshots'[i].data[k] \in Met(k)'
<1>1. TypeOK /\ [Next]_vars
  BY HistoryStep DEF SizeInv
<1>2. \A v : v \in Met(k) => v \in Met(k)'
  BY <1>1, MetStays
<1>3. \/ \E r \in WriteCalls : \E out : WriteNoted(r, out)
      \/ \E op : \E S \in SUBSET Keys : RemovalNoted(op, S)
      \/ NothingNoted
      \/ UNCHANGED vars
  BY HistoryMoves DEF Tick, allVars
<1>4. store'[k] = NoValue \/ store'[k] \in Met(k)'
  <2>1. ASSUME NEW r \in WriteCalls, NEW out, WriteNoted(r, out)
        PROVE  store'[k] = NoValue \/ store'[k] \in Met(k)'
    <3>1. CASE store'[k] = store[k]
      BY <1>2, <3>1 DEF SizeInv
    <3>2. CASE store'[k] # store[k]
      <4>1. k = r.key /\ store'[k] \in {r.value, Redacted[r.value]}
        BY <1>1, <2>1, <3>2, WriteCallFields DEF WriteNoted, TypeOK
      <4>2. /\ Len(log) + 1 \in DOMAIN log'
            /\ log'[Len(log) + 1] = WriteEntry(r, out)
        BY <2>1, WriteLogged
      <4>3. Len(log) + 1 \in Writes(k, DOMAIN log)'
        BY <4>1, <4>2 DEF Writes, WriteEntry
      <4>4. store'[k] \in {log'[Len(log) + 1].value, Redacted[log'[Len(log) + 1].value]}
        BY <4>1, <4>2 DEF WriteEntry
      <4> QED
        BY <4>3, <4>4 DEF Met
    <3> QED
      BY <3>1, <3>2
  <2>2. CASE UNCHANGED vars
    BY <1>2, <2>2 DEF SizeInv, vars, guardVars
  <2>3. CASE NothingNoted \/ \E op : \E S \in SUBSET Keys : RemovalNoted(op, S)
    <3>1. last'.op # "write" \/ last'.out = "class_error"
      BY <2>3 DEF NothingNoted, RemovalNoted
    <3>4. ASSUME NEW r \in WriteCalls, NEW an, WriteCommitted(r, an)
          PROVE  FALSE
      BY <3>1, <3>4 DEF WriteCommitted, Answer
    <3>2. \/ store'[k] \in {store[k], NoValue} \cup outside'[k]
          \/ \E i \in DOMAIN snapshots : store'[k] = snapshots[i].data[k]
      BY <1>1, <3>4, StoreComesFrom
    <3>3. store'[k] \in outside'[k] => store'[k] = NoValue \/ store'[k] \in Met(k)'
      BY DEF Met
    <3> QED
      BY <1>2, <3>2, <3>3 DEF SizeInv
  <2> QED
    BY <1>3, <2>1, <2>2, <2>3
<1>5. ASSUME NEW i \in DOMAIN snapshots'
      PROVE  snapshots'[i].data[k] = NoValue \/ snapshots'[i].data[k] \in Met(k)'
  <2>1. \/ snapshots'[i].data = store
        \/ \E j \in DOMAIN snapshots : snapshots'[i] = snapshots[j]
    BY <1>1, SnapshotsComeFrom
  <2> QED
    BY <1>2, <2>1 DEF SizeInv
<1> QED
  BY <1>4, <1>5

LEMMA StepSize ==
  ASSUME LogInv, SizeInv, [HistoryNext]_allVars
  PROVE  SizeInv'
<1>1. TypeOK /\ TypeOK' /\ lastSize \in [Keys -> Nat]
  BY HistoryStep, StepType DEF SizeInv
<1>2. ASSUME NEW k \in Keys
      PROVE  /\ store'[k] = NoValue \/ store'[k] \in Met(k)'
             /\ \A i \in DOMAIN snapshots' :
                   snapshots'[i].data[k] = NoValue \/ snapshots'[i].data[k] \in Met(k)'
  BY StoreMet
<1>3. ASSUME NEW k \in Keys, NEW v, v \in Met(k)
      PROVE  v \in Met(k)'
  BY <1>1, <1>3, MetStays
<1>4. ASSUME NEW r \in WriteCalls, NEW out, WriteNoted(r, out)
      PROVE  SizeInv'
  <2> DEFINE end == Len(log) + 1
  <2>1. /\ Len(log) \in Nat /\ DOMAIN log = 1 .. Len(log)
        /\ Len(log') = end /\ DOMAIN log' = 1 .. end
        /\ log'[end] = WriteEntry(r, out)
        /\ \A i \in DOMAIN log : log'[i] = log[i]
    BY <1>4, WriteLogged
  <2>2. /\ r.key \in Keys /\ r.value \in Values /\ Size[r.value] \in Nat
        /\ lastSize' = [lastSize EXCEPT ![r.key] = Size[r.value]]
        /\ reported' = WriteReport(r)
    BY <1>4, WriteCallFields, SizesAssumption DEF WriteNoted, NoteWrite
  <2>3. r.value \in Met(r.key)'
    <3>1. end \in Writes(r.key, DOMAIN log)' /\ log'[end].value = r.value
      BY <2>1 DEF Writes, WriteEntry
    <3> QED
      BY <3>1 DEF Met
  <2>4. ASSUME NEW k \in Keys, Writes(k, DOMAIN log)' # {}
        PROVE  \E v \in Met(k)' : lastSize'[k] = Size[v]
    <3>1. CASE k = r.key
      BY <1>1, <2>2, <2>3, <3>1
    <3>2. CASE k # r.key
      <4>1. lastSize'[k] = lastSize[k]
        BY <1>1, <2>2, <3>2
      <4>2. Writes(k, DOMAIN log) # {}
        <5>1. PICK w \in Writes(k, DOMAIN log)' : TRUE
          BY <2>4
        <5>2. w \in DOMAIN log' /\ k \in log'[w].keys /\ log'[w].op = "write"
          BY DEF Writes
        <5>3. w # end
          BY <2>1, <3>2, <5>2 DEF WriteEntry
        <5> QED
          BY <2>1, <5>2, <5>3 DEF Writes
      <4> QED
        BY <1>3, <4>1, <4>2 DEF SizeInv
    <3> QED
      BY <3>1, <3>2
  <2>5. JumpIsReported'
    <3> DEFINE k == r.key
               previous == lastSize[k]
               size == Size[r.value]
    <3> SUFFICES ASSUME Writes(k, 1 .. Len(log) - 1)' # {},
                        \A s \in SizesMet(k)' : s > 0 /\ size > s * GrowthFactor
                 PROVE  Reported("size_anomaly")'
      <4>1. log'[Len(log')].value = r.value
        BY <2>1 DEF WriteEntry
      <4>2. \A j \in Keys : ScreenedWrite(j)' => j = k
        BY <1>4, NotScreened
      <4> QED
        BY <4>1, <4>2 DEF JumpIsReported
    <3>1. Writes(k, 1 .. Len(log) - 1)' = Writes(k, DOMAIN log)
      BY <2>1 DEF Writes
    <3>2. PICK v \in Met(k) : previous = Size[v]
      BY <2>2, <3>1 DEF SizeInv
    <3>3. Size[v] \in SizesMet(k)'
      <4>1. outside'[k] = outside[k]
        BY <1>4 DEF WriteNoted
      <4>2. \A i \in Writes(k, DOMAIN log) : log'[i] = log[i]
        BY <2>1 DEF Writes
      <4> QED
        BY <3>1, <3>2, <4>1, <4>2 DEF SizesMet, Met
    <3>4. previous > 0 /\ size > previous * GrowthFactor
      BY <3>2, <3>3
    <3>5. Found("size_anomaly", SevMedium) \in SizeFindings(previous, size)
      BY <3>4 DEF SizeFindings, FindingIf
    <3>6. Found("size_anomaly", SevMedium).detector = "size_anomaly"
      BY DEF Found
    <3> QED
      BY <2>2, <3>5, <3>6 DEF Reported, WriteReport
  <2>6. lastSize' \in [Keys -> Nat]
    BY <1>1, <2>2
  <2> QED
    BY <1>1, <1>2, <2>4, <2>5, <2>6 DEF SizeInv
<1>5. ASSUME \A k \in Keys : Writes(k, DOMAIN log)' \subseteq Writes(k, DOMAIN log),
             \/ UNCHANGED lastSize
             \/ \E k \in Keys :
                   Stored(k) /\ lastSize' = [lastSize EXCEPT ![k] = Size[store[k]]],
             JumpIsReported'
      PROVE  SizeInv'
  <2>1. ASSUME NEW k \in Keys
        PROVE  /\ lastSize'[k] \in Nat
               /\ Writes(k, DOMAIN log)' # {} => \E v \in Met(k)' : lastSize'[k] = Size[v]
    <3>1. CASE lastSize'[k] = lastSize[k]
      BY <1>1, <1>3, <1>5, <3>1 DEF SizeInv
    <3>2. CASE Stored(k) /\ lastSize'[k] = Size[store[k]]
      <4>1. store[k] \in Met(k)
        BY <3>2 DEF SizeInv, Stored
      <4>2. Size[store[k]] \in Nat
        BY <1>1, <4>1, MetIsValue
      <4> QED
        BY <1>3, <3>2, <4>1, <4>2
    <3> QED
      BY <1>1, <1>5, <3>1, <3>2
  <2>2. lastSize' \in [Keys -> Nat]
    BY <1>1, <1>5, <2>1
  <2> QED
    BY <1>1, <1>2, <1>5, <2>1, <2>2 DEF SizeInv
<1>6. ASSUME NEW op, NEW S \in SUBSET Keys, RemovalNoted(op, S)
      PROVE  SizeInv'
  <2>1. ASSUME NEW k \in Keys
        PROVE  Writes(k, DOMAIN log)' \subseteq Writes(k, DOMAIN log)
    <3>1. /\ DOMAIN log = 1 .. Len(log) /\ DOMAIN log' = 1 .. Len(log) + 1
          /\ Len(log) \in Nat /\ log'[Len(log) + 1] = RemovalEntry(op, S)
          /\ \A i \in DOMAIN log : log'[i] = log[i]
      BY <1>6, RemovalLogged
    <3>2. log'[Len(log) + 1].op # "write"
      BY <1>6, <3>1 DEF RemovalEntry, RemovalNoted
    <3> QED
      BY <3>1, <3>2 DEF Writes
  <2>2. UNCHANGED lastSize
    BY <1>6 DEF RemovalNoted, Forget
  <2>3. JumpIsReported'
    BY <1>6, NotScreened DEF JumpIsReported
  <2> QED
    BY <1>5, <2>1, <2>2, <2>3
<1>7. CASE NothingNoted
  <2>1. JumpIsReported'
    BY <1>7, NotScreened DEF JumpIsReported
  <2> QED
    BY <1>5, <1>7, <2>1 DEF NothingNoted, Writes
<1>8. CASE Tick
  <2>1. JumpIsReported'
    BY <1>8, NotScreened DEF JumpIsReported
  <2> QED
    BY <1>5, <1>8, <2>1 DEF Tick, Writes
<1>9. CASE UNCHANGED allVars
  <2>1. UNCHANGED <<now, lastSize, log, reported, last, outside>>
    BY <1>9 DEF allVars, historyVars, vars
  <2>2. JumpIsReported'
    BY <2>1 DEF SizeInv, JumpIsReported, ScreenedWrite, Reported, SizesMet, Writes
  <2> QED
    BY <1>5, <2>1, <2>2 DEF Writes
<1> QED
  BY <1>4, <1>6, <1>7, <1>8, <1>9, HistoryMoves

-----------------------------------------------------------------------------
(* SelfReinforcementDetector *)

\* The agent's writes of k since the last break, which the detector was told of.
Run(k) ==
    { i \in Writes(k, DOMAIN log) :
        log[i].agent /\ \A j \in i .. Len(log) : ~Breaks(k, j) }

\* f tells of each write in a list which entry of the log it is of; what the list
\* lacks of the run is too old to count, or comes before as many writes as the
\* detector can hold.
RecallsRun(k, list, f) ==
    LET size == Len(list)
    IN  /\ f \in [1 .. size -> Run(k)]
        /\ \A i, j \in 1 .. size : i < j => f[i] < f[j]
        /\ \A i \in 1 .. size : list[i].at = log[f[i]].at /\ list[i].text = log[f[i]].value
        /\ \A w \in Run(k) :
              \/ log[w].at < now - Cooldown
              \/ \E i \in 1 .. size : f[i] = w
              \/ size = HistorySize /\ \A i \in 1 .. size : w < f[i]

\* The constructor does not compare the two; a shorter history than the run it is to
\* see never reports one.
HistoryLongEnough == MaxSelfWrites <= HistorySize

SelfWriteList == Seq([at : Nat, text : Values])

SelfInv ==
    /\ selfWrites \in [Keys -> SelfWriteList]
    /\ \A k \in Keys :
          Len(selfWrites[k]) <= HistorySize /\ \E f : RecallsRun(k, selfWrites[k], f)
    /\ HistoryLongEnough => SelfLoopExact

\* RecallsRun, for a list of a given length.
LEMMA RecallsParts ==
  ASSUME NEW k, NEW list, NEW f, RecallsRun(k, list, f), NEW n, n = Len(list)
  PROVE  /\ f \in [1 .. n -> Run(k)] /\ \A i, j \in 1 .. n : i < j => f[i] < f[j]
         /\ \A i \in 1 .. n : list[i].at = log[f[i]].at /\ list[i].text = log[f[i]].value
         /\ \A w \in Run(k) :
              \/ log[w].at < now - Cooldown
              \/ \E i \in 1 .. n : f[i] = w
              \/ n = HistorySize /\ \A i \in 1 .. n : w < f[i]
  BY Zenon DEF RecallsRun

\* What is left of the list within the cool-down is still all that is to be known.
LEMMA RecentIsRecalled ==
  ASSUME LogInv, NEW k \in Keys, selfWrites[k] \in SelfWriteList,
         Len(selfWrites[k]) <= HistorySize, NEW f, RecallsRun(k, selfWrites[k], f)
  PROVE  LET recent == RecentSelfWrites(selfWrites[k], now)
         IN  /\ recent \in SelfWriteList /\ Len(recent) <= HistorySize
             /\ \E g : /\ RecallsRun(k, recent, g)
                       /\ \A i \in 1 .. Len(recent) : log[g[i]].at >= now - Cooldown
<1> DEFINE T == [at : Nat, text : Values]
           writes == selfWrites[k]
           size == Len(writes)
           keep == { i \in DOMAIN writes : writes[i].at >= now - Cooldown }
           recent == RecentSelfWrites(writes, now)
<1>1. /\ writes \in Seq(T) /\ size \in Nat /\ DOMAIN writes = 1 .. size
      /\ now - Cooldown \in Int
  BY HistoryAssumption DEF SelfWriteList, LogInv
<1>2. \A i \in 1 .. size :
        /\ f[i] \in DOMAIN log
        /\ writes[i].at = log[f[i]].at /\ writes[i].text = log[f[i]].value
        /\ \A j \in 1 .. size : i < j => f[i] < f[j]
  BY DEF RecallsRun, Run, Writes
<1>r. /\ f \in [1 .. size -> Run(k)] /\ Run(k) \subseteq DOMAIN log
      /\ size <= HistorySize /\ HistorySize \in Nat
      /\ \A w \in Run(k) :
              \/ log[w].at < now - Cooldown
              \/ \E i \in 1 .. size : f[i] = w
              \/ size = HistorySize /\ \A i \in 1 .. size : w < f[i]
  BY HistoryAssumption DEF RecallsRun, Run, Writes
<1>3. recent = Purged(writes, keep)
  BY DEF RecentSelfWrites
<1> HIDE DEF writes, size, recent, T
<1>4. ASSUME NEW i \in 1 .. size, NEW j \in 1 .. size, i <= j,
             writes[i].at >= now - Cooldown
      PROVE  writes[j].at >= now - Cooldown
  <2>1. f[i] <= f[j] /\ f[i] \in DOMAIN log /\ f[j] \in DOMAIN log
    <3>1. CASE i = j
      BY <1>2, <3>1, LogEntries
    <3>2. CASE i < j
      BY <1>2, <3>2, LogEntries
    <3> QED
      BY <1>1, <1>4, <3>1, <3>2
  <2>2. log[f[i]].at <= log[f[j]].at
    BY <2>1 DEF LogInv
  <2>3. log[f[i]].at \in Nat /\ log[f[j]].at \in Nat
    BY <2>1, LogEntries
  <2> QED
    BY <1>1, <1>2, <1>4, <2>2, <2>3
<1>5. /\ keep \in SUBSET DOMAIN writes
      /\ \A i \in keep : \A j \in DOMAIN writes : i <= j => j \in keep
      /\ \A i \in DOMAIN writes : i \in keep <=> writes[i].at >= now - Cooldown
  BY <1>1, <1>4
<1> HIDE DEF keep
<1>6. /\ recent \in Seq(T)
      /\ \E m : IsRest(recent, writes, m) /\ \A i \in DOMAIN writes : i \in keep <=> i > m
  BY <1>1, <1>3, <1>5, PurgedIsRest
<1>7. PICK m : IsRest(recent, writes, m) /\ \A i \in DOMAIN writes : i \in keep <=> i > m
  BY <1>6
<1>8. \A i \in 1 .. size : log[f[i]].at >= now - Cooldown <=> i > m
  BY <1>1, <1>2, <1>5, <1>7
<1> DEFINE n == Len(recent)
<1>9. /\ m \in 0 .. size /\ n = size - m /\ n \in Nat
      /\ \A i \in 1 .. n : i + m \in 1 .. size /\ recent[i] = writes[i + m]
  BY <1>1, <1>7 DEF IsRest, size
<1> HIDE DEF n
<1>10. PICK g : g = [i \in 1 .. n |-> f[i + m]]
  OBVIOUS
<1>11. g \in [1 .. n -> Run(k)]
  BY <1>9, <1>10, <1>r
<1>12. \A i \in 1 .. n :
         /\ recent[i].at = log[g[i]].at /\ recent[i].text = log[g[i]].value
         /\ log[g[i]].at >= now - Cooldown
         /\ \A j \in 1 .. n : i < j => g[i] < g[j]
  <2> SUFFICES ASSUME NEW i \in 1 .. n
               PROVE  /\ recent[i].at = log[g[i]].at /\ recent[i].text = log[g[i]].value
                      /\ log[g[i]].at >= now - Cooldown
                      /\ \A j \in 1 .. n : i < j => g[i] < g[j]
    OBVIOUS
  <2>1. i + m \in 1 .. size /\ recent[i] = writes[i + m] /\ g[i] = f[i + m] /\ i + m > m
    BY <1>9, <1>10
  <2>2. ASSUME NEW j \in 1 .. n, i < j PROVE g[i] < g[j]
    <3>1. j + m \in 1 .. size /\ g[j] = f[j + m] /\ i + m < j + m
      BY <1>9, <1>10, <2>2
    <3> QED
      BY <1>2, <2>1, <3>1
  <2> QED
    BY <1>2, <1>8, <2>1, <2>2
<1>13. ASSUME NEW w \in Run(k)
       PROVE  \/ log[w].at < now - Cooldown
              \/ \E i \in 1 .. n : g[i] = w
              \/ n = HistorySize /\ \A i \in 1 .. n : w < g[i]
  <2>1. CASE \E i \in 1 .. size : f[i] = w /\ ~(log[w].at < now - Cooldown)
    <3>1. PICK i \in 1 .. size : f[i] = w /\ ~(log[w].at < now - Cooldown)
      BY <2>1
    <3>2. log[f[i]].at >= now - Cooldown
      BY <1>1, <1>2, <3>1, LogEntries
    <3>3. i - m \in 1 .. n /\ (i - m) + m = i
      BY <1>1, <1>8, <1>9, <3>2
    <3> QED
      BY <1>10, <3>1, <3>3
  <2>2. CASE size = HistorySize /\ \A i \in 1 .. size : w < f[i]
    <3>1. CASE m = 0
      BY <1>1, <1>9, <1>10, <2>2, <3>1
    <3>2. CASE m # 0
      <4>1. 1 \in 1 .. size /\ ~(1 > m)
        BY <1>1, <1>9, <3>2
      <4>2. w < f[1] /\ ~(log[f[1]].at >= now - Cooldown) /\ f[1] \in DOMAIN log
        BY <1>2, <1>8, <2>2, <4>1
      <4>3. w \in DOMAIN log /\ w <= f[1]
        BY <1>r, <4>2, LogEntries
      <4>4. log[w].at <= log[f[1]].at
        BY <4>2, <4>3 DEF LogInv
      <4> QED
        BY <1>1, <4>2, <4>3, <4>4, LogEntries
    <3> QED
      BY <3>1, <3>2
  <2> QED
    BY <1>r, <2>1, <2>2
<1>14. RecallsRun(k, recent, g)
  BY <1>11, <1>12, <1>13 DEF RecallsRun, n
<1>15. n <= HistorySize
  BY <1>1, <1>9, <1>r
<1> QED
  BY <1>6, <1>12, <1>14, <1>15 DEF recent, writes, n, SelfWriteList, T

\* Increasing numbers of a set that leave out only smaller ones, and that only
\* if there are HistorySize of them, are the latest HistorySize of it.
LEMMA LatestAre ==
  ASSUME NEW R \in SUBSET Nat, IsFiniteSet(R), NEW n \in Nat, n <= HistorySize,
         NEW g \in [1 .. n -> R], \A i, j \in 1 .. n : i < j => g[i] < g[j],
         \A w \in R : \/ \E i \in 1 .. n : g[i] = w
                      \/ n = HistorySize /\ \A i \in 1 .. n : w < g[i]
  PROVE  /\ Cardinality(R) \in Nat /\ n <= Cardinality(R)
         /\ Cardinality(R) = n \/ n = HistorySize
         /\ Latest(R) = { g[i] : i \in 1 .. n }
<1> DEFINE rng == { g[i] : i \in 1 .. n }
<1>1. HistorySize \in Nat
  BY HistoryAssumption
<1>2. IsFiniteSet(rng) /\ Cardinality(rng) = n
  <2>1. IsFiniteSet(1 .. n) /\ Cardinality(1 .. n) = n
    BY FS_Interval
  <2>2. \A i, j \in 1 .. n : g[i] = g[j] => i = j
    <3> SUFFICES ASSUME NEW i \in 1 .. n, NEW j \in 1 .. n, g[i] = g[j]
                 PROVE  i = j
      OBVIOUS
    <3>1. g[i] \in Nat /\ g[j] \in Nat
      OBVIOUS
    <3>2. ~(i < j) /\ ~(j < i)
      BY <3>1
    <3> QED
      BY <3>2
  <2>3. g \in [1 .. n -> rng] /\ \A v \in rng : \E i \in 1 .. n : g[i] = v
    OBVIOUS
  <2> HIDE DEF rng
  <2>4. g \in Bijection(1 .. n, rng)
    BY <2>2, <2>3, Fun_IsBij
  <2>5. ExistsBijection(1 .. n, rng)
    BY <2>4 DEF ExistsBijection
  <2> QED
    BY <2>1, <2>5, FS_Bijection
<1>3. rng \in SUBSET R
  OBVIOUS
<1>4. Cardinality(R) \in Nat /\ n <= Cardinality(R)
  <2> HIDE DEF rng
  <2> QED
    BY <1>2, <1>3, FS_Subset, FS_CardinalityType
<1>5. n # HistorySize => R = rng
  OBVIOUS
<1>6. ASSUME NEW v \in rng
      PROVE  Cardinality({ j \in R : j > v }) < HistorySize
  <2>1. PICK p \in 1 .. n : v = g[p]
    OBVIOUS
  <2>2. { j \in R : j > v } \in SUBSET (rng \ {v})
    <3> SUFFICES ASSUME NEW j \in R, j > v
                 PROVE  j \in rng /\ j # v
      OBVIOUS
    <3>1. j \in Nat /\ v \in Nat
      BY <2>1
    <3>2. ~(j < g[p])
      BY <2>1, <3>1
    <3> QED
      BY <3>1, <3>2
  <2> HIDE DEF rng
  <2>3. IsFiniteSet(rng \ {v}) /\ Cardinality(rng \ {v}) = n - 1
    BY <1>2, <1>6, FS_RemoveElement
  <2>4. /\ Cardinality({ j \in R : j > v }) <= n - 1
        /\ IsFiniteSet({ j \in R : j > v })
    BY <2>2, <2>3, FS_Subset
  <2>5. Cardinality({ j \in R : j > v }) \in Nat
    BY <2>4, FS_CardinalityType
  <2> QED
    BY <1>1, <2>4, <2>5
<1>7. ASSUME NEW v \in R \ rng
      PROVE  ~(Cardinality({ j \in R : j > v }) < HistorySize)
  <2>1. n = HistorySize /\ \A i \in 1 .. n : v < g[i]
    BY <1>7
  <2>2. rng \in SUBSET { j \in R : j > v }
    BY <2>1
  <2> HIDE DEF rng
  <2>3. IsFiniteSet({ j \in R : j > v })
    <3>1. { j \in R : j > v } \in SUBSET R
      OBVIOUS
    <3> QED
      BY <3>1, FS_Subset
  <2>4. n <= Cardinality({ j \in R : j > v })
    BY <1>2, <2>2, <2>3, FS_Subset
  <2>5. Cardinality({ j \in R : j > v }) \in Nat
    BY <2>3, FS_CardinalityType
  <2> QED
    BY <1>1, <2>1, <2>4, <2>5
<1>8. Latest(R) = rng
  <2> HIDE DEF rng
  <2> QED
    BY <1>3, <1>6, <1>7 DEF Latest
<1>9. Cardinality(R) = n \/ n = HistorySize
  <2> HIDE DEF rng
  <2> QED
    BY <1>2, <1>5
<1> QED
  BY <1>4, <1>8, <1>9

\* What the detector finds is found of the writes within the cool-down.
LEMMA SelfReported ==
  ASSUME NEW r, NEW out, WriteNoted(r, out), FromAgent(r)
  PROVE  Reported("self_reinforcement")' <=>
           LET recent == RecentSelfWrites(selfWrites[r.key], now)
           IN  /\ Len(recent) >= MaxSelfWrites
               /\ \E i \in DOMAIN recent : recent[i].text \in Similar[r.value]
<1> DEFINE findings == SelfFindings(selfWrites[r.key], r.value, now)
           recent == RecentSelfWrites(selfWrites[r.key], now)
<1>1. reported' = WriteReport(r)
  BY DEF WriteNoted, NoteWrite
<1>2. \A f \in WriteReport(r) : f.detector = "self_reinforcement" => f \in findings
  BY DEF WriteReport, SizeFindings, RapidFindings, FindingIf, Found
<1>3. \A f \in findings : f \in WriteReport(r) /\ f.detector = "self_reinforcement"
  BY DEF WriteReport, SelfFindings, FindingIf, Found
<1>4. findings # {} <=>
        /\ Len(recent) >= MaxSelfWrites
        /\ \E i \in DOMAIN recent : recent[i].text \in Similar[r.value]
  BY DEF SelfFindings, FindingIf
<1> HIDE DEF findings
<1> QED
  BY <1>1, <1>2, <1>3, <1>4 DEF Reported

\* An entry ends a run, or is of it, by what it says alone.
LEMMA RunAfter ==
  ASSUME LogInv, NEW k \in Keys, NEW e,
         Len(log') = Len(log) + 1, DOMAIN log' = 1 .. Len(log) + 1,
         log'[Len(log) + 1] = e, \A i \in DOMAIN log : log'[i] = log[i],
         NEW broken \in BOOLEAN, NEW told \in BOOLEAN,
         broken <=> /\ k \in e.keys
                    /\ IF e.op = "write" THEN ~e.agent /\ e.out \in {"allow", "redact"}
                       ELSE TRUE,
         told <=> e.op = "write" /\ k \in e.keys /\ e.agent
  PROVE  /\ \A w \in Run(k) : w \in DOMAIN log /\ log'[w] = log[w]
         /\ broken => Run(k)' = {}
         /\ ~broken /\ ~told => Run(k)' = Run(k)
         /\ told => Run(k)' = Run(k) \cup {Len(log) + 1}
<1>1. PICK n : n = Len(log)
  OBVIOUS
<1>2. PICK end : end = n + 1
  OBVIOUS
<1>3. /\ n \in Nat /\ DOMAIN log = 1 .. n /\ Len(log') = end /\ DOMAIN log' = 1 .. end
      /\ log'[end] = e /\ \A i \in 1 .. n : log'[i] = log[i]
  BY <1>1, <1>2, LogEntries
<1> DEFINE Told(i) == log[i].op = "write" /\ k \in log[i].keys /\ log[i].agent
<1>4. \A i : i \in Run(k) <=>
        i \in 1 .. n /\ Told(i) /\ \A j \in i .. n : ~Breaks(k, j)
  BY <1>1, <1>3 DEF Run, Writes
<1>5. \A i : i \in Run(k)' <=>
        i \in 1 .. end /\ Told(i)' /\ \A j \in i .. end : ~Breaks(k, j)'
  BY <1>3 DEF Run, Writes
<1>6. \A i \in 1 .. n : (Told(i)' <=> Told(i)) /\ (Breaks(k, i)' <=> Breaks(k, i))
  BY <1>3 DEF Breaks
<1>7. (Told(end)' <=> told) /\ (Breaks(k, end)' <=> broken)
  BY <1>3 DEF Breaks
<1> HIDE DEF Told
<1>8. ASSUME NEW i \in 1 .. n
      PROVE  i \in Run(k)' <=> i \in Run(k) /\ ~broken
  <2>1. \A j : j \in i .. end <=> j \in i .. n \/ j = end
    BY <1>2, <1>3
  <2>2. \A j \in i .. n : j \in 1 .. n
    BY <1>3
  <2>3. i \in 1 .. end
    BY <1>2, <1>3
  <2> QED
    BY <1>4, <1>5, <1>6, <1>7, <2>1, <2>2, <2>3
<1>9. end \in Run(k)' <=> told /\ ~broken
  <2>1. \A j : j \in end .. end <=> j = end
    BY <1>2, <1>3
  <2>2. end \in 1 .. end
    BY <1>2, <1>3
  <2> QED
    BY <1>5, <1>7, <2>1, <2>2
<1>10. Run(k) \subseteq 1 .. n /\ Run(k)' \subseteq 1 .. n \cup {end}
  BY <1>2, <1>3, <1>4, <1>5
<1>11. told => ~broken
  OBVIOUS
<1>12. broken => Run(k)' = {}
  BY <1>8, <1>9, <1>10
<1>13. ~broken => \A i \in 1 .. n : i \in Run(k)' <=> i \in Run(k)
  BY <1>8
<1>14. ~broken /\ ~told => Run(k)' = Run(k)
  BY <1>9, <1>10, <1>13
<1>15. told => Run(k)' = Run(k) \cup {end}
  BY <1>9, <1>10, <1>11, <1>13
<1> QED
  BY <1>1, <1>2, <1>3, <1>10, <1>12, <1>14, <1>15

\* The run of a key after a write: as it was, with the write if it is the agent's,
\* or none if the write ends it.
LEMMA RunAfterWrite ==
  ASSUME LogInv, NEW r \in WriteCalls, NEW out, WriteNoted(r, out), NEW k \in Keys
  PROVE  /\ \A w \in Run(k) : w \in DOMAIN log /\ log'[w] = log[w]
         /\ k # r.key => Run(k)' = Run(k)
         /\ k = r.key /\ FromAgent(r) => Run(k)' = Run(k) \cup {Len(log) + 1}
         /\ k = r.key /\ ~FromAgent(r) /\ out \in {"allow", "redact"} => Run(k)' = {}
         /\ k = r.key /\ ~FromAgent(r) /\ out \notin {"allow", "redact"} =>
               Run(k)' = Run(k)
<1>1. PICK e : e = WriteEntry(r, out)
  OBVIOUS
<1>2. /\ Len(log') = Len(log) + 1 /\ DOMAIN log' = 1 .. Len(log) + 1
      /\ log'[Len(log) + 1] = e /\ \A i \in DOMAIN log : log'[i] = log[i]
  BY <1>1, WriteLogged
<1> DEFINE broken == k = r.key /\ ~FromAgent(r) /\ out \in {"allow", "redact"}
           told == k = r.key /\ FromAgent(r)
<1>3. /\ broken \in BOOLEAN /\ told \in BOOLEAN
      /\ broken <=> /\ k \in e.keys
                    /\ IF e.op = "write" THEN ~e.agent /\ e.out \in {"allow", "redact"}
                       ELSE TRUE
      /\ told <=> e.op = "write" /\ k \in e.keys /\ e.agent
  BY <1>1 DEF WriteEntry
<1> HIDE DEF broken, told
<1>4. /\ \A w \in Run(k) : w \in DOMAIN log /\ log'[w] = log[w]
      /\ broken => Run(k)' = {}
      /\ ~broken /\ ~told => Run(k)' = Run(k)
      /\ told => Run(k)' = Run(k) \cup {Len(log) + 1}
  BY <1>2, <1>3, RunAfter
<1> QED
  BY <1>4 DEF broken, told

LEMMA RunAfterRemoval ==
  ASSUME LogInv, NEW op, NEW S \in SUBSET Keys, RemovalNoted(op, S), NEW k \in Keys
  PROVE  /\ \A w \in Run(k) : w \in DOMAIN log /\ log'[w] = log[w]
         /\ k \in S => Run(k)' = {}
         /\ k \notin S => Run(k)' = Run(k)
<1>1. PICK e : e = RemovalEntry(op, S)
  OBVIOUS
<1>2. /\ Len(log') = Len(log) + 1 /\ DOMAIN log' = 1 .. Len(log) + 1
      /\ log'[Len(log) + 1] = e /\ \A i \in DOMAIN log : log'[i] = log[i]
  BY <1>1, RemovalLogged
<1> DEFINE broken == k \in S
<1>3. /\ broken \in BOOLEAN
      /\ broken <=> /\ k \in e.keys
                    /\ IF e.op = "write" THEN ~e.agent /\ e.out \in {"allow", "redact"}
                       ELSE TRUE
      /\ FALSE <=> e.op = "write" /\ k \in e.keys /\ e.agent
  BY <1>1 DEF RemovalEntry, RemovalNoted
<1> HIDE DEF broken
<1>4. /\ \A w \in Run(k) : w \in DOMAIN log /\ log'[w] = log[w]
      /\ broken => Run(k)' = {}
      /\ ~broken /\ ~FALSE => Run(k)' = Run(k)
  BY <1>2, <1>3, RunAfter
<1> QED
  BY <1>4 DEF broken

\* A list that is not touched recalls a run that is not.
LEMMA RecallsStill ==
  ASSUME NEW k \in Keys, selfWrites'[k] = selfWrites[k], Run(k)' = Run(k),
         \A w \in Run(k) : log'[w] = log[w],
         \A w \in Run(k) : log[w].at < now - Cooldown => log[w].at < now' - Cooldown,
         \E f : RecallsRun(k, selfWrites[k], f)
  PROVE  \E f : RecallsRun(k, selfWrites[k], f)'
<1>1. PICK f : RecallsRun(k, selfWrites[k], f)
  OBVIOUS
<1>2. \A i \in 1 .. Len(selfWrites[k]) : f[i] \in Run(k)
  BY <1>1 DEF RecallsRun
<1>3. RecallsRun(k, selfWrites[k], f)'
  BY <1>1, <1>2 DEF RecallsRun
<1> QED
  BY <1>3

\* The agent's write is judged by the run behind it.
LEMMA SelfWriteExact ==
  ASSUME LogInv, HistoryLongEnough,
         NEW r \in WriteCalls, NEW out, WriteNoted(r, out), FromAgent(r),
         NEW n \in Nat, n = Len(RecentSelfWrites(selfWrites[r.key], now)),
         n <= HistorySize,
         DOMAIN RecentSelfWrites(selfWrites[r.key], now) = 1 .. n,
         NEW g, RecallsRun(r.key, RecentSelfWrites(selfWrites[r.key], now), g),
         \A i \in 1 .. n : log[g[i]].at >= now - Cooldown
  PROVE  Reported("self_reinforcement")' <=>
           /\ Cardinality(SelfRun(r.key)') >= MaxSelfWrites
           /\ \E i \in Latest(SelfRun(r.key))' :
                 log'[i].value \in Similar[log'[Len(log')].value]
<1> DEFINE k == r.key
           recent == RecentSelfWrites(selfWrites[k], now)
<1>1. PICK end : end = Len(log) + 1
  OBVIOUS
<1>2. /\ Len(log) \in Nat /\ DOMAIN log = 1 .. Len(log) /\ now' = now /\ k \in Keys
      /\ Len(log') = end /\ DOMAIN log' = 1 .. end /\ Len(log') - 1 = Len(log)
      /\ log'[end] = WriteEntry(r, out)
      /\ \A i \in DOMAIN log : log'[i] = log[i]
  BY <1>1, WriteLogged, WriteCallFields
<1>3. /\ \A w \in Run(k) : w \in DOMAIN log /\ log'[w] = log[w]
      /\ Run(k)' = Run(k) \cup {end}
  BY <1>1, <1>2, RunAfterWrite
<1>4. PICK R : R = { w \in Run(k) : log[w].at >= now - Cooldown }
  OBVIOUS
<1>5. SelfRun(k)' = R
  <2>1. \A w : w \in SelfRun(k)' <=>
          w \in Run(k)' /\ w \in 1 .. Len(log) /\ log'[w].at >= now - Cooldown
    BY <1>1, <1>2 DEF SelfRun, Run, Writes
  <2>2. \A w : w \in Run(k)' /\ w \in 1 .. Len(log) <=> w \in Run(k)
    BY <1>1, <1>2, <1>3
  <2>3. \A w : w \in SelfRun(k)' <=> w \in R
    BY <1>3, <1>4, <2>1, <2>2
  <2> QED
    BY <2>3
<1>6. /\ g \in [1 .. n -> R] /\ \A i, j \in 1 .. n : i < j => g[i] < g[j]
      /\ \A i \in 1 .. n : recent[i].text = log[g[i]].value
      /\ \A w \in R : \/ \E i \in 1 .. n : g[i] = w
                      \/ n = HistorySize /\ \A i \in 1 .. n : w < g[i]
  <2>1. /\ g \in [1 .. n -> Run(k)] /\ \A i, j \in 1 .. n : i < j => g[i] < g[j]
        /\ \A i \in 1 .. n : recent[i].text = log[g[i]].value
        /\ \A w \in Run(k) : \/ log[w].at < now - Cooldown
                             \/ \E i \in 1 .. n : g[i] = w
                             \/ n = HistorySize /\ \A i \in 1 .. n : w < g[i]
    BY RecallsParts
  <2>2. \A w \in R : w \in Run(k) /\ ~(log[w].at < now - Cooldown)
    <3>1. now - Cooldown \in Int /\ \A w \in Run(k) : log[w].at \in Nat
      BY <1>3, LogEntries, HistoryAssumption DEF LogInv
    <3> QED
      BY <1>4, <3>1
  <2> QED
    BY <1>4, <2>1, <2>2
<1>7. R \in SUBSET Nat /\ IsFiniteSet(R)
  <2>1. R \in SUBSET (1 .. Len(log)) /\ IsFiniteSet(1 .. Len(log))
    BY <1>2, <1>3, <1>4, FS_Interval
  <2> QED
    BY <1>2, <2>1, FS_Subset
<1>8. /\ Cardinality(R) \in Nat /\ n <= Cardinality(R)
      /\ Cardinality(R) = n \/ n = HistorySize
      /\ Latest(R) = { g[i] : i \in 1 .. n }
  BY <1>6, <1>7, LatestAre
<1>9. n >= MaxSelfWrites <=> Cardinality(R) >= MaxSelfWrites
  BY <1>8, HistoryAssumption DEF HistoryLongEnough
<1>10. (\E i \in 1 .. n : recent[i].text \in Similar[r.value]) <=>
         \E w \in Latest(R) : log'[w].value \in Similar[log'[Len(log')].value]
  <2>1. log'[Len(log')].value = r.value
    BY <1>2 DEF WriteEntry
  <2>2. \A i \in 1 .. n : recent[i].text = log'[g[i]].value
    BY <1>3, <1>4, <1>6
  <2> QED
    BY <1>8, <2>1, <2>2
<1>11. Latest(SelfRun(k))' = Latest(R)
  BY <1>5 DEF Latest
<1>12. Reported("self_reinforcement")' <=>
         n >= MaxSelfWrites /\ \E i \in 1 .. n : recent[i].text \in Similar[r.value]
  BY SelfReported
<1> QED
  BY <1>5, <1>9, <1>10, <1>11, <1>12

\* The list after the agent's write recalls the run that the write has joined.
LEMMA SelfWriteRecalled ==
  ASSUME LogInv, NEW r \in WriteCalls, NEW out, WriteNoted(r, out), FromAgent(r),
         NEW recent \in SelfWriteList,
         recent = RecentSelfWrites(selfWrites[r.key], now), Len(recent) <= HistorySize,
         selfWrites'[r.key] = SelfWritesAfter(selfWrites[r.key], r.value, now),
         NEW g, RecallsRun(r.key, recent, g)
  PROVE  /\ selfWrites'[r.key] \in SelfWriteList
         /\ Len(selfWrites'[r.key]) <= HistorySize
         /\ \E f : RecallsRun(r.key, selfWrites[r.key], f)'
<1> DEFINE k == r.key
           T == [at : Nat, text : Values]
           all == Append(recent, [at |-> now, text |-> r.value])
           list == selfWrites'[k]
<1>1. PICK end : end = Len(log) + 1
  OBVIOUS
<1>2. /\ Len(log) \in Nat /\ DOMAIN log = 1 .. Len(log) /\ now' = now /\ now \in Nat
      /\ k \in Keys /\ r.value \in Values /\ HistorySize \in Nat
      /\ log'[end].at = now /\ log'[end].value = r.value
  <2>1. log'[end] = WriteEntry(r, out)
    BY <1>1, WriteLogged
  <2>2. log'[end].at = now /\ log'[end].value = r.value
    BY <2>1 DEF WriteEntry
  <2>3. Len(log) \in Nat /\ DOMAIN log = 1 .. Len(log) /\ now' = now
    BY WriteLogged
  <2>4. now \in Nat /\ HistorySize \in Nat
    BY HistoryAssumption DEF LogInv
  <2> QED
    BY <2>2, <2>3, <2>4, WriteCallFields
<1>3. /\ \A w \in Run(k) : w \in 1 .. Len(log) /\ log'[w] = log[w]
      /\ Run(k)' = Run(k) \cup {end}
  BY <1>1, <1>2, RunAfterWrite
<1>4. PICK n : n = Len(recent)
  OBVIOUS
<1>5. PICK d : d = IF n = HistorySize THEN 1 ELSE 0
  OBVIOUS
<1>6. /\ n \in Nat /\ n <= HistorySize /\ recent \in Seq(T)
      /\ [at |-> now, text |-> r.value] \in T
  BY <1>2, <1>4 DEF SelfWriteList
<1>7. /\ all \in Seq(T) /\ Len(all) = n + 1
      /\ \A i \in 1 .. n : all[i] = recent[i]
      /\ all[n + 1].at = now /\ all[n + 1].text = r.value
  <2> HIDE DEF T
  <2>1. /\ all \in Seq(T) /\ Len(all) = n + 1
        /\ \A i \in 1 .. n : all[i] = recent[i]
        /\ all[n + 1] = [at |-> now, text |-> r.value]
    BY <1>4, <1>6
  <2>2. all[n + 1].at = now /\ all[n + 1].text = r.value
    <3> HIDE DEF all
    <3> QED
      BY <2>1
  <2> HIDE DEF all
  <2> QED
    BY <2>1, <2>2
<1>8. list = IF Len(all) > HistorySize THEN Tail(all) ELSE all
  BY DEF SelfWritesAfter
<1> HIDE DEF all, T
<1>9. /\ list \in Seq(T) /\ Len(list) = n + 1 - d /\ Len(list) <= HistorySize
      /\ d \in {0, 1}
      /\ \A i \in 1 .. n + 1 - d : list[i] = all[i + d]
  <2>1. CASE n = HistorySize
    <3>1. list = Tail(all) /\ d = 1
      BY <1>5, <1>6, <1>7, <1>8, <2>1
    <3> QED
      BY <1>6, <1>7, <2>1, <3>1
  <2>2. CASE n # HistorySize
    <3>1. list = all /\ d = 0
      BY <1>2, <1>5, <1>6, <1>7, <1>8, <2>2
    <3> QED
      BY <1>2, <1>6, <1>7, <2>2, <3>1
  <2> QED
    BY <2>1, <2>2
<1> DEFINE size == n + 1 - d
<1>10. /\ g \in [1 .. n -> Run(k)] /\ \A i, j \in 1 .. n : i < j => g[i] < g[j]
       /\ \A i \in 1 .. n :
             recent[i].at = log[g[i]].at /\ recent[i].text = log[g[i]].value
       /\ \A w \in Run(k) : \/ log[w].at < now - Cooldown
                            \/ \E i \in 1 .. n : g[i] = w
                            \/ n = HistorySize /\ \A i \in 1 .. n : w < g[i]
  BY <1>4, RecallsParts
<1>11. PICK f : f = [i \in 1 .. size |-> IF i + d <= n THEN g[i + d] ELSE end]
  OBVIOUS
<1>12. f \in [1 .. size -> Run(k)']
  <2> SUFFICES ASSUME NEW i \in 1 .. size
               PROVE  (IF i + d <= n THEN g[i + d] ELSE end) \in Run(k)'
    BY <1>11
  <2>1. CASE i + d <= n
    <3>1. i + d \in 1 .. n
      BY <1>6, <1>9, <2>1
    <3> QED
      BY <1>3, <1>10, <2>1, <3>1
  <2>2. CASE ~(i + d <= n)
    BY <1>3, <2>2
  <2> QED
    BY <2>1, <2>2
<1>13. \A i \in 1 .. size :
         /\ list[i].at = log'[f[i]].at /\ list[i].text = log'[f[i]].value
         /\ \A j \in 1 .. size : i < j => f[i] < f[j]
  <2> SUFFICES ASSUME NEW i \in 1 .. size
               PROVE  /\ list[i].at = log'[f[i]].at /\ list[i].text = log'[f[i]].value
                      /\ \A j \in 1 .. size : i < j => f[i] < f[j]
    OBVIOUS
  <2>1. CASE i + d <= n
    <3>1. i + d \in 1 .. n /\ f[i] = g[i + d] /\ list[i] = recent[i + d]
      BY <1>6, <1>7, <1>9, <1>11, <2>1
    <3>2. g[i + d] \in Run(k) /\ g[i + d] \in 1 .. Len(log)
      BY <1>3, <1>10, <3>1
    <3>3. list[i].at = log'[f[i]].at /\ list[i].text = log'[f[i]].value
      BY <1>3, <1>10, <3>1, <3>2
    <3>4. ASSUME NEW j \in 1 .. size, i < j
          PROVE  f[i] < f[j]
      <4>1. CASE j + d <= n
        <5>1. j + d \in 1 .. n /\ f[j] = g[j + d] /\ i + d < j + d
          BY <1>6, <1>9, <1>11, <3>4, <4>1
        <5> QED
          BY <1>10, <3>1, <5>1
      <4>2. CASE ~(j + d <= n)
        BY <1>1, <1>2, <1>11, <3>1, <3>2, <4>2
      <4> QED
        BY <4>1, <4>2
    <3> QED
      BY <3>3, <3>4
  <2>2. CASE ~(i + d <= n)
    <3>1. i = size /\ i + d = n + 1 /\ f[i] = end
      BY <1>6, <1>9, <1>11, <2>2
    <3>2. list[i] = all[n + 1]
      BY <1>9, <3>1
    <3> QED
      BY <1>2, <1>6, <1>7, <1>9, <3>1, <3>2
  <2> QED
    BY <2>1, <2>2
<1>14. ASSUME NEW w \in Run(k)'
       PROVE  \/ log'[w].at < now - Cooldown
              \/ \E i \in 1 .. size : f[i] = w
              \/ size = HistorySize /\ \A i \in 1 .. size : w < f[i]
  <2>1. CASE w = end
    <3>1. CASE size = 0
      <4>1. size = HistorySize /\ 1 .. size = {}
        BY <1>5, <1>6, <1>9, <3>1
      <4> QED
        BY <4>1
    <3>2. CASE size # 0
      <4>1. size \in 1 .. size /\ ~(size + d <= n)
        BY <1>6, <1>9, <3>2
      <4> QED
        BY <1>11, <2>1, <4>1
    <3> QED
      BY <3>1, <3>2
  <2>2. CASE w \in Run(k) /\ \E i \in 1 .. n : g[i] = w
    <3>1. PICK i \in 1 .. n : g[i] = w
      BY <2>2
    <3>2. CASE i > d
      <4>1. i - d \in 1 .. size /\ (i - d) + d = i /\ i <= n
        BY <1>6, <1>9, <3>2
      <4> QED
        BY <1>11, <3>1, <4>1
    <3>3. CASE ~(i > d)
      <4>1. i = 1 /\ d = 1 /\ n = HistorySize /\ size = n
        BY <1>5, <1>6, <1>9, <3>3
      <4>2. ASSUME NEW j \in 1 .. size
            PROVE  w < f[j]
        <5>1. CASE j + d <= n
          <6>1. j + d \in 1 .. n /\ f[j] = g[j + d] /\ i < j + d
            BY <1>6, <1>9, <1>11, <4>1, <5>1
          <6> QED
            BY <1>10, <3>1, <6>1
        <5>2. CASE ~(j + d <= n)
          BY <1>1, <1>2, <1>3, <1>11, <2>2, <5>2
        <5> QED
          BY <5>1, <5>2
      <4> QED
        BY <4>1, <4>2
    <3> QED
      BY <1>6, <1>9, <3>2, <3>3
  <2>3. CASE w \in Run(k) /\ n = HistorySize /\ \A i \in 1 .. n : w < g[i]
    <3>1. size = HistorySize
      BY <1>5, <1>6, <2>3
    <3>2. ASSUME NEW j \in 1 .. size
          PROVE  w < f[j]
      <4>1. CASE j + d <= n
        <5>1. j + d \in 1 .. n /\ f[j] = g[j + d]
          BY <1>6, <1>9, <1>11, <4>1
        <5> QED
          BY <2>3, <5>1
      <4>2. CASE ~(j + d <= n)
        BY <1>1, <1>2, <1>3, <1>11, <2>3, <4>2
      <4> QED
        BY <4>1, <4>2
    <3> QED
      BY <3>1, <3>2
  <2>4. CASE w \in Run(k) /\ log[w].at < now - Cooldown
    BY <1>3, <2>4
  <2> QED
    BY <1>3, <1>10, <1>14, <2>1, <2>2, <2>3, <2>4
<1>15. RecallsRun(k, selfWrites[k], f)'
  <2>1. /\ f \in [1 .. Len(list) -> Run(k)']
        /\ \A i, j \in 1 .. Len(list) : i < j => f[i] < f[j]
        /\ \A i \in 1 .. Len(list) :
              list[i].at = log'[f[i]].at /\ list[i].text = log'[f[i]].value
        /\ \A w \in Run(k)' :
              \/ log'[w].at < now' - Cooldown
              \/ \E i \in 1 .. Len(list) : f[i] = w
              \/ Len(list) = HistorySize /\ \A i \in 1 .. Len(list) : w < f[i]
    BY <1>2, <1>9, <1>12, <1>13, <1>14
  <2> QED
    BY <2>1 DEF RecallsRun
<1> QED
  BY <1>9, <1>15 DEF SelfWriteList, T

\* Under r.key: the write of the agent's, of another source stored, or refused.
LEMMA WriteSelf ==
  ASSUME LogInv, SelfInv, NEW r \in WriteCalls, NEW out, WriteNoted(r, out)
  PROVE  /\ selfWrites'[r.key] \in SelfWriteList
         /\ Len(selfWrites'[r.key]) <= HistorySize
         /\ \E f : RecallsRun(r.key, selfWrites[r.key], f)'
         /\ \A k \in Keys \ {r.key} : selfWrites'[k] = selfWrites[k]
         /\ DOMAIN selfWrites' = Keys
         /\ HistoryLongEnough => SelfLoopExact'
<1>1. r.key \in Keys /\ HistorySize \in Nat /\ now' = now
  BY WriteLogged, WriteCallFields, HistoryAssumption
<1>2. /\ selfWrites[r.key] \in SelfWriteList /\ Len(selfWrites[r.key]) <= HistorySize
      /\ \E f : RecallsRun(r.key, selfWrites[r.key], f)
      /\ DOMAIN selfWrites = Keys
  BY <1>1 DEF SelfInv
<1>3. NoteSelfWrite(r, out \in {"allow", "redact"})
  BY DEF WriteNoted, NoteWrite
<1>4. /\ \A k \in Keys \ {r.key} : selfWrites'[k] = selfWrites[k]
      /\ DOMAIN selfWrites' = Keys
  BY <1>1, <1>2, <1>3 DEF NoteSelfWrite
<1>5. /\ log'[Len(log')] = WriteEntry(r, out)
      /\ \A j \in Keys : ScreenedWrite(j)' => j = r.key
  BY WriteLogged, NotScreened
<1>6. CASE FromAgent(r)
  <2>1. selfWrites'[r.key] = SelfWritesAfter(selfWrites[r.key], r.value, now)
    BY <1>1, <1>2, <1>3, <1>6 DEF NoteSelfWrite
  <2>2. PICK recent : recent = RecentSelfWrites(selfWrites[r.key], now)
    OBVIOUS
  <2>3. PICK f : RecallsRun(r.key, selfWrites[r.key], f)
    BY <1>2
  <2>4. /\ recent \in SelfWriteList /\ Len(recent) <= HistorySize
        /\ \E g : /\ RecallsRun(r.key, recent, g)
                  /\ \A i \in 1 .. Len(recent) : log[g[i]].at >= now - Cooldown
    BY <1>1, <1>2, <2>2, <2>3, RecentIsRecalled
  <2>5. PICK g : /\ RecallsRun(r.key, recent, g)
                 /\ \A i \in 1 .. Len(recent) : log[g[i]].at >= now - Cooldown
    BY <2>4
  <2>6. /\ selfWrites'[r.key] \in SelfWriteList
        /\ Len(selfWrites'[r.key]) <= HistorySize
        /\ \E h : RecallsRun(r.key, selfWrites[r.key], h)'
    BY <1>6, <2>1, <2>2, <2>4, <2>5, SelfWriteRecalled
  <2>7. HistoryLongEnough => SelfLoopExact'
    <3> SUFFICES ASSUME HistoryLongEnough
                 PROVE  SelfLoopExact'
      OBVIOUS
    <3>1. PICK n : n = Len(recent)
      OBVIOUS
    <3>2. n \in Nat /\ DOMAIN recent = 1 .. n
      BY <2>4, <3>1 DEF SelfWriteList
    <3>3. Reported("self_reinforcement")' <=>
            /\ Cardinality(SelfRun(r.key)') >= MaxSelfWrites
            /\ \E i \in Latest(SelfRun(r.key))' :
                  log'[i].value \in Similar[log'[Len(log')].value]
      BY <1>6, <2>2, <2>4, <2>5, <3>1, <3>2, SelfWriteExact
    <3> QED
      BY <1>5, <3>3 DEF SelfLoopExact
  <2> QED
    BY <1>4, <2>6, <2>7
<1>7. CASE ~FromAgent(r)
  <2>1. ~log'[Len(log')].agent
    <3>1. WriteEntry(r, out).agent = FromAgent(r)
      BY DEF WriteEntry
    <3> QED
      BY <1>5, <1>7, <3>1
  <2>2. SelfLoopExact'
    BY <1>5, <2>1 DEF SelfLoopExact
  <2>3. CASE out \in {"allow", "redact"}
    <3>1. selfWrites'[r.key] = <<>> /\ Run(r.key)' = {}
      BY <1>1, <1>2, <1>3, <1>7, <2>3, RunAfterWrite DEF NoteSelfWrite
    <3>2. PICK f : f = [i \in 1 .. 0 |-> 0]
      OBVIOUS
    <3>3. 1 .. 0 = {} /\ Len(<<>>) = 0
      OBVIOUS
    <3>4. RecallsRun(r.key, selfWrites[r.key], f)'
      BY <3>1, <3>2, <3>3 DEF RecallsRun
    <3>5. <<>> \in SelfWriteList
      BY DEF SelfWriteList
    <3> QED
      BY <1>1, <1>4, <2>2, <3>1, <3>3, <3>4, <3>5
  <2>4. CASE out \notin {"allow", "redact"}
    <3>1. selfWrites'[r.key] = selfWrites[r.key]
      BY <1>1, <1>2, <1>3, <1>7, <2>4 DEF NoteSelfWrite
    <3>2. /\ Run(r.key)' = Run(r.key)
          /\ \A w \in Run(r.key) : log'[w] = log[w]
      BY <1>1, <1>7, <2>4, RunAfterWrite
    <3>3. \E f : RecallsRun(r.key, selfWrites[r.key], f)'
      BY <1>1, <1>2, <3>1, <3>2, RecallsStill
    <3> QED
      BY <1>2, <1>4, <2>2, <3>1, <3>3
  <2> QED
    BY <2>3, <2>4
<1> QED
  BY <1>6, <1>7

LEMMA StepSelf ==
  ASSUME LogInv, SelfInv, [HistoryNext]_allVars
  PROVE  SelfInv'
<1>1. ASSUME NEW r \in WriteCalls, NEW out, WriteNoted(r, out)
      PROVE  SelfInv'
  <2>1. ASSUME NEW k \in Keys
        PROVE  /\ selfWrites'[k] \in SelfWriteList
               /\ Len(selfWrites'[k]) <= HistorySize
               /\ \E f : RecallsRun(k, selfWrites[k], f)'
    <3>1. CASE k = r.key
      BY <1>1, <3>1, WriteSelf
    <3>2. CASE k # r.key
      <4>1. selfWrites'[k] = selfWrites[k] /\ now' = now
        BY <1>1, <3>2, WriteSelf, WriteLogged
      <4>2. Run(k)' = Run(k) /\ \A w \in Run(k) : log'[w] = log[w]
        BY <1>1, <3>2, RunAfterWrite
      <4>3. \E f : RecallsRun(k, selfWrites[k], f)
        BY DEF SelfInv
      <4>4. \E f : RecallsRun(k, selfWrites[k], f)'
        BY <4>1, <4>2, <4>3, RecallsStill
      <4> QED
        BY <4>1, <4>4 DEF SelfInv
    <3> QED
      BY <3>1, <3>2
  <2>2. HistoryLongEnough => SelfLoopExact'
    BY <1>1, WriteSelf
  <2>3. selfWrites' \in [Keys -> SelfWriteList]
    <3>1. DOMAIN selfWrites' = Keys
      BY <1>1, WriteSelf
    <3>2. NoteSelfWrite(r, out \in {"allow", "redact"})
      BY <1>1 DEF WriteNoted, NoteWrite
    <3> QED
      BY <2>1, <3>1, <3>2 DEF NoteSelfWrite, SelfInv
  <2> QED
    BY <2>1, <2>2, <2>3 DEF SelfInv
<1>2. ASSUME NEW op, NEW S \in SUBSET Keys, RemovalNoted(op, S)
      PROVE  SelfInv'
  <2>1. /\ selfWrites' = [k \in Keys |-> IF k \in S THEN <<>> ELSE selfWrites[k]]
        /\ now' = now
    BY <1>2 DEF RemovalNoted, Forget
  <2>2. /\ <<>> \in SelfWriteList /\ Len(<<>>) = 0 /\ 1 .. 0 = {}
        /\ HistorySize \in Nat
    BY HistoryAssumption DEF SelfWriteList
  <2>3. ASSUME NEW k \in Keys
        PROVE  /\ selfWrites'[k] \in SelfWriteList
               /\ Len(selfWrites'[k]) <= HistorySize
               /\ \E f : RecallsRun(k, selfWrites[k], f)'
    <3>1. CASE k \in S
      <4>1. selfWrites'[k] = <<>> /\ Run(k)' = {}
        BY <1>2, <2>1, <3>1, RunAfterRemoval
      <4>2. PICK f : f = [i \in 1 .. 0 |-> 0]
        OBVIOUS
      <4>3. RecallsRun(k, selfWrites[k], f)'
        BY <2>2, <4>1, <4>2 DEF RecallsRun
      <4> QED
        BY <2>2, <4>1, <4>3
    <3>2. CASE k \notin S
      <4>1. selfWrites'[k] = selfWrites[k]
        BY <2>1, <3>2
      <4>2. Run(k)' = Run(k) /\ \A w \in Run(k) : log'[w] = log[w]
        BY <1>2, <3>2, RunAfterRemoval
      <4>3. \E f : RecallsRun(k, selfWrites[k], f)
        BY DEF SelfInv
      <4>4. \E f : RecallsRun(k, selfWrites[k], f)'
        BY <2>1, <4>1, <4>2, <4>3, RecallsStill
      <4> QED
        BY <4>1, <4>4 DEF SelfInv
    <3> QED
      BY <3>1, <3>2
  <2>4. SelfLoopExact'
    BY <1>2, NotScreened DEF SelfLoopExact
  <2> QED
    BY <2>1, <2>3, <2>4 DEF SelfInv
<1>3. ASSUME UNCHANGED <<selfWrites, log>>, now' = now \/ now' = now + 1,
             HistoryLongEnough => SelfLoopExact'
      PROVE  SelfInv'
  <2>1. ASSUME NEW k \in Keys
        PROVE  \E f : RecallsRun(k, selfWrites[k], f)'
    <3>1. Run(k)' = Run(k) /\ selfWrites'[k] = selfWrites[k]
      BY <1>3 DEF Run, Writes, Breaks
    <3>2. \A w \in Run(k) : log'[w] = log[w] /\ log[w].at \in Nat
      BY <1>3, LogEntries DEF Run, Writes
    <3>3. \A w \in Run(k) : log[w].at < now - Cooldown => log[w].at < now' - Cooldown
      BY <1>3, <3>2, HistoryAssumption DEF LogInv
    <3>4. \E f : RecallsRun(k, selfWrites[k], f)
      BY DEF SelfInv
    <3> QED
      BY <3>1, <3>2, <3>3, <3>4, RecallsStill
  <2> QED
    BY <1>3, <2>1 DEF SelfInv
<1>4. CASE NothingNoted
  BY <1>3, <1>4, NotScreened DEF NothingNoted, SelfLoopExact
<1>5. CASE Tick
  BY <1>3, <1>5, NotScreened DEF Tick, SelfLoopExact
<1>6. CASE UNCHANGED allVars
  <2>1. UNCHANGED <<now, selfWrites, log, reported, last>>
    BY <1>6 DEF allVars, historyVars, vars
  <2>2. HistoryLongEnough => SelfLoopExact'
    <3>1. ASSUME NEW k \in Keys
          PROVE  /\ SelfRun(k)' = SelfRun(k)
                 /\ ScreenedWrite(k)' <=> ScreenedWrite(k)
      BY <2>1 DEF SelfRun, Writes, Breaks, ScreenedWrite
    <3>2. ASSUME NEW k \in Keys
          PROVE  Latest(SelfRun(k))' = Latest(SelfRun(k))
      BY <3>1 DEF Latest
    <3> QED
      BY <2>1, <3>1, <3>2 DEF SelfInv, SelfLoopExact, Reported
  <2> QED
    BY <1>3, <2>1, <2>2
<1> QED
  BY <1>1, <1>2, <1>4, <1>5, <1>6, HistoryMoves

-----------------------------------------------------------------------------
(* What the histories tell, for every call and every tick of the clock *)

HistoryInv == LogInv /\ RapidInv /\ SizeInv /\ SelfInv

LEMMA InitHistory == HistoryInit => HistoryInv
<1> SUFFICES ASSUME HistoryInit PROVE HistoryInv
  OBVIOUS
<1>1. /\ now = 0 /\ log = <<>> /\ Len(log) = 0 /\ DOMAIN log = {}
      /\ lastSize = [k \in Keys |-> 0] /\ writeTimes = [k \in Keys |-> <<>>]
      /\ selfWrites = [k \in Keys |-> <<>>]
  BY DEF HistoryInit
<1>2. 1 .. 0 = {} /\ Len(<<>>) = 0
  OBVIOUS
<1>3. LogInv
  BY <1>1 DEF LogInv
<1>4. \A k : ~ScreenedWrite(k)
  BY <1>1 DEF ScreenedWrite
<1>5. PICK f : f = [i \in 1 .. 0 |-> 0]
  OBVIOUS
<1>6. RapidInv
  <2>1. ASSUME NEW k \in Keys
        PROVE  Recalls(k, f)
    BY <1>1, <1>2, <1>5 DEF Recalls, Writes
  <2> QED
    BY <1>1, <1>4, <2>1 DEF RapidInv, RapidChangeExact
<1>7. SizeInv
  <2>1. TypeOK
    BY InitType DEF HistoryInit
  <2>2. ASSUME NEW k \in Keys
        PROVE  /\ store[k] = NoValue \/ store[k] \in Met(k)
               /\ DOMAIN snapshots = {}
               /\ Writes(k, DOMAIN log) = {}
    BY <1>1 DEF HistoryInit, Init, Met, Writes
  <2> QED
    BY <1>1, <1>4, <2>1, <2>2 DEF SizeInv, JumpIsReported
<1>8. SelfInv
  <2>1. ASSUME NEW k \in Keys
        PROVE  RecallsRun(k, selfWrites[k], f)
    <3>1. Run(k) = {} /\ selfWrites[k] = <<>>
      BY <1>1 DEF Run, Writes
    <3> QED
      BY <1>2, <1>5, <3>1 DEF RecallsRun
  <2>2. selfWrites \in [Keys -> SelfWriteList]
    BY <1>1 DEF SelfWriteList
  <2>3. \A k \in Keys : Len(selfWrites[k]) <= HistorySize
    BY <1>1, <1>2, HistoryAssumption
  <2> QED
    BY <1>4, <2>1, <2>2, <2>3 DEF SelfInv, SelfLoopExact
<1> QED
  BY <1>3, <1>6, <1>7, <1>8 DEF HistoryInv

\* The histories always recall what counts of the log: the times within the window,
\* a size that was met, the run of the agent's writes as far as it can be held.
THEOREM HistoryRecalled == HistorySpec => []HistoryInv
<1>1. HistoryInit => HistoryInv
  BY InitHistory
<1>2. HistoryInv /\ [HistoryNext]_allVars => HistoryInv'
  BY StepLog, StepRapid, StepSize, StepSelf DEF HistoryInv
<1> QED
  BY <1>1, <1>2, PTL DEF HistorySpec

\* The detectors of anomaly.py are exact, whatever the windows, limits and policy,
\* whoever writes and whatever is refused, removed or rolled back in between:
\* RapidChangeDetector reports just the writes beyond max_writes in the window, and
\* SizeAnomalyDetector lets no first jump pass.
THEOREM AnomaliesTold == HistorySpec => []AnomaliesExact
<1>1. HistoryInv => AnomaliesExact
  BY DEF HistoryInv, RapidInv, SizeInv, AnomaliesExact
<1> QED
  BY <1>1, HistoryRecalled, PTL

\* SelfReinforcementDetector is exact, if its history holds as many writes as it
\* takes to report: a loop is reported from its max_self_writes-th repetition on,
\* and only stored evidence from elsewhere, or a removal, breaks it.
THEOREM LoopsTold ==
  ASSUME HistoryLongEnough
  PROVE  HistorySpec => []SelfLoopExact
<1>1. HistoryInv => SelfLoopExact
  BY DEF HistoryInv, SelfInv
<1> QED
  BY <1>1, HistoryRecalled, PTL

=============================================================================
