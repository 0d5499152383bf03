---------------------------- MODULE GuardHistory ----------------------------
(***************************************************************************)
(* MemoryGuard with the detectors that keep a history, on a clock: what    *)
(* they report is now computed, not chosen, and the calls of MemoryGuard   *)
(* carry what they do to the histories.  It implements MemoryGuard.        *)
(***************************************************************************)
EXTENDS MemoryGuard, HistoryDetectors

CONSTANTS MaxTime, MaxCalls     \* bounds on the clock and on the log

ASSUME AnomaliesAssumption ==
    { Found(d, SevMedium) :
        d \in {"size_anomaly", "rapid_change", "self_reinforcement"} }
    \subseteq Anomalies

ASSUME SizesAssumption == Size \in [Values -> Nat]

VARIABLES
    now,          \* time.monotonic()
    lastSize,     \* SizeAnomalyDetector._last_size
    writeTimes,   \* RapidChangeDetector._writes
    selfWrites,   \* SelfReinforcementDetector._by_key
    \* History, which no action reads but for the bound:
    reported,     \* what these detectors reported on the last call
    log           \* the calls that screened a write or removed keys

historyVars == <<now, lastSize, writeTimes, selfWrites>>
allVars == <<vars, historyVars, reported, log>>

Logged(op, keys, value, agent, out) ==
    log' = Append(log, [op |-> op, keys |-> keys, value |-> value,
                        agent |-> agent, out |-> out, at |-> now])

-----------------------------------------------------------------------------

FromAgent(r) == r.source = "agent_authored"

WriteReport(r) ==
    SizeFindings(lastSize[r.key], Size[r.value])
        \cup RapidFindings(writeTimes[r.key], now)
        \cup IF FromAgent(r) THEN SelfFindings(selfWrites[r.key], r.value, now)
             ELSE {}

\* Mutant: any independent write breaks a loop, stored or not.
NoteSelfWriteEarly(r, stored) ==
    selfWrites' = [selfWrites EXCEPT ![r.key] =
        IF FromAgent(r) THEN SelfWritesAfter(@, r.value, now) ELSE <<>>]

\* inspect() notes the agent's own writes, note_independent_write() the end of
\* a write from elsewhere that was stored.
NoteSelfWrite(r, stored) ==
    selfWrites' = [selfWrites EXCEPT ![r.key] =
        IF FromAgent(r) THEN SelfWritesAfter(@, r.value, now)
        ELSE IF stored THEN <<>> ELSE @]

\* Every write that is screened is counted, stored or refused.
NoteWrite(r, stored) ==
    /\ lastSize' = [lastSize EXCEPT ![r.key] = Size[r.value]]
    /\ writeTimes' = [writeTimes EXCEPT ![r.key] = WritesAfter(@, now)]
    /\ NoteSelfWrite(r, stored)
    /\ reported' = WriteReport(r)
    /\ Logged("write", {r.key}, r.value, FromAgent(r), last'.out)
    /\ UNCHANGED now

HWriteReclassifying(r) ==
    /\ WriteReclassifying(r)
    /\ reported' = {}
    /\ UNCHANGED <<historyVars, log>>

HWriteRefused(r) ==
    /\ \/ WriteBlocked(r, WriteReport(r))
       \/ WriteCyclic(r, WriteReport(r))
       \/ WriteLaundered(r, WriteReport(r))
       \/ WriteQuarantined(r, WriteReport(r))
    /\ NoteWrite(r, FALSE)

HWriteCommitted(r) ==
    /\ WriteCommitted(r, WriteReport(r))
    /\ NoteWrite(r, TRUE)

HWrite(r) == HWriteReclassifying(r) \/ HWriteRefused(r) \/ HWriteCommitted(r)

\* Mutant: the rate is checked on every operation.
ReadReportWithRate(k) ==
    SizeFindings(lastSize[k], Size[store[k]]) \cup RapidFindings(writeTimes[k], now)

ReadReport(k) == SizeFindings(lastSize[k], Size[store[k]])

\* A read that screens the value is measured too.
HReadScreened(k) ==
    /\ Stored(k)
    /\ ReadScreened(k, ReadReport(k))
    /\ lastSize' = [lastSize EXCEPT ![k] = Size[store[k]]]
    /\ reported' = ReadReport(k)
    /\ UNCHANGED <<now, writeTimes, selfWrites, log>>

HReadUnscreened(k) ==
    /\ ReadMissing(k) \/ ReadDrifted(k)
    /\ reported' = {}
    /\ UNCHANGED <<historyVars, log>>

HRead(k) == HReadScreened(k) \/ HReadUnscreened(k)

\* Mutant: a removed key's size is forgotten with it.
ForgetSizesToo(op, S) ==
    /\ selfWrites' = [k \in Keys |-> IF k \in S THEN <<>> ELSE selfWrites[k]]
    /\ lastSize' = [k \in Keys |-> IF k \in S THEN 0 ELSE lastSize[k]]
    /\ Logged(op, S, NoValue, FALSE, "removed")
    /\ reported' = {}
    /\ UNCHANGED <<now, writeTimes>>

\* delete and retire_if reset the self-reinforcement history of what they
\* remove; sizes and write times outlive the key.
Forget(op, S) ==
    /\ selfWrites' = [k \in Keys |-> IF k \in S THEN <<>> ELSE selfWrites[k]]
    /\ Logged(op, S, NoValue, FALSE, "removed")
    /\ reported' = {}
    /\ UNCHANGED <<now, lastSize, writeTimes>>

HDelete(k) == DeleteEntry(k) /\ Forget("delete", {k})

HRetire(chosen) ==
    Retire(chosen) /\ Forget("retire", { k \in chosen \ ProtectedKeys : Stored(k) })

\* The other calls do not reach these detectors.
HOther ==
    /\ \/ \E k \in Keys : DeleteProtected(k)
       \/ \E p \in PromoteCalls : Promote(p)
       \/ \E c \in BaselineCalls : Baseline(c[1], c[2])
       \/ \E l \in Labels : TakeSnapshot(l)
       \/ Rollback
       \/ \E c \in AuthorizeCalls : Authorize(c)
       \/ \E t \in Tasks \cup {NoTask} : SetCurrentTask(t)
       \/ \E c \in Tampers : Tamper(c[1], c[2])
    /\ reported' = {}
    /\ UNCHANGED <<historyVars, log>>

Tick ==
    /\ now < MaxTime
    /\ now' = now + 1
    /\ UNCHANGED <<vars, lastSize, writeTimes, selfWrites, reported, log>>

-----------------------------------------------------------------------------

HistoryInit ==
    /\ Init
    /\ now = 0
    /\ lastSize = [k \in Keys |-> 0]
    /\ writeTimes = [k \in Keys |-> <<>>]
    /\ selfWrites = [k \in Keys |-> <<>>]
    /\ reported = {}
    /\ log = <<>>

HistoryNext ==
    \/ /\ Len(log) < MaxCalls
       /\ \/ \E r \in WriteCalls : HWrite(r)
          \/ \E k \in Keys : HDelete(k)
          \/ \E chosen \in RetireCalls : HRetire(chosen)
    \/ \E k \in Keys : HRead(k)
    \/ HOther
    \/ Tick

HistorySpec == HistoryInit /\ [][HistoryNext]_allVars

=============================================================================
