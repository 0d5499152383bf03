---------------------------- MODULE MemoryGuard ----------------------------
(***************************************************************************)
(* The facade of guard.py: one action per outcome of each public call, a   *)
(* call being atomic (the library is synchronous and starts no thread).    *)
(*                                                                         *)
(* The detectors that only look at the value are the constant Content; the *)
(* ones that keep a history (sizes, write times, agent-authored writes)    *)
(* may report any of their findings on any call: Anomalies.  Values are    *)
(* immutable here, so a deep copy is a copy, and the SHA-256 of a value's  *)
(* canonical JSON is the value itself.                                     *)
(*                                                                         *)
(* Keys may be in the store before the guard is built, and whoever owns    *)
(* the store may change it without the guard: Tamper.                      *)
(***************************************************************************)
EXTENDS Policy, Authority

CONSTANTS
    Values, NoValue,      \* stored values; what a missing key has
    Tasks, NoTask,        \* task ids; None
    NoKey,                \* the key of a call that takes none
    Content,              \* value -> findings of the content detectors
    Redacted,             \* value -> what SensitiveDataDetector.redact returns
    Anomalies,            \* findings of the detectors that keep a history
    ProtectedByPolicy,    \* keys matched by a policy.protected_keys pattern
    ImmutableExact,       \* keys listed literally in policy.immutable_keys
    ImmutableGlob,        \* keys matched by an immutable_keys entry as a glob
    MaxSnapshots,         \* SnapshotStore's max_snapshots
    SnapshotOnBlock,      \* the snapshot_on_block option
    \* The calls the environment makes:
    InitialStores,        \* contents of the store when the guard is built
    WriteCalls, PromoteCalls, BaselineCalls, RetireCalls, AuthorizeCalls,
    Labels,               \* labels given to snapshot()
    Tampers               \* <<key, value>> pairs set in the store from outside

Entry == Values \cup {NoValue}

WriteCall ==
    [key : Keys, value : Values, source : SourceClass, receipt : BOOLEAN,
     cls : MemoryClass \cup {NoClass}, task : Tasks \cup {NoTask},
     parents : Seq(Keys), verified : BOOLEAN]

PromoteCall == [key : Keys, target : MemoryClass, verified : BOOLEAN]

\* An argument of authorize(): a memory key, or an inline trust, or neither.
ArgSource == [key : Keys \cup {NoKey}, trust : TrustLevel \cup {NoTrust}]

ASSUME ValuesAssumption ==
    /\ NoValue \notin Values
    /\ NoTask \notin Tasks
    /\ NoKey \notin Keys
    /\ Content \in [Values -> SUBSET Finding]
    /\ Redacted \in [Values -> Values]
    /\ Anomalies \subseteq Finding

ASSUME PolicyAssumption ==
    /\ ProtectedByPolicy \subseteq Keys
    /\ ImmutableGlob \subseteq Keys
    /\ ImmutableExact \subseteq ImmutableGlob
    /\ MaxSnapshots \in Nat \ {0}
    /\ SnapshotOnBlock \in BOOLEAN

ASSUME CallsAssumption ==
    /\ InitialStores \subseteq [Keys -> Entry]
    /\ WriteCalls \subseteq WriteCall
    /\ PromoteCalls \subseteq PromoteCall
    /\ BaselineCalls \subseteq Keys \X Entry
    /\ RetireCalls \subseteq SUBSET Keys
    /\ Tampers \subseteq Keys \X Entry
    /\ \A c \in AuthorizeCalls :
          /\ c.on_violation \in Action
          /\ \A n \in DOMAIN c.arguments : c.arguments[n] \in ArgRule
          /\ \A n \in DOMAIN c.args : c.args[n] \in ArgSource

VARIABLES
    store,        \* the guarded MemoryStore
    quarantine,   \* _quarantine: values held back
    baselines,    \* IntegrityRegistry
    class,        \* ClassificationRegistry: class of a key ...
    originTask,   \* ... and the task that wrote it
    currentTask,  \* _current_task, which the cross-task detector shares
    edges, trust, \* LineageGraph
    snapshots,    \* SnapshotStore, oldest first
    last,         \* the last call and its answer: what a read returned, or
                  \* whether a promotion was a verified one
    \* History, which no action reads (snapshots also carry the trust and the
    \* classes of their moment):
    author,       \* the latest committed write of a key
    outside       \* values a key was given without the guard

guardVars == <<store, quarantine, baselines, class, originTask, currentTask,
               edges, trust, snapshots>>
vars == <<guardVars, last, author, outside>>

Stored(k) == store[k] # NoValue

Answer(op, key, out, value) ==
    last' = [op |-> op, key |-> key, out |-> out, value |-> value]

\* The author of a value that was in the store before any guarded write.
Nobody == [source |-> "nobody", receipt |-> FALSE, trust |-> UNTRUSTED,
           task |-> NoTask, derived |-> FALSE]

-----------------------------------------------------------------------------
(* Screening *)

\* Mutant: immutable keys may be rewritten and deleted.
ProtectedByPolicyOnly == ProtectedByPolicy

ProtectedKeys == ProtectedByPolicy \cup ImmutableGlob   \* merge_protected_keys

ProtectedFinding(op, k) ==
    IF op = "write" /\ k \in ProtectedKeys
    THEN {Found("protected_key", SevCritical)} ELSE {}

CrossTaskFinding(op, k) ==
    IF /\ op = "read"
       /\ class[k] \in DURABLE_CLASSES
       /\ originTask[k] # NoTask
       /\ currentTask # NoTask
       /\ originTask[k] # currentTask
    THEN {Found("cross_task_contamination", SevHigh)} ELSE {}

\* What the detectors with a history may report: sizes are screened on every
\* operation, write frequency on writes, repetition on the agent's own writes.
PossibleAnomalies(op, source) ==
    { f \in Anomalies :
        \/ f.detector = "size_anomaly"
        \/ f.detector = "rapid_change" /\ op = "write"
        \/ f.detector = "self_reinforcement" /\ op = "write"
              /\ source = "agent_authored" }

\* _run_detectors, given the anomalies that happen to be reported.
Findings(op, k, v, anomalies) ==
    Content[v] \cup ProtectedFinding(op, k) \cup CrossTaskFinding(op, k)
        \cup anomalies

-----------------------------------------------------------------------------
(* Snapshots: SnapshotStore.capture evicts the oldest beyond MaxSnapshots. *)

Snapshot(label) ==
    [label |-> label, data |-> store, trust |-> trust, class |-> class]

\* Mutant: the ring is checked before the new snapshot is added.
CapturedLate(label) ==
    Append(IF Len(snapshots) > MaxSnapshots THEN Tail(snapshots) ELSE snapshots,
           Snapshot(label))

\* Mutant: a full ring drops the newest.
CapturedIfRoom(label) ==
    IF Len(snapshots) < MaxSnapshots THEN Append(snapshots, Snapshot(label))
    ELSE snapshots

Captured(label) ==
    LET all == Append(snapshots, Snapshot(label))
    IN  IF Len(all) > MaxSnapshots THEN Tail(all) ELSE all

-----------------------------------------------------------------------------
(* write: the actions of a screened write, each with its answer first *)

TargetClass(r) == IF r.cls # NoClass THEN r.cls ELSE class[r.key]

\* Mutant: a write may move a key to any class.
ReclassifiesFreely(r) == FALSE

Reclassifies(r) == class[r.key] \notin {NoClass, TargetClass(r)}

WriteDecision(r, anomalies) ==
    Decision(Findings("write", r.key, r.value, anomalies), r.key)

\* Mutant: no receipt is asked for.
ClaimedUnattested(r) == BaseTrust(r.source, TargetClass(r))

\* A system write keeps HIGH only with a valid receipt.
ClaimedTrust(r) ==
    LET base == BaseTrust(r.source, TargetClass(r))
    IN  IF r.source = "system" /\ base >= HIGH /\ ~r.receipt THEN MEDIUM ELSE base

NewEdges(r) == Record(edges, r.key, r.parents)

\* Mutant: assess before record, on the parents of earlier writes.
EntryTrustBeforeRecord(r) ==
    IF r.parents = <<>> THEN ClaimedTrust(r)
    ELSE Assess(edges, trust, r.key, ClaimedTrust(r), r.verified)

EntryTrust(r) ==
    IF r.parents = <<>> THEN ClaimedTrust(r)
    ELSE Assess(NewEdges(r), trust, r.key, ClaimedTrust(r), r.verified)

Laundered(r) == EntryTrust(r) < ClaimedTrust(r)

\* write() reaches the lineage rule: no reclassification, nothing blocks.
Accepted(r, anomalies) ==
    ~Reclassifies(r) /\ WriteDecision(r, anomalies) # "block"

WriteReclassifying(r) ==
    /\ Reclassifies(r)
    /\ Answer("write", r.key, "class_error", NoValue)
    /\ UNCHANGED <<guardVars, author, outside>>

WriteBlocked(r, anomalies) ==
    /\ Answer("write", r.key, "block", NoValue)
    /\ ~Reclassifies(r)
    /\ WriteDecision(r, anomalies) = "block"
    /\ snapshots' = IF SnapshotOnBlock THEN Captured("pre-block") ELSE snapshots
    /\ UNCHANGED <<store, quarantine, baselines, class, originTask, currentTask,
                   edges, trust, author, outside>>

\* record() raises ValueError; the parents before the offending one stay.
WriteCyclic(r, anomalies) ==
    /\ Answer("write", r.key, "lineage_error", NoValue)
    /\ Accepted(r, anomalies)
    /\ RecordRaises(edges, r.key, r.parents)
    /\ edges' = NewEdges(r)
    /\ UNCHANGED <<store, quarantine, baselines, class, originTask, currentTask,
                   trust, snapshots, author, outside>>

\* The value is held back, yet the key gets the capped trust.
WriteLaundered(r, anomalies) ==
    /\ Answer("write", r.key, "quarantine", NoValue)
    /\ Accepted(r, anomalies)
    /\ ~RecordRaises(edges, r.key, r.parents)
    /\ Laundered(r)
    /\ edges' = NewEdges(r)
    /\ quarantine' = [quarantine EXCEPT ![r.key] = r.value]
    /\ trust' = [trust EXCEPT ![r.key] = EntryTrust(r)]
    /\ UNCHANGED <<store, baselines, class, originTask, currentTask, snapshots,
                   author, outside>>

WriteQuarantined(r, anomalies) ==
    /\ Answer("write", r.key, "quarantine", NoValue)
    /\ Accepted(r, anomalies)
    /\ ~RecordRaises(edges, r.key, r.parents)
    /\ ~Laundered(r)
    /\ WriteDecision(r, anomalies) = "quarantine"
    /\ edges' = NewEdges(r)
    /\ quarantine' = [quarantine EXCEPT ![r.key] = r.value]
    /\ UNCHANGED <<store, baselines, class, originTask, currentTask, trust,
                   snapshots, author, outside>>

\* The origin task of a committed write that has a class.
OriginOf(r) ==
    IF r.task # NoTask THEN r.task
    ELSE IF originTask[r.key] # NoTask THEN originTask[r.key] ELSE currentTask

\* Mutant: the original is stored, not its redaction.
CommittedRaw(r, anomalies) == r.value

Committed(r, anomalies) ==
    IF WriteDecision(r, anomalies) = "redact" THEN Redacted[r.value] ELSE r.value

WriteCommitted(r, anomalies) ==
    /\ Answer("write", r.key, WriteDecision(r, anomalies), NoValue)
    /\ Accepted(r, anomalies)
    /\ ~RecordRaises(edges, r.key, r.parents)
    /\ ~Laundered(r)
    /\ WriteDecision(r, anomalies) \in {"allow", "redact"}
    /\ edges' = NewEdges(r)
    /\ store' = [store EXCEPT ![r.key] = Committed(r, anomalies)]
    /\ trust' = [trust EXCEPT ![r.key] = EntryTrust(r)]
    /\ class' = [class EXCEPT ![r.key] = TargetClass(r)]
    /\ originTask' = IF TargetClass(r) = NoClass THEN originTask
                     ELSE [originTask EXCEPT ![r.key] = OriginOf(r)]
    /\ baselines' =
         IF r.key \in ImmutableExact /\ baselines[r.key] = NoValue
         THEN [baselines EXCEPT ![r.key] = Committed(r, anomalies)] ELSE baselines
    /\ author' = [author EXCEPT ![r.key] =
         [source |-> r.source, receipt |-> r.receipt, trust |-> EntryTrust(r),
          task |-> currentTask, derived |-> r.parents # <<>> /\ ~r.verified]]
    /\ UNCHANGED <<quarantine, currentTask, snapshots, outside>>

Write(r) ==
    \/ WriteReclassifying(r)
    \/ \E anomalies \in SUBSET PossibleAnomalies("write", r.source) :
        \/ WriteBlocked(r, anomalies)
        \/ WriteCyclic(r, anomalies)
        \/ WriteLaundered(r, anomalies)
        \/ WriteQuarantined(r, anomalies)
        \/ WriteCommitted(r, anomalies)

-----------------------------------------------------------------------------
(* read: changes nothing in the guard; quarantine is not consulted, and a   *)
(* decision to quarantine lets the value through.                           *)

\* Mutant: read does not verify.
DriftUnchecked(k) == FALSE

Drifted(k) == Stored(k) /\ baselines[k] \notin {NoValue, store[k]}

ReadMissing(k) ==
    /\ ~Stored(k)
    /\ Answer("read", k, "default", NoValue)
    /\ UNCHANGED <<guardVars, author, outside>>

ReadDrifted(k) ==
    /\ Drifted(k)
    /\ Answer("read", k, "integrity_error", NoValue)
    /\ UNCHANGED <<guardVars, author, outside>>

ReadScreened(k, anomalies) ==
    LET decision == Decision(Findings("read", k, store[k], anomalies), k)
    IN  /\ Stored(k)
        /\ ~Drifted(k)
        /\ IF decision = "block"
           THEN Answer("read", k, "block", NoValue)
           ELSE Answer("read", k, "returned",
                       IF decision = "redact" THEN Redacted[store[k]] ELSE store[k])
        /\ UNCHANGED <<guardVars, author, outside>>

Read(k) ==
    \/ ReadMissing(k)
    \/ ReadDrifted(k)
    \/ \E anomalies \in SUBSET PossibleAnomalies("read", "unknown") :
        ReadScreened(k, anomalies)

-----------------------------------------------------------------------------
(* delete and retire_if drop the value, the baseline and the class of a key *)
(* but neither its trust and edges nor what is quarantined under it.        *)

Drop(S) ==
    /\ store' = [k \in Keys |-> IF k \in S THEN NoValue ELSE store[k]]
    /\ baselines' = [k \in Keys |-> IF k \in S THEN NoValue ELSE baselines[k]]
    /\ class' = [k \in Keys |-> IF k \in S THEN NoClass ELSE class[k]]
    /\ originTask' = [k \in Keys |-> IF k \in S THEN NoTask ELSE originTask[k]]

DeleteProtected(k) ==
    /\ k \in ProtectedKeys
    /\ Answer("delete", k, "block", NoValue)
    /\ UNCHANGED <<guardVars, author, outside>>

DeleteEntry(k) ==
    /\ k \notin ProtectedKeys
    /\ Drop({k})
    /\ Answer("delete", k, "deleted", NoValue)
    /\ UNCHANGED <<quarantine, currentTask, edges, trust, snapshots, author, outside>>

\* Mutant: protected keys are retired too.
RetireProtectedToo(chosen) ==
    /\ snapshots' = Captured("pre-retire")
    /\ Drop({ k \in chosen : Stored(k) })
    /\ Answer("retire", NoKey, "retired", NoValue)
    /\ UNCHANGED <<quarantine, currentTask, edges, trust, author, outside>>

\* chosen: the keys the predicate accepts (one that raises accepts nothing).
Retire(chosen) ==
    /\ snapshots' = Captured("pre-retire")
    /\ Drop({ k \in chosen \ ProtectedKeys : Stored(k) })
    /\ Answer("retire", NoKey, "retired", NoValue)
    /\ UNCHANGED <<quarantine, currentTask, edges, trust, author, outside>>

-----------------------------------------------------------------------------
(* promote *)

PromoteRefused(p) ==
    /\ \/ class[p.key] = NoClass
       \/ /\ class[p.key] # p.target
          /\ \A e \in EdgesBetween(class[p.key], p.target) :
                e.requires_verification /\ ~p.verified
    /\ Answer("promote", p.key, "class_error", NoValue)
    /\ UNCHANGED <<guardVars, author, outside>>

PromoteAlready(p) ==
    /\ class[p.key] = p.target
    /\ Answer("promote", p.key, "unchanged", NoValue)
    /\ UNCHANGED <<guardVars, author, outside>>

\* Mutant: requires_verification is ignored.
PromoteUnasked(p) ==
    /\ class[p.key] \notin {NoClass, p.target}
    /\ EdgesBetween(class[p.key], p.target) # {}
    /\ class' = [class EXCEPT ![p.key] = p.target]
    /\ Answer("promote", p.key, "promoted", p.verified)
    /\ UNCHANGED <<store, quarantine, baselines, originTask, currentTask, edges,
                   trust, snapshots, author, outside>>

PromoteMoves(p) ==
    /\ class[p.key] \notin {NoClass, p.target}
    /\ \E e \in EdgesBetween(class[p.key], p.target) :
          e.requires_verification => p.verified
    /\ class' = [class EXCEPT ![p.key] = p.target]
    /\ Answer("promote", p.key, "promoted", p.verified)
    /\ UNCHANGED <<store, quarantine, baselines, originTask, currentTask, edges,
                   trust, snapshots, author, outside>>

Promote(p) == PromoteRefused(p) \/ PromoteAlready(p) \/ PromoteMoves(p)

-----------------------------------------------------------------------------
(* baseline(key, value), value = NoValue standing for None *)

BaselineMissing(k, v) ==
    /\ v = NoValue /\ ~Stored(k)
    /\ Answer("baseline", k, "key_error", NoValue)
    /\ UNCHANGED <<guardVars, author, outside>>

BaselineSet(k, v) ==
    /\ v # NoValue \/ Stored(k)
    /\ baselines' = [baselines EXCEPT ![k] = IF v # NoValue THEN v ELSE store[k]]
    /\ Answer("baseline", k, "recorded", NoValue)
    /\ UNCHANGED <<store, quarantine, class, originTask, currentTask, edges, trust,
                   snapshots, author, outside>>

Baseline(k, v) == BaselineMissing(k, v) \/ BaselineSet(k, v)

-----------------------------------------------------------------------------
(* snapshot and rollback *)

TakeSnapshot(label) ==
    /\ snapshots' = Captured(label)
    /\ Answer("snapshot", NoKey, "captured", NoValue)
    /\ UNCHANGED <<store, quarantine, baselines, class, originTask, currentTask,
                   edges, trust, author, outside>>

\* There is no snapshot yet, or none with that id (any more).
RollbackNone ==
    /\ Answer("rollback", NoKey, "lookup_error", NoValue)
    /\ UNCHANGED <<guardVars, author, outside>>

\* Any snapshot by its id (the latest when none is given).  Only the store is
\* restored.
RollbackTo(i) ==
    /\ store' = snapshots[i].data
    /\ Answer("rollback", NoKey, "restored", NoValue)
    /\ UNCHANGED <<quarantine, baselines, class, originTask, currentTask, edges,
                   trust, snapshots, author, outside>>

Rollback == RollbackNone \/ \E i \in DOMAIN snapshots : RollbackTo(i)

-----------------------------------------------------------------------------
(* authorize *)

ArgTrust(source) ==
    IF source.key # NoKey THEN trust[source.key] ELSE source.trust

Authorization(c) ==
    Evaluate(c, [n \in DOMAIN c.args |-> ArgTrust(c.args[n])])

Authorize(c) ==
    /\ Answer("authorize", NoKey, Authorization(c), NoValue)
    /\ UNCHANGED <<guardVars, author, outside>>

-----------------------------------------------------------------------------
(* The rest of the environment *)

SetCurrentTask(t) ==
    /\ currentTask' = t
    /\ Answer("task", NoKey, "set", NoValue)
    /\ UNCHANGED <<store, quarantine, baselines, class, originTask, edges, trust,
                   snapshots, author, outside>>

\* The owner of the store sets (or, with NoValue, removes) an entry itself.
Tamper(k, v) ==
    /\ store' = [store EXCEPT ![k] = v]
    /\ outside' = [outside EXCEPT ![k] = @ \cup {v}]
    /\ Answer("tamper", k, "set", NoValue)
    /\ UNCHANGED <<quarantine, baselines, class, originTask, currentTask, edges,
                   trust, snapshots, author>>

-----------------------------------------------------------------------------

\* __init__ baselines the immutable keys it finds, looked up literally.
Init ==
    /\ store \in InitialStores
    /\ quarantine = [k \in Keys |-> NoValue]
    /\ baselines = [k \in Keys |-> IF k \in ImmutableExact THEN store[k] ELSE NoValue]
    /\ class = [k \in Keys |-> NoClass]
    /\ originTask = [k \in Keys |-> NoTask]
    /\ currentTask = NoTask
    /\ edges = [k \in Keys |-> {}]
    /\ trust = [k \in Keys |-> UNTRUSTED]
    /\ snapshots = <<>>
    /\ last = [op |-> "init", key |-> NoKey, out |-> "built", value |-> NoValue]
    /\ author = [k \in Keys |-> Nobody]
    /\ outside = [k \in Keys |-> {store[k]}]

Next ==
    \/ \E r \in WriteCalls : Write(r)
    \/ \E k \in Keys : Read(k) \/ DeleteProtected(k) \/ DeleteEntry(k)
    \/ \E chosen \in RetireCalls : Retire(chosen)
    \/ \E p \in PromoteCalls : Promote(p)
    \/ \E c \in BaselineCalls : Baseline(c[1], c[2])
    \/ \E l \in Labels : TakeSnapshot(l)
    \/ Rollback
    \/ \E c \in AuthorizeCalls : Authorize(c)
    \/ \E t \in Tasks \cup {NoTask} : SetCurrentTask(t)
    \/ \E c \in Tampers : Tamper(c[1], c[2])

Spec == Init /\ [][Next]_vars

=============================================================================
