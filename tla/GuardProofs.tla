---------------------------- MODULE GuardProofs ----------------------------
(***************************************************************************)
(* Theorems about MemoryGuard for every set of keys, values and tasks,     *)
(* every policy and every set of calls.  Those on protected keys and       *)
(* screening suppose a policy that screens, which Policy.strict and        *)
(* Policy.tiered do (StrictMeets, TieredMeets), and a redaction that       *)
(* leaves nothing to redact.                                               *)
(***************************************************************************)
EXTENDS MemoryGuardProps, OperatorProofs

\* The fields of a write call.
LEMMA WriteCallFields ==
  ASSUME NEW r \in WriteCalls
  PROVE  /\ r.key \in Keys /\ r.value \in Values /\ r.source \in SourceClass
         /\ r.receipt \in BOOLEAN /\ r.cls \in MemoryClass \cup {NoClass}
         /\ r.task \in Tasks \cup {NoTask} /\ r.parents \in Seq(Keys)
         /\ r.verified \in BOOLEAN
BY CallsAssumption DEF WriteCall

\* What a write computes has the type of the dictionary it goes into.
LEMMA WriteTypes ==
  ASSUME TypeOK, NEW r \in WriteCalls
  PROVE  /\ TargetClass(r) \in MemoryClass \cup {NoClass}
         /\ ClaimedTrust(r) \in TrustLevel
         /\ NewEdges(r) \in EdgeMap
         /\ EntryTrust(r) \in TrustLevel
         /\ OriginOf(r) \in Tasks \cup {NoTask}
<1>1. TargetClass(r) \in MemoryClass \cup {NoClass}
  BY WriteCallFields DEF TypeOK, TargetClass
<1>2. ClaimedTrust(r) \in TrustLevel
  <2>1. BaseTrust(r.source, TargetClass(r)) \in TrustLevel
    BY WriteCallFields, BaseTrustBounds
  <2> QED
    BY <2>1 DEF ClaimedTrust, TrustLevel, MEDIUM, UNTRUSTED, VERIFIED
<1>3. NewEdges(r) \in EdgeMap
  BY WriteCallFields, RecordType DEF TypeOK, NewEdges, EdgeMap
<1>4. EntryTrust(r) \in TrustLevel
  <2>1. Assess(NewEdges(r), trust, r.key, ClaimedTrust(r), r.verified) \in TrustLevel
    BY <1>2, <1>3, WriteCallFields, AssessBounds DEF TypeOK, TrustMap
  <2> QED
    BY <1>2, <2>1 DEF EntryTrust
<1>5. OriginOf(r) \in Tasks \cup {NoTask}
  BY WriteCallFields DEF TypeOK, OriginOf
<1> QED
  BY <1>1, <1>2, <1>3, <1>4, <1>5

\* A capture appends to the ring and keeps it within its bound.
LEMMA CapturedType ==
  ASSUME TypeOK, NEW label \in Labels \cup {"pre-block", "pre-retire"}
  PROVE  /\ Captured(label) \in Seq(SnapshotType)
         /\ Len(Captured(label)) <= MaxSnapshots
<1> DEFINE all == Append(snapshots, Snapshot(label))
<1>1. Snapshot(label) \in SnapshotType
  BY DEF Snapshot, SnapshotType, TypeOK
<1>2. all \in Seq(SnapshotType) /\ Len(all) = Len(snapshots) + 1
  BY <1>1 DEF TypeOK
<1>3. Tail(all) \in Seq(SnapshotType) /\ Len(Tail(all)) = Len(all) - 1
  BY <1>2 DEF TypeOK
<1> QED
  BY <1>2, <1>3, PolicyAssumption DEF Captured, TypeOK

LEMMA InitType == Init => TypeOK
<1> SUFFICES ASSUME Init PROVE TypeOK
  OBVIOUS
<1>1. store \in [Keys -> Entry]
  BY CallsAssumption DEF Init
<1>2. baselines \in [Keys -> Entry] /\ quarantine \in [Keys -> Entry]
  BY <1>1 DEF Init, Entry
<1>3. snapshots \in Seq(SnapshotType) /\ Len(snapshots) <= MaxSnapshots
  BY PolicyAssumption DEF Init
<1>4. author \in [Keys -> Author] /\ trust \in [Keys -> TrustLevel]
  BY DEF Init, Author, Nobody, TrustLevel, UNTRUSTED, VERIFIED
<1> QED
  BY <1>1, <1>2, <1>3, <1>4 DEF Init, TypeOK

\* Steps of write preserve the types.
LEMMA WriteType ==
  ASSUME TypeOK, NEW r \in WriteCalls, Write(r)
  PROVE  TypeOK'
<1> USE WriteCallFields, WriteTypes
<1>1. CASE WriteReclassifying(r)
  BY <1>1 DEF WriteReclassifying, guardVars, TypeOK
<1>2. ASSUME NEW an, WriteBlocked(r, an)
      PROVE  TypeOK'
  <2>1. Captured("pre-block") \in Seq(SnapshotType) /\ Len(Captured("pre-block")) <= MaxSnapshots
    BY CapturedType
  <2> QED
    BY <1>2, <2>1 DEF WriteBlocked, TypeOK
<1>3. ASSUME NEW an, WriteCyclic(r, an)
      PROVE  TypeOK'
  BY <1>3 DEF WriteCyclic, TypeOK, EdgeMap
<1>4. ASSUME NEW an, WriteLaundered(r, an)
      PROVE  TypeOK'
  BY <1>4 DEF WriteLaundered, TypeOK, EdgeMap, Entry
<1>5. ASSUME NEW an, WriteQuarantined(r, an)
      PROVE  TypeOK'
  BY <1>5 DEF WriteQuarantined, TypeOK, EdgeMap, Entry
<1>6. ASSUME NEW an, WriteCommitted(r, an)
      PROVE  TypeOK'
  <2>1. Committed(r, an) \in Entry
    BY ValuesAssumption DEF Committed, Entry
  <2>2. store' \in [Keys -> Entry] /\ baselines' \in [Keys -> Entry]
    BY <1>6, <2>1 DEF WriteCommitted, TypeOK
  <2>3. author' \in [Keys -> Author]
    <3>1. [source |-> r.source, receipt |-> r.receipt, trust |-> EntryTrust(r),
           task |-> currentTask, derived |-> r.parents # <<>> /\ ~r.verified] \in Author
      BY DEF Author, TypeOK
    <3> QED
      BY <1>6, <3>1 DEF WriteCommitted, TypeOK
  <2>4. edges' \in [Keys -> SUBSET Keys] /\ trust' \in [Keys -> TrustLevel]
    BY <1>6 DEF WriteCommitted, TypeOK, EdgeMap
  <2>5. class' \in [Keys -> MemoryClass \cup {NoClass}]
    BY <1>6 DEF WriteCommitted, TypeOK
  <2>6. originTask' \in [Keys -> Tasks \cup {NoTask}]
    BY <1>6 DEF WriteCommitted, TypeOK
  <2> QED
    BY <1>6, <2>2, <2>3, <2>4, <2>5, <2>6 DEF WriteCommitted, TypeOK
<1> QED
  BY <1>1, <1>2, <1>3, <1>4, <1>5, <1>6 DEF Write

\* Dropping keys preserves the types of what it touches.
LEMMA DropType ==
  ASSUME TypeOK, NEW S, Drop(S)
  PROVE  /\ store' \in [Keys -> Entry]
         /\ baselines' \in [Keys -> Entry]
         /\ class' \in [Keys -> MemoryClass \cup {NoClass}]
         /\ originTask' \in [Keys -> Tasks \cup {NoTask}]
BY DEF Drop, TypeOK, Entry

\* Every step preserves the types.
LEMMA StepType == TypeOK /\ [Next]_vars => TypeOK'
<1> SUFFICES ASSUME TypeOK, [Next]_vars PROVE TypeOK'
  OBVIOUS
<1>1. ASSUME NEW r \in WriteCalls, Write(r) PROVE TypeOK'
  BY <1>1, WriteType
<1>2. ASSUME NEW k \in Keys, Read(k) PROVE TypeOK'
  BY <1>2 DEF Read, ReadMissing, ReadDrifted, ReadScreened, guardVars, TypeOK
<1>3. ASSUME NEW k \in Keys, DeleteProtected(k) PROVE TypeOK'
  BY <1>3 DEF DeleteProtected, guardVars, TypeOK
<1>4. ASSUME NEW k \in Keys, DeleteEntry(k) PROVE TypeOK'
  <2>1. Drop({k})
    BY <1>4 DEF DeleteEntry
  <2> QED
    BY <1>4, <2>1, DropType DEF DeleteEntry, TypeOK
<1>5. ASSUME NEW chosen \in RetireCalls, Retire(chosen) PROVE TypeOK'
  <2>1. Drop({ k \in chosen \ ProtectedKeys : Stored(k) })
    BY <1>5 DEF Retire
  <2>2. snapshots' \in Seq(SnapshotType) /\ Len(snapshots') <= MaxSnapshots
    BY <1>5, CapturedType DEF Retire
  <2> QED
    BY <1>5, <2>1, <2>2, DropType DEF Retire, TypeOK
<1>6. ASSUME NEW p \in PromoteCalls, Promote(p) PROVE TypeOK'
  <2>1. p.target \in MemoryClass
    BY CallsAssumption DEF PromoteCall
  <2> QED
    BY <1>6, <2>1 DEF Promote, PromoteRefused, PromoteAlready, PromoteMoves,
                      guardVars, TypeOK
<1>7. ASSUME NEW c \in BaselineCalls, Baseline(c[1], c[2]) PROVE TypeOK'
  <2>1. c[2] \in Entry
    BY CallsAssumption
  <2>2. c[1] \in Keys
    BY CallsAssumption
  <2> QED
    BY <1>7, <2>1, <2>2 DEF Baseline, BaselineMissing, BaselineSet, guardVars, TypeOK
<1>8. ASSUME NEW l \in Labels, TakeSnapshot(l) PROVE TypeOK'
  BY <1>8, CapturedType DEF TakeSnapshot, TypeOK
<1>9. CASE Rollback
  <2>1. ASSUME NEW i \in DOMAIN snapshots PROVE snapshots[i].data \in [Keys -> Entry]
    <3>1. snapshots \in Seq(SnapshotType)
      BY DEF TypeOK
    <3>2. snapshots[i] \in SnapshotType
      BY <2>1, <3>1
    <3> QED
      BY <3>2 DEF SnapshotType
  <2> QED
    BY <1>9, <2>1 DEF Rollback, RollbackNone, RollbackTo, guardVars, TypeOK
<1>10. ASSUME NEW c \in AuthorizeCalls, Authorize(c) PROVE TypeOK'
  BY <1>10 DEF Authorize, guardVars, TypeOK
<1>11. ASSUME NEW t \in Tasks \cup {NoTask}, SetCurrentTask(t) PROVE TypeOK'
  BY <1>11 DEF SetCurrentTask, TypeOK
<1>12. ASSUME NEW c \in Tampers, Tamper(c[1], c[2]) PROVE TypeOK'
  <2>1. c[2] \in Entry
    BY CallsAssumption
  <2> QED
    BY <1>12, <2>1 DEF Tamper, TypeOK
<1>13. CASE UNCHANGED vars
  BY <1>13 DEF vars, guardVars, TypeOK
<1> QED
  BY <1>1, <1>2, <1>3, <1>4, <1>5, <1>6, <1>7, <1>8, <1>9, <1>10, <1>11, <1>12,
     <1>13 DEF Next

\* Every dictionary of the guard keeps its type and the snapshot ring its
\* bound, in every reachable state.
THEOREM TypeCorrect == Spec => []TypeOK
BY InitType, StepType, PTL DEF Spec

-----------------------------------------------------------------------------
(* Trust, lineage and classes                                              *)

\* What a write can claim: HIGH at most and only with a receipt, LOW in an
\* untrusted class; what the entry gets is no more.
LEMMA ClaimBounds ==
  ASSUME TypeOK, NEW r \in WriteCalls
  PROVE  /\ EntryTrust(r) <= ClaimedTrust(r)
         /\ ClaimedTrust(r) <= HIGH
         /\ ClaimedTrust(r) >= HIGH => r.source = "system" /\ r.receipt
         /\ TargetClass(r) \in UNTRUSTED_CLASSES => ClaimedTrust(r) <= LOW
<1> DEFINE base == BaseTrust(r.source, TargetClass(r))
<1>1. /\ base \in TrustLevel
      /\ base >= HIGH => r.source = "system"
      /\ base <= HIGH
      /\ TargetClass(r) \in UNTRUSTED_CLASSES => base <= LOW
  BY WriteCallFields, BaseTrustBounds
<1>2. ClaimedTrust(r) =
        IF r.source = "system" /\ base >= HIGH /\ ~r.receipt THEN MEDIUM ELSE base
  BY DEF ClaimedTrust
<1>3. EntryTrust(r) <= ClaimedTrust(r)
  <2>1. ClaimedTrust(r) \in TrustLevel /\ NewEdges(r) \in EdgeMap /\ trust \in TrustMap
    BY WriteTypes DEF TypeOK, TrustMap
  <2>2. Assess(NewEdges(r), trust, r.key, ClaimedTrust(r), r.verified) <= ClaimedTrust(r)
    BY <2>1, WriteCallFields, AssessBounds
  <2>3. ClaimedTrust(r) <= ClaimedTrust(r)
    BY <2>1 DEF TrustLevel, UNTRUSTED, VERIFIED
  <2> QED
    BY <2>2, <2>3 DEF EntryTrust
<1> HIDE DEF base
<1> QED
  BY <1>1, <1>2, <1>3 DEF TrustLevel, UNTRUSTED, LOW, MEDIUM, HIGH, VERIFIED

\* A step that is no write leaves trust and lineage alone, and gives a key no
\* class but by a promotion the graph allows.
LEMMA OtherSteps ==
  ASSUME TypeOK, [Next]_vars, \A r \in WriteCalls : ~Write(r)
  PROVE  /\ UNCHANGED <<edges, trust, author>>
         /\ \A k \in Keys :
              \/ class'[k] \in {class[k], NoClass}
              \/ \E p \in PromoteCalls :
                    /\ p.key = k /\ Promote(p) /\ class'[k] = p.target
                    /\ \E e \in EdgesBetween(class[k], p.target) :
                          e.requires_verification => p.verified
         /\ UNCHANGED vars \/ last'.op # "write"
<1> DEFINE Goal == /\ UNCHANGED <<edges, trust, author>>
                   /\ \A k \in Keys : class'[k] \in {class[k], NoClass}
                   /\ last'.op # "write"
<1>1. ASSUME NEW k \in Keys, Read(k) \/ DeleteProtected(k) PROVE Goal
  BY <1>1 DEF Read, ReadMissing, ReadDrifted, ReadScreened, DeleteProtected,
              guardVars, Answer
<1>2. ASSUME NEW k \in Keys, DeleteEntry(k) PROVE Goal
  BY <1>2 DEF DeleteEntry, Drop, Answer
<1>3. ASSUME NEW chosen \in RetireCalls, Retire(chosen) PROVE Goal
  BY <1>3 DEF Retire, Drop, Answer
<1>4. ASSUME NEW c \in BaselineCalls, Baseline(c[1], c[2]) PROVE Goal
  BY <1>4 DEF Baseline, BaselineMissing, BaselineSet, guardVars, Answer
<1>5. ASSUME NEW l \in Labels, TakeSnapshot(l) PROVE Goal
  BY <1>5 DEF TakeSnapshot, Answer
<1>6. CASE Rollback
  BY <1>6 DEF Rollback, RollbackNone, RollbackTo, guardVars, Answer
<1>7. ASSUME NEW c \in AuthorizeCalls, Authorize(c) PROVE Goal
  BY <1>7 DEF Authorize, guardVars, Answer
<1>8. ASSUME NEW t \in Tasks \cup {NoTask}, SetCurrentTask(t) PROVE Goal
  BY <1>8 DEF SetCurrentTask, Answer
<1>9. ASSUME NEW c \in Tampers, Tamper(c[1], c[2]) PROVE Goal
  BY <1>9 DEF Tamper, Answer
<1>10. ASSUME NEW p \in PromoteCalls, PromoteRefused(p) \/ PromoteAlready(p) PROVE Goal
  BY <1>10 DEF PromoteRefused, PromoteAlready, guardVars, Answer
<1>11. ASSUME NEW p \in PromoteCalls, PromoteMoves(p)
       PROVE  /\ UNCHANGED <<edges, trust, author>>
              /\ last'.op # "write"
              /\ Promote(p)
              /\ \A k \in Keys \ {p.key} : class'[k] = class[k]
              /\ class'[p.key] = p.target
              /\ \E e \in EdgesBetween(class[p.key], p.target) :
                    e.requires_verification => p.verified
  <2>1. p.key \in Keys
    BY CallsAssumption DEF PromoteCall
  <2> QED
    BY <1>11, <2>1 DEF PromoteMoves, Promote, Answer, TypeOK
<1>12. CASE UNCHANGED vars
  BY <1>12 DEF vars, guardVars
<1> QED
  BY <1>1, <1>2, <1>3, <1>4, <1>5, <1>6, <1>7, <1>8, <1>9, <1>10, <1>11, <1>12
     DEF Next, Promote

\* The strengthening that is inductive: none of its parts needs another one,
\* but each needs the types.
TrustInv ==
    /\ TypeOK
    /\ LineageAcyclic
    /\ HighTrustIsAttested
    /\ UntrustedClassCapped
    /\ \A k \in Keys : trust[k] <= HIGH

LEMMA InitTrust == Init => TrustInv
<1> SUFFICES ASSUME Init PROVE TrustInv
  OBVIOUS
<1>1. TypeOK
  BY InitType
<1>2. LineageAcyclic
  <2> SUFFICES ASSUME NEW k \in Keys PROVE ~Reaches(edges, k, k)
    BY DEF LineageAcyclic, Acyclic
  <2>1. edges[k] \subseteq {} /\ ClosedUnder(edges, {})
    BY DEF Init, ClosedUnder
  <2> QED
    BY <2>1 DEF Reaches
<1>3. \A k \in Keys : trust[k] = UNTRUSTED
  BY DEF Init
<1> QED
  BY <1>1, <1>2, <1>3 DEF TrustInv, HighTrustIsAttested, UntrustedClassCapped,
                          UNTRUSTED, LOW, HIGH

\* A write preserves each part of the invariant.
LEMMA WriteTrust ==
  ASSUME TrustInv, NEW r \in WriteCalls, Write(r)
  PROVE  TrustInv'
<1>1. TypeOK /\ TypeOK'
  BY WriteType DEF TrustInv
<1>2. LineageAcyclic'
  <2>1. edges' = edges \/ edges' = NewEdges(r)
    BY DEF Write, WriteReclassifying, WriteBlocked, WriteCyclic, WriteLaundered,
           WriteQuarantined, WriteCommitted, guardVars
  <2>2. Acyclic(NewEdges(r))
    BY <1>1, WriteCallFields, RecordKeepsAcyclic
       DEF TrustInv, TypeOK, EdgeMap, LineageAcyclic, NewEdges
  <2>3. Acyclic(edges)
    BY DEF TrustInv, LineageAcyclic
  <2>4. Acyclic(edges')
    BY <2>1, <2>2, <2>3
  <2> QED
    BY <2>4 DEF LineageAcyclic, Acyclic, Reaches, ClosedUnder
<1>3. CASE UNCHANGED <<trust, class, author>>
  BY <1>1, <1>2, <1>3 DEF TrustInv, HighTrustIsAttested, UntrustedClassCapped
<1>4. /\ EntryTrust(r) \in TrustLevel /\ ClaimedTrust(r) \in TrustLevel
      /\ EntryTrust(r) <= ClaimedTrust(r)
      /\ ClaimedTrust(r) <= HIGH
      /\ ClaimedTrust(r) >= HIGH => r.source = "system" /\ r.receipt
      /\ TargetClass(r) \in UNTRUSTED_CLASSES => ClaimedTrust(r) <= LOW
      /\ r.key \in Keys
  BY <1>1, ClaimBounds, WriteTypes, WriteCallFields
<1>5. ASSUME NEW an, WriteLaundered(r, an) PROVE TrustInv'
  <2>1. /\ \A k \in Keys : trust'[k] = IF k = r.key THEN EntryTrust(r) ELSE trust[k]
        /\ UNCHANGED <<class, author>>
        /\ EntryTrust(r) < ClaimedTrust(r)
        /\ class[r.key] \in UNTRUSTED_CLASSES => TargetClass(r) = class[r.key]
    BY <1>1, <1>5 DEF WriteLaundered, Laundered, Accepted, Reclassifies, TypeOK,
                      UNTRUSTED_CLASSES, NoClass
  <2>2. HighTrustIsAttested'
    BY <2>1, <1>4 DEF TrustInv, HighTrustIsAttested, TrustLevel, UNTRUSTED,
                      VERIFIED, HIGH
  <2>3. UntrustedClassCapped'
    BY <2>1, <1>4 DEF TrustInv, UntrustedClassCapped, TrustLevel, UNTRUSTED,
                      VERIFIED, LOW
  <2>4. \A k \in Keys : trust'[k] <= HIGH
    BY <2>1, <1>4 DEF TrustInv, TrustLevel, UNTRUSTED, VERIFIED, HIGH
  <2> QED
    BY <1>1, <1>2, <2>2, <2>3, <2>4 DEF TrustInv
<1>6. ASSUME NEW an, WriteCommitted(r, an) PROVE TrustInv'
  <2>1. /\ \A k \in Keys : trust'[k] = IF k = r.key THEN EntryTrust(r) ELSE trust[k]
        /\ \A k \in Keys : class'[k] = IF k = r.key THEN TargetClass(r) ELSE class[k]
        /\ \A k \in Keys \ {r.key} : author'[k] = author[k]
        /\ author'[r.key].source = r.source /\ author'[r.key].receipt = r.receipt
    BY <1>1, <1>4, <1>6 DEF WriteCommitted, TypeOK
  <2>2. HighTrustIsAttested'
    BY <2>1, <1>4 DEF TrustInv, HighTrustIsAttested, TrustLevel, UNTRUSTED,
                      VERIFIED, HIGH
  <2>3. UntrustedClassCapped'
    BY <2>1, <1>4 DEF TrustInv, UntrustedClassCapped, TrustLevel, UNTRUSTED,
                      VERIFIED, LOW
  <2>4. \A k \in Keys : trust'[k] <= HIGH
    BY <2>1, <1>4 DEF TrustInv, TrustLevel, UNTRUSTED, VERIFIED, HIGH
  <2> QED
    BY <1>1, <1>2, <2>2, <2>3, <2>4 DEF TrustInv
<1> QED
  BY <1>3, <1>5, <1>6 DEF Write, WriteReclassifying, WriteBlocked, WriteCyclic,
                          WriteQuarantined, guardVars

\* The only promotion into an untrusted class comes from an untrusted class,
\* and none leads from one to another class.
LEMMA GraphKeepsUntrusted ==
  ASSUME NEW source, NEW target, EdgesBetween(source, target) # {}
  PROVE  source \in UNTRUSTED_CLASSES <=> target \in UNTRUSTED_CLASSES
BY DEF EdgesBetween, DEFAULT_PROMOTION_GRAPH, PromotionEdge, UNTRUSTED_CLASSES

LEMMA StepTrust == TrustInv /\ [Next]_vars => TrustInv'
<1> SUFFICES ASSUME TrustInv, [Next]_vars PROVE TrustInv'
  OBVIOUS
<1>1. ASSUME NEW r \in WriteCalls, Write(r) PROVE TrustInv'
  BY <1>1, WriteTrust
<1>2. CASE \A r \in WriteCalls : ~Write(r)
  <2>1. TypeOK /\ TypeOK'
    BY StepType DEF TrustInv
  <2>2. UNCHANGED <<edges, trust, author>>
    BY <1>2, <2>1, OtherSteps
  <2>3. ASSUME NEW k \in Keys, class'[k] \in UNTRUSTED_CLASSES
        PROVE  class[k] \in UNTRUSTED_CLASSES
    <3>1. CASE class'[k] \in {class[k], NoClass}
      BY <2>3, <3>1 DEF UNTRUSTED_CLASSES, NoClass
    <3>2. CASE EdgesBetween(class[k], class'[k]) # {}
      BY <2>3, <3>2, GraphKeepsUntrusted
    <3> QED
      BY <3>1, <3>2, <1>2, <2>1, OtherSteps
  <2> QED
    BY <2>1, <2>2, <2>3 DEF TrustInv, LineageAcyclic, Acyclic, Reaches, ClosedUnder,
                            HighTrustIsAttested, UntrustedClassCapped
<1> QED
  BY <1>1, <1>2

LEMMA TrustInvariant == Spec => []TrustInv
BY InitTrust, StepTrust, PTL DEF Spec

\* The derivation graph is acyclic in every reachable state.
THEOREM LineageStaysAcyclic == Spec => []LineageAcyclic
BY TrustInvariant, PTL DEF TrustInv

\* High trust is only ever held by what a system write with a receipt wrote.
THEOREM HighTrustAttested == Spec => []HighTrustIsAttested
BY TrustInvariant, PTL DEF TrustInv

\* Keys in the untrusted classes never get beyond LOW.
THEOREM UntrustedCapped == Spec => []UntrustedClassCapped
BY TrustInvariant, PTL DEF TrustInv

\* What no memory is trusted with it cannot vouch for.
LEMMA NothingFillsVerified == TrustInv => VerifiedRolesNeverFilled
<1> SUFFICES ASSUME TrustInv, NEW c \in AuthorizeCalls,
                    NEW n \in DOMAIN c.args \cap DOMAIN c.arguments,
                    c.args[n].key # NoKey,
                    c.arguments[n].role \in AUTHORITY_ROLES,
                    Required(c.arguments[n]) = VERIFIED
             PROVE  Authorization(c) = c.on_violation
  BY DEF VerifiedRolesNeverFilled
<1> DEFINE trusts == [m \in DOMAIN c.args |-> ArgTrust(c.args[m])]
<1>1. c.args[n].key \in Keys
  BY CallsAssumption DEF ArgSource
<1>2. trust[c.args[n].key] \in TrustLevel /\ trust[c.args[n].key] <= HIGH
  BY <1>1 DEF TrustInv, TypeOK
<1>3. trusts[n] < VERIFIED
  BY <1>2 DEF ArgTrust, TrustLevel, HIGH, VERIFIED, UNTRUSTED
<1>4. n \in Violations(c, trusts)
  BY <1>3 DEF Violations
<1> QED
  BY <1>4 DEF Authorization, Evaluate

\* The gate never lets memory fill an argument that needs VERIFIED trust: no
\* key ever holds it.
THEOREM VerifiedNeverFilled == Spec => []VerifiedRolesNeverFilled
BY NothingFillsVerified, TrustInvariant, PTL

\* A committed derivation is trusted no more than any parent of its key.
THEOREM DerivedBounded == Spec => DerivedWithinParents
<1> DEFINE Bounded == \A k \in Keys :
             WriteAnswered({"allow", "redact"}) /\ last'.key = k /\ author'[k].derived
                 => \A p \in edges'[k] : trust'[k] <= trust[p]
<1>1. ASSUME TypeOK, Next PROVE Bounded \/ UNCHANGED vars
  <2>1. ASSUME NEW r \in WriteCalls, NEW an, WriteCommitted(r, an) PROVE Bounded
    <3> SUFFICES ASSUME author'[r.key].derived
                 PROVE  \A p \in edges'[r.key] : trust'[r.key] <= trust[p]
      BY <2>1 DEF WriteCommitted, Answer
    <3>1. /\ r.parents # <<>> /\ ~r.verified
          /\ trust'[r.key] = EntryTrust(r)
          /\ edges' = NewEdges(r)
      BY <1>1, <2>1, WriteCallFields DEF WriteCommitted, TypeOK
    <3>2. /\ NewEdges(r) \in EdgeMap /\ trust \in TrustMap
          /\ ClaimedTrust(r) \in TrustLevel /\ r.key \in Keys
      BY <1>1, WriteTypes, WriteCallFields DEF TypeOK, TrustMap
    <3>3. \A p \in NewEdges(r)[r.key] :
            Assess(NewEdges(r), trust, r.key, ClaimedTrust(r), FALSE) <= trust[p]
      BY <3>2, AssessBounds
    <3>4. EntryTrust(r) = Assess(NewEdges(r), trust, r.key, ClaimedTrust(r), FALSE)
      BY <3>1, WriteCallFields DEF EntryTrust
    <3> QED
      BY <3>1, <3>3, <3>4
  <2>2. ASSUME NEW r \in WriteCalls, Write(r), \A an : ~WriteCommitted(r, an)
        PROVE  Bounded
    BY <2>2 DEF Write, WriteReclassifying, WriteBlocked, WriteCyclic, WriteLaundered,
                WriteQuarantined, Answer, WriteAnswered
  <2>3. CASE \A r \in WriteCalls : ~Write(r)
    BY <1>1, <2>3, OtherSteps DEF WriteAnswered
  <2> QED
    BY <2>1, <2>2, <2>3
<1>2. TypeOK /\ [Next]_vars => [Bounded]_vars
  BY <1>1
<1> QED
  BY <1>2, TypeCorrect, PTL DEF Spec, DerivedWithinParents

\* An untrusted class is never left but by deletion.
THEOREM UntrustedStays == Spec => UntrustedNeverElevated
<1> DEFINE Stays == \A k \in Keys : class[k] \in UNTRUSTED_CLASSES =>
                       class'[k] \in UNTRUSTED_CLASSES \cup {NoClass}
<1>1. ASSUME TypeOK, [Next]_vars, NEW k \in Keys, class[k] \in UNTRUSTED_CLASSES
      PROVE  class'[k] \in UNTRUSTED_CLASSES \cup {NoClass}
  <2>1. ASSUME NEW r \in WriteCalls, Write(r) PROVE class'[k] = class[k]
    BY <1>1, <2>1, WriteCallFields
       DEF Write, WriteReclassifying, WriteBlocked, WriteCyclic, WriteLaundered,
           WriteQuarantined, WriteCommitted, Accepted, Reclassifies, TypeOK,
           guardVars, UNTRUSTED_CLASSES, NoClass
  <2>2. CASE \A r \in WriteCalls : ~Write(r)
    <3>1. CASE class'[k] \in {class[k], NoClass}
      BY <1>1, <3>1
    <3>2. CASE EdgesBetween(class[k], class'[k]) # {}
      BY <1>1, <3>2, GraphKeepsUntrusted
    <3> QED
      BY <1>1, <3>1, <3>2, <2>2, OtherSteps
  <2> QED
    BY <1>1, <2>1, <2>2
<1>2. TypeOK /\ [Next]_vars => [Stays]_vars
  BY <1>1
<1> QED
  BY <1>2, TypeCorrect, PTL DEF Spec, UntrustedNeverElevated

-----------------------------------------------------------------------------
(* The guard implements what its callers see of it, GuardFacade: so what is *)
(* shown of the adapters, which are built on GuardFacade, holds of them on *)
(* the guard.                                                              *)

\* Initially: a store of entries, and no call made.
LEMMA InitFacade == Init => Facade!Init
BY CallsAssumption DEF Init, Facade!Init, Entry, Facade!Entry

\* A decision on a write is among the answers the callers expect.
LEMMA DecisionExpected ==
  ASSUME NEW r \in WriteCalls, NEW an \in SUBSET PossibleAnomalies("write", r.source)
  PROVE  /\ WriteDecision(r, an) \in FacadeWriteAnswers[r.key][r.value]
         /\ {"class_error", "lineage_error", "quarantine"}
               \subseteq FacadeWriteAnswers[r.key][r.value]
<1>1. r.key \in Keys /\ r.value \in Values
  BY WriteCallFields
<1>2. an \in SUBSET Anomalies
  BY DEF PossibleAnomalies
<1>3. Findings("write", r.key, r.value, an)
         = Content[r.value] \cup ProtectedFinding("write", r.key) \cup an
  BY DEF Findings, CrossTaskFinding
<1> QED
  BY <1>1, <1>2, <1>3 DEF WriteDecision, FacadeWriteAnswers

\* A write ends as GuardFacade says, whichever way it ends.
LEMMA WriteIsWrite ==
  ASSUME NEW r \in WriteCalls, Write(r)
  PROVE  \E out \in FacadeWriteAnswers[r.key][r.value] : Facade!Write(r.key, r.value, out)
<1> DEFINE answers == FacadeWriteAnswers[r.key][r.value]
<1>1. ASSUME NEW out \in answers, out \notin {"allow", "redact"},
             Answer("write", r.key, out, NoValue), UNCHANGED store
      PROVE  \E o \in answers : Facade!Write(r.key, r.value, o)
  <2>1. Facade!Write(r.key, r.value, out)
    BY <1>1 DEF Facade!Write, Facade!Written, Facade!Answered, Answer
  <2> QED
    BY <2>1
<1>2. {"class_error", "lineage_error", "quarantine"} \subseteq answers
  <2>1. {} \in SUBSET PossibleAnomalies("write", r.source)
    OBVIOUS
  <2> QED
    BY <2>1, DecisionExpected
<1>3. CASE WriteReclassifying(r)
  BY <1>1, <1>2, <1>3 DEF WriteReclassifying, guardVars
<1>4. ASSUME NEW an \in SUBSET PossibleAnomalies("write", r.source), WriteBlocked(r, an)
      PROVE  \E o \in answers : Facade!Write(r.key, r.value, o)
  <2>1. "block" \in answers
    BY <1>4, DecisionExpected DEF WriteBlocked
  <2> QED
    BY <1>1, <1>4, <2>1 DEF WriteBlocked
<1>5. ASSUME NEW an, WriteCyclic(r, an)
      PROVE  \E o \in answers : Facade!Write(r.key, r.value, o)
  BY <1>1, <1>2, <1>5 DEF WriteCyclic
<1>6. ASSUME NEW an, WriteLaundered(r, an) \/ WriteQuarantined(r, an)
      PROVE  \E o \in answers : Facade!Write(r.key, r.value, o)
  BY <1>1, <1>2, <1>6 DEF WriteLaundered, WriteQuarantined
<1>7. ASSUME NEW an \in SUBSET PossibleAnomalies("write", r.source), WriteCommitted(r, an)
      PROVE  \E o \in answers : Facade!Write(r.key, r.value, o)
  <2>1. WriteDecision(r, an) \in answers
    BY DecisionExpected
  <2>2. store' = Facade!Written(r.key, r.value, WriteDecision(r, an))
    BY <1>7 DEF WriteCommitted, Committed, Facade!Written
  <2>3. Facade!Write(r.key, r.value, WriteDecision(r, an))
    BY <1>7, <2>1, <2>2 DEF WriteCommitted, Facade!Write, Facade!Answered, Answer
  <2> QED
    BY <2>1, <2>3
<1> QED
  BY <1>3, <1>4, <1>5, <1>6, <1>7 DEF Write

\* A read ends as GuardFacade says.
LEMMA ReadIsRead ==
  ASSUME TypeOK, NEW k \in Keys, Read(k)
  PROVE  Facade!Read(k)
<1>1. CASE ReadMissing(k)
  BY <1>1 DEF ReadMissing, guardVars, Answer, Stored, Facade!Read, Facade!ReadDefault,
              Facade!Stored, Facade!Answered
<1> DEFINE answers == FacadeReadAnswers[k][store[k]]
<1>2. CASE ReadDrifted(k)
  <2>1. Stored(k) /\ store[k] \in Values
    BY <1>2 DEF ReadDrifted, Drifted, Stored, TypeOK, Entry
  <2>2. "integrity_error" \in answers
    BY <2>1 DEF FacadeReadAnswers
  <2> QED
    BY <1>2, <2>1, <2>2 DEF ReadDrifted, guardVars, Answer, Stored, Facade!Read,
       Facade!ReadRefused, Facade!Stored, Facade!Answered
<1>3. ASSUME NEW an \in SUBSET PossibleAnomalies("read", "unknown"), ReadScreened(k, an)
      PROVE  Facade!Read(k)
  <2> DEFINE findings == Findings("read", k, store[k], an)
             fs == CrossTaskFinding("read", k) \cup an
             decision == Decision(findings, k)
  <2>1. Stored(k) /\ store[k] \in Values /\ UNCHANGED store
    BY <1>3 DEF ReadScreened, Stored, TypeOK, Entry, guardVars
  <2>2. fs \in SUBSET (Anomalies \cup {Found("cross_task_contamination", SevHigh)})
    BY DEF PossibleAnomalies, CrossTaskFinding
  <2>3. findings = Content[store[k]] \cup fs
    BY DEF Findings, ProtectedFinding
  <2>4. (IF decision = "quarantine" THEN "allow" ELSE decision) \in answers
    BY <2>1, <2>2, <2>3 DEF FacadeReadAnswers
  <2>5. decision \in Action
    BY DecisionHighest
  <2>6. CASE decision = "block"
    <3>1. Answer("read", k, "block", NoValue)
      BY <1>3, <2>6 DEF ReadScreened
    <3>2. Facade!ReadRefused(k)
      BY <2>1, <2>4, <2>6, <3>1 DEF Answer, Stored, Facade!ReadRefused, Facade!Stored,
         Facade!Answered
    <3> QED
      BY <3>2 DEF Facade!Read
  <2>7. CASE decision = "redact"
    <3>1. Answer("read", k, "returned", Redacted[store[k]])
      BY <1>3, <2>7 DEF ReadScreened
    <3>2. Facade!ReadReturned(k)
      BY <2>1, <2>4, <2>7, <3>1 DEF Answer, Stored, Facade!ReadReturned, Facade!Stored,
         Facade!Answered
    <3> QED
      BY <3>2 DEF Facade!Read
  <2>8. CASE decision \in {"allow", "quarantine"}
    <3>1. Answer("read", k, "returned", store[k])
      BY <1>3, <2>8 DEF ReadScreened
    <3>2. Facade!ReadReturned(k)
      BY <2>1, <2>4, <2>8, <3>1 DEF Answer, Stored, Facade!ReadReturned, Facade!Stored,
         Facade!Answered
    <3> QED
      BY <3>2 DEF Facade!Read
  <2> HIDE DEF decision
  <2> QED
    BY <2>5, <2>6, <2>7, <2>8 DEF Action
<1> QED
  BY <1>1, <1>2, <1>3 DEF Read

\* Every step of the guard is one of GuardFacade.
LEMMA StepFacade == TypeOK /\ [Next]_vars => [Facade!Next]_<<store, last>>
<1> SUFFICES ASSUME TypeOK, [Next]_vars PROVE [Facade!Next]_<<store, last>>
  OBVIOUS
<1>1. TypeOK'
  BY StepType
<1>2. ASSUME UNCHANGED store,
             last'.op \in {"promote", "baseline", "snapshot", "rollback", "authorize", "task"}
      PROVE  Facade!Next
  BY <1>2 DEF Facade!Next, Facade!Aside
<1>3. ASSUME last'.op \in {"retire", "rollback", "tamper"} PROVE Facade!Next
  BY <1>1, <1>3 DEF Facade!Next, Facade!Elsewhere, TypeOK, Entry, Facade!Entry
<1>4. ASSUME NEW r \in WriteCalls, Write(r) PROVE Facade!Next
  BY <1>4, WriteIsWrite, WriteCallFields DEF Facade!Next
<1>5. ASSUME NEW k \in Keys, Read(k) PROVE Facade!Next
  BY <1>5, ReadIsRead DEF Facade!Next
<1>6. ASSUME NEW k \in Keys, DeleteProtected(k) PROVE Facade!Next
  <2>1. Facade!Delete(k)
    BY <1>6 DEF DeleteProtected, guardVars, Answer, Facade!Delete, Facade!Answered
  <2> QED
    BY <2>1 DEF Facade!Next
<1>7. ASSUME NEW k \in Keys, DeleteEntry(k) PROVE Facade!Next
  <2>1. store' = [store EXCEPT ![k] = NoValue]
    BY <1>7 DEF DeleteEntry, Drop, TypeOK
  <2>2. Facade!Delete(k)
    BY <1>7, <2>1 DEF DeleteEntry, Answer, Facade!Delete, Facade!Answered
  <2> QED
    BY <2>2 DEF Facade!Next
<1>8. ASSUME NEW chosen \in RetireCalls, Retire(chosen) PROVE Facade!Next
  BY <1>8, <1>3 DEF Retire, Answer
<1>9. ASSUME NEW p \in PromoteCalls, Promote(p) PROVE Facade!Next
  BY <1>9, <1>2 DEF Promote, PromoteRefused, PromoteAlready, PromoteMoves, Answer, guardVars
<1>10. ASSUME NEW c \in BaselineCalls, Baseline(c[1], c[2]) PROVE Facade!Next
  BY <1>10, <1>2 DEF Baseline, BaselineMissing, BaselineSet, Answer, guardVars
<1>11. ASSUME NEW l \in Labels, TakeSnapshot(l) PROVE Facade!Next
  BY <1>11, <1>2 DEF TakeSnapshot, Answer
<1>12. CASE Rollback
  BY <1>12, <1>3 DEF Rollback, RollbackNone, RollbackTo, Answer
<1>13. ASSUME NEW c \in AuthorizeCalls, Authorize(c) PROVE Facade!Next
  BY <1>13, <1>2 DEF Authorize, Answer, guardVars
<1>14. ASSUME NEW t \in Tasks \cup {NoTask}, SetCurrentTask(t) PROVE Facade!Next
  BY <1>14, <1>2 DEF SetCurrentTask, Answer
<1>15. ASSUME NEW c \in Tampers, Tamper(c[1], c[2]) PROVE Facade!Next
  BY <1>15, <1>3 DEF Tamper, Answer
<1>16. CASE UNCHANGED vars
  BY <1>16 DEF vars, guardVars
<1> QED
  BY <1>4, <1>5, <1>6, <1>7, <1>8, <1>9, <1>10, <1>11, <1>12, <1>13, <1>14, <1>15,
     <1>16 DEF Next

\* The guard implements GuardFacade: whatever the policy, the detectors and the
\* calls, its callers see a store that only answered writes, deletes and the
\* calls named for it change, and reads that give what is there or refuse.
THEOREM GuardImplementsFacade == Spec => ImplementsFacade
<1>1. TypeOK /\ [Next]_vars => TypeOK'
  BY StepType
<1> QED
  BY <1>1, InitType, InitFacade, StepFacade, PTL DEF Spec, ImplementsFacade, Facade!Spec

-----------------------------------------------------------------------------
(* Protected keys, screening and integrity *)

ProtectedBlocked ==
    \A k \in Keys : Decide(Found("protected_key", SevCritical), k) = "block"

InjectionsBlockedUnder(S) ==
    \A v \in Values : \A f \in Content[v] : \A k \in S :
        f.detector = "prompt_injection" => Decide(f, k) = "block"

InjectionsBlocked == InjectionsBlockedUnder(Keys)

\* Enough for writes: a quarantined value is not committed (it is read, though).
InjectionsHeld ==
    \A v \in Values : \A f \in Content[v] : \A k \in Keys :
        f.detector = "prompt_injection" => Decide(f, k) \in {"block", "quarantine"}

SecretsNotAllowed ==
    \A v \in Values : \A f \in Content[v] : \A k \in Keys :
        f.detector = "sensitive_data" => Decide(f, k) # "allow"

\* What redact leaves of a value without an injection has neither.
RedactionCleans ==
    \A v \in Values :
        ~Injected(v) => ~Sensitive(Redacted[v]) /\ ~Injected(Redacted[v])

\* The detectors of content report at LOW or above, the least severity a rule
\* without a min_severity counts.
ContentCounts ==
    \A v \in Values : \A f \in Content[v] : f.severity >= SevLow

\* Policy.strict meets the hypotheses below.
LEMMA StrictMeets ==
  ASSUME Rules = StrictRules, ContentCounts
  PROVE  ProtectedBlocked /\ InjectionsBlocked /\ SecretsNotAllowed
<1>1. \A v \in Values : \A f \in Content[v] : f \in Finding /\ f.severity >= SevLow
  BY ValuesAssumption DEF ContentCounts
<1>2. Found("protected_key", SevCritical) \in Finding
  BY DEF Found, Finding, Detector, Severity, SevInfo, SevCritical
<1>3. ProtectedBlocked
  <2>1. /\ Found("protected_key", SevCritical).detector = "protected_key"
        /\ Found("protected_key", SevCritical).severity >= SevLow
    BY DEF Found, SevCritical, SevLow
  <2> QED
    BY <1>2, <2>1, StrictDecides DEF ProtectedBlocked
<1>4. InjectionsBlocked
  BY <1>1, StrictDecides DEF InjectionsBlocked, InjectionsBlockedUnder
<1>5. SecretsNotAllowed
  BY <1>1, StrictDecides DEF SecretsNotAllowed
<1> QED
  BY <1>3, <1>4, <1>5

\* So does Policy.tiered, but for its facts: injections there are quarantined.
LEMMA TieredMeets ==
  ASSUME NEW ns, Rules = TieredRules(ns), ContentCounts
  PROVE  /\ ProtectedBlocked /\ InjectionsHeld /\ SecretsNotAllowed
         /\ InjectionsBlockedUnder(Keys \ ns.facts)
<1>1. \A v \in Values : \A f \in Content[v] : f \in Finding /\ f.severity >= SevLow
  BY ValuesAssumption DEF ContentCounts
<1>2. Found("protected_key", SevCritical) \in Finding
  BY DEF Found, Finding, Detector, Severity, SevInfo, SevCritical
<1>3. ProtectedBlocked
  <2>1. /\ Found("protected_key", SevCritical).detector = "protected_key"
        /\ Found("protected_key", SevCritical).severity >= SevLow
    BY DEF Found, SevCritical, SevLow
  <2> QED
    BY <1>2, <2>1, TieredDecides DEF ProtectedBlocked
<1>4. InjectionsHeld
  BY <1>1, TieredDecides DEF InjectionsHeld
<1>5. InjectionsBlockedUnder(Keys \ ns.facts)
  <2> SUFFICES ASSUME NEW v \in Values, NEW f \in Content[v],
                      NEW k \in Keys \ ns.facts, f.detector = "prompt_injection"
               PROVE  Decide(f, k) = "block"
    BY DEF InjectionsBlockedUnder
  <2> QED
    BY <1>1, TieredDecides
<1>6. SecretsNotAllowed
  <2> SUFFICES ASSUME NEW v \in Values, NEW f \in Content[v], NEW k \in Keys,
                      f.detector = "sensitive_data"
               PROVE  Decide(f, k) # "allow"
    BY DEF SecretsNotAllowed
  <2>1. Decide(f, k) \in {"block", "redact"}
    BY <1>1, TieredDecides
  <2> QED
    BY <2>1
<1> QED
  BY <1>3, <1>4, <1>5, <1>6

-----------------------------------------------------------------------------
(* Protected keys *)

\* Under a policy that blocks them no write to a protected key is committed.
LEMMA ProtectedNotCommitted ==
  ASSUME ProtectedBlocked, NEW r \in WriteCalls, NEW an, WriteCommitted(r, an)
  PROVE  r.key \notin ProtectedKeys
<1> SUFFICES ASSUME r.key \in ProtectedKeys PROVE FALSE
  OBVIOUS
<1> DEFINE f == Found("protected_key", SevCritical)
<1>1. f \in Findings("write", r.key, r.value, an)
  BY DEF Findings, ProtectedFinding
<1>2. Decide(f, r.key) = "block"
  BY WriteCallFields DEF ProtectedBlocked
<1>3. WriteDecision(r, an) = "block"
  BY <1>1, <1>2, DecisionBlocks DEF WriteDecision
<1> QED
  BY <1>3 DEF WriteCommitted, Accepted

\* Besides the store, every snapshot holds outside values under protected keys:
\* a rollback may bring one back.
ProtectedInv ==
    /\ TypeOK
    /\ \A k \in ProtectedKeys :
          /\ store[k] \in outside[k]
          /\ \A i \in DOMAIN snapshots : snapshots[i].data[k] \in outside[k]

\* What a capture adds to the ring is the store itself.
LEMMA CapturedData ==
  ASSUME TypeOK, NEW label, NEW i \in DOMAIN Captured(label)
  PROVE  \/ Captured(label)[i].data = store
         \/ \E j \in DOMAIN snapshots : Captured(label)[i] = snapshots[j]
<1> DEFINE all == Append(snapshots, Snapshot(label))
<1>1. /\ Len(snapshots) \in Nat /\ DOMAIN snapshots = 1 .. Len(snapshots)
      /\ snapshots \in Seq(SnapshotType)
  BY DEF TypeOK
<1>2. snapshots \in Seq(SnapshotType \cup {Snapshot(label)})
  BY <1>1
<1>3. /\ all \in Seq(SnapshotType \cup {Snapshot(label)})
      /\ Len(all) = Len(snapshots) + 1
      /\ all[Len(snapshots) + 1] = Snapshot(label)
      /\ \A j \in 1 .. Len(snapshots) : all[j] = snapshots[j]
  BY <1>2
<1>4. \A j \in DOMAIN all : all[j].data = store \/ \E l \in DOMAIN snapshots : all[j] = snapshots[l]
  <2>1. Snapshot(label).data = store
    BY DEF Snapshot
  <2>2. DOMAIN all = 1 .. Len(snapshots) + 1
    BY <1>3
  <2> QED
    BY <1>1, <1>3, <2>1, <2>2
<1>5. DOMAIN Tail(all) = 1 .. Len(snapshots) /\ \A j \in 1 .. Len(snapshots) : Tail(all)[j] = all[j + 1]
  BY <1>1, <1>3
<1>6. \A j \in 1 .. Len(snapshots) : j + 1 \in DOMAIN all
  BY <1>1, <1>3
<1>7. Captured(label) = all \/ Captured(label) = Tail(all)
  BY DEF Captured
<1>8. CASE Captured(label) = all
  BY <1>4, <1>8
<1>9. CASE Captured(label) = Tail(all)
  <2>1. Captured(label)[i] = all[i + 1] /\ i + 1 \in DOMAIN all
    BY <1>5, <1>6, <1>9
  <2> QED
    BY <1>4, <2>1
<1> HIDE DEF all
<1> QED
  BY <1>7, <1>8, <1>9

LEMMA InitProtected == Init => ProtectedInv
<1> SUFFICES ASSUME Init PROVE ProtectedInv
  OBVIOUS
<1>1. ProtectedKeys \subseteq Keys
  BY PolicyAssumption DEF ProtectedKeys
<1>2. \A k \in ProtectedKeys : store[k] \in outside[k]
  BY <1>1 DEF Init
<1>3. DOMAIN snapshots = {}
  BY DEF Init
<1> QED
  BY <1>2, <1>3, InitType DEF ProtectedInv

\* Keys that are stored or not keep what they say, unless they are written,
\* dropped, rolled back or changed from outside.
LEMMA StepProtected ==
  ASSUME ProtectedBlocked
  PROVE  ProtectedInv /\ [Next]_vars => ProtectedInv'
<1> SUFFICES ASSUME ProtectedInv, [Next]_vars PROVE ProtectedInv'
  OBVIOUS
<1>1. TypeOK /\ TypeOK'
  BY StepType DEF ProtectedInv
<1>2. ProtectedKeys \subseteq Keys
  BY PolicyAssumption DEF ProtectedKeys
<1> DEFINE Outside(data) == \A k \in ProtectedKeys : data[k] \in outside[k]
<1>3. /\ Outside(store)
      /\ \A i \in DOMAIN snapshots : Outside(snapshots[i].data)
  BY DEF ProtectedInv
<1>4. ASSUME NEW label PROVE \A i \in DOMAIN Captured(label) : Outside(Captured(label)[i].data)
  BY <1>1, <1>3, CapturedData
<1> HIDE DEF Outside
<1>5. ASSUME UNCHANGED outside, Outside(store'),
             \A i \in DOMAIN snapshots' : Outside(snapshots'[i].data)
      PROVE  ProtectedInv'
  BY <1>1, <1>5 DEF ProtectedInv, Outside, ProtectedKeys
<1>6. ASSUME UNCHANGED <<outside, store, snapshots>> PROVE ProtectedInv'
  BY <1>3, <1>5, <1>6
<1>7. ASSUME NEW r \in WriteCalls, Write(r) PROVE ProtectedInv'
  <2>1. CASE WriteReclassifying(r)
    BY <2>1, <1>6 DEF WriteReclassifying, guardVars
  <2>2. ASSUME NEW an, WriteBlocked(r, an) PROVE ProtectedInv'
    <3>1. snapshots' = snapshots \/ snapshots' = Captured("pre-block")
      BY <2>2 DEF WriteBlocked
    <3> QED
      BY <2>2, <3>1, <1>3, <1>4, <1>5 DEF WriteBlocked
  <2>3. ASSUME NEW an, \/ WriteCyclic(r, an) \/ WriteLaundered(r, an)
                       \/ WriteQuarantined(r, an)
        PROVE  ProtectedInv'
    BY <2>3, <1>6 DEF WriteCyclic, WriteLaundered, WriteQuarantined
  <2>4. ASSUME NEW an, WriteCommitted(r, an) PROVE ProtectedInv'
    <3>1. r.key \notin ProtectedKeys
      BY <2>4, ProtectedNotCommitted
    <3>2. \A k \in ProtectedKeys : store'[k] = store[k]
      BY <2>4, <3>1, <1>1, <1>2 DEF WriteCommitted, TypeOK
    <3>3. Outside(store')
      BY <3>2, <1>3 DEF Outside
    <3> QED
      BY <2>4, <3>3, <1>3, <1>5 DEF WriteCommitted
  <2> QED
    BY <1>7, <2>1, <2>2, <2>3, <2>4 DEF Write
<1>8. ASSUME NEW S, Drop(S), S \cap ProtectedKeys = {} PROVE Outside(store')
  BY <1>8, <1>2, <1>3 DEF Drop, Outside
<1>9. ASSUME NEW k \in Keys, Read(k) \/ DeleteProtected(k) PROVE ProtectedInv'
  BY <1>9, <1>6 DEF Read, ReadMissing, ReadDrifted, ReadScreened, DeleteProtected,
                    guardVars
<1>10. ASSUME NEW k \in Keys, DeleteEntry(k) PROVE ProtectedInv'
  BY <1>10, <1>3, <1>5, <1>8 DEF DeleteEntry
<1>11. ASSUME NEW chosen \in RetireCalls, Retire(chosen) PROVE ProtectedInv'
  <2>1. Outside(store')
    BY <1>11, <1>8 DEF Retire
  <2> QED
    BY <1>11, <2>1, <1>4, <1>5 DEF Retire
<1>12. ASSUME NEW p \in PromoteCalls, Promote(p) PROVE ProtectedInv'
  BY <1>12, <1>6 DEF Promote, PromoteRefused, PromoteAlready, PromoteMoves, guardVars
<1>13. ASSUME NEW c \in BaselineCalls, Baseline(c[1], c[2]) PROVE ProtectedInv'
  BY <1>13, <1>6 DEF Baseline, BaselineMissing, BaselineSet, guardVars
<1>14. ASSUME NEW l \in Labels, TakeSnapshot(l) PROVE ProtectedInv'
  BY <1>14, <1>3, <1>4, <1>5 DEF TakeSnapshot
<1>15. CASE Rollback
  <2>1. CASE RollbackNone
    BY <2>1, <1>6 DEF RollbackNone, guardVars
  <2>2. ASSUME NEW i \in DOMAIN snapshots, RollbackTo(i) PROVE ProtectedInv'
    BY <2>2, <1>3, <1>5 DEF RollbackTo
  <2> QED
    BY <1>15, <2>1, <2>2 DEF Rollback
<1>16. ASSUME NEW c \in AuthorizeCalls, Authorize(c) PROVE ProtectedInv'
  BY <1>16, <1>6 DEF Authorize, guardVars
<1>17. ASSUME NEW t \in Tasks \cup {NoTask}, SetCurrentTask(t) PROVE ProtectedInv'
  BY <1>17, <1>6 DEF SetCurrentTask
<1>18. ASSUME NEW c \in Tampers, Tamper(c[1], c[2]) PROVE ProtectedInv'
  <2>1. \A k \in Keys : outside[k] \subseteq outside'[k]
    BY <1>18, <1>1 DEF Tamper, TypeOK
  <2>2. \A k \in Keys : store'[k] = store[k] \/ store'[k] \in outside'[k]
    BY <1>18, <1>1 DEF Tamper, TypeOK
  <2>3. snapshots' = snapshots
    BY <1>18 DEF Tamper
  <2> QED
    BY <2>1, <2>2, <2>3, <1>1, <1>2, <1>3 DEF ProtectedInv, Outside
<1>19. CASE UNCHANGED vars
  BY <1>19, <1>6 DEF vars, guardVars
<1> QED
  BY <1>7, <1>9, <1>10, <1>11, <1>12, <1>13, <1>14, <1>15, <1>16, <1>17, <1>18,
     <1>19 DEF Next

\* Under a policy that blocks protected keys, what they say only ever came from
\* outside the guard.
THEOREM ProtectedKept ==
  ASSUME ProtectedBlocked
  PROVE  Spec => []ProtectedFromGuard
<1>1. ProtectedInv => ProtectedFromGuard
  BY DEF ProtectedInv, ProtectedFromGuard
<1>2. ProtectedInv /\ [Next]_vars => ProtectedInv'
  BY StepProtected
<1> QED
  BY <1>1, <1>2, InitProtected, PTL DEF Spec

-----------------------------------------------------------------------------
(* Unsafe values *)

\* What a step leaves in the store was there, was in a snapshot, came from
\* outside or is what a write just committed.
LEMMA StoreComesFrom ==
  ASSUME TypeOK, [Next]_vars, NEW k \in Keys
  PROVE  \/ store'[k] \in {store[k], NoValue} \cup outside'[k]
         \/ \E i \in DOMAIN snapshots : store'[k] = snapshots[i].data[k]
         \/ \E r \in WriteCalls : \E an : WriteCommitted(r, an) /\ r.key = k
<1> DEFINE From == \/ store'[k] \in {store[k], NoValue} \cup outside'[k]
                   \/ \E i \in DOMAIN snapshots : store'[k] = snapshots[i].data[k]
                   \/ \E r \in WriteCalls : \E an : WriteCommitted(r, an) /\ r.key = k
<1>1. ASSUME store'[k] \in {store[k], NoValue} \cup outside'[k] PROVE From
  BY <1>1
<1>2. ASSUME NEW r \in WriteCalls, Write(r) PROVE From
  <2>1. CASE WriteReclassifying(r)
    BY <2>1, <1>1 DEF WriteReclassifying, guardVars
  <2>2. ASSUME NEW an, \/ WriteBlocked(r, an) \/ WriteCyclic(r, an)
                       \/ WriteLaundered(r, an) \/ WriteQuarantined(r, an)
        PROVE  From
    BY <2>2, <1>1 DEF WriteBlocked, WriteCyclic, WriteLaundered, WriteQuarantined
  <2>3. ASSUME NEW an, WriteCommitted(r, an) PROVE From
    <3>1. CASE r.key = k
      BY <2>3, <3>1
    <3>2. CASE r.key # k
      BY <2>3, <3>2, <1>1 DEF WriteCommitted, TypeOK
    <3> QED
      BY <3>1, <3>2
  <2> QED
    BY <1>2, <2>1, <2>2, <2>3 DEF Write
<1>3. ASSUME NEW j \in Keys, Read(j) \/ DeleteProtected(j) PROVE From
  BY <1>3, <1>1 DEF Read, ReadMissing, ReadDrifted, ReadScreened, DeleteProtected,
                    guardVars
<1>4. ASSUME NEW S, Drop(S) PROVE From
  BY <1>4, <1>1 DEF Drop
<1>5. ASSUME NEW j \in Keys, DeleteEntry(j) PROVE From
  BY <1>5, <1>4 DEF DeleteEntry
<1>6. ASSUME NEW chosen \in RetireCalls, Retire(chosen) PROVE From
  BY <1>6, <1>4 DEF Retire
<1>7. ASSUME NEW p \in PromoteCalls, Promote(p) PROVE From
  BY <1>7, <1>1 DEF Promote, PromoteRefused, PromoteAlready, PromoteMoves, guardVars
<1>8. ASSUME NEW c \in BaselineCalls, Baseline(c[1], c[2]) PROVE From
  BY <1>8, <1>1 DEF Baseline, BaselineMissing, BaselineSet, guardVars
<1>9. ASSUME NEW l \in Labels, TakeSnapshot(l) PROVE From
  BY <1>9, <1>1 DEF TakeSnapshot
<1>10. CASE Rollback
  BY <1>10, <1>1 DEF Rollback, RollbackNone, RollbackTo, guardVars
<1>11. ASSUME NEW c \in AuthorizeCalls, Authorize(c) PROVE From
  BY <1>11, <1>1 DEF Authorize, guardVars
<1>12. ASSUME NEW t \in Tasks \cup {NoTask}, SetCurrentTask(t) PROVE From
  BY <1>12, <1>1 DEF SetCurrentTask
<1>13. ASSUME NEW c \in Tampers, Tamper(c[1], c[2]) PROVE From
  <2>1. store'[k] = store[k] \/ store'[k] \in outside'[k]
    BY <1>13 DEF Tamper, TypeOK
  <2> QED
    BY <2>1, <1>1
<1>14. CASE UNCHANGED vars
  BY <1>14, <1>1 DEF vars, guardVars
<1> QED
  BY <1>2, <1>3, <1>5, <1>6, <1>7, <1>8, <1>9, <1>10, <1>11, <1>12, <1>13, <1>14
     DEF Next

\* Every snapshot was there before the step or is of the store before it; and
\* nobody forgets what came from outside.
LEMMA SnapshotsComeFrom ==
  ASSUME TypeOK, [Next]_vars
  PROVE  /\ \A i \in DOMAIN snapshots' :
               \/ snapshots'[i].data = store
               \/ \E j \in DOMAIN snapshots : snapshots'[i] = snapshots[j]
         /\ \A k \in Keys : outside[k] \subseteq outside'[k]
<1>1. \/ snapshots' = snapshots
      \/ \E label : snapshots' = Captured(label)
  BY DEF Next, Write, WriteReclassifying, WriteBlocked, WriteCyclic, WriteLaundered,
         WriteQuarantined, WriteCommitted, Read, ReadMissing, ReadDrifted,
         ReadScreened, DeleteProtected, DeleteEntry, Retire, Promote, PromoteRefused,
         PromoteAlready, PromoteMoves, Baseline, BaselineMissing, BaselineSet,
         TakeSnapshot, Rollback, RollbackNone, RollbackTo, Authorize, SetCurrentTask,
         Tamper, vars, guardVars
<1>2. UNCHANGED outside \/ \E c \in Tampers : Tamper(c[1], c[2])
  BY DEF Next, Write, WriteReclassifying, WriteBlocked, WriteCyclic, WriteLaundered,
         WriteQuarantined, WriteCommitted, Read, ReadMissing, ReadDrifted,
         ReadScreened, DeleteProtected, DeleteEntry, Retire, Promote, PromoteRefused,
         PromoteAlready, PromoteMoves, Baseline, BaselineMissing, BaselineSet,
         TakeSnapshot, Rollback, RollbackNone, RollbackTo, Authorize, SetCurrentTask,
         vars
<1>3. \A k \in Keys : outside[k] \subseteq outside'[k]
  BY <1>2 DEF Tamper, TypeOK
<1>4. \A i \in DOMAIN snapshots' :
         \/ snapshots'[i].data = store
         \/ \E j \in DOMAIN snapshots : snapshots'[i] = snapshots[j]
  BY <1>1, CapturedData
<1> QED
  BY <1>3, <1>4

\* An unsafe value under a key it was not given from outside.
Unsafe(k, v) == v # NoValue /\ (Sensitive(v) \/ Injected(v)) /\ v \notin outside[k]

\* A rollback brings back what is in a snapshot, so those are clean as well.
CleanInv ==
    /\ TypeOK
    /\ \A k \in Keys :
          /\ ~Unsafe(k, store[k])
          /\ \A i \in DOMAIN snapshots : ~Unsafe(k, snapshots[i].data[k])

\* What a write commits is neither an injection nor a secret.
LEMMA CommittedIsSafe ==
  ASSUME InjectionsHeld, SecretsNotAllowed, RedactionCleans,
         NEW r \in WriteCalls, NEW an, WriteCommitted(r, an)
  PROVE  ~Sensitive(Committed(r, an)) /\ ~Injected(Committed(r, an))
<1> DEFINE findings == Findings("write", r.key, r.value, an)
<1>1. r.key \in Keys /\ r.value \in Values
  BY WriteCallFields
<1>2. Content[r.value] \subseteq findings
  BY DEF Findings
<1>3. Decision(findings, r.key) \in {"allow", "redact"}
  BY DEF WriteCommitted, WriteDecision
<1> HIDE DEF findings
<1>4. ~Injected(r.value)
  <2> SUFFICES ASSUME NEW f \in Content[r.value], f.detector = "prompt_injection"
               PROVE  FALSE
    BY DEF Injected
  <2>1. Decide(f, r.key) \in {"block", "quarantine"}
    BY <1>1 DEF InjectionsHeld
  <2> QED
    BY <1>2, <1>3, <2>1, DecisionBlocks
<1>5. CASE Decision(findings, r.key) = "redact"
  <2>1. Committed(r, an) = Redacted[r.value]
    BY <1>5 DEF Committed, WriteDecision, findings
  <2> QED
    BY <2>1, <1>1, <1>4 DEF RedactionCleans
<1>6. CASE Decision(findings, r.key) = "allow"
  <2>1. Committed(r, an) = r.value
    BY <1>6 DEF Committed, WriteDecision, findings
  <2>2. ASSUME NEW f \in Content[r.value], f.detector = "sensitive_data" PROVE FALSE
    <3>1. Decide(f, r.key) # "allow"
      BY <1>1, <2>2 DEF SecretsNotAllowed
    <3> QED
      BY <1>2, <1>6, <3>1, DecisionBlocks
  <2> QED
    BY <2>1, <2>2, <1>4 DEF Sensitive
<1> QED
  BY <1>3, <1>5, <1>6

LEMMA InitClean == Init => CleanInv
<1> SUFFICES ASSUME Init PROVE CleanInv
  OBVIOUS
<1>1. TypeOK
  BY InitType
<1>2. \A k \in Keys : store[k] \in outside[k]
  BY DEF Init
<1>3. DOMAIN snapshots = {}
  BY DEF Init
<1> QED
  BY <1>1, <1>2, <1>3 DEF CleanInv, Unsafe

LEMMA StepClean ==
  ASSUME InjectionsHeld, SecretsNotAllowed, RedactionCleans
  PROVE  CleanInv /\ [Next]_vars => CleanInv'
<1> SUFFICES ASSUME CleanInv, [Next]_vars PROVE CleanInv'
  OBVIOUS
<1>1. TypeOK /\ TypeOK'
  BY StepType DEF CleanInv
<1>2. ASSUME NEW k \in Keys, NEW v, ~Unsafe(k, v) PROVE ~Unsafe(k, v)'
  BY <1>1, <1>2, SnapshotsComeFrom DEF Unsafe, Sensitive, Injected
<1>3. ASSUME NEW k \in Keys PROVE ~Unsafe(k, store[k])'
  <2>1. CASE store'[k] \in {store[k], NoValue} \cup outside'[k]
    BY <1>2, <2>1 DEF CleanInv, Unsafe
  <2>2. ASSUME NEW i \in DOMAIN snapshots, store'[k] = snapshots[i].data[k]
        PROVE  ~Unsafe(k, store[k])'
    BY <1>2, <2>2 DEF CleanInv, Unsafe
  <2>3. ASSUME NEW r \in WriteCalls, NEW an, WriteCommitted(r, an), r.key = k
        PROVE  ~Unsafe(k, store[k])'
    <3>1. store'[k] = Committed(r, an)
      BY <1>1, <2>3 DEF WriteCommitted, TypeOK
    <3> QED
      BY <3>1, <2>3, CommittedIsSafe DEF Unsafe, Sensitive, Injected
  <2> QED
    BY <1>1, <2>1, <2>2, <2>3, StoreComesFrom
<1>4. ASSUME NEW k \in Keys, NEW i \in DOMAIN snapshots'
      PROVE  ~Unsafe(k, snapshots[i].data[k])'
  <2>1. \/ snapshots'[i].data = store
        \/ \E j \in DOMAIN snapshots : snapshots'[i] = snapshots[j]
    BY <1>1, SnapshotsComeFrom
  <2> QED
    BY <2>1, <1>2 DEF CleanInv, Unsafe
<1> QED
  BY <1>1, <1>3, <1>4 DEF CleanInv

\* Under a policy that blocks or quarantines injections and lets no secret
\* through as it is, the guard plants neither: whatever unsafe value a key has
\* was put under that key from outside.
THEOREM NothingUnsafeCommitted ==
  ASSUME InjectionsHeld, SecretsNotAllowed, RedactionCleans
  PROVE  Spec => []NoUnsafeCommit
<1>1. CleanInv => NoUnsafeCommit
  BY DEF CleanInv, NoUnsafeCommit, Unsafe, Stored
<1>2. CleanInv /\ [Next]_vars => CleanInv'
  BY StepClean
<1> QED
  BY <1>1, <1>2, InitClean, PTL DEF Spec

-----------------------------------------------------------------------------
(* Reads *)

\* What the last read returned, under a key where injections are blocked (S), is
\* no injection; under any key a secret only when it was given it from outside.
ReadSafeUnder(S) ==
    last.op = "read" /\ last.out = "returned" =>
        /\ last.key \in Keys
        /\ last.key \in S => ~Injected(last.value)
        /\ Sensitive(last.value) => last.value \in outside[last.key]

LEMMA ReturnedIsSafe ==
  ASSUME NEW S, InjectionsBlockedUnder(S), InjectionsHeld, RedactionCleans,
         CleanInv, NEW k \in Keys, NEW an, ReadScreened(k, an)
  PROVE  ReadSafeUnder(S)'
<1> DEFINE findings == Findings("read", k, store[k], an)
<1>1. store[k] \in Values
  BY DEF CleanInv, TypeOK, Entry, ReadScreened, Stored
<1>2. Content[store[k]] \subseteq findings
  BY DEF Findings
<1>3. UNCHANGED outside
  BY DEF ReadScreened
<1> HIDE DEF findings
<1>4. CASE Decision(findings, k) = "block"
  <2>1. last'.out = "block"
    BY <1>4 DEF ReadScreened, Answer, findings
  <2> QED
    BY <2>1 DEF ReadSafeUnder
<1>5. CASE Decision(findings, k) # "block"
  <2>1. k \in S => ~Injected(store[k])
    <3> SUFFICES ASSUME k \in S, NEW f \in Content[store[k]],
                        f.detector = "prompt_injection"
                 PROVE  FALSE
      BY DEF Injected
    <3>1. Decide(f, k) = "block"
      BY <1>1 DEF InjectionsBlockedUnder
    <3> QED
      BY <1>2, <1>5, <3>1, DecisionBlocks
  <2>2. /\ last'.key = k
        /\ last'.value = IF Decision(findings, k) = "redact" THEN Redacted[store[k]]
                         ELSE store[k]
    BY <1>5 DEF ReadScreened, Answer, findings
  <2>3. CASE Decision(findings, k) = "redact"
    <3>1. ~Injected(store[k])
      <4> SUFFICES ASSUME NEW f \in Content[store[k]], f.detector = "prompt_injection"
                   PROVE  FALSE
        BY DEF Injected
      <4>1. Decide(f, k) \in {"block", "quarantine"}
        BY <1>1 DEF InjectionsHeld
      <4> QED
        BY <1>2, <2>3, <4>1, DecisionBlocks
    <3>2. ~Injected(last'.value) /\ ~Sensitive(last'.value)
      BY <1>1, <2>2, <2>3, <3>1 DEF RedactionCleans
    <3> QED
      BY <2>2, <3>2 DEF ReadSafeUnder, Injected, Sensitive
  <2>4. CASE Decision(findings, k) # "redact"
    <3>1. last'.value = store[k]
      BY <2>2, <2>4
    <3>2. Sensitive(store[k]) => store[k] \in outside[k]
      BY <1>1, ValuesAssumption DEF CleanInv, Unsafe
    <3> QED
      BY <1>3, <2>1, <2>2, <3>1, <3>2 DEF ReadSafeUnder, Injected, Sensitive
  <2> QED
    BY <2>3, <2>4
<1> QED
  BY <1>4, <1>5

\* Every other step answers something else.
LEMMA OnlyReadsReturn ==
  ASSUME [Next]_vars
  PROVE  \/ UNCHANGED vars
         \/ last'.op # "read" \/ last'.out # "returned"
         \/ \E k \in Keys : \E an : ReadScreened(k, an)
<1> DEFINE Other == last'.op # "read" \/ last'.out # "returned"
<1>1. ASSUME NEW r \in WriteCalls, Write(r) PROVE Other
  BY <1>1 DEF Write, WriteReclassifying, WriteBlocked, WriteCyclic, WriteLaundered,
              WriteQuarantined, WriteCommitted, Answer
<1>2. ASSUME NEW k \in Keys, Read(k) PROVE Other \/ \E an : ReadScreened(k, an)
  BY <1>2 DEF Read, ReadMissing, ReadDrifted, Answer
<1>3. ASSUME NEW k \in Keys, DeleteProtected(k) \/ DeleteEntry(k) PROVE Other
  BY <1>3 DEF DeleteProtected, DeleteEntry, Answer
<1>4. ASSUME NEW chosen \in RetireCalls, Retire(chosen) PROVE Other
  BY <1>4 DEF Retire, Answer
<1>5. ASSUME NEW p \in PromoteCalls, Promote(p) PROVE Other
  BY <1>5 DEF Promote, PromoteRefused, PromoteAlready, PromoteMoves, Answer
<1>6. ASSUME NEW c \in BaselineCalls, Baseline(c[1], c[2]) PROVE Other
  BY <1>6 DEF Baseline, BaselineMissing, BaselineSet, Answer
<1>7. ASSUME NEW l \in Labels, TakeSnapshot(l) PROVE Other
  BY <1>7 DEF TakeSnapshot, Answer
<1>8. CASE Rollback
  BY <1>8 DEF Rollback, RollbackNone, RollbackTo, Answer
<1>9. ASSUME NEW c \in AuthorizeCalls, Authorize(c) PROVE Other
  BY <1>9 DEF Authorize, Answer
<1>10. ASSUME NEW t \in Tasks \cup {NoTask}, SetCurrentTask(t) PROVE Other
  BY <1>10 DEF SetCurrentTask, Answer
<1>11. ASSUME NEW c \in Tampers, Tamper(c[1], c[2]) PROVE Other
  BY <1>11 DEF Tamper, Answer
<1> QED
  BY <1>1, <1>2, <1>3, <1>4, <1>5, <1>6, <1>7, <1>8, <1>9, <1>10, <1>11 DEF Next

LEMMA ReadsStaySafe ==
  ASSUME NEW S, InjectionsBlockedUnder(S), InjectionsHeld, RedactionCleans
  PROVE  /\ Init => ReadSafeUnder(S)
         /\ CleanInv /\ ReadSafeUnder(S) /\ [Next]_vars => ReadSafeUnder(S)'
<1>1. Init => ReadSafeUnder(S)
  BY DEF Init, ReadSafeUnder
<1>2. ASSUME CleanInv, ReadSafeUnder(S), [Next]_vars PROVE ReadSafeUnder(S)'
  <2>1. CASE UNCHANGED vars
    BY <1>2, <2>1 DEF vars, ReadSafeUnder, Injected, Sensitive
  <2>2. CASE last'.op # "read" \/ last'.out # "returned"
    BY <2>2 DEF ReadSafeUnder
  <2>3. ASSUME NEW k \in Keys, NEW an, ReadScreened(k, an) PROVE ReadSafeUnder(S)'
    BY <1>2, <2>3, ReturnedIsSafe
  <2> QED
    BY <1>2, <2>1, <2>2, <2>3, OnlyReadsReturn
<1> QED
  BY <1>1, <1>2

\* Under a policy that screens, no read returns an injection, nor a secret that
\* was not put under that key from outside.
THEOREM ReadsReturnSafe ==
  ASSUME InjectionsBlocked, SecretsNotAllowed, RedactionCleans
  PROVE  Spec => []ReadReturnsSafe
<1> DEFINE Safe == ReadSafeUnder(Keys)
<1>1. InjectionsBlockedUnder(Keys) /\ InjectionsHeld
  BY DEF InjectionsBlocked, InjectionsBlockedUnder, InjectionsHeld
<1>2. Safe => ReadReturnsSafe
  BY DEF ReadSafeUnder, ReadReturnsSafe
<1>3. Init => Safe
  BY <1>1, ReadsStaySafe
<1>4. CleanInv /\ Safe /\ [Next]_vars => Safe'
  BY <1>1, ReadsStaySafe
<1>5. CleanInv /\ [Next]_vars => CleanInv'
  BY <1>1, StepClean
<1> QED
  BY <1>2, <1>3, <1>4, <1>5, InitClean, PTL DEF Spec

-----------------------------------------------------------------------------
(* The policies the library ships                                          *)

\* Under Policy.strict itself: protected keys keep what they were given, no
\* unsafe value is planted and none is read back.
THEOREM StrictScreens ==
  ASSUME Rules = StrictRules, ContentCounts, RedactionCleans
  PROVE  Spec => [](ProtectedFromGuard /\ NoUnsafeCommit /\ ReadReturnsSafe)
<1>1. ProtectedBlocked /\ InjectionsBlocked /\ SecretsNotAllowed
  BY StrictMeets
<1>2. InjectionsHeld
  BY <1>1 DEF InjectionsBlocked, InjectionsBlockedUnder, InjectionsHeld
<1>3. Spec => []ProtectedFromGuard
  BY <1>1, ProtectedKept
<1>4. Spec => []NoUnsafeCommit
  BY <1>1, <1>2, NothingUnsafeCommitted
<1>5. Spec => []ReadReturnsSafe
  BY <1>1, ReadsReturnSafe
<1> QED
  BY <1>3, <1>4, <1>5, PTL

\* Under Policy.tiered, whatever its namespaces match: protected keys keep what
\* they were given, no unsafe value is planted, and reads are as safe as under
\* Policy.strict, but for one thing: under a key of the facts namespace an
\* injection is quarantined, which lets a read of one that came from outside
\* through.
THEOREM TieredScreens ==
  ASSUME NEW ns, Rules = TieredRules(ns), ContentCounts, RedactionCleans
  PROVE  Spec => [](/\ ProtectedFromGuard /\ NoUnsafeCommit
                    /\ ReadSafeUnder(Keys \ ns.facts))
<1>1. /\ ProtectedBlocked /\ InjectionsHeld /\ SecretsNotAllowed
      /\ InjectionsBlockedUnder(Keys \ ns.facts)
  BY TieredMeets
<1>2. Spec => []ProtectedFromGuard
  BY <1>1, ProtectedKept
<1>3. Spec => []NoUnsafeCommit
  BY <1>1, NothingUnsafeCommitted
<1> DEFINE Safe == ReadSafeUnder(Keys \ ns.facts)
<1>4. Init => Safe
  BY <1>1, ReadsStaySafe
<1>5. CleanInv /\ Safe /\ [Next]_vars => Safe'
  BY <1>1, ReadsStaySafe
<1>6. CleanInv /\ [Next]_vars => CleanInv'
  BY <1>1, StepClean
<1>7. Spec => []Safe
  BY <1>4, <1>5, <1>6, InitClean, PTL DEF Spec
<1> QED
  BY <1>2, <1>3, <1>7, PTL

-----------------------------------------------------------------------------
(* Integrity, retirement, the opt-in *)

\* Baselines are set once, or changed by a baseline() call.
LEMMA StepBaselines ==
  ASSUME TypeOK, [Next]_vars, NEW k \in ImmutableExact, baselines[k] # NoValue,
         baselines'[k] # baselines[k]
  PROVE  \E c \in BaselineCalls : c[1] = k /\ BaselineSet(c[1], c[2])
<1> DEFINE Goal == \E c \in BaselineCalls : c[1] = k /\ BaselineSet(c[1], c[2])
<1>1. k \in Keys /\ k \in ProtectedKeys
  BY PolicyAssumption DEF ProtectedKeys
<1>2. ~UNCHANGED baselines
  OBVIOUS
<1>3. ASSUME NEW r \in WriteCalls, Write(r) PROVE FALSE
  <2>1. PICK an : WriteCommitted(r, an)
    BY <1>2, <1>3 DEF Write, WriteReclassifying, WriteBlocked, WriteCyclic,
       WriteLaundered, WriteQuarantined, guardVars
  <2> QED
    BY <2>1, <1>1 DEF WriteCommitted, TypeOK
<1>4. ASSUME NEW S, Drop(S), k \notin S PROVE FALSE
  BY <1>1, <1>4 DEF Drop, TypeOK
<1>5. ASSUME NEW j \in Keys, Read(j) \/ DeleteProtected(j) \/ DeleteEntry(j) PROVE FALSE
  <2>1. DeleteEntry(j)
    BY <1>2, <1>5 DEF Read, ReadMissing, ReadDrifted, ReadScreened, DeleteProtected,
       guardVars
  <2> QED
    BY <2>1, <1>1, <1>4 DEF DeleteEntry
<1>6. ASSUME NEW chosen \in RetireCalls, Retire(chosen) PROVE FALSE
  BY <1>1, <1>4, <1>6 DEF Retire
<1>7. ASSUME NEW c \in BaselineCalls, Baseline(c[1], c[2]) PROVE Goal
  <2>1. BaselineSet(c[1], c[2])
    BY <1>2, <1>7 DEF Baseline, BaselineMissing, guardVars
  <2>2. c[1] = k
    BY <2>1, <1>1 DEF BaselineSet, TypeOK
  <2> QED
    BY <2>1, <2>2
<1>8. ASSUME NEW p \in PromoteCalls, Promote(p) PROVE FALSE
  BY <1>2, <1>8 DEF Promote, PromoteRefused, PromoteAlready, PromoteMoves, guardVars
<1>9. ~Rollback /\ ~UNCHANGED vars
  BY <1>2 DEF Rollback, RollbackNone, RollbackTo, vars, guardVars
<1>10. /\ \A l \in Labels : ~TakeSnapshot(l)
       /\ \A c \in AuthorizeCalls : ~Authorize(c)
       /\ \A t \in Tasks \cup {NoTask} : ~SetCurrentTask(t)
       /\ \A c \in Tampers : ~Tamper(c[1], c[2])
  BY <1>2 DEF TakeSnapshot, Authorize, SetCurrentTask, Tamper, guardVars
<1> QED
  BY <1>3, <1>5, <1>6, <1>7, <1>8, <1>9, <1>10 DEF Next

\* No rewrite, deletion, retirement or rollback forgets the baseline of a
\* literally listed immutable key.
THEOREM BaselinesStable == Spec => BaselineStable
<1>1. TypeOK /\ [Next]_vars =>
        [\A k \in ImmutableExact :
            baselines[k] # NoValue /\ baselines'[k] # baselines[k]
                => last'.op = "baseline"]_vars
  BY StepBaselines DEF BaselineSet, Answer
<1>2. TypeOK /\ [Next]_vars => TypeOK'
  BY StepType
<1> QED
  BY <1>1, <1>2, InitType, PTL DEF Spec, BaselineStable

\* The baseline of k is v, and so is what reads of it return.
WordInv(k, v) ==
    /\ TypeOK
    /\ baselines[k] = v
    /\ last.op = "read" /\ last.key = k /\ last.out = "returned"
          => last.value \in {v, Redacted[v]}

LEMMA StepWord ==
  ASSUME \A c \in BaselineCalls : c[1] \notin ImmutableExact,
         NEW k \in ImmutableExact, NEW v \in Values
  PROVE  WordInv(k, v) /\ [Next]_vars => WordInv(k, v)'
<1> SUFFICES ASSUME WordInv(k, v), [Next]_vars PROVE WordInv(k, v)'
  OBVIOUS
<1>1. TypeOK /\ TypeOK'
  BY StepType DEF WordInv
<1>2. baselines[k] = v /\ v # NoValue
  BY ValuesAssumption DEF WordInv
<1>3. baselines'[k] = v
  BY <1>1, <1>2, StepBaselines
<1>4. CASE UNCHANGED vars
  BY <1>1, <1>3, <1>4 DEF WordInv, vars
<1>5. CASE last'.op # "read" \/ last'.out # "returned"
  BY <1>1, <1>3, <1>5 DEF WordInv
<1>6. ASSUME NEW j \in Keys, NEW an, ReadScreened(j, an) PROVE WordInv(k, v)'
  <2>1. last'.key = k => store[k] = v
    BY <1>2, <1>6 DEF ReadScreened, Drifted, Answer
  <2>2. last'.out = "returned" => last'.value \in {store[j], Redacted[store[j]]}
    BY <1>6 DEF ReadScreened, Answer
  <2>3. last'.key = j
    BY <1>6 DEF ReadScreened, Answer
  <2> QED
    BY <1>1, <1>3, <2>1, <2>2, <2>3 DEF WordInv
<1> QED
  BY <1>4, <1>5, <1>6, OnlyReadsReturn

\* The same for one key and its first value.
LEMMA OneImmutableKept ==
  ASSUME \A c \in BaselineCalls : c[1] \notin ImmutableExact,
         NEW k \in ImmutableExact, NEW v \in Values
  PROVE  Spec => (store[k] = v =>
            [](last.op = "read" /\ last.key = k /\ last.out = "returned"
                  => last.value \in {v, Redacted[v]}))
<1> DEFINE Word == last.op = "read" /\ last.key = k /\ last.out = "returned"
                     => last.value \in {v, Redacted[v]}
<1>1. Init /\ store[k] = v => WordInv(k, v)
  <2> SUFFICES ASSUME Init, store[k] = v PROVE WordInv(k, v)
    OBVIOUS
  <2>1. k \in Keys
    BY PolicyAssumption
  <2> QED
    BY <2>1, InitType DEF Init, WordInv
<1>2. WordInv(k, v) /\ [Next]_vars => WordInv(k, v)'
  BY StepWord
<1>3. WordInv(k, v) => Word
  BY DEF WordInv
<1> HIDE DEF Word
<1>4. Spec => (store[k] = v => []Word)
  BY <1>1, <1>2, <1>3, PTL DEF Spec
<1> QED
  BY <1>4 DEF Word

\* A literally listed immutable key that is in the store when the guard is built
\* reads as it did then, or not at all, unless a baseline() call says otherwise:
\* whatever is done to the store with the guard or behind its back.
THEOREM ImmutableKept ==
  ASSUME \A c \in BaselineCalls : c[1] \notin ImmutableExact
  PROVE  Spec => ImmutableKeepsItsWord
BY OneImmutableKept DEF ImmutableKeepsItsWord

\* The newest of the ring after a capture is the store.
LEMMA CapturedLast ==
  ASSUME TypeOK, NEW label
  PROVE  Captured(label)[Len(Captured(label))].data = store
<1> DEFINE all == Append(snapshots, Snapshot(label))
<1>1. Len(snapshots) \in Nat /\ snapshots \in Seq(SnapshotType \cup {Snapshot(label)})
  BY DEF TypeOK
<1>2. /\ all \in Seq(SnapshotType \cup {Snapshot(label)})
      /\ Len(all) = Len(snapshots) + 1
      /\ all[Len(all)] = Snapshot(label)
  BY <1>1
<1>3. Snapshot(label).data = store
  BY DEF Snapshot
<1>4. CASE Captured(label) = all
  BY <1>2, <1>3, <1>4
<1>5. CASE Captured(label) = Tail(all) /\ Len(all) > 1
  <2>1. Len(Tail(all)) = Len(all) - 1 /\ Tail(all)[Len(all) - 1] = all[Len(all)]
    BY <1>1, <1>2, <1>5
  <2> QED
    BY <1>2, <1>3, <1>5, <2>1
<1>6. Captured(label) = all \/ (Captured(label) = Tail(all) /\ Len(all) > 1)
  BY <1>1, <1>2, PolicyAssumption DEF Captured
<1> HIDE DEF all
<1> QED
  BY <1>4, <1>5, <1>6

\* What a retirement removes is in the newest snapshot, even of a full ring.
THEOREM RetirementsCaptured == Spec => RetiredIsCaptured
<1> DEFINE Kept == last'.op = "retire" =>
                     \A k \in Keys : Stored(k) /\ store'[k] = NoValue =>
                         snapshots'[Len(snapshots')].data[k] = store[k]
<1>1. ASSUME TypeOK, NEW chosen \in RetireCalls, Retire(chosen) PROVE Kept
  <2>1. snapshots'[Len(snapshots')].data = store
    BY <1>1, CapturedLast DEF Retire
  <2> QED
    BY <2>1
<1>2. ASSUME Next, \A chosen \in RetireCalls : ~Retire(chosen) PROVE last'.op # "retire"
  <2>1. ASSUME NEW r \in WriteCalls, Write(r) PROVE last'.op # "retire"
    BY <2>1 DEF Write, WriteReclassifying, WriteBlocked, WriteCyclic, WriteLaundered,
                WriteQuarantined, WriteCommitted, Answer
  <2>2. ASSUME NEW k \in Keys, Read(k) \/ DeleteProtected(k) \/ DeleteEntry(k)
        PROVE  last'.op # "retire"
    BY <2>2 DEF Read, ReadMissing, ReadDrifted, ReadScreened, DeleteProtected,
                DeleteEntry, Answer
  <2>3. ASSUME NEW p \in PromoteCalls, Promote(p) PROVE last'.op # "retire"
    BY <2>3 DEF Promote, PromoteRefused, PromoteAlready, PromoteMoves, Answer
  <2>4. ASSUME NEW c \in BaselineCalls, Baseline(c[1], c[2]) PROVE last'.op # "retire"
    BY <2>4 DEF Baseline, BaselineMissing, BaselineSet, Answer
  <2>5. ASSUME NEW l \in Labels, TakeSnapshot(l) PROVE last'.op # "retire"
    BY <2>5 DEF TakeSnapshot, Answer
  <2>6. CASE Rollback
    BY <2>6 DEF Rollback, RollbackNone, RollbackTo, Answer
  <2>7. ASSUME NEW c \in AuthorizeCalls, Authorize(c) PROVE last'.op # "retire"
    BY <2>7 DEF Authorize, Answer
  <2>8. ASSUME NEW t \in Tasks \cup {NoTask}, SetCurrentTask(t) PROVE last'.op # "retire"
    BY <2>8 DEF SetCurrentTask, Answer
  <2>9. ASSUME NEW c \in Tampers, Tamper(c[1], c[2]) PROVE last'.op # "retire"
    BY <2>9 DEF Tamper, Answer
  <2> QED
    BY <1>2, <2>1, <2>2, <2>3, <2>4, <2>5, <2>6, <2>7, <2>8, <2>9 DEF Next
<1>3. TypeOK /\ [Next]_vars => [Kept]_vars
  BY <1>1, <1>2
<1>4. TypeOK /\ [Next]_vars => TypeOK'
  BY StepType
<1> QED
  BY <1>3, <1>4, InitType, PTL DEF Spec, RetiredIsCaptured

\* No edge of the promotion graph ends in a preference without the opt-in.
LEMMA PreferenceEdges ==
  ASSUME NEW c, NEW e \in EdgesBetween(c, "verified_preference")
  PROVE  e.requires_verification
BY DEF EdgesBetween, DEFAULT_PROMOTION_GRAPH, PromotionEdge

\* A classified key becomes a preference only by a verified promotion of it.
THEOREM PreferenceAsked == Spec => PreferenceNeedsOptIn
<1> DEFINE Asked ==
      \A k \in Keys :
          class[k] \notin {NoClass, "verified_preference"}
              /\ class'[k] = "verified_preference"
          => last'.op = "promote" /\ last'.key = k /\ last'.value = TRUE
<1>1. TypeOK /\ Next => Asked
  <2> SUFFICES ASSUME TypeOK, Next, NEW k \in Keys,
                      class[k] \notin {NoClass, "verified_preference"},
                      class'[k] = "verified_preference"
               PROVE  last'.op = "promote" /\ last'.key = k /\ last'.value = TRUE
    OBVIOUS
  <2>1. ~UNCHANGED class
    OBVIOUS
  <2>2. ASSUME NEW r \in WriteCalls, Write(r) PROVE FALSE
    <3>1. PICK an : WriteCommitted(r, an)
      BY <2>1, <2>2 DEF Write, WriteReclassifying, WriteBlocked, WriteCyclic,
         WriteLaundered, WriteQuarantined, guardVars
    <3> QED
      BY <3>1 DEF WriteCommitted, Accepted, Reclassifies, TypeOK
  <2>3. ASSUME NEW S, Drop(S) PROVE FALSE
    BY <2>3 DEF Drop, TypeOK, NoClass
  <2>4. ASSUME NEW j \in Keys, Read(j) \/ DeleteProtected(j) \/ DeleteEntry(j) PROVE FALSE
    BY <2>1, <2>3, <2>4 DEF Read, ReadMissing, ReadDrifted, ReadScreened,
       DeleteProtected, DeleteEntry, guardVars
  <2>5. ASSUME NEW chosen \in RetireCalls, Retire(chosen) PROVE FALSE
    BY <2>3, <2>5 DEF Retire
  <2>6. ASSUME NEW p \in PromoteCalls, Promote(p)
        PROVE  last'.op = "promote" /\ last'.key = k /\ last'.value = TRUE
    <3>1. PromoteMoves(p)
      BY <2>1, <2>6 DEF Promote, PromoteRefused, PromoteAlready, guardVars
    <3>2. p.key \in Keys /\ p.verified \in BOOLEAN
      BY CallsAssumption DEF PromoteCall
    <3>3. p.key = k /\ p.target = "verified_preference"
      BY <3>1, <3>2 DEF PromoteMoves, TypeOK
    <3>4. p.verified = TRUE
      BY <3>1, <3>2, <3>3, PreferenceEdges DEF PromoteMoves
    <3> QED
      BY <3>1, <3>3, <3>4 DEF PromoteMoves, Answer
  <2>7. ~Rollback
    BY <2>1 DEF Rollback, RollbackNone, RollbackTo, guardVars
  <2>8. /\ \A c \in BaselineCalls : ~Baseline(c[1], c[2])
        /\ \A l \in Labels : ~TakeSnapshot(l)
        /\ \A c \in AuthorizeCalls : ~Authorize(c)
        /\ \A t \in Tasks \cup {NoTask} : ~SetCurrentTask(t)
        /\ \A c \in Tampers : ~Tamper(c[1], c[2])
    BY <2>1 DEF Baseline, BaselineMissing, BaselineSet, TakeSnapshot, Authorize,
       SetCurrentTask, Tamper, guardVars
  <2> QED
    BY <2>2, <2>4, <2>5, <2>6, <2>7, <2>8 DEF Next
<1>2. TypeOK /\ [Next]_vars => [Asked]_vars
  BY <1>1
<1>3. TypeOK /\ [Next]_vars => TypeOK'
  BY StepType
<1> QED
  BY <1>2, <1>3, InitType, PTL DEF Spec, PreferenceNeedsOptIn

\* What the adapters built on GuardFacade need of the guard's answers: a write of
\* an injection is never answered allow or redact, a write of a secret never
\* allow, and what an accepted write is redacted to has neither.  Whatever the
\* detectors of sizes, rates and sources report besides (the policy's evaluate
\* and write of guard.py).
THEOREM AnswersHold ==
  ASSUME InjectionsHeld, SecretsNotAllowed, RedactionCleans, NEW k \in Keys, NEW v \in Values
  PROVE  /\ Injected(v) => FacadeWriteAnswers[k][v] \cap {"allow", "redact"} = {}
         /\ Sensitive(v) => "allow" \notin FacadeWriteAnswers[k][v]
         /\ "redact" \in FacadeWriteAnswers[k][v]
               => ~Sensitive(Redacted[v]) /\ ~Injected(Redacted[v])
<1>1. ASSUME NEW out \in FacadeWriteAnswers[k][v], out \in {"allow", "redact"}
      PROVE  \E findings : Content[v] \subseteq findings /\ out = Decision(findings, k)
  <2>1. PICK fs \in SUBSET Anomalies :
           out = Decision(Content[v] \cup ProtectedFinding("write", k) \cup fs, k)
    BY <1>1 DEF FacadeWriteAnswers
  <2> QED
    BY <2>1
<1>2. Injected(v) => FacadeWriteAnswers[k][v] \cap {"allow", "redact"} = {}
  <2> SUFFICES ASSUME NEW f \in Content[v], f.detector = "prompt_injection",
                      NEW out \in FacadeWriteAnswers[k][v], out \in {"allow", "redact"}
               PROVE  FALSE
    BY DEF Injected
  <2>1. PICK findings : Content[v] \subseteq findings /\ out = Decision(findings, k)
    BY <1>1
  <2>2. Decide(f, k) \in {"block", "quarantine"}
    BY DEF InjectionsHeld
  <2> QED
    BY <2>1, <2>2, DecisionBlocks
<1>3. Sensitive(v) => "allow" \notin FacadeWriteAnswers[k][v]
  <2> SUFFICES ASSUME NEW f \in Content[v], f.detector = "sensitive_data",
                      "allow" \in FacadeWriteAnswers[k][v]
               PROVE  FALSE
    BY DEF Sensitive
  <2>1. PICK findings : Content[v] \subseteq findings /\ "allow" = Decision(findings, k)
    BY <1>1
  <2>2. Decide(f, k) # "allow"
    BY DEF SecretsNotAllowed
  <2> QED
    BY <2>1, <2>2, DecisionBlocks
<1> QED
  BY <1>2, <1>3 DEF RedactionCleans

=============================================================================
