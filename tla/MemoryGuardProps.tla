------------------------- MODULE MemoryGuardProps -------------------------
(***************************************************************************)
(* What the guard promises, and what its documentation promises for it.    *)
(***************************************************************************)
EXTENDS MemoryGuard

Author == [source : SourceClass \cup {"nobody"}, receipt : BOOLEAN,
           trust : TrustLevel, task : Tasks \cup {NoTask}, derived : BOOLEAN]

SnapshotType ==
    [label : Labels \cup {"pre-block", "pre-retire"}, data : [Keys -> Entry],
     trust : [Keys -> TrustLevel], class : [Keys -> MemoryClass \cup {NoClass}]]

\* Every dictionary maps keys to values of its kind; the ring of snapshots
\* never outgrows max_snapshots (storage/snapshots.py).
TypeOK ==
    /\ store \in [Keys -> Entry]
    /\ quarantine \in [Keys -> Entry]
    /\ baselines \in [Keys -> Entry]
    /\ class \in [Keys -> MemoryClass \cup {NoClass}]
    /\ originTask \in [Keys -> Tasks \cup {NoTask}]
    /\ currentTask \in Tasks \cup {NoTask}
    /\ edges \in [Keys -> SUBSET Keys]
    /\ trust \in [Keys -> TrustLevel]
    /\ snapshots \in Seq(SnapshotType)
    /\ Len(snapshots) <= MaxSnapshots
    /\ author \in [Keys -> Author]
    /\ outside \in [Keys -> SUBSET Entry]

Sensitive(v) == \E f \in Content[v] : f.detector = "sensitive_data"
Injected(v)  == \E f \in Content[v] : f.detector = "prompt_injection"

WriteAnswered(outs) == last'.op = "write" /\ last'.out \in outs

-----------------------------------------------------------------------------
(* Lineage and trust *)

\* The derivation graph never has a cycle, whatever order derived writes,
\* refused writes and deletions come in (LineageGraph.record).
LineageAcyclic == Acyclic(edges)

\* Trust HIGH or above is only ever held by a key whose latest committed write
\* was a system write with a valid receipt: neither derivation, nor promotion,
\* nor verified=True, nor a quarantined write can produce it.
HighTrustIsAttested ==
    \A k \in Keys :
        trust[k] >= HIGH =>
            /\ author[k].source = "system"
            /\ author[k].receipt

\* No memory fills an argument whose role needs VERIFIED trust (command,
\* credential, approval, payment_destination by default): the gate answers
\* the contract's on_violation in every reachable state.
VerifiedRolesNeverFilled ==
    \A c \in AuthorizeCalls : \A n \in DOMAIN c.args \cap DOMAIN c.arguments :
        (/\ c.args[n].key # NoKey
         /\ c.arguments[n].role \in AUTHORITY_ROLES
         /\ Required(c.arguments[n]) = VERIFIED)
            => Authorization(c) = c.on_violation

\* When a derived, unverified write is committed its trust is at most that of
\* every parent ever recorded for the key, not only of the ones it names.
DerivedWithinParents ==
    [][\A k \in Keys :
          WriteAnswered({"allow", "redact"}) /\ last'.key = k /\ author'[k].derived
              => \A p \in edges'[k] : trust'[k] <= trust[p]]_vars

\* A key in an untrusted class has at most LOW trust, through rewrites,
\* promotions, laundering attempts and rollbacks (lineage.base_trust).
UntrustedClassCapped ==
    \A k \in Keys : class[k] \in UNTRUSTED_CLASSES => trust[k] <= LOW

-----------------------------------------------------------------------------
(* Classification *)

\* Retrieved facts and tool observations never become policy or a preference
\* while the key lives: neither a write nor any chain of promotions does it
\* (classification.py, DEFAULT_PROMOTION_GRAPH).
UntrustedNeverElevated ==
    [][\A k \in Keys : class[k] \in UNTRUSTED_CLASSES =>
          class'[k] \in UNTRUSTED_CLASSES \cup {NoClass}]_vars

\* A classified key turns into a verified preference only by a promotion the
\* user has verified (MemoryGuard.promote's opt-in step).
PreferenceNeedsOptIn ==
    [][\A k \in Keys :
          class[k] \notin {NoClass, "verified_preference"}
              /\ class'[k] = "verified_preference"
          => last'.op = "promote" /\ last'.key = k /\ last'.value = TRUE]_vars

-----------------------------------------------------------------------------
(* Screening: these hold under a policy that blocks protected keys and      *)
(* injections and redacts secrets, such as Policy.strict.                   *)

\* A protected key only ever has contents it was given from outside the guard:
\* no write, deletion, retirement, promotion or rollback changes what it says.
ProtectedFromGuard ==
    \A k \in ProtectedKeys : store[k] \in outside[k]

\* The guard never plants a secret or an injection in the store: a value with
\* such a finding was put under that very key from outside.
NoUnsafeCommit ==
    \A k \in Keys :
        Stored(k) /\ (Sensitive(store[k]) \/ Injected(store[k]))
            => store[k] \in outside[k]

\* No read returns an injection, even one that came into the store without the
\* guard; and a secret is only ever returned under a key that was given it from
\* outside, never one that a write or a rollback carried there.
ReadReturnsSafe ==
    last.op = "read" /\ last.out = "returned" =>
        /\ ~Injected(last.value)
        /\ Sensitive(last.value) => last.value \in outside[last.key]

-----------------------------------------------------------------------------
(* Integrity, retirement *)

\* Once an immutable key has a baseline only an explicit baseline() call
\* changes it: no deletion, retirement or rewrite forgets it.
BaselineStable ==
    [][\A k \in ImmutableExact :
          baselines[k] # NoValue /\ baselines'[k] # baselines[k]
              => last'.op = "baseline"]_vars

\* Reads of a literally listed immutable key return the value it had when the
\* guard was built (or its redaction) or nothing at all, whatever was done to
\* the store from outside, and whatever was written, deleted, retired or rolled
\* back (no baseline() call re-bases it here).
ImmutableKeepsItsWord ==
    \A k \in ImmutableExact : \A v \in Values :
        store[k] = v =>
            [](last.op = "read" /\ last.key = k /\ last.out = "returned"
                  => last.value \in {v, Redacted[v]})

\* retire_if captures before it removes: what it removes is in the newest
\* snapshot, even when the ring was full.
RetiredIsCaptured ==
    [][last'.op = "retire" =>
          \A k \in Keys : Stored(k) /\ store'[k] = NoValue =>
              snapshots'[Len(snapshots')].data[k] = store[k]]_vars

-----------------------------------------------------------------------------
(* What the documentation says and the code does not do *)

\* read(): outbound leakage is screened, so under a policy that redacts secrets
\* no read returns one.
ReadNeverLeaks ==
    last.op = "read" /\ last.out = "returned" => ~Sensitive(last.value)

-----------------------------------------------------------------------------
(* The guard as its callers see it *)

\* What a write of v to k may be answered.
FacadeWriteAnswers ==
    [k \in Keys |-> [v \in Values |->
        {"class_error", "lineage_error", "quarantine"} \cup
        { Decision(Content[v] \cup ProtectedFinding("write", k) \cup fs, k) :
            fs \in SUBSET Anomalies }]]

\* What a read that finds v under k may be answered: a decision to quarantine
\* lets it through.
FacadeReadAnswers ==
    LET others == Anomalies \cup {Found("cross_task_contamination", SevHigh)}
        Through(d) == IF d = "quarantine" THEN "allow" ELSE d
    IN  [k \in Keys |-> [v \in Values |->
            {"integrity_error"} \cup
            { Through(Decision(Content[v] \cup fs, k)) : fs \in SUBSET others }]]

Facade == INSTANCE GuardFacade WITH
    WriteAnswers <- FacadeWriteAnswers, ReadAnswers <- FacadeReadAnswers,
    Undeletable <- ProtectedKeys

\* The guard implements GuardFacade: a call that raises or is held back changes
\* nothing in the store, a committed write changes its own key alone, to its
\* value or the redaction of it as answered, and a read gives what is stored
\* or its redaction (write, read and delete of guard.py).
ImplementsFacade == Facade!Spec

=============================================================================
