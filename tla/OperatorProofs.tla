--------------------------- MODULE OperatorProofs ---------------------------
(***************************************************************************)
(* What the operators of Policy and Lineage guarantee, for any rules and   *)
(* any set of keys: the first rule that applies decides a finding and a    *)
(* call gets the most severe action of its findings; assess returns a      *)
(* level no higher than its base and than any parent's, and record never   *)
(* closes a cycle.                                                         *)
(***************************************************************************)
EXTENDS Policy, Lineage, TLAPS, WellFoundedInduction

-----------------------------------------------------------------------------
(* Policy *)

\* A non-empty set of naturals has a least element, and Min returns it.
LEMMA MinNat ==
  ASSUME NEW S \in SUBSET Nat, S # {}
  PROVE  Min(S) \in S /\ \A x \in S : Min(S) <= x
<1> DEFINE R == { ss \in Nat \X Nat : ss[1] < ss[2] }
<1>1. IsWellFoundedOn(R, Nat)
  BY NatLessThanWellFounded DEF OpToRel
<1>2. PICK m \in S : \A x \in S : <<x, m>> \notin R
  BY <1>1, WFMin
<1>3. \A x \in S : m <= x
  <2> SUFFICES ASSUME NEW x \in S PROVE m <= x
    OBVIOUS
  <2>1. ~(x < m)
    BY <1>2
  <2> QED
    BY <2>1
<1> QED
  BY <1>3 DEF Min

LEMMA DecideType ==
  ASSUME NEW f, NEW k
  PROVE  Decide(f, k) \in Action
<1> DEFINE applying == { i \in DOMAIN Rules : AppliesTo(Rules[i], f, k) }
<1>1. applying # {} => Min(applying) \in DOMAIN Rules
  BY RulesAssumption, MinNat
<1> QED
  BY <1>1, RulesAssumption DEF Decide

\* The rules before the first that applies do not matter, nor do those after.
LEMMA FirstRuleWins ==
  ASSUME NEW f, NEW k, NEW i \in DOMAIN Rules, AppliesTo(Rules[i], f, k),
         \A j \in DOMAIN Rules : j < i => ~AppliesTo(Rules[j], f, k)
  PROVE  Decide(f, k) = Rules[i].action
<1> DEFINE applying == { j \in DOMAIN Rules : AppliesTo(Rules[j], f, k) }
<1>1. i \in applying /\ applying \in SUBSET Nat
  BY RulesAssumption
<1>2. Min(applying) \in applying /\ Min(applying) <= i
  BY <1>1, MinNat
<1>3. Min(applying) = i
  BY <1>1, <1>2
<1> QED
  BY <1>1, <1>3 DEF Decide

\* The answer is one of the actions decided (or allow), and none outranks it.
LEMMA DecisionHighest ==
  ASSUME NEW findings, NEW k
  PROVE  /\ Decision(findings, k) \in {"allow"} \cup { Decide(f, k) : f \in findings }
         /\ Decision(findings, k) \in Action
         /\ \A f \in findings :
               ActionRank[Decide(f, k)] <= ActionRank[Decision(findings, k)]
<1> DEFINE chosen == {"allow"} \cup { Decide(f, k) : f \in findings }
           Highest(a) == \A b \in chosen : ActionRank[b] <= ActionRank[a]
<1>1. chosen \subseteq Action
  BY DecideType DEF Action
<1>2. /\ ActionRank["allow"] = 0 /\ ActionRank["redact"] = 1
      /\ ActionRank["quarantine"] = 2 /\ ActionRank["block"] = 3
      /\ Action = {"allow", "redact", "quarantine", "block"}
  BY DEF ActionRank, Action
<1>3. \E a \in chosen : Highest(a)
  <2>1. CASE "block" \in chosen
    BY <2>1, <1>1, <1>2
  <2>2. CASE "block" \notin chosen /\ "quarantine" \in chosen
    BY <2>2, <1>1, <1>2
  <2>3. CASE "block" \notin chosen /\ "quarantine" \notin chosen /\ "redact" \in chosen
    BY <2>3, <1>1, <1>2
  <2>4. CASE chosen \subseteq {"allow"}
    BY <2>4, <1>2
  <2> QED
    BY <2>1, <2>2, <2>3, <2>4, <1>1, <1>2
<1>4. Decision(findings, k) = CHOOSE a \in chosen : Highest(a)
  BY DEF Decision
<1>5. Decision(findings, k) \in chosen /\ Highest(Decision(findings, k))
  BY <1>3, <1>4
<1> QED
  BY <1>1, <1>5

\* One finding to block is enough, one to hold back (block or quarantine) lets
\* nothing be committed, and nothing but block, quarantine or redact comes of a
\* finding that is to be at least redacted.
LEMMA DecisionBlocks ==
  ASSUME NEW findings, NEW k, NEW f \in findings
  PROVE  /\ Decide(f, k) = "block" => Decision(findings, k) = "block"
         /\ Decide(f, k) \in {"block", "quarantine"}
              => Decision(findings, k) \in {"block", "quarantine"}
         /\ Decide(f, k) # "allow" => Decision(findings, k) # "allow"
<1>1. /\ ActionRank["allow"] = 0 /\ ActionRank["redact"] = 1
      /\ ActionRank["quarantine"] = 2 /\ ActionRank["block"] = 3
  BY DEF ActionRank, Action
<1>2. Decide(f, k) \in {"allow", "redact", "quarantine", "block"}
  BY DecideType DEF Action
<1>3. Decision(findings, k) \in {"allow", "redact", "quarantine", "block"}
  BY DecisionHighest DEF Action
<1>4. ActionRank[Decide(f, k)] <= ActionRank[Decision(findings, k)]
  BY DecisionHighest
<1> QED
  BY <1>1, <1>2, <1>3, <1>4

\* More findings never lower the decision: what a detector adds cannot undo what
\* another asked for, and a detector that raises and is skipped
\* (_run_detectors) can only make the guard more lenient, never stricter.
THEOREM DecisionMonotone ==
  ASSUME NEW findings, NEW more, findings \subseteq more, NEW k
  PROVE  ActionRank[Decision(findings, k)] <= ActionRank[Decision(more, k)]
<1>1. ActionRank["allow"] = 0 /\ \A a \in Action : ActionRank[a] \in Nat
  BY DEF ActionRank, Action
<1>2. Decision(more, k) \in Action
  BY DecisionHighest
<1>3. \A f \in findings : ActionRank[Decide(f, k)] <= ActionRank[Decision(more, k)]
  BY DecisionHighest
<1>4. Decision(findings, k) \in {"allow"} \cup { Decide(f, k) : f \in findings }
  BY DecisionHighest
<1> QED
  BY <1>1, <1>2, <1>3, <1>4

\* When some rule applies, the decision is one of the applying rules' actions.
LEMMA DecideAmong ==
  ASSUME NEW f, NEW k, NEW S,
         \E i \in DOMAIN Rules : AppliesTo(Rules[i], f, k),
         \A i \in DOMAIN Rules : AppliesTo(Rules[i], f, k) => Rules[i].action \in S
  PROVE  Decide(f, k) \in S
<1> DEFINE applying == { i \in DOMAIN Rules : AppliesTo(Rules[i], f, k) }
<1>1. applying # {} /\ Min(applying) \in applying
  BY RulesAssumption, MinNat
<1> QED
  BY <1>1 DEF Decide

\* Policy.tiered holds back injections under every key (blocked, or quarantined
\* where the facts namespace comes first), never lets a secret through as it is,
\* and blocks writes to protected keys, whatever its namespaces match.
THEOREM TieredDecides ==
  ASSUME NEW ns, Rules = TieredRules(ns), NEW k, NEW f \in Finding,
         f.severity >= SevLow
  PROVE  /\ f.detector = "prompt_injection" => Decide(f, k) \in {"block", "quarantine"}
         /\ f.detector = "prompt_injection" /\ k \notin ns.facts
              => Decide(f, k) = "block"
         /\ f.detector = "sensitive_data" => Decide(f, k) \in {"block", "redact"}
         /\ f.detector = "protected_key" => Decide(f, k) = "block"
<1> DEFINE injections == {1, 3, 5, 6, 9, 12}
           secrets == {2, 4, 8, 13}
<1>1. ASSUME NEW on, NEW act, NEW pattern
      PROVE  /\ Rule(on, act).on = on /\ Rule(on, act).action = act
             /\ Rule(on, act).keys = {} /\ Rule(on, act).min_severity = SevLow
             /\ ScopedRule(on, act, pattern).on = on
             /\ ScopedRule(on, act, pattern).action = act
             /\ ScopedRule(on, act, pattern).keys = {pattern}
  BY DEF Rule, ScopedRule
<1>2. /\ DOMAIN Rules = 1 .. 16
      /\ Rules[1] = ScopedRule("prompt_injection", "block", ns.credentials)
      /\ Rules[2] = ScopedRule("sensitive_data", "block", ns.credentials)
      /\ Rules[3] = ScopedRule("prompt_injection", "block", ns.permissions)
      /\ Rules[4] = ScopedRule("sensitive_data", "block", ns.permissions)
      /\ Rules[5] = ScopedRule("prompt_injection", "block", ns.policies)
      /\ Rules[6] = ScopedRule("prompt_injection", "quarantine", ns.facts)
      /\ Rules[7] = ScopedRule("size_anomaly", "quarantine", ns.facts)
      /\ Rules[8] = ScopedRule("sensitive_data", "redact", ns.preferences)
  BY DEF TieredRules
<1>3. /\ Rules[9] = ScopedRule("prompt_injection", "block", ns.tool_results)
      /\ Rules[10] = ScopedRule("size_anomaly", "quarantine", ns.tool_results)
      /\ Rules[11] = ScopedRule("size_anomaly", "quarantine", ns.scratch)
      /\ Rules[12] = Rule("prompt_injection", "block")
      /\ Rules[13] = Rule("sensitive_data", "redact")
      /\ Rules[14] = Rule("protected_key", "block")
      /\ Rules[15] = Rule("size_anomaly", "quarantine")
      /\ Rules[16] = Rule("rapid_change", "quarantine")
  BY DEF TieredRules
<1>4. ASSUME NEW i \in 1 .. 16
      PROVE  /\ Rules[i].on # "*"
             /\ Rules[i].on = "prompt_injection" => i \in injections
             /\ Rules[i].on = "sensitive_data" => i \in secrets
             /\ Rules[i].on = "protected_key" => i = 14
  <2>1. i \in 1 .. 8 \/ i \in 9 .. 16
    OBVIOUS
  <2>2. CASE i \in 1 .. 8
    <3>1. i \in {1, 2, 3, 4, 5, 6, 7, 8}
      BY <2>2
    <3> QED
      BY <3>1, <1>1, <1>2
  <2>3. CASE i \in 9 .. 16
    <3>1. i \in {9, 10, 11, 12, 13, 14, 15, 16}
      BY <2>3
    <3> QED
      BY <3>1, <1>1, <1>3
  <2> QED
    BY <2>1, <2>2, <2>3
<1>5. ASSUME NEW i \in 1 .. 16, AppliesTo(Rules[i], f, k) PROVE Rules[i].on = f.detector
  BY <1>4, <1>5 DEF AppliesTo
<1>6. ASSUME NEW i \in {12, 13, 14}, Rules[i].on = f.detector
      PROVE  AppliesTo(Rules[i], f, k)
  <2>1. Rules[i].keys = {} /\ Rules[i].min_severity = SevLow
    BY <1>1, <1>3
  <2> QED
    BY <2>1, <1>6 DEF AppliesTo
<1>7. /\ \A i \in injections : Rules[i].action \in {"block", "quarantine"}
      /\ \A i \in injections \ {6} : Rules[i].action = "block"
      /\ \A i \in secrets : Rules[i].action \in {"block", "redact"}
      /\ Rules[14].action = "block"
  BY <1>1, <1>2, <1>3
<1>8. /\ Rules[12].on = "prompt_injection"
       /\ Rules[13].on = "sensitive_data"
       /\ Rules[14].on = "protected_key"
  <2>1. Rules[12].on = "prompt_injection"
    BY <1>1, <1>3
  <2>2. Rules[13].on = "sensitive_data"
    <3>1. Rules[13] = Rule("sensitive_data", "redact")
      BY <1>3
    <3> QED
      BY <3>1 DEF Rule
  <2>3. Rules[14].on = "protected_key"
    <3>1. Rules[14] = Rule("protected_key", "block")
      BY <1>3
    <3> QED
      BY <3>1 DEF Rule
  <2> QED
    BY <2>1, <2>2, <2>3
<1>9. CASE f.detector = "prompt_injection"
  <2>1. Rules[12].on = f.detector
    BY <1>9, <1>8
  <2>2. \E i \in DOMAIN Rules : AppliesTo(Rules[i], f, k)
    BY <1>2, <1>6, <2>1
  <2>3. \A i \in 1 .. 16 : AppliesTo(Rules[i], f, k) => i \in injections
    BY <1>4, <1>5, <1>9
  <2>4. \A i \in DOMAIN Rules : AppliesTo(Rules[i], f, k)
                                  => Rules[i].action \in {"block", "quarantine"}
    BY <1>2, <1>7, <2>3
  <2>5. Decide(f, k) \in {"block", "quarantine"}
    BY <2>2, <2>4, DecideAmong
  <2>6. ASSUME k \notin ns.facts PROVE Decide(f, k) \in {"block"}
    <3>1. ~AppliesTo(Rules[6], f, k)
      BY <1>1, <1>2, <2>6 DEF AppliesTo
    <3>2. \A i \in DOMAIN Rules : AppliesTo(Rules[i], f, k)
                                    => Rules[i].action \in {"block"}
      BY <1>2, <1>7, <2>3, <3>1
    <3> QED
      BY <2>2, <3>2, DecideAmong
  <2> QED
    BY <1>9, <2>5, <2>6
<1>10. CASE f.detector = "sensitive_data"
  <2>1. Rules[13].on = f.detector
    BY <1>10, <1>8
  <2>2. \E i \in DOMAIN Rules : AppliesTo(Rules[i], f, k)
    BY <1>2, <1>6, <2>1
  <2>3. \A i \in DOMAIN Rules : AppliesTo(Rules[i], f, k)
                                  => Rules[i].action \in {"block", "redact"}
    BY <1>2, <1>4, <1>5, <1>7, <1>10
  <2>4. Decide(f, k) \in {"block", "redact"}
    BY <2>2, <2>3, DecideAmong
  <2> QED
    BY <1>10, <2>4
<1>11. CASE f.detector = "protected_key"
  <2>1. Rules[14].on = f.detector
    BY <1>11, <1>8
  <2>2. \E i \in DOMAIN Rules : AppliesTo(Rules[i], f, k)
    BY <1>2, <1>6, <2>1
  <2>3. \A i \in DOMAIN Rules : AppliesTo(Rules[i], f, k)
                                  => Rules[i].action \in {"block"}
    BY <1>2, <1>4, <1>5, <1>7, <1>11
  <2>4. Decide(f, k) \in {"block"}
    BY <2>2, <2>3, DecideAmong
  <2> QED
    BY <1>11, <2>4
<1> QED
  BY <1>9, <1>10, <1>11

\* Policy.strict blocks injections and writes to protected keys, and redacts
\* secrets, whatever the key.
THEOREM StrictDecides ==
  ASSUME Rules = StrictRules, NEW k, NEW f \in Finding, f.severity >= SevLow
  PROVE  /\ f.detector \in {"prompt_injection", "long_horizon", "protected_key"}
              => Decide(f, k) = "block"
         /\ f.detector = "sensitive_data" => Decide(f, k) = "redact"
<1>1. /\ DOMAIN Rules = 1 .. 6
      /\ Rules[1] = Rule("prompt_injection", "block")
      /\ Rules[2] = Rule("long_horizon", "block")
      /\ Rules[3] = Rule("sensitive_data", "redact")
      /\ Rules[4] = Rule("protected_key", "block")
  BY DEF StrictRules
<1>2. ASSUME NEW on, NEW act
      PROVE  /\ Rule(on, act).on = on /\ Rule(on, act).action = act
             /\ Rule(on, act).keys = {} /\ Rule(on, act).min_severity = SevLow
  BY DEF Rule
<1>3. \A i \in 1 .. 4 : AppliesTo(Rules[i], f, k) <=> Rules[i].on = f.detector
  <2> SUFFICES ASSUME NEW i \in 1 .. 4
               PROVE  AppliesTo(Rules[i], f, k) <=> Rules[i].on = f.detector
    OBVIOUS
  <2>1. i \in {1, 2, 3, 4}
    OBVIOUS
  <2>2. /\ Rules[i].keys = {} /\ Rules[i].min_severity = SevLow
        /\ Rules[i].on # "*"
    BY <1>1, <1>2, <2>1
  <2> QED
    BY <2>2 DEF AppliesTo
<1>4. CASE f.detector = "prompt_injection"
  BY <1>4, <1>1, <1>2, <1>3, FirstRuleWins
<1>5. CASE f.detector = "long_horizon"
  BY <1>5, <1>1, <1>2, <1>3, FirstRuleWins
<1>6. CASE f.detector = "sensitive_data"
  BY <1>6, <1>1, <1>2, <1>3, FirstRuleWins
<1>7. CASE f.detector = "protected_key"
  BY <1>7, <1>1, <1>2, <1>3, FirstRuleWins
<1> QED
  BY <1>4, <1>5, <1>6, <1>7

-----------------------------------------------------------------------------
(* Lineage *)

EdgeMap == [Keys -> SUBSET Keys]
TrustMap == [Keys -> TrustLevel]

\* A non-empty set of trust levels has a least element, and Min returns it.
LEMMA MinLevel ==
  ASSUME NEW S \in SUBSET TrustLevel, S # {}
  PROVE  Min(S) \in S /\ \A x \in S : Min(S) <= x
<1>1. TrustLevel = {0, 1, 2, 3, 4}
  BY DEF TrustLevel, UNTRUSTED, VERIFIED
<1>2. \E m \in S : \A x \in S : m <= x
  <2>1. CASE 0 \in S
    BY <1>1, <2>1
  <2>2. CASE 0 \notin S /\ 1 \in S
    BY <1>1, <2>2
  <2>3. CASE S \subseteq {2, 3, 4} /\ 2 \in S
    BY <1>1, <2>3
  <2>4. CASE S \subseteq {3, 4} /\ 3 \in S
    BY <1>1, <2>4
  <2>5. CASE S = {4}
    BY <2>5
  <2>6. S \subseteq {4} => S = {4}
    OBVIOUS
  <2> QED
    BY <1>1, <2>1, <2>2, <2>3, <2>4, <2>5, <2>6
<1> QED
  BY <1>2 DEF Min

\* base_trust is a level, at most HIGH, and HIGH only for a system source;
\* an untrusted class caps it at LOW.
LEMMA BaseTrustBounds ==
  ASSUME NEW s \in SourceClass, NEW cl
  PROVE  /\ BaseTrust(s, cl) \in TrustLevel
         /\ BaseTrust(s, cl) >= HIGH => s = "system"
         /\ BaseTrust(s, cl) <= HIGH
         /\ cl \in UNTRUSTED_CLASSES => BaseTrust(s, cl) <= LOW
BY DEF BaseTrust, SourceClass, SourceClassTrust, TrustLevel, UNTRUSTED, LOW,
       MEDIUM, HIGH, VERIFIED

\* assess never answers more than the base it is given, nor, without
\* verification, more than the trust of any recorded parent.
LEMMA AssessBounds ==
  ASSUME NEW e \in EdgeMap, NEW t \in TrustMap, NEW k \in Keys,
         NEW base \in TrustLevel, NEW verified \in BOOLEAN
  PROVE  /\ Assess(e, t, k, base, verified) \in TrustLevel
         /\ Assess(e, t, k, base, verified) <= base
         /\ ~verified => \A p \in e[k] : Assess(e, t, k, base, verified) <= t[p]
<1> DEFINE S == {base} \cup { t[p] : p \in e[k] }
<1>1. S \in SUBSET TrustLevel /\ S # {}
  BY DEF EdgeMap, TrustMap
<1>2. Min(S) \in S /\ \A x \in S : Min(S) <= x
  BY <1>1, MinLevel
<1>3. base <= base
  BY DEF TrustLevel, UNTRUSTED, VERIFIED
<1>4. CASE verified \/ e[k] = {}
  BY <1>3, <1>4 DEF Assess
<1>5. CASE ~(verified \/ e[k] = {})
  <2>1. Assess(e, t, k, base, verified) = Min(S)
    BY <1>5 DEF Assess
  <2>2. base \in S /\ \A p \in e[k] : t[p] \in S
    OBVIOUS
  <2>3. Min(S) \in TrustLevel
    BY <1>1, <1>2
  <2> QED
    BY <2>1, <2>2, <2>3, <1>2
<1> QED
  BY <1>4, <1>5

LEMMA RecordType ==
  ASSUME NEW e \in EdgeMap, NEW k \in Keys, NEW parents \in Seq(Keys)
  PROVE  Record(e, k, parents) \in EdgeMap
<1>1. { parents[i] : i \in Recordable(e, k, parents) } \subseteq Keys
  BY DEF Recordable
<1> QED
  BY <1>1 DEF Record, EdgeMap

-----------------------------------------------------------------------------
(* Reachability is the least set closed under "parent of". *)

Ancestors(e, k) == { x \in Keys : Reaches(e, k, x) }

LEMMA AncestorsClosed ==
  ASSUME NEW e \in EdgeMap, NEW k \in Keys
  PROVE  /\ e[k] \subseteq Ancestors(e, k)
         /\ ClosedUnder(e, Ancestors(e, k))
BY DEF Ancestors, Reaches, ClosedUnder, EdgeMap

LEMMA AncestorsLeast ==
  ASSUME NEW e \in EdgeMap, NEW k \in Keys, NEW S \in SUBSET Keys,
         e[k] \subseteq S, ClosedUnder(e, S)
  PROVE  Ancestors(e, k) \subseteq S
BY DEF Ancestors, Reaches

\* An ancestor's ancestors are ancestors.
LEMMA AncestorsTransitive ==
  ASSUME NEW e \in EdgeMap, NEW k \in Keys, NEW x \in Ancestors(e, k)
  PROVE  Ancestors(e, x) \subseteq Ancestors(e, k)
<1>1. e[x] \subseteq Ancestors(e, k)
  BY AncestorsClosed DEF ClosedUnder
<1>2. x \in Keys /\ Ancestors(e, k) \in SUBSET Keys
  BY DEF Ancestors
<1> QED
  BY <1>1, <1>2, AncestorsClosed, AncestorsLeast

\* record keeps the graph acyclic: also when it raises halfway, for the edges
\* it has already appended.
THEOREM RecordKeepsAcyclic ==
  ASSUME NEW e \in EdgeMap, NEW c \in Keys, NEW parents \in Seq(Keys), Acyclic(e)
  PROVE  Acyclic(Record(e, c, parents))
<1> DEFINE New == { parents[i] : i \in Recordable(e, c, parents) }
           f == Record(e, c, parents)
           Above == UNION { {p} \cup Ancestors(e, p) : p \in New }
<1>1. f \in EdgeMap /\ \A x \in Keys : f[x] = IF x = c THEN e[c] \cup New ELSE e[x]
  BY RecordType DEF Record, EdgeMap
<1>2. New \subseteq Keys /\ \A p \in New : p # c /\ c \notin Ancestors(e, p)
  <2> SUFFICES ASSUME NEW i \in Recordable(e, c, parents)
               PROVE  /\ parents[i] \in Keys
                      /\ parents[i] # c
                      /\ c \notin Ancestors(e, parents[i])
    OBVIOUS
  <2>1. i \in DOMAIN parents /\ i \in 1 .. i
    BY DEF Recordable
  <2> QED
    BY <2>1 DEF Recordable, ClosesCycle, Ancestors
<1>3. Above \subseteq Keys /\ c \notin Above /\ ClosedUnder(e, Above)
  <2>1. \A p \in New : e[p] \subseteq Above
    BY <1>2, AncestorsClosed
  <2>2. \A p \in New : ClosedUnder(e, Ancestors(e, p))
    BY <1>2, AncestorsClosed
  <2> QED
    BY <2>1, <2>2, <1>2 DEF ClosedUnder, Ancestors
<1>4. ASSUME NEW k \in Keys PROVE ~Reaches(f, k, k)
  <2> DEFINE A == Ancestors(e, k)
             S == IF k = c \/ c \in A THEN A \cup Above ELSE A
  <2>1. k \notin A
    BY DEF Acyclic, Ancestors
  <2>2. S \in SUBSET Keys
    BY <1>3 DEF Ancestors
  <2>3. f[k] \subseteq S
    <3>1. e[k] \subseteq A
      BY AncestorsClosed
    <3>2. k = c => New \subseteq S
      OBVIOUS
    <3> QED
      BY <3>1, <3>2, <1>1
  <2>4. ClosedUnder(f, S)
    <3> SUFFICES ASSUME NEW n \in S PROVE f[n] \subseteq S
      BY DEF ClosedUnder
    <3>1. ClosedUnder(e, A)
      BY AncestorsClosed
    <3>2. e[n] \subseteq S
      BY <3>1, <1>3 DEF ClosedUnder
    <3>3. n = c => New \subseteq S
      BY <1>3, <2>1
    <3> QED
      BY <3>2, <3>3, <2>2, <1>1
  <2>5. k \notin S
    <3>1. CASE k = c
      BY <3>1, <2>1, <1>3
    <3>2. CASE k # c /\ c \in A
      <4> SUFFICES ASSUME k \in Above PROVE FALSE
        BY <2>1
      <4>1. PICK p \in New : k = p \/ k \in Ancestors(e, p)
        OBVIOUS
      <4>2. A \subseteq Ancestors(e, p)
        BY <4>1, <1>2, AncestorsTransitive
      <4> QED
        BY <4>2, <3>2, <1>2
    <3>3. CASE k # c /\ c \notin A
      BY <3>3, <2>1
    <3> QED
      BY <3>1, <3>2, <3>3
  <2> QED
    BY <2>2, <2>3, <2>4, <2>5 DEF Reaches
<1> QED
  BY <1>4 DEF Acyclic

=============================================================================
