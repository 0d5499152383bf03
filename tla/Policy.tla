------------------------------- MODULE Policy -------------------------------
(***************************************************************************)
(* policies/policy.py and the escalation of guard.py: rules are tried in   *)
(* order for each finding, the first that applies gives its action, and a  *)
(* call takes the most severe action among its findings.  A glob pattern   *)
(* is the set of keys it matches (fnmatch is the standard library's).      *)
(***************************************************************************)
EXTENDS Integers, Sequences, FiniteSetsExt

CONSTANTS
    Rules,           \* Policy.rules, a sequence of rules
    DefaultAction    \* Policy.default_action

\* events.py: Action, ranked by _ACTION_RANK; Severity, by _SEVERITY_ORDER.
Action == {"allow", "redact", "quarantine", "block"}

ActionRank ==
    [a \in Action |->
        CASE a = "allow" -> 0 [] a = "redact" -> 1
          [] a = "quarantine" -> 2 [] a = "block" -> 3]

SevInfo     == 0
SevLow      == 1
SevMedium   == 2
SevHigh     == 3
SevCritical == 4
Severity == SevInfo .. SevCritical

Detector == {"prompt_injection", "long_horizon", "sensitive_data", "size_anomaly",
             "rapid_change", "protected_key", "cross_task_contamination",
             "self_reinforcement"}

\* A DetectionResult with matched=True, less its wording.
Finding == [detector : Detector, severity : Severity]

Found(detector, severity) == [detector |-> detector, severity |-> severity]

\* PolicyRule: on = "*" is any detector, keys = {} any key.
Rule(on, action) ==
    [on |-> on, action |-> action, min_severity |-> SevLow, keys |-> {}]

ScopedRule(on, action, pattern) ==
    [Rule(on, action) EXCEPT !.keys = {pattern}]

AppliesTo(rule, finding, key) ==
    /\ rule.on \in {"*", finding.detector}
    /\ finding.severity >= rule.min_severity
    /\ rule.keys = {} \/ \E pattern \in rule.keys : key \in pattern

\* Policy.decide: the first rule that applies, else the default action.
Decide(finding, key) ==
    LET applying == { i \in DOMAIN Rules : AppliesTo(Rules[i], finding, key) }
    IN  IF applying = {} THEN DefaultAction ELSE Rules[Min(applying)].action

\* Mutant: the comparison of _escalate the wrong way round.
DecisionLowest(findings, key) ==
    LET chosen == {"allow"} \cup { Decide(f, key) : f \in findings }
    IN  CHOOSE a \in chosen : \A b \in chosen : ActionRank[a] <= ActionRank[b]

\* MemoryGuard._decide with _escalate: the highest action of the findings.
Decision(findings, key) ==
    LET chosen == {"allow"} \cup { Decide(f, key) : f \in findings }
    IN  CHOOSE a \in chosen : \A b \in chosen : ActionRank[b] <= ActionRank[a]

ASSUME RulesAssumption ==
    /\ DefaultAction \in Action
    /\ DOMAIN Rules \subseteq Nat
    /\ \A i \in DOMAIN Rules : Rules[i].action \in Action

-----------------------------------------------------------------------------
\* Policy.strict
StrictRules ==
    << Rule("prompt_injection", "block"),
       Rule("long_horizon", "block"),
       Rule("sensitive_data", "redact"),
       Rule("protected_key", "block"),
       Rule("size_anomaly", "quarantine"),
       Rule("rapid_change", "quarantine") >>

\* Policy.tiered, for the keys each of its namespaces matches.
TieredRules(ns) ==
    << ScopedRule("prompt_injection", "block", ns.credentials),
       ScopedRule("sensitive_data", "block", ns.credentials),
       ScopedRule("prompt_injection", "block", ns.permissions),
       ScopedRule("sensitive_data", "block", ns.permissions),
       ScopedRule("prompt_injection", "block", ns.policies),
       ScopedRule("prompt_injection", "quarantine", ns.facts),
       ScopedRule("size_anomaly", "quarantine", ns.facts),
       ScopedRule("sensitive_data", "redact", ns.preferences),
       ScopedRule("prompt_injection", "block", ns.tool_results),
       ScopedRule("size_anomaly", "quarantine", ns.tool_results),
       ScopedRule("size_anomaly", "quarantine", ns.scratch),
       Rule("prompt_injection", "block"),
       Rule("sensitive_data", "redact"),
       Rule("protected_key", "block"),
       Rule("size_anomaly", "quarantine"),
       Rule("rapid_change", "quarantine") >>

TieredProtected(ns) ==
    ns.credentials \cup ns.permissions \cup ns.policies \cup ns.facts

=============================================================================
