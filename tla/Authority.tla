----------------------------- MODULE Authority -----------------------------
(***************************************************************************)
(* The use-time gate of authority.py: which trust an argument of a tool    *)
(* call needs before memory may fill it.  A contract is a record           *)
(* [arguments, on_violation]; arguments maps some argument names to rules  *)
(* [role, min_trust].                                                      *)
(***************************************************************************)
EXTENDS Lineage

\* None, where a trust level is expected: below every level, as evaluate
\* treats it (an argument without provenance is a violation whatever its
\* rule requires).
NoTrust == -1

ALL_ROLES == {"content", "target", "recipient", "url", "path", "command",
              "credential", "selector", "control", "approval",
              "payment_destination"}

AUTHORITY_ROLES == ALL_ROLES \ {"content"}

DEFAULT_ROLE_MIN_TRUST ==
    [r \in ALL_ROLES |->
        CASE r = "content" -> LOW
          [] r \in {"command", "credential", "approval", "payment_destination"}
               -> VERIFIED
          [] OTHER -> HIGH]

ArgRule == [role : ALL_ROLES, min_trust : TrustLevel \cup {NoTrust}]

Required(rule) ==
    IF rule.min_trust # NoTrust THEN rule.min_trust
    ELSE DEFAULT_ROLE_MIN_TRUST[rule.role]

\* Mutant: one level below the required one is enough.
ViolationsOffByOne(contract, trusts) ==
    { n \in DOMAIN trusts :
        /\ n \in DOMAIN contract.arguments
        /\ contract.arguments[n].role \in AUTHORITY_ROLES
        /\ trusts[n] < Required(contract.arguments[n]) - 1 }

\* The arguments evaluate refuses, given the trust of each provided argument.
\* An argument the contract does not name counts as content.
Violations(contract, trusts) ==
    { n \in DOMAIN trusts :
        /\ n \in DOMAIN contract.arguments
        /\ contract.arguments[n].role \in AUTHORITY_ROLES
        /\ trusts[n] < Required(contract.arguments[n]) }

Evaluate(contract, trusts) ==
    IF Violations(contract, trusts) = {} THEN "allow" ELSE contract.on_violation

=============================================================================
