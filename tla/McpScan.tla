------------------------------ MODULE McpScan -------------------------------
(***************************************************************************)
(* The tools of the MCP server (mcp-server): a stateless scanner with      *)
(* pattern lists of its own.  An entry is the set of the patterns found in *)
(* it, or blank; confidences are in hundredths.                            *)
(***************************************************************************)
EXTENDS Integers, Sequences, FiniteSets

CONSTANTS
    BlankEntry,             \* no text, or only white space
    Entries, Batches        \* what agents send

VARIABLE mcp                \* the last call and its answer

\* Injections have no subcategory.
NoSub == "none"

Pattern(category, sub, confidence) ==
    [category |-> category, sub |-> sub, confidence |-> confidence]

\* Mutant: a pattern's subcategory stands where its category should.
McpPatternSwapped ==
    [override |-> Pattern("instruction_override", NoSub, 95),
     actAs |-> Pattern("role_hijacking", NoSub, 75),
     privateKey |-> Pattern("private_key", "secret_leakage", 99),
     base64 |-> Pattern("data_exfiltration", "obfuscation_attempt", 60)]

\* _INJECTION_PATTERNS, _SECRET_PATTERNS and _EXFILTRATION_PATTERNS.
McpPattern ==
    [override |-> Pattern("instruction_override", NoSub, 95),
     youAreNow |-> Pattern("role_hijacking", NoSub, 85),
     systemColon |-> Pattern("prompt_injection", NoSub, 80),
     chatTokens |-> Pattern("prompt_injection", NoSub, 95),
     instTokens |-> Pattern("prompt_injection", NoSub, 90),
     forget |-> Pattern("instruction_override", NoSub, 85),
     newInstructions |-> Pattern("instruction_override", NoSub, 90),
     doNotFollow |-> Pattern("instruction_override", NoSub, 90),
     pretend |-> Pattern("role_hijacking", NoSub, 80),
     actAs |-> Pattern("role_hijacking", NoSub, 75),
     fromNowOn |-> Pattern("instruction_override", NoSub, 85),
     overrideRules |-> Pattern("instruction_override", NoSub, 95),
     jailbreak |-> Pattern("prompt_injection", NoSub, 95),
     apiKey |-> Pattern("secret_leakage", "api_key_exposure", 90),
     password |-> Pattern("secret_leakage", "password_exposure", 85),
     token |-> Pattern("secret_leakage", "token_exposure", 90),
     aws |-> Pattern("secret_leakage", "aws_credential", 95),
     privateKey |-> Pattern("secret_leakage", "private_key", 99),
     githubToken |-> Pattern("secret_leakage", "github_token", 95),
     openaiKey |-> Pattern("secret_leakage", "openai_key", 95),
     slackToken |-> Pattern("secret_leakage", "slack_token", 90),
     sendAll |-> Pattern("data_exfiltration", "data_exfiltration", 85),
     curl |-> Pattern("data_exfiltration", "data_exfiltration", 70),
     base64 |-> Pattern("data_exfiltration", "obfuscation_attempt", 60)]

ASSUME McpAssumption ==
    \A e \in Entries : e = BlankEntry \/ e \subseteq DOMAIN McpPattern

ThreatCategory ==
    {"prompt_injection", "secret_leakage", "integrity_tampering",
     "role_hijacking", "instruction_override", "data_exfiltration"}

\* scan_entry: one threat per pattern, the risk is the highest confidence.
ScanEntry(entry) ==
    LET found == IF entry = BlankEntry THEN {} ELSE entry
        scores == {0} \cup { McpPattern[p].confidence : p \in found }
    IN  [is_safe |-> found = {}, threats |-> [p \in found |-> McpPattern[p]],
         risk |-> CHOOSE m \in scores : \A n \in scores : n <= m]

\* Mutant: the risk has to be considerable.
GateLenient(entry) == IF ScanEntry(entry).risk < 75 THEN "ALLOW" ELSE "BLOCK"

\* validate_before_store, validate_before_recall
Gate(entry) == IF ScanEntry(entry).is_safe THEN "ALLOW" ELSE "BLOCK"

ScanMemoryBatch(entries) ==
    [total |-> Len(entries),
     blocked |-> Cardinality({ i \in DOMAIN entries : ~ScanEntry(entries[i]).is_safe }),
     results |-> [i \in DOMAIN entries |-> ScanEntry(entries[i])]]

McpInit == mcp = [call |-> "none"]

McpNext ==
    \/ \E e \in Entries, call \in {"store", "recall"} :
          mcp' = [call |-> call, entry |-> e, action |-> Gate(e),
                  risk |-> ScanEntry(e).risk, threats |-> ScanEntry(e).threats]
    \/ \E e \in Entries :
          mcp' = [call |-> "scan", entry |-> e, got |-> ScanEntry(e)]
    \/ \E b \in Batches :
          mcp' = [call |-> "batch", entries |-> b, got |-> ScanMemoryBatch(b)]
    \/ mcp' = [call |-> "categories", got |-> ThreatCategory]

-----------------------------------------------------------------------------

\* What agents read in a report fits what the server tells them of itself: every
\* category reported is one get_threat_categories lists, kept in a list of its own,
\* and the gates let an entry pass exactly when its risk is none, so that no pattern
\* may have a confidence of zero.
McpReportsListed ==
    /\ mcp.call \in {"store", "recall"} => (mcp.action = "ALLOW" <=> mcp.risk = 0)
    /\ mcp.call = "scan" =>
          \A p \in DOMAIN mcp.got.threats : mcp.got.threats[p].category \in ThreatCategory
=============================================================================
