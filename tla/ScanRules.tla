----------------------------- MODULE ScanRules ------------------------------
(***************************************************************************)
(* The rules of the two static scanners: the package's, run by `amg scan`  *)
(* ("amg"), and the stand-alone script action/scan.py ("action").  A line  *)
(* of source is the set of the patterns it matches, with "#" when it is a  *)
(* comment; a text is its lines and the words the scanners look for in it. *)
(***************************************************************************)
EXTENDS Integers, Sequences, FiniteSets

CONSTANT InTest         \* the files with "test" somewhere in their path

Tools == {"amg", "action"}

SeverityOf ==
    [AMG001 |-> 3, AMG002 |-> 4, AMG003 |-> 3,
     AMG004 |-> 4, AMG005 |-> 3, AMG006 |-> 2]

\* Mutant: the package's list was rewritten and an old entry got lost.
IndicatorsRewritten(tool) ==
    {"langchain memory", "llama_index storage", "crewai memory", "autogen memory",
     "agent_memory_guard", "MemoryStore", "ChatMessageHistory", "ConversationBuffer"}
    \cup IF tool = "amg" THEN {"mem0", "letta", "MemoryClient"} ELSE {"VectorStore"}

\* What makes a file "memory-related".
Indicators(tool) ==
    {"langchain memory", "llama_index storage", "crewai memory", "autogen memory",
     "agent_memory_guard", "MemoryStore", "ChatMessageHistory",
     "ConversationBuffer", "VectorStore"}
    \cup IF tool = "amg" THEN {"mem0", "letta", "MemoryClient"} ELSE {}

MemoryWrites(tool) ==
    {"set", "put", "store", "save_context", "add_message", "add_memory",
     "upsert", "memory[]", "chat_history.append"}
    \cup IF tool = "amg" THEN {"add_documents", "persist"} ELSE {}

Secrets(tool) ==
    {"openai", "github", "aws", "slack", "password=", "api_key="}
    \cup IF tool = "amg" THEN {"jwt"} ELSE {}

Injections(tool) ==
    {"override", "persona", "bypass", "system prompt", "safety"}
    \cup IF tool = "amg" THEN {"role", "extraction"} ELSE {}

\* Only the package knows that yaml.load(..., Loader=yaml.SafeLoader) is safe.
UnsafeLoads(tool) ==
    {"pickle", "yaml.load", "eval", "exec"}
    \cup IF tool = "amg" THEN {"marshal", "shelve"} ELSE {"yaml.load SafeLoader"}

\* Rules of the package alone.  Two patterns on consecutive lines: an output
\* taken, then stored.
ToolOutputs ==
    {<<"tool_output =", "stores tool_output">>, <<"result = tool()", "stores result">>}

Permissions == {"admin role", "allow_all", "trust_level"}

-----------------------------------------------------------------------------

IsMemoryFile(tool, text) == text.words \cap Indicators(tool) # {}

\* Any mention of the guard in a file exempts all of it.
HasGuard(text) == text.words \cap {"MemoryGuard", "agent_memory_guard"} # {}

Finding(rule, file, line, pattern) ==
    [rule |-> rule, file |-> file, line |-> line, pattern |-> pattern]

Matches(rule, file, text, patterns, lines) ==
    UNION { { Finding(rule, file, i, p) : p \in patterns \cap text.lines[i] } : i \in lines }

IsComment(line) == "#" \in line

\* The rules both have: a finding for each pattern on each line, rule by rule.
CommonFindings(tool, file, text) ==
    LET all == DOMAIN text.lines
        code == { i \in all : ~IsComment(text.lines[i]) }
    IN  (IF IsMemoryFile(tool, text) /\ ~HasGuard(text)
         THEN Matches("AMG001", file, text, MemoryWrites(tool), all) ELSE {})
        \cup Matches("AMG002", file, text, Secrets(tool), all)
        \cup Matches("AMG003", file, text, Injections(tool),
                       IF file \in InTest THEN {} ELSE code)
        \cup Matches("AMG004", file, text, UnsafeLoads(tool), code)

\* A tool's output on one line and its storing on the next.
StoredOutputs(file, text) ==
    UNION { { Finding("AMG005", file, i, p[1]) :
                i \in { j \in 1 .. Len(text.lines) - 1 :
                          p[1] \in text.lines[j] /\ p[2] \in text.lines[j + 1] } } :
            p \in ToolOutputs }

PackageFindings(file, text) ==
    (IF IsMemoryFile("amg", text) THEN StoredOutputs(file, text) ELSE {})
    \cup Matches("AMG006", file, text, Permissions, DOMAIN text.lines)

\* _scan_file
Scan(tool, file, text) ==
    CommonFindings(tool, file, text)
    \cup IF tool = "amg" THEN PackageFindings(file, text) ELSE {}

-----------------------------------------------------------------------------
(* The reports *)

OfSeverity(findings, s) == { f \in findings : SeverityOf[f.rule] = s }

\* Mutant: only the two most severe groups are printed.
TextReportShort(findings) ==
    [s \in { SeverityOf[f.rule] : f \in findings } \cap {3, 4} |-> OfSeverity(findings, s)]

\* Grouped by severity; empty groups are left out.
TextReport(findings) ==
    [s \in { SeverityOf[f.rule] : f \in findings } |-> OfSeverity(findings, s)]

JsonReport(findings) ==
    [total |-> Cardinality(findings),
     critical |-> Cardinality(OfSeverity(findings, 4)),
     high |-> Cardinality(OfSeverity(findings, 3)),
     medium |-> Cardinality(OfSeverity(findings, 2)),
     low |-> Cardinality(OfSeverity(findings, 1))]

Level(s) == CASE s \in {3, 4} -> "error" [] s = 2 -> "warning" [] OTHER -> "note"

\* One entry per rule that was met, and a result per finding.
SarifReport(findings) ==
    [rules |-> { f.rule : f \in findings },
     results |-> { [finding |-> f, level |-> Level(SeverityOf[f.rule])] : f \in findings }]

Report(format, findings) ==
    CASE format = "text" -> TextReport(findings)
      [] format = "json" -> JsonReport(findings)
      [] format = "sarif" -> SarifReport(findings)

=============================================================================
