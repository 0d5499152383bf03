----------------------------- MODULE QuickScan ------------------------------
(***************************************************************************)
(* The scanner of the composite action at the repository's root            *)
(* (scanner/scan.py): three rules of its own, chosen by a policy level,    *)
(* and an exit code by severity.  The action starts it by its path, and so *)
(* it never gets past its imports; as a module, from a checkout, it runs.  *)
(***************************************************************************)
EXTENDS StaticScan

CONSTANTS
    QuickOptions,
    PoliciesBeside      \* the files with a policies/ directory beside them

VARIABLE quick

ASSUME QuickAssumption ==
    /\ QuickOptions \subseteq
          [launch : {"action", "module"}, policy : {"basic", "moderate", "strict"},
           failOn : {"low", "medium", "high"}, output : {"sarif", "text"}]
    /\ \A asked \in QuickOptions : asked.launch = "action" => asked.output = "sarif"

quickVars == <<scanVars, quick>>

PolicyLevel == [basic |-> 0, moderate |-> 1, strict |-> 2]
SeverityLevel == [low |-> 0, medium |-> 1, high |-> 2]

QuickFinding(rule, severity, file, line, pattern) ==
    [rule |-> rule, severity |-> severity, file |-> file, line |-> line,
     pattern |-> pattern]

UnprotectedWrites(file, text) ==
    { QuickFinding("AMG-001", "high", file, i, "memory[]") :
        i \in { j \in DOMAIN text.lines :
                  "memory[]" \in text.lines[j] /\ "guard.check" \notin text.lines[j] } }

\* Three regular expressions, the first of them of four names.
SecretPatterns ==
    [assigned |-> {"api_key=", "secret=", "password=", "token="},
     openai |-> {"openai"}, github |-> {"github"}]

HardcodedSecrets(file, text) ==
    UNION { { QuickFinding("AMG-002", "high", file, i, p) :
                p \in { q \in DOMAIN SecretPatterns :
                          SecretPatterns[q] \cap text.lines[i] # {} } } :
            i \in DOMAIN text.lines }

MissingPolicyFile(file, text) ==
    IF "policy" \in text.words /\ file \notin PoliciesBeside
    THEN {QuickFinding("AMG-003", "medium", file, 1, "policy")} ELSE {}

\* scan_file: a file that cannot be read has no results.
QuickScanOf(file, text, policy) ==
    LET level == PolicyLevel[policy]
    IN  (IF level >= 0 THEN HardcodedSecrets(file, text) ELSE {})
        \cup (IF level >= 1 THEN UnprotectedWrites(file, text) ELSE {})
        \cup (IF level >= 2 THEN MissingPolicyFile(file, text) ELSE {})

QuickResults(policy) ==
    UNION { IF tree[f] = NoFile THEN {} ELSE QuickScanOf(f, tree[f], policy) : f \in Files }

\* Mutant: the least of them.
MaxSeverityLeast(results) ==
    LET levels == { SeverityLevel[r.severity] : r \in results }
    IN  IF levels = {} THEN 0 ELSE CHOOSE m \in levels : \A n \in levels : m <= n

MaxSeverity(results) ==
    LET levels == { SeverityLevel[r.severity] : r \in results } \cup {0}
    IN  CHOOSE m \in levels : \A n \in levels : n <= m

\* write_sarif puts the rules in a set of dicts, which Python refuses: any
\* result ends the program with a traceback, and no report.
QuickCrashes(asked, results) == asked.output = "sarif" /\ results # {}

QuickEnds(asked, results, written, exit) ==
    quick' = [phase |-> "done", asked |-> asked, results |-> results, tree |-> tree,
              written |-> written, exit |-> exit]

\* python <action>/scanner/scan.py puts <action>/scanner on the path and not
\* <action>: `from scanner.rules import` raises before main is reached.
ImportFails(asked) ==
    /\ asked.launch = "action"
    /\ QuickEnds(asked, {}, FALSE, 1)

\* python -m scanner.scan
ScansTree(asked) ==
    /\ asked.launch = "module"
    /\ LET results == QuickResults(asked.policy)
           crashed == QuickCrashes(asked, results)
       IN  QuickEnds(asked, results, asked.output = "sarif" /\ ~crashed,
                     IF crashed \/ MaxSeverity(results) >= SeverityLevel[asked.failOn]
                     THEN 1 ELSE 0)

QuickRun(asked) ==
    /\ quick.phase = "idle"
    /\ ImportFails(asked) \/ ScansTree(asked)
    /\ UNCHANGED scanVars

QuickInit == ScanInit /\ quick = NoRun

QuickNext ==
    \/ ScanNextStep /\ UNCHANGED quick
    \/ \E asked \in QuickOptions : QuickRun(asked)

QuickSpec == QuickInit /\ [][QuickNext]_quickVars
=============================================================================
