----------------------------- MODULE ScanProps ------------------------------
(***************************************************************************)
(* What a team that runs the scanners in its pipeline relies on.           *)
(***************************************************************************)
EXTENDS QuickScan

Completed(tool) == run[tool].phase = "done"

\* The two scanners read the same thing for the same purpose.
SameJob ==
    /\ \A tool \in Tools : Completed(tool)
    /\ run["amg"].read = run["action"].read
    /\ run["amg"].asked.severity <= run["action"].asked.severity

\* The two scanners are twins kept by hand: what the stand-alone script finds
\* the package's scanner finds in the same texts at the same threshold or a
\* lower one, but for the safe YAML loads only the latter recognises.  It has
\* more indicators, more patterns and two more rules, and no finding of the
\* script's is lost by one of them.
ScriptWithinPackage ==
    SameJob => \A f \in run["action"].findings :
        f.pattern = "yaml.load SafeLoader" \/ f \in run["amg"].findings

\* With nobody editing the tree, a run that is asked to fail on findings passes
\* exactly when no selected file holds one at the threshold: the exit code
\* speaks of the tree, not of the files the loop happened to keep.
ExitTellsTheTree ==
    \A tool \in Tools :
        Completed(tool) /\ edits = 0 /\ run[tool].asked.fail =>
            (run[tool].exit = 1 <=>
                \E f \in Collect(run[tool].asked) :
                    \E finding \in Scan(tool, f, tree[f]) :
                        SeverityOf[finding.rule] >= run[tool].asked.severity)

\* The findings a report gives, whatever its format.
Accounted(r) ==
    CASE r.asked.format = "text" ->
            UNION { r.report[s] : s \in DOMAIN r.report }
      [] r.asked.format = "sarif" -> { res.finding : res \in r.report.results }
      [] OTHER -> r.findings

\* A report accounts for every finding of the run and no other: the text groups
\* partition them, the JSON counts add up, every SARIF result has its rule; and
\* the number of files with findings is the number of files named by them.
ReportAddsUp ==
    \A tool \in Tools : Completed(tool) =>
        LET r == run[tool]
        IN  /\ Accounted(r) = r.findings
            /\ r.asked.format = "json" =>
                  /\ r.report.total = Cardinality(r.findings)
                  /\ r.report.total =
                        r.report.critical + r.report.high + r.report.medium + r.report.low
            /\ r.asked.format = "sarif" =>
                  /\ \A res \in r.report.results : res.finding.rule \in r.report.rules
                  /\ \A rule \in r.report.rules : \E f \in r.findings : f.rule = rule
            /\ r.filesWith = { f.file : f \in r.findings }
            /\ r.filesWith \subseteq DOMAIN r.read

\* Started as the composite action starts it, its scanner fails every build,
\* whatever the tree holds, and uploads no report: the code scanner/scan.py:8
\* imports is not on its path.  Started as a module it fails a build for a finding
\* at the level asked for, and otherwise only because the report cannot be written
\* or because the level is "low", which no finding at all reaches too.
QuickFailsForCause ==
    quick.phase = "done" =>
        /\ quick.asked.launch = "action" => ~quick.written
        /\ (quick.exit = 1 <=>
            \/ quick.asked.launch = "action"
            \/ quick.asked.failOn = "low"
            \/ quick.asked.output = "sarif" /\ ~quick.written
            \/ \E f \in Files :
                  /\ quick.tree[f] # NoFile
                  /\ \E r \in QuickScanOf(f, quick.tree[f], quick.asked.policy) :
                        SeverityLevel[r.severity] >= SeverityLevel[quick.asked.failOn])

\* The exit codes of the scanners tell of the tree, but for the composite action's.
ExitsTellTheTree == ExitTellsTheTree /\ QuickFailsForCause

\* `amg scan` is announced as "Scan Python files for memory security
\* vulnerabilities" with the default include pattern **/*.py: whatever it is
\* given, a completed scan of a directory has read the Python files in it
\* that no pattern excludes.
DefaultScanReads ==
    \A tool \in Tools :
        Completed(tool) /\ edits = 0 /\ run[tool].asked.root = "dir" =>
            \A f \in Files :
                tree[f] # NoFile /\ ~IsExcluded(f, run[tool].asked)
                    => f \in DOMAIN run[tool].read

=============================================================================
