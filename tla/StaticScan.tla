----------------------------- MODULE StaticScan -----------------------------
(***************************************************************************)
(* Runs of the two static scanners over a tree whose files are edited and  *)
(* removed meanwhile.  The files are listed when a run starts and read one *)
(* by one.                                                                 *)
(***************************************************************************)
EXTENDS ScanRules, SequencesExt

CONSTANTS
    Files,              \* a set of naturals: the order the files sort in
    Texts, NoFile,      \* a file's text, or NoFile: gone or unreadable
    Trees,              \* the trees to start from: Files -> text
    Options,            \* what a run is asked for, see Asked
    RGlob,              \* glob, as a sequence of tokens -> the files it selects
    FnMatch,            \* exclude pattern -> the files whose path it matches
    MaxEdits            \* bound: edits by others

VARIABLES
    tree, edits,
    run                 \* tool -> its run

scanVars == <<tree, edits, run>>

NoRun == [phase |-> "idle"]

\* What the options say: root is what the path names, "dir", "file" or
\* "missing"; the severity may be one that does not exist.
Asked ==
    [root : {"dir", "file", "missing"}, include : SUBSET Seq(STRING),
     exclude : SUBSET DOMAIN FnMatch, severity : 0 .. 4, fail : BOOLEAN,
     format : {"text", "json", "sarif"}]

ASSUME ScanAssumption ==
    /\ Files \subseteq Nat
    /\ NoFile \notin Texts
    /\ Trees \subseteq [Files -> Texts \cup {NoFile}]
    /\ \A text \in Texts :
          text.lines \in Seq(SUBSET STRING) /\ IsFiniteSet(UNION Range(text.lines))
    /\ \A glob \in DOMAIN RGlob : RGlob[glob] \subseteq Files
    /\ Options \subseteq Asked
    /\ MaxEdits \in Nat

-----------------------------------------------------------------------------

\* pattern.lstrip("**/") strips characters, not a prefix.
Clean(glob) ==
    LET first == SelectInSeq(glob, LAMBDA token : token \notin {"**", "*", "/"})
    IN  IF first = 0 THEN <<>> ELSE SubSeq(glob, first, Len(glob))

Selects(glob) ==
    LET clean == IF SubSeq(glob, 1, 2) = <<"**", "/">> THEN Clean(glob) ELSE glob
    IN  IF clean \in DOMAIN RGlob THEN RGlob[clean] ELSE {}

IsExcluded(file, asked) == \E p \in asked.exclude : file \in FnMatch[p]

\* _collect_files: only a directory has anything below it.
Collect(asked) ==
    IF asked.root # "dir" THEN {}
    ELSE { f \in UNION { Selects(g) : g \in asked.include } :
             tree[f] # NoFile /\ ~IsExcluded(f, asked) }

NewRun(phase, asked, todo, exit) ==
    [phase |-> phase, asked |-> asked, todo |-> todo, read |-> <<>>,
     findings |-> {}, filesWith |-> {}, report |-> <<>>, exit |-> exit]

\* cmd_scan, main: the package refuses a path that is not there (argparse an
\* unknown severity), the script fails on a severity it does not know.
BeginRefused(tool, asked) ==
    /\ run[tool].phase = "idle"
    /\ asked.severity = 0 \/ (tool = "amg" /\ asked.root = "missing")
    /\ run' = [run EXCEPT ![tool] =
        NewRun("refused", asked, {}, IF tool = "amg" /\ asked.severity = 0 THEN 2 ELSE 1)]
    /\ UNCHANGED <<tree, edits>>

Begin(tool, asked) ==
    /\ run[tool].phase = "idle"
    /\ asked.severity # 0
    /\ ~(tool = "amg" /\ asked.root = "missing")
    /\ run' = [run EXCEPT ![tool] = NewRun("scan", asked, Collect(asked), 0)]
    /\ UNCHANGED <<tree, edits>>

\* Mutant: only what is above the threshold is reported.
IsReportedAbove(finding, asked) == SeverityOf[finding.rule] > asked.severity
IsReported(finding, asked) == SeverityOf[finding.rule] >= asked.severity

ReadToo(read, file, text) ==
    [f \in DOMAIN read \cup {file} |-> IF f = file THEN text ELSE read[f]]

\* scan_directory: a file that cannot be read any more counts as scanned.
ScanNext(tool) ==
    /\ run[tool].phase = "scan"
    /\ run[tool].todo # {}
    /\ LET file == CHOOSE f \in run[tool].todo : \A g \in run[tool].todo : f <= g
           found == IF tree[file] = NoFile THEN {} ELSE Scan(tool, file, tree[file])
           kept == { f \in found : IsReported(f, run[tool].asked) }
       IN  run' = [run EXCEPT
                      ![tool].todo = @ \ {file},
                      ![tool].read = ReadToo(@, file, tree[file]),
                      ![tool].findings = @ \cup kept,
                      ![tool].filesWith = @ \cup { f.file : f \in kept }]
    /\ UNCHANGED <<tree, edits>>

Finish(tool) ==
    /\ run[tool].phase = "scan"
    /\ run[tool].todo = {}
    /\ LET r == run[tool]
       IN  run' = [run EXCEPT
              ![tool].phase = "done",
              ![tool].report = Report(r.asked.format, r.findings),
              ![tool].exit = IF r.asked.fail /\ r.findings # {} THEN 1 ELSE 0]
    /\ UNCHANGED <<tree, edits>>

\* Someone edits or removes a file.
Edit(file, text) ==
    /\ edits < MaxEdits
    /\ text # tree[file]
    /\ tree' = [tree EXCEPT ![file] = text]
    /\ edits' = edits + 1
    /\ UNCHANGED run

ScanInit ==
    /\ tree \in Trees
    /\ edits = 0
    /\ run = [t \in Tools |-> NoRun]

ScanStep(tool) ==
    \/ \E asked \in Options : BeginRefused(tool, asked) \/ Begin(tool, asked)
    \/ ScanNext(tool)
    \/ Finish(tool)

ScanNextStep ==
    \/ \E tool \in Tools : ScanStep(tool)
    \/ \E file \in Files, text \in Texts \cup {NoFile} : Edit(file, text)

ScanSpec == ScanInit /\ [][ScanNextStep]_scanVars
=============================================================================
