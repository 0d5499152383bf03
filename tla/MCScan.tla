------------------------------- MODULE MCScan -------------------------------
(***************************************************************************)
(* The static scanners for TLC: three files, the second under tests/, the  *)
(* third in a vendored directory.                                          *)
(***************************************************************************)
EXTENDS ScanProps

Text(words, lines) == [words |-> words, lines |-> lines]

MCUnguarded ==
    Text({"VectorStore", "policy"},
         <<{"add_documents", "upsert"}, {"result = tool()"}, {"stores result", "memory[]"}>>)

MCLoader ==
    Text({"mem0", "MemoryGuard"},
         <<{"set", "pickle", "token="}, {"yaml.load SafeLoader"}, {"#", "exec", "safety"}, {"allow_all"}>>)

MCSecret ==
    Text({}, <<{"openai", "role"}, {"memory[]", "guard.check", "override"}>>)

MCTexts == {MCUnguarded, MCLoader, MCSecret}

MCTrees ==
    {[f \in 1 .. 3 |-> IF f = 1 THEN MCUnguarded ELSE IF f = 2 THEN MCSecret ELSE MCLoader],
     [f \in 1 .. 3 |-> IF f = 1 THEN MCSecret ELSE IF f = 2 THEN MCLoader ELSE NoFile]}

AllPython == <<"*", ".py">>
DefaultInclude == <<"**", "/", "*", ".py">>

\* No file is called just ".py".
MCRGlob == (AllPython :> 1 .. 3) @@ (<<"a", "*", ".py">> :> {1}) @@ (<<".py">> :> {})
MCFnMatch == ("**/test*/**" :> {2}) @@ ("vendor/*" :> {3})

Ask(include, exclude, severity, fail, format) ==
    [root |-> "dir", include |-> include, exclude |-> exclude,
     severity |-> severity, fail |-> fail, format |-> format]

MCOptions ==
    { Ask({AllPython}, {"**/test*/**"}, s, TRUE, format) :
        s \in {2, 3}, format \in {"text", "json", "sarif"} }
    \cup { Ask({AllPython, DefaultInclude}, {}, 4, TRUE, "json"),
           Ask({AllPython}, {}, 4, FALSE, "text"),
           Ask({<<"**", "/", "a", "*", ".py">>}, {"vendor/*"}, 1, TRUE, "text"),
           Ask({AllPython}, {}, 0, TRUE, "text"),
           [Ask({AllPython}, {}, 1, TRUE, "text") EXCEPT !.root = "file"],
           [Ask({AllPython}, {}, 1, TRUE, "text") EXCEPT !.root = "missing"] }

MCDefaults ==
    { Ask({DefaultInclude}, {"**/test*/**"}, 2, TRUE, format) : format \in {"text", "sarif"} }

MCQuickOptions ==
    { asked \in [launch : {"action", "module"}, policy : {"basic", "moderate", "strict"},
                 failOn : {"low", "medium", "high"}, output : {"sarif", "text"}] :
        asked.launch = "action" => asked.output = "sarif" }

\* A pipeline uses the composite action or the scanners, not both at once: what
\* each does depends only on the tree.
MCScanNext ==
    \/ quick.phase = "idle" /\ ScanNextStep /\ UNCHANGED quick
    \/ /\ \A tool \in Tools : run[tool].phase = "idle"
       /\ \E asked \in QuickOptions : QuickRun(asked)

MCScanSpec == QuickInit /\ [][MCScanNext]_quickVars
=============================================================================
