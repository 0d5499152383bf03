------------------------------ MODULE ScanApi -------------------------------
(***************************************************************************)
(* The ways to have one text looked at without a guard: scan.py, rag.py,   *)
(* tools.py and the Flask extension of middleware.py, which all go through *)
(* the text detectors.                                                     *)
(***************************************************************************)
EXTENDS TextDetectors

\* What there is no request of.
NoPath == "none"

CONSTANTS
    ApiTexts, EmptyText,
    Confidence,         \* text -> detector -> what it is detected with, or None
    None,
    Marked,             \* texts with an instruction marker of rag.py in them
    Truncated,               \* text -> its first max_length characters
    Documents,          \* lists of documents (their contents) to filter
    GuardedPaths, Paths

VARIABLES
    reply,              \* of the last call
    handled             \* Flask: what the last call gave to a view function

apiVars == <<reply, handled>>

ASSUME ApiAssumption ==
    /\ EmptyText \in ApiTexts \ Marked
    /\ Confidence \in [ApiTexts -> [Detectors -> (0 .. 10) \cup {None}]]
    /\ None \notin 0 .. 10
    /\ \A t \in ApiTexts : Truncated[t] \in ApiTexts
    /\ \A documents \in Documents : documents \in Seq(ApiTexts)
    /\ NoPath \notin GuardedPaths

TrustLevels == {"high", "medium", "low", "none"}

\* Mutant: more trust asks for less confidence.
TrustThresholdReversed == [high |-> 0, medium |-> 3, low |-> 6, none |-> 9]

TrustThreshold == [high |-> 9, medium |-> 6, low |-> 3, none |-> 0]

\* The detectors that detect something in a text.
Detects(text) == { d \in Detectors : Confidence[text][d] # None }

Highest(text, detectors) == MaxOf({ Confidence[text][d] : d \in detectors })

Result(threats, confidence) ==
    [out |-> "result", safe |-> threats = <<>>, threats |-> threats,
     confidence |-> confidence]

RaisedResult == [out |-> "raised"]

\* The loop is written out in scan.py, rag.py and tools.py (and streaming.py),
\* each copy with an isinstance chain of its own: what the chain does not name
\* raises the confidence and is no threat.
ScanNames ==
    {"prompt_injection", "secret_leakage", "cross_task_contamination", "self_reinforcement"}

\* scan(); scan_batch([]) is the only batch the package's detectors let by.
ScanOf(text) ==
    IF DetectRaises THEN RaisedResult
    ELSE Result(ThreatList(Detects(text) \cap ScanNames), Highest(text, Detects(text)))

\* Mutant: a detector added to the other copies is forgotten in this one.
RagNamesTwo == {"prompt_injection", "secret_leakage"}

RagNames == {"prompt_injection", "secret_leakage", "self_reinforcement"}

\* Mutant: the marker's threat is listed besides the detector's.
RagOfTwice(text, strict) ==
    LET mark == IF strict /\ text \in Marked THEN <<"prompt_injection">> ELSE <<>>
    IN  IF DetectRaises THEN RaisedResult
        ELSE Result(mark \o ThreatList(Detects(text) \cap RagNames),
                    Highest(text, Detects(text)))

\* scan_rag_input: a marker counts as an injection of confidence 0.7, and the
\* detector's own is then not listed again.
RagOf(text, strict) ==
    LET named == Detects(text) \cap RagNames
        highest == Highest(text, Detects(text))
    IN  IF DetectRaises THEN RaisedResult
        ELSE IF strict /\ text \in Marked
             THEN Result(<<"prompt_injection">> \o ThreatList(named \ {"prompt_injection"}),
                         IF highest > 7 THEN highest ELSE 7)
             ELSE Result(ThreatList(named), highest)

ToolNames == {"prompt_injection", "secret_leakage", "self_reinforcement"}

\* scan_tool_output looks at the first max_length characters only, and passes
\* over what is detected with less confidence than the trust in the tool asks for.
ToolOf(text, trust) ==
    LET output == Truncated[text]
        counted == { d \in Detects(output) : Confidence[output][d] >= TrustThreshold[trust] }
    IN  IF DetectRaises THEN RaisedResult
        ELSE Result(ThreatList(counted \cap ToolNames), Highest(output, counted))

\* The documents at these places, in their order.
Selected(documents, places) ==
    [n \in 1 .. Cardinality(places) |->
        documents[CHOOSE i \in places : Cardinality({ j \in places : j <= i }) = n]]

SafeAt(documents, strict) == { i \in DOMAIN documents : RagOf(documents[i], strict).safe }

\* Mutant: the filter forgets to hand the strict option on.
FilterOfStrict(documents, strict) ==
    IF DetectRaises /\ documents # <<>> THEN RaisedResult
    ELSE [out |-> "kept", documents |-> documents,
          kept |-> Selected(documents, SafeAt(documents, TRUE))]

\* scan_rag_batch, filter_safe_documents: one exception loses the batch.
FilterOf(documents, strict) ==
    IF DetectRaises /\ documents # <<>> THEN RaisedResult
    ELSE [out |-> "kept", documents |-> documents,
          kept |-> Selected(documents, SafeAt(documents, strict))]

-----------------------------------------------------------------------------

Unhandled == [path |-> NoPath]

CallScan(text) ==
    /\ reply' = [call |-> "scan", text |-> text, strict |-> FALSE, got |-> ScanOf(text)]
    /\ handled' = Unhandled

CallRag(text, strict) ==
    /\ reply' = [call |-> "rag", text |-> text, strict |-> strict, got |-> RagOf(text, strict)]
    /\ handled' = Unhandled

CallTool(text, trust) ==
    /\ reply' = [call |-> "tool", text |-> text, trust |-> trust, got |-> ToolOf(text, trust)]
    /\ handled' = Unhandled

CallFilter(documents, strict) ==
    /\ reply' = [call |-> "filter", strict |-> strict, got |-> FilterOf(documents, strict)]
    /\ handled' = Unhandled

\* Mutant: an exception of the scan lets the request pass.
FlaskLetsByOpen(path, body, block) ==
    \/ path \notin GuardedPaths
    \/ body = EmptyText
    \/ ScanOf(body).out = "raised"
    \/ ScanOf(body).out = "result" /\ (ScanOf(body).safe \/ ~block)

FlaskLetsBy(path, body, block) ==
    \/ path \notin GuardedPaths
    \/ body = EmptyText
    \/ ScanOf(body).out = "result" /\ (ScanOf(body).safe \/ ~block)

\* FlaskGuard._check_request: None lets the view run, 403 refuses, and an
\* exception ends in a 500.
FlaskRequest(path, body, block) ==
    LET passes == FlaskLetsBy(path, body, block)
    IN  /\ handled' = IF passes THEN [path |-> path, body |-> body, block |-> block]
                      ELSE Unhandled
        /\ reply' = [call |-> "flask", text |-> body, status |->
                        IF passes THEN 200
                        ELSE IF ScanOf(body).out = "raised" THEN 500 ELSE 403]

ApiInit ==
    /\ reply = [call |-> "none"]
    /\ handled = Unhandled

ApiNext ==
    \/ \E t \in ApiTexts :
        \/ CallScan(t)
        \/ \E strict \in BOOLEAN : CallRag(t, strict)
        \/ \E trust \in TrustLevels : CallTool(t, trust)
        \/ \E path \in Paths, block \in BOOLEAN : FlaskRequest(path, t, block)
    \/ \E documents \in Documents, strict \in BOOLEAN : CallFilter(documents, strict)

-----------------------------------------------------------------------------

\* Callers count on threats being a set (threat_count, has_injection): no way
\* of scanning lists one twice, though rag.py finds injections in two ways.
NoThreatTwice ==
    reply.call \in {"scan", "rag", "tool"} /\ reply.got.out = "result" =>
        \A i, j \in DOMAIN reply.got.threats :
            reply.got.threats[i] = reply.got.threats[j] => i = j

AsSet(list) == { list[i] : i \in DOMAIN list }

\* From the least trusted tool to the most trusted.
TrustOrder == <<"none", "low", "medium", "high">>

\* Contamination is a threat for scan() alone: the other copies have lost it.
NotNamed == {"cross_task_contamination"}

\* The copies of the loop, kept apart by hand, agree on what a text is but for
\* contamination: a RAG scan finds what scan() finds and, if strict, an injection
\* in a marked text, with at least the same confidence; the scan of a tool's
\* output finds only what scan() finds in it, all of that for a tool that is not
\* trusted at all, and the less the tool is trusted the more of it.
CopiesAgree ==
    /\ reply.call = "rag" /\ ~DetectRaises =>
          LET plain == ScanOf(reply.text)
              hasMarker == reply.strict /\ reply.text \in Marked
          IN  /\ AsSet(reply.got.threats) =
                    (AsSet(plain.threats) \ NotNamed)
                        \cup IF hasMarker THEN {"prompt_injection"} ELSE {}
              /\ reply.got.confidence >= plain.confidence
              /\ ~hasMarker => reply.got.confidence = plain.confidence
    /\ reply.call = "tool" /\ ~DetectRaises =>
          LET plain == ScanOf(Truncated[reply.text])
          IN  /\ AsSet(reply.got.threats) \subseteq AsSet(plain.threats) \ NotNamed
              /\ reply.trust = "none" =>
                    /\ AsSet(reply.got.threats) = AsSet(plain.threats) \ NotNamed
                    /\ reply.got.confidence = plain.confidence
              /\ \A i, j \in DOMAIN TrustOrder :
                    TrustOrder[j] = reply.trust /\ i <= j =>
                        AsSet(reply.got.threats)
                            \subseteq AsSet(ToolOf(reply.text, TrustOrder[i]).threats)

\* A document in which the filter should find nothing.
Harmless(text, strict) ==
    AsSet(ScanOf(text).threats) \subseteq NotNamed /\ ~(strict /\ text \in Marked)

\* A list that goes through the filter comes back without the documents that hold a
\* threat and with all others, in their order and as often as they were there: the
\* places they come from grow, and are those of the harmless ones.
FilterKeepsTheSafe ==
    reply.call = "filter" /\ reply.got.out = "kept" /\ ~DetectRaises =>
        LET documents == reply.got.documents
            kept == reply.got.kept
        IN  \E from \in [DOMAIN kept -> DOMAIN documents] :
                /\ \A m, n \in DOMAIN kept : m < n => from[m] < from[n]
                /\ \A n \in DOMAIN kept : kept[n] = documents[from[n]]
                /\ \A i \in DOMAIN documents :
                      Harmless(documents[i], reply.strict) <=>
                          \E n \in DOMAIN kept : from[n] = i

\* Flask fails closed: a view of a guarded path is never given a body with a
\* threat in it unless blocking is off, nor one that could not be scanned.
FlaskFailsClosed ==
    handled.path \in GuardedPaths /\ handled.body # EmptyText =>
        /\ ~DetectRaises
        /\ handled.block => Detects(handled.body) = {}
=============================================================================
