----------------------------- MODULE MCServices -----------------------------
(***************************************************************************)
(* The scanning services that need no guard, for TLC: one of them is       *)
(* chosen at the start, with either kind of text detectors installed.      *)
(***************************************************************************)
EXTENDS StreamScan, WebGuard, McpScan, TLC

CONSTANTS t0, clean, marked, quoted, hidden, strong, long, mixed, binary   \* texts
CONSTANT Services                                          \* what is looked at

VARIABLE service

\* Letters 1 and 2 in a row are an injection, 3 and 3 a secret, 2 and 2 contamination.
MCStreamConfidence ==
    [prompt_injection |-> <<<<1, 2>>, 9>>, secret_leakage |-> <<<<3, 3>>, 5>>,
     self_reinforcement |-> <<<<1, 1, 1>>, 2>>,
     cross_task_contamination |-> <<<<2, 2>>, 9>>]
MCChunks == {<<>>, <<1>>, <<2>>, <<3, 3, 0>>, <<1, 2, 0, 0, 3>>}

MCTexts == {t0, clean, marked, quoted, hidden, strong, long, mixed, binary}
Levels(p, s, r, c) ==
    [prompt_injection |-> p, secret_leakage |-> s, self_reinforcement |-> r,
     cross_task_contamination |-> c]
MCConfidence ==
    [t \in MCTexts |->
        CASE t = marked -> Levels(4, None, None, None)
          [] t = hidden -> Levels(None, 3, 2, None)
          [] t = strong -> Levels(9, None, 6, 8)
          [] t = long -> Levels(7, 10, None, None)
          [] t = mixed -> Levels(None, None, None, 5)
          [] OTHER -> Levels(None, None, None, None)]
MCTruncated == [t \in MCTexts |-> IF t = long THEN clean ELSE t]
MCDocuments ==
    {<<>>, <<clean, quoted, marked>>, <<marked, clean, strong, clean>>, <<mixed, hidden, clean>>}

OnPath(path, messages) == [http |-> TRUE, path |-> path, messages |-> messages]
MCRequests ==
    { OnPath(path, messages) : path \in {"chat", "home"},
        messages \in {<<clean>>, <<strong, clean>>, <<clean, strong>>, <<binary>>,
                      <<"disconnect">>, <<clean, "disconnect">>} }
    \cup {[http |-> FALSE, path |-> "chat", messages |-> <<strong>>]}

MCEntries ==
    SUBSET {"override", "actAs", "privateKey", "base64"}
    \cup { {p} : p \in DOMAIN McpPattern } \cup {BlankEntry}
MCBatches ==
    { <<{"override"}, BlankEntry, {}>>, <<{"base64", "actAs"}, {"actAs"}, {"privateKey"}>>, <<>> }

ServicesInit ==
    /\ service \in Services
    /\ installed \in {"package", "subclasses"}
    /\ StreamInit /\ ApiInit /\ WebInit /\ McpInit
    /\ service # "stream" => /\ \A i \in Intervals : interval <= i
                             /\ \A t \in Thresholds : threshold <= t
    /\ service = "mcp" => installed = "package"

ServicesNext ==
    /\ UNCHANGED <<service, installed>>
    /\ \/ service = "stream" /\ StreamNext /\ UNCHANGED <<apiVars, webVars, mcp>>
       \/ service = "api" /\ ApiNext /\ UNCHANGED <<streamVars, webVars, mcp>>
       \/ service = "web" /\ WebNext /\ UNCHANGED <<streamVars, apiVars, mcp>>
       \/ service = "mcp" /\ McpNext /\ UNCHANGED <<streamVars, apiVars, webVars>>

\* The many ways of asking about one text agree: the copies of the scan loop and the
\* filter over a list; and the tables of the MCP server.
ScansAgree == NoThreatTwice /\ CopiesAgree /\ FilterKeepsTheSafe /\ McpReportsListed

servicesVars == <<streamVars, apiVars, webVars, mcp, service, installed>>

\* The server keeps a request going as long as its client is there; nothing
\* makes a client send one.
ServicesSpec ==
    /\ ServicesInit /\ [][ServicesNext]_servicesVars
    /\ WF_servicesVars(ServicesNext /\ (Intercept \/ ReceiveReplayed \/ ReceiveDirect))
=============================================================================
