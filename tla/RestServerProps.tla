-------------------------- MODULE RestServerProps ---------------------------
(***************************************************************************)
(* What a client of the REST server may conclude from its responses.       *)
(***************************************************************************)
EXTENDS RestServer

Answered(endpoint) == response.status = 200 /\ response.request.endpoint = endpoint

\* A client that was told its value is stored finds it, or its redaction, until
\* it is told of another or the server is reset, and finds nothing else: a
\* write that was quarantined or refused in between changes neither, and only
\* null is stored and not "found".
ReadTellsWhatWasStored ==
    Answered("read") =>
        LET k == response.request.key
            value == told[k]
        IN  /\ response.found <=> value \notin {NoValue, NullValue}
            /\ value # NoValue => response.value \in {value, Redacted[value]}
            /\ value = NoValue => response.value = NoValue

\* The guard's answer to a refused request is not in any response, but it is the
\* newest of its events; a request that was quarantined or redacted says so in
\* the events of its own response, and in no other's.
DecisionsAreTold ==
    /\ response.status = 500 /\ response.request.endpoint \in {"write", "read"} =>
          /\ events # <<>>
          /\ events[Len(events)].action = "block"
          /\ events[Len(events)].key = response.request.key
    /\ Answered("write") =>
          /\ response.action # "allow" =>
                \E i \in DOMAIN response.events :
                    response.events[i].action = response.action
          /\ \A i \in DOMAIN response.events :
                /\ response.events[i].key = response.request.key
                /\ response.events[i].action \in {"allow", response.action}

\* "This is the primary endpoint for checking if content is safe before writing
\* to agent memory": a write right after a /scan of the same text under the same
\* key is stored as it is when the scan called it safe, but for what the
\* detectors with a history have to say, which the scan's own guard cannot know.
ScanForecastsWrite ==
    [][/\ Answered("scan") /\ response.safe
       /\ response'.request.endpoint = "write"
       /\ response'.request.key = response.request.key
       /\ response'.request.value = response.request.value
       /\ response'.request.anomalies = {}
       => response'.status = 200 /\ response'.action = "allow"]_serverVars

\* A page of events is the newest of those asked for, whatever its positive limit.
PageIsNewest ==
    Answered("events") /\ response.request.limit > 0 =>
        LET all == Matching(response.request.severity)
            page == response.page
        IN  /\ Len(page) = Min({Len(all), response.request.limit})
            /\ \A i \in DOMAIN page : page[i] = all[Len(all) - Len(page) + i]

\* What is told of the guard's events, with each response and by /events.
EventsAreTold == DecisionsAreTold /\ PageIsNewest

=============================================================================
