----------------------------- MODULE RestServer -----------------------------
(***************************************************************************)
(* The REST server (server.py) over one guard that lives as long as the    *)
(* process or until /reset, with the events the guard emits.  No handler   *)
(* awaits anything, so a request is atomic.  A PolicyViolation or an       *)
(* IntegrityError leaves a handler as a 500 without a body.                *)
(***************************************************************************)
EXTENDS MemoryGuard

CONSTANTS
    NullValue,          \* JSON null, a value like another
    ScanKey,            \* the key of /scan when the request names none
    CheckKey,           \* the key of `amg check`
    EventLimits,        \* the limits asked of /events
    MaxEvents           \* bound on the guard's list of events

\* Redaction replaces text within a value: null stays null, and nothing becomes it.
ASSUME ServerAssumption ==
    /\ EventLimits \subseteq Int
    /\ \A v \in Values : Redacted[v] = NullValue <=> v = NullValue

VARIABLES
    events,             \* MemoryGuard._events
    response,           \* to the last request
    told                \* history: what clients know to be stored, by key

serverVars == <<vars, events, response, told>>

DetectorsInOrder ==
    <<"prompt_injection", "long_horizon", "sensitive_data", "size_anomaly",
      "rapid_change", "protected_key", "cross_task_contamination",
      "self_reinforcement">>

Event(detector, severity, action, op, key) ==
    [detector |-> detector, severity |-> severity, action |-> action,
     op |-> op, key |-> key]

Worst(findings) ==
    IF findings = {} THEN SevInfo ELSE Max({ f.severity : f \in findings })

\* _blocking_detector: the first of the most severe findings.
Blocking(findings) ==
    LET worst(d) == \E f \in findings : f.detector = d /\ f.severity = Worst(findings)
        first == { i \in DOMAIN DetectorsInOrder : worst(DetectorsInOrder[i]) }
    IN  DetectorsInOrder[Min(first)]

\* A system write without a receipt is told apart before it is decided on.
ProvenanceEvents(r) ==
    IF r.source = "system" /\ ~r.receipt
    THEN <<Event("provenance", SevMedium, "allow", "write", r.key)>> ELSE <<>>

\* What a write of r with these findings emits.
WriteEvents(r, findings) ==
    LET decision == Decision(findings, r.key)
    IN  CASE decision = "block" ->
                <<Event(Blocking(findings), Worst(findings), "block", "write", r.key)>>
          [] decision = "redact" ->
                Append(ProvenanceEvents(r),
                       Event("sensitive_data", Worst(findings), "redact", "write", r.key))
          [] decision # "redact" /\ decision # "block" /\ findings # {} ->
                Append(ProvenanceEvents(r),
                       Event(Blocking(findings), Worst(findings), decision, "write", r.key))
          [] OTHER -> ProvenanceEvents(r)

\* What a read does; a decision to quarantine is told as an allowed read.
ReadEvents(k, findings) ==
    LET decision == Decision(findings, k)
    IN  CASE decision = "block" ->
                <<Event(Blocking(findings), Worst(findings), "block", "read", k)>>
          [] decision = "redact" ->
                <<Event("sensitive_data", Worst(findings), "redact", "read", k)>>
          [] decision \in {"allow", "quarantine"} /\ findings # {} ->
                <<Event(Blocking(findings), Worst(findings), "allow", "read", k)>>
          [] OTHER -> <<>>

Emit(new) ==
    /\ Len(events) + Len(new) <= MaxEvents
    /\ events' = events \o new

\* Mutant: the slice starts after the first of them.
NewEventsShort == SubSeq(events', Len(events) + 2, Len(events'))

\* new_events = _guard.events[initial_events:]
NewEvents == SubSeq(events', Len(events) + 1, Len(events'))

-----------------------------------------------------------------------------

InternalError(request) ==
    response' = [status |-> 500, request |-> request]

\* Mutant: whatever is not blocked is said to be stored.
StoredAnswerLoose(action) == action # "block"

StoredAnswer(action) == action \in {"allow", "redact"}

ServeWrite(r, anomalies) ==
    LET request == [endpoint |-> "write", key |-> r.key, value |-> r.value,
                    anomalies |-> anomalies]
    IN  /\ Emit(WriteEvents(r, Findings("write", r.key, r.value, anomalies)))
        /\ \/ /\ WriteBlocked(r, anomalies)
              /\ InternalError(request)
              /\ UNCHANGED told
           \/ /\ WriteQuarantined(r, anomalies) \/ WriteCommitted(r, anomalies)
              /\ response' = [status |-> 200, request |-> request, action |-> last'.out,
                              stored |-> StoredAnswer(last'.out), events |-> NewEvents]
              /\ told' = IF StoredAnswer(last'.out)
                         THEN [told EXCEPT ![r.key] =
                                 IF last'.out = "redact" THEN Redacted[r.value] ELSE r.value]
                         ELSE told

\* Nobody else holds the server's store and no endpoint records a baseline, so
\* nothing drifts.
ServeRead(k, anomalies) ==
    LET request == [endpoint |-> "read", key |-> k]
        findings == IF Stored(k) THEN Findings("read", k, store[k], anomalies) ELSE {}
    IN  /\ ReadMissing(k) \/ ReadScreened(k, anomalies)
        /\ Emit(ReadEvents(k, findings))
        /\ IF last'.out = "block" THEN InternalError(request)
           ELSE response' = [status |-> 200, request |-> request,
                             value |-> last'.value,
                             found |-> last'.value \notin {NoValue, NullValue},
                             events |-> NewEvents]
        /\ UNCHANGED told

\* Mutant: the key of the request is not handed on.
ScanKeyFixed(key) == ScanKey

ScanKeyOf(key) == key

\* /scan writes to a guard of its own, made for the request: nothing it knows
\* of the past has anything to report.
ServeScan(key, value, source) ==
    LET k == ScanKeyOf(key)
        findings == Findings("write", k, value, {})
        r == [key |-> k, source |-> source, receipt |-> FALSE]
        decision == Decision(findings, k)
        request == [endpoint |-> "scan", key |-> key, value |-> value]
    IN  /\ IF decision = "block" THEN InternalError(request)
           ELSE response' = [status |-> 200, request |-> request, action |-> decision,
                             threats |-> Len(WriteEvents(r, findings)),
                             events |-> WriteEvents(r, findings),
                             safe |-> decision = "allow"]
        /\ UNCHANGED <<vars, events, told>>

\* `amg check`: the same, under a key of its own; a blocked text ends it with
\* an exception, which is an exit code of one as well.
RunCheck(value) ==
    LET findings == Findings("write", CheckKey, value, {})
    IN  /\ response' = [status |-> 0, request |-> [endpoint |-> "check", value |-> value],
                        exit |-> IF Decision(findings, CheckKey) = "allow" THEN 0 ELSE 1]
        /\ UNCHANGED <<vars, events, told>>

AnySeverity == -1

MatchingPlaces(severity) ==
    { i \in DOMAIN events : severity \in {AnySeverity, events[i].severity} }

\* The events asked for, in the order they were emitted.
Matching(severity) ==
    LET places == MatchingPlaces(severity)
    IN  [n \in 1 .. Cardinality(places) |->
            events[CHOOSE i \in places : Cardinality({ j \in places : j <= i }) = n]]

\* Mutant: the first ones.
FirstOf(list, limit) == SubSeq(list, 1, IF limit < Len(list) THEN limit ELSE Len(list))

\* events[-limit:], all of them for a limit of 0, and all but the first n for
\* a limit of -n.
Page(list, limit) ==
    LET from == IF limit > 0 THEN Len(list) - limit ELSE -limit
    IN  SubSeq(list, IF from < 0 THEN 1 ELSE from + 1, Len(list))

ServeEvents(limit, severity) ==
    /\ response' = [status |-> 200,
                    request |-> [endpoint |-> "events", limit |-> limit, severity |-> severity],
                    total |-> Len(events), page |-> Page(Matching(severity), limit)]
    /\ UNCHANGED <<vars, events, told>>

ServeStats ==
    /\ response' = [status |-> 200, request |-> [endpoint |-> "stats"],
                    total |-> Len(events),
                    bySeverity |-> [s \in Severity |-> Len(Matching(s))],
                    quarantined |-> Cardinality({ k \in Keys : quarantine[k] # NoValue }),
                    keys |-> Cardinality({ k \in Keys : Stored(k) })]
    /\ UNCHANGED <<vars, events, told>>

\* /reset: a new guard over a new, empty store.
ServeReset ==
    /\ store' = [k \in Keys |-> NoValue]
    /\ quarantine' = [k \in Keys |-> NoValue]
    /\ baselines' = [k \in Keys |-> NoValue]
    /\ class' = [k \in Keys |-> NoClass]
    /\ originTask' = [k \in Keys |-> NoTask]
    /\ currentTask' = NoTask
    /\ edges' = [k \in Keys |-> {}]
    /\ trust' = [k \in Keys |-> UNTRUSTED]
    /\ snapshots' = <<>>
    /\ last' = [op |-> "init", key |-> NoKey, out |-> "built", value |-> NoValue]
    /\ author' = [k \in Keys |-> Nobody]
    /\ outside' = [k \in Keys |-> {NoValue}]
    /\ events' = <<>>
    /\ told' = [k \in Keys |-> NoValue]
    /\ response' = [status |-> 200, request |-> [endpoint |-> "reset"]]

\* A guard over a store of its own, which is empty.
ServerInit ==
    /\ Init
    /\ store = [k \in Keys |-> NoValue]
    /\ events = <<>>
    /\ told = [k \in Keys |-> NoValue]
    /\ response = [status |-> 0, request |-> [endpoint |-> "none"]]

ServerNext ==
    \/ \E r \in WriteCalls, anomalies \in SUBSET Anomalies :
          anomalies \subseteq PossibleAnomalies("write", r.source) /\ ServeWrite(r, anomalies)
    \/ \E k \in Keys, anomalies \in SUBSET PossibleAnomalies("read", "unknown") :
          ServeRead(k, anomalies)
    \/ \E r \in WriteCalls : ServeScan(r.key, r.value, r.source)
    \/ \E v \in Values : RunCheck(v)
    \/ \E limit \in EventLimits, severity \in {AnySeverity} \cup Severity :
          ServeEvents(limit, severity)
    \/ ServeStats
    \/ ServeReset

ServerSpec == ServerInit /\ [][ServerNext]_serverVars
=============================================================================
