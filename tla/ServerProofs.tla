---------------------------- MODULE ServerProofs ----------------------------
(***************************************************************************)
(* What clients may conclude from the responses of the REST server, for    *)
(* any policy, detectors and requests, and however many events it keeps.   *)
(***************************************************************************)
EXTENDS RestServerProps, GuardProofs, FiniteSetTheorems

-----------------------------------------------------------------------------
(* Sequences of events *)

\* A list with another behind it: where the members of each are.
LEMMA Joined ==
  ASSUME NEW S, NEW list \in Seq(S), NEW T, NEW new \in Seq(T)
  PROVE  /\ list \o new \in Seq(S \cup T)
         /\ Len(list) \in Nat /\ Len(new) \in Nat
         /\ Len(list \o new) = Len(list) + Len(new)
         /\ \A i \in 1 .. Len(new) : (list \o new)[Len(list) + i] = new[i]
<1>1. list \in Seq(S \cup T) /\ new \in Seq(S \cup T)
  OBVIOUS
<1>2. Len(list) \in Nat /\ Len(new) \in Nat
  OBVIOUS
<1>3. ASSUME NEW i \in 1 .. Len(new)
      PROVE  (list \o new)[Len(list) + i] = new[i]
  BY <1>1, <1>2
<1> QED
  BY <1>1, <1>2, <1>3

\* What has come behind it is what a slice from its length on takes.
LEMMA NewOnes ==
  ASSUME NEW S, NEW list \in Seq(S), NEW T, NEW new \in Seq(T)
  PROVE  LET slice == SubSeq(list \o new, Len(list) + 1, Len(list \o new))
         IN  /\ DOMAIN slice = 1 .. Len(new)
             /\ DOMAIN new = 1 .. Len(new)
             /\ \A i \in 1 .. Len(new) : slice[i] = new[i]
<1>1. PICK all : all = list \o new
  OBVIOUS
<1>2. PICK n : n = Len(list)
  OBVIOUS
<1>3. /\ all \in Seq(S \cup T) /\ n \in Nat /\ Len(new) \in Nat
      /\ Len(all) = n + Len(new)
      /\ \A i \in 1 .. Len(new) : all[n + i] = new[i]
  BY <1>1, <1>2, Joined
<1>4. PICK slice : slice = SubSeq(all, n + 1, Len(all))
  OBVIOUS
<1>5. /\ Len(slice) = Len(new) /\ DOMAIN slice = 1 .. Len(new)
      /\ \A i \in 1 .. Len(new) : slice[i] = all[n + i]
  <2>1. n + 1 \in Nat /\ Len(all) - (n + 1) + 1 = Len(new)
    BY <1>3
  <2>2. Len(slice) = Len(new)
    BY <1>3, <1>4, <2>1
  <2>3. slice \in Seq(S \cup T)
    BY <1>3, <1>4
  <2>4. \A i \in 1 .. Len(new) : slice[i] = all[n + i]
    BY <1>3, <1>4, <2>1, <2>2
  <2> QED
    BY <2>2, <2>3, <2>4
<1>6. DOMAIN new = 1 .. Len(new)
  OBVIOUS
<1> QED
  BY <1>1, <1>2, <1>3, <1>4, <1>5, <1>6

LEMMA Two ==
  ASSUME NEW x, NEW y
  PROVE  Append(<<>>, y) = <<y>> /\ Append(<<x>>, y) = <<x, y>>
<1>1. <<>> \in Seq({x, y}) /\ <<x>> \in Seq({x, y}) /\ <<x, y>> \in Seq({x, y})
  OBVIOUS
<1>2. Append(<<>>, y) = <<y>>
  BY <1>1
<1>3. Append(<<x>>, y) = <<x, y>>
  <2>1. PICK long : long = Append(<<x>>, y)
    OBVIOUS
  <2>2. long \in Seq({x, y}) /\ Len(long) = 2 /\ long[1] = x /\ long[2] = y
    BY <1>1, <2>1
  <2>3. PICK pair : pair = <<x, y>>
    OBVIOUS
  <2>4. pair \in Seq({x, y}) /\ Len(pair) = 2 /\ pair[1] = x /\ pair[2] = y
    BY <2>3
  <2>5. DOMAIN long = 1 .. 2 /\ DOMAIN pair = 1 .. 2
    BY <2>2, <2>4
  <2>6. \A i \in 1 .. 2 : long[i] = pair[i]
    BY <2>2, <2>4
  <2>7. long = [i \in 1 .. 2 |-> long[i]] /\ pair = [i \in 1 .. 2 |-> pair[i]]
    BY <2>2, <2>4, <2>5
  <2> QED
    BY <2>1, <2>3, <2>6, <2>7
<1> QED
  BY <1>2, <1>3

\* These events tell what was decided of a key, and nothing of others.
Tells(new, key, decision) ==
    /\ \E T : new \in Seq(T)
    /\ \A i \in DOMAIN new : new[i].key = key /\ new[i].action \in {"allow", decision}
    /\ decision # "allow" => \E i \in DOMAIN new : new[i].action = decision
    /\ decision = "block" => Len(new) = 1 /\ new[1].action = "block" /\ new[1].key = key

LEMMA OneOrTwoTell ==
  ASSUME NEW key, NEW decision, NEW prov, NEW decided, NEW new,
         prov.action = "allow", prov.key = key, decided.action = decision, decided.key = key,
         decision = "block" => new = <<decided>>,
         decision # "allow" => new \in {<<decided>>, <<prov, decided>>},
         decision = "allow" => new \in {<<>>, <<prov>>, <<decided>>, <<prov, decided>>}
  PROVE  Tells(new, key, decision)
<1>1. CASE new = <<>>
  <2>1. DOMAIN new = {} /\ new \in Seq({})
    BY <1>1
  <2>2. decision = "allow"
    <3>1. <<>> # <<decided>> /\ <<>> # <<prov, decided>>
      OBVIOUS
    <3> QED
      BY <1>1, <3>1
  <2> QED
    BY <2>1, <2>2 DEF Tells
<1>2. CASE new = <<prov>>
  <2>1. DOMAIN new = {1} /\ new[1] = prov /\ new \in Seq({prov})
    BY <1>2
  <2>2. decision = "allow"
    <3>1. <<prov>> # <<prov, decided>>
      OBVIOUS
    <3>2. <<prov>> = <<decided>> => prov = decided
      OBVIOUS
    <3> QED
      BY <1>2, <3>1, <3>2
  <2> QED
    BY <2>1, <2>2 DEF Tells
<1>3. CASE new = <<decided>>
  <2>1. DOMAIN new = {1} /\ new[1] = decided /\ new \in Seq({decided}) /\ Len(new) = 1
    BY <1>3
  <2> QED
    BY <2>1 DEF Tells
<1>4. CASE new = <<prov, decided>>
  <2>1. /\ DOMAIN new = {1, 2} /\ new[1] = prov /\ new[2] = decided
        /\ new \in Seq({prov, decided})
    BY <1>4
  <2>2. decision # "block"
    <3>1. <<decided>> # <<prov, decided>>
      OBVIOUS
    <3> QED
      BY <1>4, <3>1
  <2> QED
    BY <2>1, <2>2 DEF Tells
<1> QED
  BY <1>1, <1>2, <1>3, <1>4

\* What a write emits tells its decision.
LEMMA WriteTold ==
  ASSUME NEW r, NEW findings
  PROVE  Tells(WriteEvents(r, findings), r.key, Decision(findings, r.key))
<1>1. PICK decision : decision = Decision(findings, r.key)
  OBVIOUS
<1>2. PICK prov : prov = Event("provenance", SevMedium, "allow", "write", r.key)
  OBVIOUS
<1>3. PICK decided :
        decided = IF decision = "redact"
               THEN Event("sensitive_data", Worst(findings), "redact", "write", r.key)
               ELSE Event(Blocking(findings), Worst(findings), decision, "write", r.key)
  OBVIOUS
<1>4. PICK new : new = WriteEvents(r, findings)
  OBVIOUS
<1>5. prov.action = "allow" /\ prov.key = r.key /\ decided.action = decision /\ decided.key = r.key
  BY <1>2, <1>3 DEF Event
<1>6. findings = {} => decision = "allow"
  <2>1. decision \in {"allow"} \cup { Decide(f, r.key) : f \in findings }
    BY <1>1, DecisionHighest
  <2> QED
    BY <2>1
<1>7. ProvenanceEvents(r) \in {<<>>, <<prov>>}
  BY <1>2 DEF ProvenanceEvents
<1>8. CASE decision = "block"
  <2>1. new = <<decided>>
    BY <1>1, <1>3, <1>4, <1>8 DEF WriteEvents
  <2> QED
    BY <1>1, <1>4, <1>5, <1>8, <2>1, OneOrTwoTell
<1>9. CASE decision # "block" /\ (decision = "redact" \/ findings # {})
  <2>1. new = Append(ProvenanceEvents(r), decided)
    BY <1>1, <1>3, <1>4, <1>9 DEF WriteEvents
  <2>2. new \in {<<decided>>, <<prov, decided>>}
    BY <1>7, <2>1, Two
  <2> QED
    BY <1>1, <1>4, <1>5, <1>9, <2>2, OneOrTwoTell
<1>10. CASE decision \notin {"block", "redact"} /\ findings = {}
  <2>1. new = ProvenanceEvents(r)
    BY <1>1, <1>4, <1>10 DEF WriteEvents
  <2> QED
    BY <1>1, <1>4, <1>5, <1>6, <1>7, <1>10, <2>1, OneOrTwoTell
<1> QED
  BY <1>8, <1>9, <1>10

-----------------------------------------------------------------------------
(* The store *)

\* The inductive strengthening: what clients know to be stored is the store.
StoreInv ==
    /\ store \in [Keys -> Entry]
    /\ told = store
    /\ ReadTellsWhatWasStored

\* A served write leaves the clients with the store, whatever became of it.
LEMMA WriteKeepsStore ==
  ASSUME StoreInv, NEW r \in WriteCalls, NEW an, ServeWrite(r, an)
  PROVE  StoreInv'
<1>1. r.key \in Keys /\ r.value \in Values
  BY WriteCallFields
<1>2. ~Answered("read")'
  BY DEF ServeWrite, InternalError, Answered
<1>3. CASE WriteBlocked(r, an) /\ UNCHANGED told
  BY <1>2, <1>3 DEF WriteBlocked, StoreInv, ReadTellsWhatWasStored
<1>4. CASE /\ WriteQuarantined(r, an)
           /\ told' = IF StoredAnswer(last'.out)
                      THEN [told EXCEPT ![r.key] =
                              IF last'.out = "redact" THEN Redacted[r.value] ELSE r.value]
                      ELSE told
  BY <1>2, <1>4 DEF WriteQuarantined, Answer, StoredAnswer, StoreInv, ReadTellsWhatWasStored
<1>5. CASE /\ WriteCommitted(r, an)
           /\ told' = IF StoredAnswer(last'.out)
                      THEN [told EXCEPT ![r.key] =
                              IF last'.out = "redact" THEN Redacted[r.value] ELSE r.value]
                      ELSE told
  <2>1. last'.out = WriteDecision(r, an) /\ WriteDecision(r, an) \in {"allow", "redact"}
    BY <1>5 DEF WriteCommitted, Answer
  <2>2. store' = [store EXCEPT ![r.key] = Committed(r, an)]
    BY <1>5 DEF WriteCommitted
  <2>3. told' = [told EXCEPT ![r.key] = Committed(r, an)]
    BY <1>5, <2>1 DEF StoredAnswer, Committed
  <2>4. Committed(r, an) \in Entry
    BY <1>1, ValuesAssumption DEF Committed, Entry
  <2> QED
    BY <1>2, <2>2, <2>3, <2>4 DEF StoreInv, ReadTellsWhatWasStored
<1> QED
  BY <1>3, <1>4, <1>5 DEF ServeWrite

\* A served read answers with the store, or with its redaction.
LEMMA ReadKeepsStore ==
  ASSUME StoreInv, NEW k \in Keys, NEW an, ServeRead(k, an)
  PROVE  StoreInv'
<1>1. UNCHANGED <<store, told>>
  BY DEF ServeRead, ReadMissing, ReadScreened, guardVars
<1>2. store[k] \in Entry
  BY DEF StoreInv
<1>3. CASE last'.out = "block"
  <2>1. ~Answered("read")'
    BY <1>3 DEF ServeRead, InternalError, Answered
  <2> QED
    BY <1>1, <2>1 DEF StoreInv, ReadTellsWhatWasStored
<1>4. CASE last'.out # "block"
  <2>1. /\ response'.request.key = k
        /\ response'.value = last'.value
        /\ response'.found <=> last'.value \notin {NoValue, NullValue}
    <3>1. PICK found : found = (last'.value \notin {NoValue, NullValue})
      OBVIOUS
    <3>2. response' = [status |-> 200, request |-> [endpoint |-> "read", key |-> k],
                       value |-> last'.value, found |-> found, events |-> NewEvents]
      BY <1>4, <3>1, Zenon DEF ServeRead
    <3>3. response'.request.key = k /\ response'.value = last'.value /\ response'.found = found
      BY <3>2
    <3> QED
      BY <3>1, <3>3, Zenon
  <2>2. CASE ReadMissing(k)
    <3>1. store[k] = NoValue /\ last'.value = NoValue
      BY <2>2 DEF ReadMissing, Answer, Stored
    <3> QED
      BY <1>1, <2>1, <3>1 DEF StoreInv, ReadTellsWhatWasStored
  <2>3. CASE ReadScreened(k, an)
    <3>1. store[k] \in Values /\ last'.value \in {store[k], Redacted[store[k]]}
      BY <1>2, <1>4, <2>3 DEF ReadScreened, Stored, Answer, Entry
    <3>2. Redacted[store[k]] \in Values /\ NoValue \notin Values
      BY <3>1, ValuesAssumption
    <3>3. Redacted[store[k]] = NullValue <=> store[k] = NullValue
      BY <3>1, ServerAssumption
    <3> QED
      BY <1>1, <2>1, <3>1, <3>2, <3>3 DEF StoreInv, ReadTellsWhatWasStored
  <2> QED
    BY <2>2, <2>3 DEF ServeRead
<1> QED
  BY <1>3, <1>4

\* What a client was told is stored is what it reads, until it is told of
\* another or the server is reset.
THEOREM ReadsTell == ServerSpec => []ReadTellsWhatWasStored
<1>1. ServerInit => StoreInv
  BY DEF ServerInit, StoreInv, Entry, ReadTellsWhatWasStored, Answered
<1>2. StoreInv /\ [ServerNext]_serverVars => StoreInv'
  <2> SUFFICES ASSUME StoreInv, [ServerNext]_serverVars PROVE StoreInv'
    OBVIOUS
  <2>1. ASSUME NEW r \in WriteCalls, NEW an, ServeWrite(r, an) PROVE StoreInv'
    BY <2>1, WriteKeepsStore
  <2>2. ASSUME NEW k \in Keys, NEW an, ServeRead(k, an) PROVE StoreInv'
    BY <2>2, ReadKeepsStore
  <2>3. ASSUME UNCHANGED <<vars, told>>, ~Answered("read")' PROVE StoreInv'
    BY <2>3 DEF vars, guardVars, StoreInv, ReadTellsWhatWasStored
  <2>4. ASSUME NEW r \in WriteCalls, ServeScan(r.key, r.value, r.source) PROVE StoreInv'
    BY <2>3, <2>4 DEF ServeScan, InternalError, Answered
  <2>5. ASSUME NEW v \in Values, RunCheck(v) PROVE StoreInv'
    BY <2>3, <2>5 DEF RunCheck, Answered
  <2>6. ASSUME NEW limit, NEW severity, ServeEvents(limit, severity) PROVE StoreInv'
    BY <2>3, <2>6 DEF ServeEvents, Answered
  <2>7. CASE ServeStats
    BY <2>3, <2>7 DEF ServeStats, Answered
  <2>8. CASE ServeReset
    BY <2>8 DEF ServeReset, Answered, StoreInv, Entry, ReadTellsWhatWasStored
  <2>9. CASE UNCHANGED serverVars
    BY <2>9 DEF serverVars, vars, guardVars, StoreInv, ReadTellsWhatWasStored, Answered
  <2> QED
    BY <2>1, <2>2, <2>4, <2>5, <2>6, <2>7, <2>8, <2>9 DEF ServerNext
<1> QED
  BY <1>1, <1>2, PTL DEF ServerSpec, StoreInv

-----------------------------------------------------------------------------
(* The forecast of a scan *)

\* What a write of a value would be decided to be, whatever is stored.
Forecast(k, v) == Decision(Content[v] \cup ProtectedFinding("write", k), k)

LEMMA ForecastOfWrite ==
  ASSUME NEW k, NEW v
  PROVE  Decision(Findings("write", k, v, {}), k) = Forecast(k, v)
<1>1. Findings("write", k, v, {}) = Content[v] \cup ProtectedFinding("write", k)
  BY DEF Findings, CrossTaskFinding
<1> QED
  BY <1>1 DEF Forecast

\* The inductive strengthening: a text called safe is one that writes allow.
ScanInv ==
    Answered("scan") /\ response.safe =>
        Forecast(response.request.key, response.request.value) = "allow"

LEMMA ScanIsForecast ==
  ASSUME NEW k, NEW v, NEW source, ServeScan(k, v, source)
  PROVE  ScanInv'
<1>1. PICK decision : decision = Decision(Findings("write", k, v, {}), k)
  OBVIOUS
<1>2. decision = Forecast(k, v)
  BY <1>1, ForecastOfWrite
<1>3. CASE decision = "block"
  BY <1>1, <1>3 DEF ServeScan, ScanKeyOf, InternalError, ScanInv, Answered
<1>4. CASE decision # "block"
  <2>1. PICK safe : safe = (decision = "allow")
    OBVIOUS
  <2>2. PICK new : new = WriteEvents([key |-> k, source |-> source, receipt |-> FALSE],
                                         Findings("write", k, v, {}))
    OBVIOUS
  <2>3. response' = [status |-> 200, request |-> [endpoint |-> "scan", key |-> k, value |-> v],
                     action |-> decision, threats |-> Len(new), events |-> new,
                     safe |-> safe]
    BY <1>1, <1>4, <2>1, <2>2, Zenon DEF ServeScan, ScanKeyOf
  <2>4. response'.safe = safe /\ response'.request.key = k /\ response'.request.value = v
    BY <2>3
  <2>5. response'.safe => decision = "allow"
    BY <2>1, <2>4, Zenon
  <2> QED
    BY <1>2, <2>4, <2>5 DEF ScanInv
<1> QED
  BY <1>3, <1>4

\* A write of a text called safe, with nothing new to report, is allowed.
LEMMA ForecastIsWrite ==
  ASSUME NEW r \in WriteCalls, Forecast(r.key, r.value) = "allow", ServeWrite(r, {})
  PROVE  response'.status = 200 /\ response'.action = "allow"
<1>1. WriteDecision(r, {}) = "allow"
  BY ForecastOfWrite DEF WriteDecision
<1>2. ~WriteBlocked(r, {}) /\ ~WriteQuarantined(r, {})
  BY <1>1 DEF WriteBlocked, WriteQuarantined
<1>3. WriteCommitted(r, {})
  BY <1>2 DEF ServeWrite
<1>4. last'.out = "allow"
  BY <1>1, <1>3 DEF WriteCommitted, Answer
<1> QED
  BY <1>2, <1>4 DEF ServeWrite

\* What a scan calls safe is stored as it is by a write right after it, but for
\* what the detectors with a history report.
THEOREM ScansForecast == ServerSpec => ScanForecastsWrite
<1> DEFINE Kept == /\ Answered("scan") /\ response.safe
                   /\ response'.request.endpoint = "write"
                   /\ response'.request.key = response.request.key
                   /\ response'.request.value = response.request.value
                   /\ response'.request.anomalies = {}
                   => response'.status = 200 /\ response'.action = "allow"
<1>1. ServerInit => ScanInv
  BY DEF ServerInit, ScanInv, Answered
<1>2. ASSUME ScanInv, NEW r \in WriteCalls, NEW an, ServeWrite(r, an) PROVE ScanInv' /\ Kept
  <2>1. /\ response'.request.endpoint = "write" /\ response'.request.anomalies = an
        /\ response'.request.key = r.key /\ response'.request.value = r.value
    BY <1>2 DEF ServeWrite, InternalError
  <2>2. ScanInv'
    BY <2>1 DEF ScanInv, Answered
  <2>3. Kept
    BY <1>2, <2>1, ForecastIsWrite DEF ScanInv
  <2> QED
    BY <2>2, <2>3
<1>3. ASSUME response'.request.endpoint \notin {"scan", "write"} PROVE ScanInv' /\ Kept
  BY <1>3 DEF ScanInv, Answered
<1>4. ScanInv /\ ServerNext => ScanInv' /\ Kept
  <2> SUFFICES ASSUME ScanInv, ServerNext PROVE ScanInv' /\ Kept
    OBVIOUS
  <2>1. ASSUME NEW k \in Keys, NEW an, ServeRead(k, an) PROVE ScanInv' /\ Kept
    BY <1>3, <2>1 DEF ServeRead, InternalError
  <2>2. ASSUME NEW r \in WriteCalls, ServeScan(r.key, r.value, r.source)
        PROVE  ScanInv' /\ Kept
    <3>1. response'.request.endpoint = "scan"
      BY <2>2 DEF ServeScan, InternalError
    <3> QED
      BY <2>2, <3>1, ScanIsForecast
  <2>3. ASSUME NEW v \in Values, RunCheck(v) PROVE ScanInv' /\ Kept
    BY <1>3, <2>3 DEF RunCheck
  <2>4. ASSUME NEW limit, NEW severity, ServeEvents(limit, severity) PROVE ScanInv' /\ Kept
    BY <1>3, <2>4 DEF ServeEvents
  <2>5. CASE ServeStats
    BY <1>3, <2>5 DEF ServeStats
  <2>6. CASE ServeReset
    BY <1>3, <2>6 DEF ServeReset
  <2> QED
    BY <1>2, <2>1, <2>2, <2>3, <2>4, <2>5, <2>6 DEF ServerNext
<1>5. ScanInv /\ UNCHANGED serverVars => ScanInv'
  BY DEF serverVars, ScanInv, Answered
<1>6. ScanInv /\ [ServerNext]_serverVars => ScanInv'
  BY <1>4, <1>5
<1>7. ScanInv /\ [ServerNext]_serverVars => [Kept]_serverVars
  BY <1>4
<1> QED
  BY <1>1, <1>6, <1>7, PTL DEF ServerSpec, ScanForecastsWrite

-----------------------------------------------------------------------------
(* The events told *)

\* What a read emits: one event at most, and the block if there is one.
LEMMA ReadTold ==
  ASSUME NEW k, NEW findings
  PROVE  /\ \E T : ReadEvents(k, findings) \in Seq(T)
         /\ Decision(findings, k) = "block" =>
               \E told1 : /\ ReadEvents(k, findings) = <<told1>>
                          /\ told1.action = "block" /\ told1.key = k
<1>1. PICK new : new = ReadEvents(k, findings)
  OBVIOUS
<1>2. CASE Decision(findings, k) = "block"
  <2>1. PICK told1 : told1 = Event(Blocking(findings), Worst(findings), "block", "read", k)
    OBVIOUS
  <2>2. new = <<told1>>
    BY <1>1, <1>2, <2>1 DEF ReadEvents
  <2>3. told1.action = "block" /\ told1.key = k
    BY <2>1 DEF Event
  <2>4. new \in Seq({told1})
    BY <2>2
  <2> QED
    BY <1>1, <2>2, <2>3, <2>4
<1>3. CASE Decision(findings, k) # "block"
  <2>1. new = <<>> \/ \E told1 : new = <<told1>>
    BY <1>1, <1>3 DEF ReadEvents
  <2>2. CASE new = <<>>
    <3>1. new \in Seq({})
      BY <2>2
    <3> QED
      BY <1>1, <1>3, <3>1
  <2>3. ASSUME NEW told1, new = <<told1>> PROVE new \in Seq({told1})
    BY <2>3
  <2> QED
    BY <1>1, <1>3, <2>1, <2>2, <2>3
<1> QED
  BY <1>2, <1>3

\* A single event behind a list is its last.
LEMMA LastOfJoined ==
  ASSUME NEW S, NEW list \in Seq(S), NEW T, NEW new \in Seq(T), Len(new) = 1
  PROVE  list \o new # <<>> /\ (list \o new)[Len(list \o new)] = new[1]
<1>1. PICK all : all = list \o new
  OBVIOUS
<1>2. PICK n : n = Len(list)
  OBVIOUS
<1>3. all \in Seq(S \cup T) /\ n \in Nat /\ Len(all) = n + 1 /\ all[n + 1] = new[1]
  <2>1. 1 \in 1 .. Len(new)
    OBVIOUS
  <2>2. /\ list \o new \in Seq(S \cup T) /\ Len(list) \in Nat
        /\ Len(list \o new) = Len(list) + Len(new)
        /\ \A i \in 1 .. Len(new) : (list \o new)[Len(list) + i] = new[i]
    <3>1. list \in Seq(S) /\ new \in Seq(T)
      OBVIOUS
    <3>2. list \o new \in Seq(S \cup T)
      BY <3>1, Joined
    <3>3. Len(list) \in Nat /\ Len(list \o new) = Len(list) + Len(new)
      BY <3>1, Joined
    <3>4. \A i \in 1 .. Len(new) : (list \o new)[Len(list) + i] = new[i]
      BY <3>1, Joined
    <3> QED
      BY <3>2, <3>3, <3>4
  <2>3. /\ all \in Seq(S \cup T) /\ n \in Nat /\ Len(all) = n + Len(new)
        /\ \A i \in 1 .. Len(new) : all[n + i] = new[i]
    BY <1>1, <1>2, <2>2, Zenon
  <2> QED
    BY <2>1, <2>3
<1>4. all # <<>>
  BY <1>3
<1> QED
  BY <1>1, <1>3, <1>4

\* The events asked for are a list.
LEMMA MatchingIsList ==
  ASSUME NEW S, events \in Seq(S), NEW severity
  PROVE  \E T : Matching(severity) \in Seq(T)
<1>1. PICK places : places = MatchingPlaces(severity)
  OBVIOUS
<1>2. PICK n : n = Len(events)
  OBVIOUS
<1>3. n \in Nat /\ DOMAIN events = 1 .. n
  BY <1>2
<1>4. places \subseteq 1 .. n
  BY <1>1, <1>3 DEF MatchingPlaces
<1>5. IsFiniteSet(places)
  <2>1. IsFiniteSet(1 .. n)
    BY <1>3, FS_Interval
  <2> QED
    BY <1>4, <2>1, FS_Subset
<1>6. Cardinality(places) \in Nat
  BY <1>5, FS_CardinalityType
<1>7. PICK size : size = Cardinality(places)
  OBVIOUS
<1> DEFINE At(m) == events[CHOOSE i \in places : Cardinality({ j \in places : j <= i }) = m]
<1>8. Matching(severity) = [m \in 1 .. size |-> At(m)]
  BY <1>1, <1>7 DEF Matching
<1> HIDE DEF At
<1>9. [m \in 1 .. size |-> At(m)] \in [1 .. size -> { At(m) : m \in 1 .. size }]
  OBVIOUS
<1>10. [m \in 1 .. size |-> At(m)] \in Seq({ At(m) : m \in 1 .. size })
  BY <1>6, <1>7, <1>9
<1> QED
  BY <1>8, <1>10

LEMMA MinOfTwo ==
  ASSUME NEW a \in Int, NEW b \in Int
  PROVE  Min({a, b}) = IF a <= b THEN a ELSE b
<1> DEFINE least == IF a <= b THEN a ELSE b
<1>1. least \in {a, b} /\ \A x \in {a, b} : least <= x
  OBVIOUS
<1>2. \A x \in {a, b} : (\A y \in {a, b} : x <= y) => x = least
  OBVIOUS
<1> QED
  BY <1>1, <1>2 DEF Min

\* A page is as long as its limit allows, and ends where the list does.
LEMMA PageOfList ==
  ASSUME NEW S, NEW list \in Seq(S), NEW limit \in Int, limit > 0
  PROVE  /\ Len(Page(list, limit)) = Min({Len(list), limit})
         /\ \A i \in DOMAIN Page(list, limit) :
               Page(list, limit)[i] = list[Len(list) - Len(Page(list, limit)) + i]
<1>1. PICK n : n = Len(list)
  OBVIOUS
<1>2. n \in Nat
  BY <1>1
<1>3. PICK first : first = IF n - limit < 0 THEN 1 ELSE n - limit + 1
  OBVIOUS
<1>4. first \in 1 .. n + 1
  BY <1>2, <1>3
<1>5. PICK page : page = SubSeq(list, first, n)
  OBVIOUS
<1>6. Page(list, limit) = page
  BY <1>1, <1>3, <1>5 DEF Page
<1>7. Len(page) = n - first + 1
  BY <1>1, <1>2, <1>4, <1>5
<1>8. page \in Seq(S)
  BY <1>1, <1>2, <1>4, <1>5
<1>9. \A i \in 1 .. Len(page) : page[i] = list[first + i - 1]
  BY <1>1, <1>2, <1>4, <1>5, <1>7
<1>10. Len(page) = IF n <= limit THEN n ELSE limit
  BY <1>2, <1>3, <1>7
<1>11. \A i \in 1 .. Len(page) : first + i - 1 = n - Len(page) + i
  BY <1>2, <1>4, <1>7
<1>12. DOMAIN page = 1 .. Len(page)
  BY <1>8
<1>13. Min({n, limit}) = IF n <= limit THEN n ELSE limit
  BY <1>2, MinOfTwo
<1>14. \A i \in DOMAIN page : page[i] = list[n - Len(page) + i]
  BY <1>9, <1>11, <1>12
<1> QED
  BY <1>1, <1>6, <1>10, <1>13, <1>14

\* The inductive strengthening: the events are a list.
EventsInv == (\E S : events \in Seq(S)) /\ EventsAreTold

\* A served write adds what tells its decision, and says so in its response.
LEMMA WriteIsTold ==
  ASSUME EventsInv, NEW r \in WriteCalls, NEW an, ServeWrite(r, an)
  PROVE  EventsInv'
<1>1. PICK findings : findings = Findings("write", r.key, r.value, an)
  OBVIOUS
<1>2. PICK new : new = WriteEvents(r, findings)
  OBVIOUS
<1>3. PICK decision : decision = Decision(findings, r.key)
  OBVIOUS
<1>4. PICK old : old = events
  OBVIOUS
<1>5. events' = old \o new
  BY <1>1, <1>2, <1>4 DEF ServeWrite, Emit
<1>6. PICK S : old \in Seq(S)
  BY <1>4 DEF EventsInv
<1>7. Tells(new, r.key, decision)
  BY <1>2, <1>3, WriteTold
<1>8. PICK T : new \in Seq(T)
  BY <1>7 DEF Tells
<1>9. events' \in Seq(S \cup T)
  BY <1>5, <1>6, <1>8
<1>10. response'.request.endpoint = "write" /\ response'.request.key = r.key
  BY DEF ServeWrite, InternalError
<1>11. DecisionsAreTold'
  <2>1. CASE WriteBlocked(r, an) /\ InternalError(response'.request)
    <3>1. decision = "block"
      BY <1>1, <1>3, <2>1 DEF WriteBlocked, WriteDecision
    <3>2. Len(new) = 1 /\ new[1].action = "block" /\ new[1].key = r.key
      BY <1>7, <3>1 DEF Tells
    <3>3. events' # <<>> /\ events'[Len(events')] = new[1]
      BY <1>5, <1>6, <1>8, <3>2, LastOfJoined
    <3>4. response'.status = 500
      BY <2>1 DEF InternalError
    <3> QED
      BY <1>10, <3>2, <3>3, <3>4 DEF DecisionsAreTold, Answered
  <2>2. CASE WriteQuarantined(r, an) \/ WriteCommitted(r, an)
    <3>1. last'.out = decision
      BY <1>1, <1>3, <2>2 DEF WriteQuarantined, WriteCommitted, Answer, WriteDecision
    <3>2. decision # "block"
      BY <1>1, <1>3, <2>2 DEF WriteQuarantined, WriteCommitted, Accepted, WriteDecision
    <3>3. ~WriteBlocked(r, an)
      BY <1>1, <1>3, <3>2 DEF WriteBlocked, WriteDecision
    <3>4. PICK slice : slice = SubSeq(old \o new, Len(old) + 1, Len(old \o new))
      OBVIOUS
    <3>5. /\ response'.status = 200 /\ response'.action = decision
          /\ response'.events = slice
      BY <1>4, <1>5, <3>1, <3>3, <3>4 DEF ServeWrite, NewEvents
    <3>6. DOMAIN slice = DOMAIN new /\ \A i \in DOMAIN new : slice[i] = new[i]
      BY <1>6, <1>8, <3>4, NewOnes
    <3>7. /\ decision # "allow" => \E i \in DOMAIN slice : slice[i].action = decision
          /\ \A i \in DOMAIN slice :
                slice[i].key = r.key /\ slice[i].action \in {"allow", decision}
      BY <1>7, <3>6 DEF Tells
    <3> QED
      BY <1>10, <3>5, <3>7 DEF DecisionsAreTold, Answered
  <2> QED
    BY <1>10, <2>1, <2>2 DEF ServeWrite, InternalError
<1>12. PageIsNewest'
  BY <1>10 DEF PageIsNewest, Answered
<1> QED
  BY <1>9, <1>11, <1>12 DEF EventsInv, EventsAreTold

\* A served read that was refused has left its refusal behind the events.
LEMMA ReadIsTold ==
  ASSUME EventsInv, NEW k \in Keys, NEW an, ServeRead(k, an)
  PROVE  EventsInv'
<1>1. PICK findings :
        findings = IF Stored(k) THEN Findings("read", k, store[k], an) ELSE {}
  OBVIOUS
<1>2. PICK new : new = ReadEvents(k, findings)
  OBVIOUS
<1>3. PICK old : old = events
  OBVIOUS
<1>4. events' = old \o new
  BY <1>1, <1>2, <1>3 DEF ServeRead, Emit
<1>5. PICK S : old \in Seq(S)
  BY <1>3 DEF EventsInv
<1>6. PICK T : new \in Seq(T)
  BY <1>2, ReadTold
<1>7. events' \in Seq(S \cup T)
  BY <1>4, <1>5, <1>6
<1>8. response'.request.endpoint = "read" /\ response'.request.key = k
  BY DEF ServeRead, InternalError
<1>9. DecisionsAreTold'
  <2> SUFFICES ASSUME response'.status = 500
               PROVE  /\ events' # <<>>
                      /\ events'[Len(events')].action = "block"
                      /\ events'[Len(events')].key = k
    BY <1>8 DEF DecisionsAreTold, Answered
  <2>1. last'.out = "block"
    BY DEF ServeRead
  <2>2. ReadScreened(k, an) /\ Stored(k)
    BY <2>1 DEF ServeRead, ReadMissing, ReadScreened, Answer
  <2>3. Decision(findings, k) = "block"
    BY <1>1, <2>1, <2>2 DEF ReadScreened, Answer
  <2>4. PICK told1 : new = <<told1>> /\ told1.action = "block" /\ told1.key = k
    BY <1>2, <2>3, ReadTold
  <2>5. Len(new) = 1 /\ new[1] = told1
    BY <2>4
  <2> QED
    BY <1>4, <1>5, <1>6, <2>4, <2>5, LastOfJoined
<1>10. PageIsNewest'
  BY <1>8 DEF PageIsNewest, Answered
<1> QED
  BY <1>7, <1>9, <1>10 DEF EventsInv, EventsAreTold

\* A page of events is one of those asked for.
LEMMA EventsAreServed ==
  ASSUME EventsInv, NEW limit \in EventLimits, NEW severity, ServeEvents(limit, severity)
  PROVE  EventsInv'
<1>1. events' = events
  BY DEF ServeEvents
<1>2. DecisionsAreTold'
  BY DEF ServeEvents, DecisionsAreTold, Answered
<1>3. PageIsNewest'
  <2>1. PICK all : all = Matching(severity)
    OBVIOUS
  <2>2. PICK T : all \in Seq(T)
    BY <2>1, MatchingIsList DEF EventsInv
  <2>3. Matching(severity)' = all
    BY <1>1, <2>1 DEF Matching, MatchingPlaces
  <2>4. /\ response'.request.limit = limit /\ response'.request.severity = severity
        /\ response'.page = Page(all, limit)
    BY <2>1 DEF ServeEvents
  <2>5. limit \in Int
    BY ServerAssumption
  <2>6. limit > 0 =>
          /\ Len(Page(all, limit)) = Min({Len(all), limit})
          /\ \A i \in DOMAIN Page(all, limit) :
                Page(all, limit)[i] = all[Len(all) - Len(Page(all, limit)) + i]
    BY <2>2, <2>5, PageOfList
  <2> QED
    BY <2>3, <2>4, <2>6 DEF PageIsNewest
<1> QED
  BY <1>1, <1>2, <1>3 DEF EventsInv, EventsAreTold

\* Every decision other than to allow is told in its own response or, when that
\* has no body, by the newest event; and a page of events is the newest of them.
THEOREM EventsTold == ServerSpec => []EventsAreTold
<1>1. ServerInit => EventsInv
  <2> SUFFICES ASSUME ServerInit PROVE EventsInv
    OBVIOUS
  <2>1. events \in Seq({})
    BY DEF ServerInit
  <2>2. EventsAreTold
    BY DEF ServerInit, EventsAreTold, DecisionsAreTold, PageIsNewest, Answered
  <2> QED
    BY <2>1, <2>2 DEF EventsInv
<1>2. EventsInv /\ [ServerNext]_serverVars => EventsInv'
  <2> SUFFICES ASSUME EventsInv, [ServerNext]_serverVars PROVE EventsInv'
    OBVIOUS
  <2>1. ASSUME NEW r \in WriteCalls, NEW an, ServeWrite(r, an) PROVE EventsInv'
    BY <2>1, WriteIsTold
  <2>2. ASSUME NEW k \in Keys, NEW an, ServeRead(k, an) PROVE EventsInv'
    BY <2>2, ReadIsTold
  <2>3. ASSUME UNCHANGED events \/ events' = <<>>,
               response'.request.endpoint \notin {"read", "write", "events"}
        PROVE  EventsInv'
    <3>1. \E S : events' \in Seq(S)
      <4>1. <<>> \in Seq({})
        OBVIOUS
      <4> QED
        BY <2>3, <4>1 DEF EventsInv
    <3>2. EventsAreTold'
      BY <2>3 DEF EventsAreTold, DecisionsAreTold, PageIsNewest, Answered
    <3> QED
      BY <3>1, <3>2 DEF EventsInv
  <2>4. ASSUME NEW r \in WriteCalls, ServeScan(r.key, r.value, r.source) PROVE EventsInv'
    BY <2>3, <2>4 DEF ServeScan, InternalError
  <2>5. ASSUME NEW v \in Values, RunCheck(v) PROVE EventsInv'
    BY <2>3, <2>5 DEF RunCheck
  <2>6. ASSUME NEW limit \in EventLimits, NEW severity, ServeEvents(limit, severity)
        PROVE  EventsInv'
    BY <2>6, EventsAreServed
  <2>7. CASE ServeStats
    BY <2>3, <2>7 DEF ServeStats
  <2>8. CASE ServeReset
    BY <2>3, <2>8 DEF ServeReset
  <2>9. CASE UNCHANGED serverVars
    <3>1. events' = events /\ response' = response
      BY <2>9 DEF serverVars
    <3>2. DecisionsAreTold'
      BY <3>1 DEF EventsInv, EventsAreTold, DecisionsAreTold, Answered
    <3>3. Matching(response.request.severity)' = Matching(response.request.severity)
      BY <3>1 DEF Matching, MatchingPlaces
    <3>4. PageIsNewest'
      BY <3>1, <3>3 DEF EventsInv, EventsAreTold, PageIsNewest, Answered
    <3> QED
      BY <3>1, <3>2, <3>4 DEF EventsInv, EventsAreTold
  <2> QED
    BY <2>1, <2>2, <2>4, <2>5, <2>6, <2>7, <2>8, <2>9 DEF ServerNext
<1> QED
  BY <1>1, <1>2, PTL DEF ServerSpec, EventsInv

-----------------------------------------------------------------------------
(* The guard behind the server                                             *)

\* A guard that whoever holds it may replace by a new one between two calls.
RestartedGuard == Init /\ [][Next \/ Init']_vars

\* The server is given an empty store, with which it builds each of its guards.
EmptyGiven == [k \in Keys |-> NoValue] \in InitialStores

\* A request is a call of the guard, leaves it alone, or builds it anew.
LEMMA RequestIsCall ==
  ASSUME EmptyGiven, [ServerNext]_serverVars
  PROVE  [Next \/ Init']_vars
<1>1. ASSUME NEW r \in WriteCalls, NEW an \in SUBSET Anomalies,
             an \subseteq PossibleAnomalies("write", r.source), ServeWrite(r, an)
      PROVE  Next
  <2>1. \/ WriteBlocked(r, an) \/ WriteQuarantined(r, an) \/ WriteCommitted(r, an)
    BY <1>1 DEF ServeWrite
  <2>2. Write(r)
    BY <1>1, <2>1 DEF Write
  <2> QED
    BY <2>2 DEF Next
<1>2. ASSUME NEW k \in Keys, NEW an \in SUBSET PossibleAnomalies("read", "unknown"),
             ServeRead(k, an)
      PROVE  Next
  <2>1. ReadMissing(k) \/ ReadScreened(k, an)
    BY <1>2 DEF ServeRead
  <2>2. Read(k)
    BY <2>1 DEF Read
  <2> QED
    BY <2>2 DEF Next
<1>3. ASSUME ServeReset PROVE Init'
  <2>1. store' = [k \in Keys |-> NoValue] /\ \A k \in Keys : store'[k] = NoValue
    BY <1>3 DEF ServeReset
  <2>2. baselines' = [k \in Keys |-> IF k \in ImmutableExact THEN store'[k] ELSE NoValue]
    BY <1>3, <2>1 DEF ServeReset
  <2>3. outside' = [k \in Keys |-> {store'[k]}]
    BY <1>3, <2>1 DEF ServeReset
  <2> QED
    BY <1>3, <2>1, <2>2, <2>3 DEF ServeReset, EmptyGiven, Init
<1>4. ASSUME NEW r \in WriteCalls, ServeScan(r.key, r.value, r.source) PROVE UNCHANGED vars
  BY <1>4 DEF ServeScan
<1>5. ASSUME NEW v \in Values, RunCheck(v) PROVE UNCHANGED vars
  BY <1>5 DEF RunCheck
<1>6. ASSUME NEW limit, NEW severity, ServeEvents(limit, severity) PROVE UNCHANGED vars
  BY <1>6 DEF ServeEvents
<1>7. CASE ServeStats
  BY <1>7 DEF ServeStats
<1>8. CASE UNCHANGED serverVars
  BY <1>8 DEF serverVars
<1> QED
  BY <1>1, <1>2, <1>3, <1>4, <1>5, <1>6, <1>7, <1>8 DEF ServerNext

LEMMA StartsWithEmpty == ServerInit => Init /\ EmptyGiven
BY DEF ServerInit, Init, EmptyGiven

\* The server implements a guard that may be built anew: no request does to it
\* what no call could, and /reset leaves nothing of the old one behind.
THEOREM ServerImplementsGuard == ServerSpec => RestartedGuard
<1>1. EmptyGiven /\ [ServerNext]_serverVars => [Next \/ Init']_vars
  BY RequestIsCall
<1>2. EmptyGiven /\ [ServerNext]_serverVars => EmptyGiven'
  BY DEF EmptyGiven
<1> QED
  BY <1>1, <1>2, StartsWithEmpty, PTL DEF ServerSpec, RestartedGuard

\* So what holds of every guard holds of the server's, across its resets: the
\* lineage stays acyclic, HIGH trust is attested, the untrusted classes are
\* capped, and no memory fills an argument that needs VERIFIED trust.
THEOREM ServerKeepsTrust ==
  ServerSpec => [](/\ TypeOK /\ LineageAcyclic /\ HighTrustIsAttested
                   /\ UntrustedClassCapped /\ VerifiedRolesNeverFilled)
<1>1. TrustInv /\ [Next \/ Init']_vars => TrustInv'
  <2>1. Init' => TrustInv'
    BY InitTrust, PTL
  <2> QED
    BY <2>1, StepTrust
<1>2. TrustInv => /\ TypeOK /\ LineageAcyclic /\ HighTrustIsAttested
                  /\ UntrustedClassCapped /\ VerifiedRolesNeverFilled
  BY NothingFillsVerified DEF TrustInv
<1>3. RestartedGuard => []TrustInv
  BY <1>1, InitTrust, PTL DEF RestartedGuard
<1> QED
  BY <1>2, <1>3, ServerImplementsGuard, PTL

\* What a client reads from the server is neither a secret nor an injection.
Clean(v) == ~Sensitive(v) /\ ~Injected(v)

ReadsServeClean ==
    Answered("read") /\ response.value # NoValue => Clean(response.value)

\* The inductive strengthening: nothing else is in the server's store, which
\* only its own writes ever fill.
ServedInv ==
    /\ store \in [Keys -> Entry]
    /\ \A k \in Keys : store[k] # NoValue => Clean(store[k])
    /\ ReadsServeClean

LEMMA WriteStaysClean ==
  ASSUME InjectionsHeld, SecretsNotAllowed, RedactionCleans,
         ServedInv, NEW r \in WriteCalls, NEW an, ServeWrite(r, an)
  PROVE  ServedInv'
<1>1. ~Answered("read")'
  BY DEF ServeWrite, InternalError, Answered
<1>2. ReadsServeClean'
  BY <1>1 DEF ReadsServeClean
<1>3. CASE UNCHANGED store
  BY <1>2, <1>3 DEF ServedInv, Clean, Sensitive, Injected
<1>4. CASE WriteCommitted(r, an)
  <2>1. store' = [store EXCEPT ![r.key] = Committed(r, an)]
    BY <1>4 DEF WriteCommitted
  <2>2. Committed(r, an) \in Entry
    BY WriteCallFields, ValuesAssumption DEF Committed, Entry
  <2>3. Clean(Committed(r, an))
    BY <1>4, CommittedIsSafe DEF Clean
  <2>4. store' \in [Keys -> Entry]
    BY <2>1, <2>2 DEF ServedInv
  <2>5. \A k \in Keys : store'[k] \in {store[k], Committed(r, an)}
    BY <2>1 DEF ServedInv
  <2>6. ASSUME NEW k \in Keys, store'[k] # NoValue PROVE Clean(store'[k])
    BY <2>3, <2>5, <2>6 DEF ServedInv
  <2> QED
    BY <1>2, <2>4, <2>6 DEF ServedInv, Clean, Sensitive, Injected
<1> QED
  BY <1>3, <1>4 DEF ServeWrite, WriteBlocked, WriteQuarantined

LEMMA ReadStaysClean ==
  ASSUME RedactionCleans, ServedInv, NEW k \in Keys, NEW an, ServeRead(k, an)
  PROVE  ServedInv'
<1>1. UNCHANGED store
  BY DEF ServeRead, ReadMissing, ReadScreened, guardVars
<1>2. last'.value # NoValue => Clean(last'.value)
  <2>1. CASE ReadMissing(k)
    BY <2>1 DEF ReadMissing, Answer
  <2>2. CASE ReadScreened(k, an)
    <3>1. store[k] \in Values /\ Clean(store[k])
      BY <2>2 DEF ReadScreened, Stored, ServedInv, Entry
    <3>2. last'.value \in {NoValue, store[k], Redacted[store[k]]}
      BY <2>2 DEF ReadScreened, Answer
    <3>3. Clean(Redacted[store[k]])
      BY <3>1 DEF RedactionCleans, Clean
    <3> QED
      BY <3>1, <3>2, <3>3
  <2> QED
    BY <2>1, <2>2 DEF ServeRead
<1>3. ReadsServeClean'
  <2>1. CASE last'.out = "block"
    BY <2>1 DEF ServeRead, InternalError, ReadsServeClean, Answered
  <2>2. CASE last'.out # "block"
    <3>1. PICK found : found = (last'.value \notin {NoValue, NullValue})
      OBVIOUS
    <3>2. response' = [status |-> 200, request |-> [endpoint |-> "read", key |-> k],
                       value |-> last'.value, found |-> found, events |-> NewEvents]
      BY <2>2, <3>1, Zenon DEF ServeRead
    <3>3. response'.value = last'.value
      BY <3>2
    <3> QED
      BY <1>2, <3>3 DEF ReadsServeClean, Clean, Sensitive, Injected
  <2> QED
    BY <2>1, <2>2
<1> QED
  BY <1>1, <1>3 DEF ServedInv, Clean, Sensitive, Injected

\* Under a policy that blocks or quarantines injections and lets no secret
\* through as it is, no response to /read holds one of either, without
\* exception: the server's store is filled by its own writes alone.
THEOREM ReadsAreClean ==
  ASSUME InjectionsHeld, SecretsNotAllowed, RedactionCleans
  PROVE  ServerSpec => []ReadsServeClean
<1>1. ServerInit => ServedInv
  BY DEF ServerInit, ServedInv, Entry, ReadsServeClean, Answered
<1>2. ServedInv /\ [ServerNext]_serverVars => ServedInv'
  <2> SUFFICES ASSUME ServedInv, [ServerNext]_serverVars PROVE ServedInv'
    OBVIOUS
  <2>1. ASSUME NEW r \in WriteCalls, NEW an, ServeWrite(r, an) PROVE ServedInv'
    BY <2>1, WriteStaysClean
  <2>2. ASSUME NEW k \in Keys, NEW an, ServeRead(k, an) PROVE ServedInv'
    BY <2>2, ReadStaysClean
  <2>3. ASSUME UNCHANGED vars, ~Answered("read")' PROVE ServedInv'
    BY <2>3 DEF vars, guardVars, ServedInv, ReadsServeClean, Clean, Sensitive, Injected
  <2>4. ASSUME NEW r \in WriteCalls, ServeScan(r.key, r.value, r.source) PROVE ServedInv'
    BY <2>3, <2>4 DEF ServeScan, InternalError, Answered
  <2>5. ASSUME NEW v \in Values, RunCheck(v) PROVE ServedInv'
    BY <2>3, <2>5 DEF RunCheck, Answered
  <2>6. ASSUME NEW limit, NEW severity, ServeEvents(limit, severity) PROVE ServedInv'
    BY <2>3, <2>6 DEF ServeEvents, Answered
  <2>7. CASE ServeStats
    BY <2>3, <2>7 DEF ServeStats, Answered
  <2>8. CASE ServeReset
    BY <2>8 DEF ServeReset, Answered, ServedInv, Entry, ReadsServeClean
  <2>9. CASE UNCHANGED serverVars
    BY <2>9 DEF serverVars, vars, guardVars, ServedInv, ReadsServeClean, Answered,
                Clean, Sensitive, Injected
  <2> QED
    BY <2>1, <2>2, <2>4, <2>5, <2>6, <2>7, <2>8, <2>9 DEF ServerNext
<1>3. ServedInv => ReadsServeClean
  BY DEF ServedInv
<1> QED
  BY <1>1, <1>2, <1>3, PTL DEF ServerSpec

=============================================================================
