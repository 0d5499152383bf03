--------------------------- MODULE MessageProofs ---------------------------
(***************************************************************************)
(* What the two message-screening packages promise, for any policy, texts, *)
(* keys and conversations, any number of threads and of calls.             *)
(***************************************************************************)
EXTENDS MCScreens, OperatorProofs

\* What a rate or a size gets is no refusal: the one thing VerdictIsOwn needs of
\* the policy.  Policy.strict holds such writes back (StrictHoldsBack).
AnomaliesNotBlocked ==
    \A k \in ScanKeys : \A d \in {"size_anomaly", "rapid_change"} :
        Decide(Found(d, SevMedium), k) # "block"

LEMMA StrictHoldsBack == Rules = StrictRules => AnomaliesNotBlocked
<1> SUFFICES ASSUME Rules = StrictRules, NEW k \in ScanKeys,
                    NEW d \in {"size_anomaly", "rapid_change"}
             PROVE  Decide(Found(d, SevMedium), k) = "quarantine"
  BY DEF AnomaliesNotBlocked
<1> DEFINE f == Found(d, SevMedium)
<1>1. /\ DOMAIN Rules = 1 .. 6
      /\ Rules[1] = Rule("prompt_injection", "block")
      /\ Rules[2] = Rule("long_horizon", "block")
      /\ Rules[3] = Rule("sensitive_data", "redact")
      /\ Rules[4] = Rule("protected_key", "block")
      /\ Rules[5] = Rule("size_anomaly", "quarantine")
      /\ Rules[6] = Rule("rapid_change", "quarantine")
  BY DEF StrictRules
<1>2. ASSUME NEW on, NEW act
      PROVE  /\ Rule(on, act).on = on /\ Rule(on, act).action = act
             /\ Rule(on, act).keys = {} /\ Rule(on, act).min_severity = SevLow
  BY DEF Rule
<1>3. f.detector = d /\ f.severity >= SevLow
  BY DEF Found, SevMedium, SevLow
<1>4. \A i \in 1 .. 6 : AppliesTo(Rules[i], f, k) <=> Rules[i].on = d
  <2> SUFFICES ASSUME NEW i \in 1 .. 6
               PROVE  AppliesTo(Rules[i], f, k) <=> Rules[i].on = d
    OBVIOUS
  <2>1. i \in {1, 2, 3, 4, 5, 6}
    OBVIOUS
  <2>2. Rules[i].keys = {} /\ Rules[i].min_severity = SevLow /\ Rules[i].on # "*"
    BY <1>1, <1>2, <2>1
  <2> QED
    BY <1>3, <2>2 DEF AppliesTo
<1>5. CASE d = "size_anomaly"
  BY <1>5, <1>1, <1>2, <1>4, FirstRuleWins
<1>6. CASE d = "rapid_change"
  BY <1>6, <1>1, <1>2, <1>4, FirstRuleWins
<1> QED
  BY <1>5, <1>6

\* A call is refused exactly when one of its findings is to be.
LEMMA BlockedByOne ==
  ASSUME NEW findings, NEW k
  PROVE  Decision(findings, k) = "block" <=> \E f \in findings : Decide(f, k) = "block"
<1>1. Decision(findings, k) \in {"allow"} \cup { Decide(f, k) : f \in findings }
  BY DecisionHighest
<1> QED
  BY <1>1, DecisionBlocks

\* The verdict on a text is that on its content alone, if the anomalies of its
\* key are not refused; and a text with unsafe content is refused in any case.
LEMMA ContentDecides ==
  ASSUME NEW k \in ScanKeys, NEW text \in Texts
  PROVE  /\ Unsafe(text, k) => ScanDecision(k, text) = "block"
         /\ AnomaliesNotBlocked /\ ScanDecision(k, text) = "block" => Unsafe(text, k)
<1>1. HistoryReport(k, text)
        \subseteq { Found(d, SevMedium) : d \in {"size_anomaly", "rapid_change"} }
  BY DEF HistoryReport, SizeFindings, RapidFindings, FindingIf
<1>2. AnomaliesNotBlocked => \A f \in HistoryReport(k, text) : Decide(f, k) # "block"
  BY <1>1 DEF AnomaliesNotBlocked
<1> QED
  BY <1>2, BlockedByOne DEF Unsafe, ScanDecision

-----------------------------------------------------------------------------
(* The middleware: one call at a time *)

MiddlewareKeys == {InputKey, OutputKey} \cup ToolKeys

ThreadCall ==
    [step : {"rest", "next", "delete", "unsafe", "violation"},
     hook : {"none", "before_model", "after_model", "wrap_tool_call"},
     key : MiddlewareKeys, texts : Seq(Texts \cup {Empty}),
     out : Seq(Texts \cup {Empty}), seen : Nat]

\* What a call has handed on so far.
SafeOut(c) ==
    \A i \in DOMAIN c.out :
        \/ mode = "warn"
        \/ mode = "strip" /\ c.hook = "after_model"
        \/ c.out[i] = Empty
        \/ ~Unsafe(c.out[i], c.key)

\* A call between two of its steps.
CallInv(c) ==
    /\ c \in ThreadCall
    /\ c.step \in {"delete", "unsafe", "violation"} =>
          c.texts # <<>> /\ Head(c.texts) \in Texts
    /\ c.step = "delete" => ~Unsafe(Head(c.texts), c.key)
    /\ c.step = "unsafe" /\ AnomaliesNotBlocked => Unsafe(Head(c.texts), c.key)
    /\ SafeOut(c)

\* What is in the guard's store is about to be deleted by a thread.
HeldInv ==
    /\ held \in [ScanKeys -> Texts \cup {NoText}]
    /\ \A k \in MiddlewareKeys :
          held[k] # NoText =>
              \E t \in Threads : thread[t].step = "delete" /\ thread[t].key = k

MiddlewareInv ==
    /\ mode \in {"block", "warn", "strip"} /\ violationCount \in Nat
    /\ DOMAIN thread = Threads /\ thread = [t \in Threads |-> thread[t]]
    /\ \A t \in Threads : CallInv(thread[t])
    /\ HeldInv

LEMMA RestingCall == CallInv(Resting)
  BY DEF Resting, NewCall, CallInv, ThreadCall, MiddlewareKeys, SafeOut

\* The next text of a call is done with and `outs` is handed on of it.
LEMMA ProceedsCall ==
  ASSUME NEW c, CallInv(c), c.texts # <<>>, NEW outs \in Seq(Texts \cup {Empty}),
         \A i \in DOMAIN outs :
            \/ mode = "warn"
            \/ mode = "strip" /\ c.hook = "after_model"
            \/ outs[i] = Empty
            \/ ~Unsafe(outs[i], c.key)
  PROVE  CallInv(Done(c, outs))
<1> DEFINE d == Done(c, outs)
<1>1. /\ c.texts \in Seq(Texts \cup {Empty}) /\ c.out \in Seq(Texts \cup {Empty})
      /\ c \in ThreadCall
  BY DEF CallInv, ThreadCall
<1>2. Tail(c.texts) \in Seq(Texts \cup {Empty})
  BY <1>1
<1>3. /\ c.out \o outs \in Seq(Texts \cup {Empty})
      /\ \A i \in DOMAIN (c.out \o outs) :
            \/ i \in DOMAIN c.out /\ (c.out \o outs)[i] = c.out[i]
            \/ i - Len(c.out) \in DOMAIN outs /\ (c.out \o outs)[i] = outs[i - Len(c.out)]
  BY <1>1
<1>4. /\ d.step = "next" /\ d.texts = Tail(c.texts) /\ d.out = c.out \o outs
      /\ d.hook = c.hook /\ d.key = c.key /\ d.seen = c.seen /\ d \in ThreadCall
  BY <1>1, <1>2, <1>3 DEF ThreadCall, Done
<1>5. SafeOut(c)
  BY DEF CallInv
<1>6. SafeOut(d)
  <2> SUFFICES ASSUME NEW i \in DOMAIN d.out
               PROVE  \/ mode = "warn"
                      \/ mode = "strip" /\ d.hook = "after_model"
                      \/ d.out[i] = Empty
                      \/ ~Unsafe(d.out[i], d.key)
    BY DEF SafeOut
  <2>1. CASE i \in DOMAIN c.out /\ d.out[i] = c.out[i]
    BY <1>4, <1>5, <2>1 DEF SafeOut
  <2>2. CASE i - Len(c.out) \in DOMAIN outs /\ d.out[i] = outs[i - Len(c.out)]
    BY <1>4, <2>2
  <2> QED
    BY <1>3, <1>4, <2>1, <2>2
<1> QED
  BY <1>4, <1>6 DEF CallInv

\* A step that moves one thread, leaving the store to be justified.
LEMMA ThreadMoves ==
  ASSUME MiddlewareInv, NEW t \in Threads, NEW c, CallInv(c),
         thread' = [thread EXCEPT ![t] = c], UNCHANGED mode,
         violationCount' \in Nat, HeldInv'
  PROVE  MiddlewareInv'
<1>1. /\ DOMAIN thread' = Threads /\ thread'[t] = c
      /\ \A s \in Threads \ {t} : thread'[s] = thread[s]
      /\ thread' = [s \in Threads |-> thread'[s]]
  BY DEF MiddlewareInv
<1>2. \A s \in Threads : CallInv(thread'[s])
  BY <1>1 DEF MiddlewareInv
<1>3. \A s \in Threads : CallInv(thread[s])'
  BY <1>2 DEF CallInv, SafeOut, ThreadCall, Unsafe
<1> QED
  BY <1>1, <1>3 DEF MiddlewareInv

\* The store is as it was, and no thread leaves its "delete" step.
LEMMA HeldKept ==
  ASSUME MiddlewareInv, NEW t \in Threads, NEW c,
         thread' = [thread EXCEPT ![t] = c], held' = held,
         thread[t].step = "delete" => c.step = "delete" /\ c.key = thread[t].key
  PROVE  HeldInv'
<1>1. /\ thread'[t] = c /\ \A s \in Threads \ {t} : thread'[s] = thread[s]
  BY DEF MiddlewareInv
<1> QED
  BY <1>1 DEF MiddlewareInv, HeldInv

LEMMA StartsCall ==
  ASSUME MiddlewareInv, NEW t \in Threads,
         NEW hook \in {"before_model", "after_model", "wrap_tool_call"},
         NEW k \in MiddlewareKeys, NEW texts \in Seq(Texts \cup {Empty}),
         Calls(t, hook, k, texts)
  PROVE  MiddlewareInv'
<1> DEFINE c == NewCall("next", hook, k, texts)
<1>1. <<>> \in Seq(Texts \cup {Empty})
  OBVIOUS
<1>2. c \in ThreadCall /\ c.step = "next" /\ c.out = <<>>
  BY <1>1 DEF ThreadCall, NewCall
<1>3. CallInv(c)
  BY <1>2 DEF CallInv, SafeOut
<1>4. /\ thread' = [thread EXCEPT ![t] = c] /\ held' = held
      /\ UNCHANGED <<mode, violationCount>> /\ thread[t].step = "rest"
  BY DEF Calls, scanVars
<1>5. HeldInv'
  BY <1>4, HeldKept
<1> QED
  BY <1>3, <1>4, <1>5, ThreadMoves DEF MiddlewareInv

LEMMA StepThread ==
  ASSUME MiddlewareInv, NEW t \in Threads, ThreadStep(t)
  PROVE  MiddlewareInv'
<1> DEFINE c == thread[t]
           text == Head(c.texts)
<1>1. /\ CallInv(c) /\ c \in ThreadCall /\ c.texts \in Seq(Texts \cup {Empty})
      /\ c.key \in MiddlewareKeys /\ violationCount \in Nat
  BY DEF MiddlewareInv, CallInv, ThreadCall
<1>2. c.key \in ScanKeys /\ MiddlewareKeys \subseteq ScanKeys
  BY <1>1, MiddlewareAssumption DEF MiddlewareKeys
<1>3. CASE SkipsEmpty(t)
  <2> DEFINE outs == <<Empty>>
             d == Done(c, outs)
  <2>1. /\ c.step = "next" /\ c.texts # <<>> /\ thread' = [thread EXCEPT ![t] = d]
        /\ held' = held /\ UNCHANGED <<mode, violationCount>>
    BY <1>3 DEF SkipsEmpty, Proceeds, scanVars
  <2>2. outs \in Seq(Texts \cup {Empty}) /\ \A i \in DOMAIN outs : outs[i] = Empty
    OBVIOUS
  <2>3. CallInv(d)
    BY <1>1, <2>1, <2>2, ProceedsCall
  <2>4. HeldInv'
    BY <2>1, HeldKept
  <2> QED
    BY <1>1, <2>1, <2>3, <2>4, ThreadMoves
<1>4. CASE ScanWrites(t)
  <2> DEFINE decision == ScanDecision(c.key, text)
             d == Judged(c)
  <2>1. /\ c.step = "next" /\ c.texts # <<>> /\ text # Empty /\ text \in Texts
        /\ ScanWrite(c.key, text) /\ UNCHANGED <<mode, violationCount>>
        /\ thread' = [thread EXCEPT ![t] = d]
    BY <1>1, <1>4 DEF ScanWrites, Current
  <2>2. /\ d \in ThreadCall /\ d.step = Verdict(decision) /\ d.texts = c.texts
        /\ d.key = c.key /\ d.out = c.out /\ d.hook = c.hook
        /\ d.step \in {"unsafe", "delete"}
        /\ d.step = "unsafe" <=> decision = "block"
    BY <1>1 DEF ThreadCall, Verdict, Judged
  <2>3. CallInv(d)
    BY <1>1, <1>2, <2>1, <2>2, ContentDecides DEF CallInv, SafeOut
  <2>4. HeldInv'
    <3>1. /\ thread'[t] = d /\ \A s \in Threads \ {t} : thread'[s] = thread[s]
      BY <2>1 DEF MiddlewareInv
    <3>2. CASE decision \in {"allow", "redact"}
      <4>1. held' = [held EXCEPT ![c.key] = text] /\ d.step = "delete"
        BY <2>1, <2>2, <3>2 DEF ScanWrite
      <4>2. held' \in [ScanKeys -> Texts \cup {NoText}]
        BY <2>1, <4>1 DEF MiddlewareInv, HeldInv
      <4>3. \A k \in ScanKeys \ {c.key} : held'[k] = held[k]
        BY <4>1 DEF MiddlewareInv, HeldInv
      <4> QED
        BY <1>2, <2>1, <2>2, <3>1, <4>1, <4>2, <4>3 DEF MiddlewareInv, HeldInv
    <3>3. CASE decision \notin {"allow", "redact"}
      <4>1. held' = held
        BY <2>1, <3>3 DEF ScanWrite
      <4> QED
        BY <2>1, <4>1, HeldKept
    <3> QED
      BY <3>2, <3>3
  <2> QED
    BY <1>1, <2>1, <2>3, <2>4, ThreadMoves
<1>5. CASE ScanDeletes(t)
  <2> DEFINE outs == <<text>>
             d == Done(c, outs)
  <2>1. /\ c.step = "delete" /\ c.texts # <<>> /\ text \in Texts /\ ~Unsafe(text, c.key)
        /\ thread' = [thread EXCEPT ![t] = d] /\ held' = [held EXCEPT ![c.key] = NoText]
        /\ UNCHANGED <<mode, violationCount>>
    BY <1>1, <1>5 DEF ScanDeletes, Proceeds, Current, ScanDelete, CallInv
  <2>2. /\ outs \in Seq(Texts \cup {Empty})
        /\ \A i \in DOMAIN outs : ~Unsafe(outs[i], c.key)
    BY <2>1
  <2>3. CallInv(d)
    BY <1>1, <2>1, <2>2, ProceedsCall
  <2>4. HeldInv'
    <3>1. \A s \in Threads \ {t} : thread'[s] = thread[s]
      BY <2>1 DEF MiddlewareInv
    <3>2. /\ held'[c.key] = NoText /\ \A k \in ScanKeys \ {c.key} : held'[k] = held[k]
          /\ held' \in [ScanKeys -> Texts \cup {NoText}]
      BY <1>2, <2>1 DEF MiddlewareInv, HeldInv
    <3>3. ASSUME NEW k \in MiddlewareKeys, held'[k] # NoText
          PROVE  \E s \in Threads : thread'[s].step = "delete" /\ thread'[s].key = k
      <4>1. k # c.key /\ held[k] # NoText
        BY <1>2, <3>2, <3>3
      <4>2. PICK s \in Threads : thread[s].step = "delete" /\ thread[s].key = k
        BY <4>1 DEF MiddlewareInv, HeldInv
      <4> QED
        BY <3>1, <4>1, <4>2
    <3> QED
      BY <3>2, <3>3 DEF HeldInv
  <2> QED
    BY <1>1, <2>1, <2>3, <2>4, ThreadMoves
<1>6. CASE CountsViolation(t)
  <2> DEFINE d == [c EXCEPT !.step = "violation", !.seen = violationCount]
  <2>1. /\ c.step = "unsafe" /\ thread' = [thread EXCEPT ![t] = d]
        /\ held' = held /\ UNCHANGED <<mode, violationCount>>
    BY <1>6 DEF CountsViolation, scanVars
  <2>2. /\ d \in ThreadCall /\ d.step = "violation" /\ d.texts = c.texts
        /\ d.key = c.key /\ d.out = c.out /\ d.hook = c.hook
    BY <1>1 DEF ThreadCall
  <2>3. CallInv(d)
    BY <1>1, <2>1, <2>2 DEF CallInv, SafeOut
  <2>4. HeldInv'
    BY <2>1, HeldKept
  <2> QED
    BY <1>1, <2>1, <2>3, <2>4, ThreadMoves
<1>7. CASE HandlesViolation(t)
  <2>1. /\ c.step = "violation" /\ c.texts # <<>> /\ text \in Texts
        /\ held' = held /\ UNCHANGED mode /\ violationCount' \in Nat
    BY <1>1, <1>7 DEF HandlesViolation, scanVars, CallInv, ThreadCall
  <2>2. CASE mode = "block"
    <3>1. thread' = [thread EXCEPT ![t] = Resting]
      BY <1>7, <2>2 DEF HandlesViolation
    <3>2. HeldInv'
      BY <2>1, <3>1, HeldKept
    <3> QED
      BY <2>1, <3>1, <3>2, RestingCall, ThreadMoves
  <2>3. CASE mode # "block"
    <3> DEFINE outs == HandsOn(t)
               d == Done(c, outs)
    <3>1. thread' = [thread EXCEPT ![t] = d]
      BY <1>7, <2>3 DEF HandlesViolation, Proceeds
    <3>2. /\ outs \in Seq(Texts \cup {Empty})
          /\ \A i \in DOMAIN outs :
                \/ mode = "warn"
                \/ mode = "strip" /\ c.hook = "after_model"
                \/ outs[i] = Empty
      <4>1. outs \in {<<text>>, <<>>, <<Empty>>}
        BY DEF HandsOn, Current
      <4>2. outs = <<text>> => mode = "warn" \/ c.hook = "after_model"
        BY <2>1, MiddlewareAssumption DEF HandsOn, Current
      <4>3. /\ <<text>> \in Seq(Texts \cup {Empty}) /\ <<Empty>> \in Seq(Texts \cup {Empty})
            /\ <<>> \in Seq(Texts \cup {Empty}) /\ DOMAIN <<Empty>> = {1}
            /\ <<Empty>>[1] = Empty
        BY <2>1
      <4>4. mode \in {"warn", "strip"}
        BY <2>3 DEF MiddlewareInv
      <4> HIDE DEF outs
      <4>5. CASE outs = <<text>>
        BY <4>2, <4>3, <4>4, <4>5
      <4>6. CASE outs = <<>>
        BY <4>3, <4>6
      <4>7. CASE outs = <<Empty>>
        BY <4>3, <4>7
      <4> QED
        BY <4>1, <4>5, <4>6, <4>7
    <3>3. CallInv(d)
      BY <1>1, <2>1, <3>2, ProceedsCall
    <3>4. HeldInv'
      BY <2>1, <3>1, HeldKept
    <3> QED
      BY <2>1, <3>1, <3>3, <3>4, ThreadMoves
  <2> QED
    BY <2>2, <2>3
<1>8. CASE CallReturns(t)
  <2>1. /\ c.step = "next" /\ thread' = [thread EXCEPT ![t] = Resting]
        /\ held' = held /\ UNCHANGED <<mode, violationCount>>
    BY <1>8 DEF CallReturns, scanVars
  <2>2. HeldInv'
    BY <2>1, HeldKept
  <2> QED
    BY <1>1, <2>1, <2>2, RestingCall, ThreadMoves
<1> QED
  BY <1>3, <1>4, <1>5, <1>6, <1>7, <1>8 DEF ThreadStep

-----------------------------------------------------------------------------
(* The hook, and both packages on what they share: the detectors' memory *)

HookInv ==
    /\ messageCounter \in Nat
    /\ onViolation \in {"block", "warn", "strip", "quarantine"}
    /\ DeliveredIsSafe

\* What EveryMessageAfresh needs of the texts and the rate: one write is none too
\* many, and no text is too large as such.
OneIsNoAnomaly == MaxWrites >= 1 /\ \A m \in Texts : Size[m] <= MaxBytes

\* The keys of the messages to come are unknown to the detectors.
FreshInv ==
    /\ now \in Nat
    /\ lastSize = [k \in ScanKeys |-> lastSize[k]]
    /\ writeTimes = [k \in ScanKeys |-> writeTimes[k]]
    /\ \A m \in DOMAIN MessageId :
          m[2] > messageCounter =>
              lastSize[MessageId[m]] = 0 /\ writeTimes[MessageId[m]] = <<>>
    /\ OneIsNoAnomaly => EveryMessageAfresh

ScreensInv == MiddlewareInv /\ HookInv /\ FreshInv

screensVars == <<middlewareVars, hookVars, package>>

\* The key of the next message.
LEMMA NextKey ==
  ASSUME HookInv, NEW sender \in Senders, messageCounter < MaxMessages
  PROVE  /\ <<sender, messageCounter + 1>> \in DOMAIN MessageId
         /\ MessageId[<<sender, messageCounter + 1>>] \in ScanKeys \ MiddlewareKeys
<1>1. messageCounter + 1 \in 1 .. MaxMessages
  BY HookAssumption DEF HookInv
<1>2. <<sender, messageCounter + 1>> \in Senders \X (1 .. MaxMessages)
  BY <1>1
<1> QED
  BY <1>2, HookAssumption, ScreensAssumption DEF Range, MiddlewareKeys

\* A first write under a key has nothing to report.
LEMMA FirstWriteUnnoticed ==
  ASSUME OneIsNoAnomaly, NEW k, NEW text \in Texts, now \in Nat,
         lastSize[k] = 0, writeTimes[k] = <<>>
  PROVE  HistoryReport(k, text) = {}
<1> DEFINE all == Append(<<>>, now)
           keep == { i \in DOMAIN all : all[i] >= now - Window }
<1>1. all = <<now>> /\ DOMAIN all = {1} /\ all[1] = now /\ Len(all) = 1
  OBVIOUS
<1>2. keep = {1} /\ Window \in Nat
  BY <1>1, HistoryAssumption
<1>3. Min({1}) = 1
  BY MinNat
<1>4. WritesAfter(<<>>, now) = SubSeq(<<now>>, 1, 1)
  BY <1>1, <1>2, <1>3 DEF WritesAfter, Purged
<1>5. Len(WritesAfter(<<>>, now)) = 1
  BY <1>4
<1>6. RapidFindings(writeTimes[k], now) = {}
  <2>1. MaxWrites \in Nat /\ MaxWrites >= 1
    BY HistoryAssumption DEF OneIsNoAnomaly
  <2>2. WritesAfter(writeTimes[k], now) = WritesAfter(<<>>, now)
    OBVIOUS
  <2>3. Len(WritesAfter(writeTimes[k], now)) = 1
    BY <1>5, <2>2, Zenon
  <2>4. ~(1 > MaxWrites)
    BY <2>1
  <2> QED
    BY <2>3, <2>4, Zenon DEF RapidFindings, FindingIf
<1>7. SizeFindings(lastSize[k], Size[text]) = {}
  BY TextsAssumption, HistoryAssumption DEF SizeFindings, FindingIf, OneIsNoAnomaly
<1> QED
  BY <1>6, <1>7 DEF HistoryReport

\* What a write under k leaves as it was.
LEMMA WriteElsewhere ==
  ASSUME FreshInv, NEW k \in ScanKeys, NEW text, ScanWrite(k, text)
  PROVE  /\ now' \in Nat
         /\ lastSize' = [j \in ScanKeys |-> lastSize'[j]]
         /\ writeTimes' = [j \in ScanKeys |-> writeTimes'[j]]
         /\ \A j \in ScanKeys \ {k} :
               lastSize'[j] = lastSize[j] /\ writeTimes'[j] = writeTimes[j]
         /\ reports' \subseteq reports \cup {k}
         /\ HistoryReport(k, text) = {} => reports' = reports
  BY DEF FreshInv, ScanWrite

\* The middleware's keys are none of the messages': nothing changes for those.
LEMMA MiddlewareFresh ==
  ASSUME ScreensInv, NEW k \in MiddlewareKeys, NEW text, ScanWrite(k, text),
         UNCHANGED messageCounter
  PROVE  FreshInv'
<1>1. k \in ScanKeys /\ k \notin Range(MessageId)
  BY MiddlewareAssumption, ScreensAssumption DEF MiddlewareKeys
<1>2. \A m \in DOMAIN MessageId : MessageId[m] \in ScanKeys /\ MessageId[m] # k
  BY <1>1, HookAssumption DEF Range
<1>3. FreshInv
  BY DEF ScreensInv
<1>4. /\ now' \in Nat
      /\ lastSize' = [j \in ScanKeys |-> lastSize'[j]]
      /\ writeTimes' = [j \in ScanKeys |-> writeTimes'[j]]
      /\ \A j \in ScanKeys \ {k} :
            lastSize'[j] = lastSize[j] /\ writeTimes'[j] = writeTimes[j]
      /\ reports' \subseteq reports \cup {k}
  BY <1>1, <1>3, WriteElsewhere
<1>5. \A m \in DOMAIN MessageId :
        /\ lastSize'[MessageId[m]] = lastSize[MessageId[m]]
        /\ writeTimes'[MessageId[m]] = writeTimes[MessageId[m]]
  BY <1>2, <1>4
<1>6. EveryMessageAfresh => EveryMessageAfresh'
  BY <1>1, <1>4 DEF EveryMessageAfresh
<1> QED
  BY <1>3, <1>4, <1>5, <1>6 DEF FreshInv

LEMMA StepLangchain ==
  ASSUME ScreensInv, MiddlewareNext, KeepHook
  PROVE  ScreensInv'
<1>1. PICK t \in Threads :
        BeforeModel(t) \/ AfterModel(t) \/ WrapToolCall(t) \/ ThreadStep(t)
  BY DEF MiddlewareNext
<1>2. HookInv'
  BY DEF KeepHook, ScreensInv, HookInv, DeliveredIsSafe, Unsafe
<1>3. UNCHANGED messageCounter
  BY DEF KeepHook
<1>4. CASE BeforeModel(t) \/ AfterModel(t) \/ WrapToolCall(t)
  <2>1. \E hook \in {"before_model", "after_model", "wrap_tool_call"},
           k \in MiddlewareKeys, texts \in Seq(Texts \cup {Empty}) :
             Calls(t, hook, k, texts)
    <3>1. \A m \in Texts \cup {Empty} : <<m>> \in Seq(Texts \cup {Empty})
      OBVIOUS
    <3> QED
      BY <1>4, <3>1, MiddlewareAssumption
         DEF BeforeModel, AfterModel, WrapToolCall, MiddlewareKeys
  <2>2. MiddlewareInv'
    BY <2>1, StartsCall DEF ScreensInv
  <2>3. UNCHANGED scanVars
    BY <2>1 DEF Calls
  <2> QED
    BY <1>2, <1>3, <2>2, <2>3 DEF ScreensInv, FreshInv, EveryMessageAfresh, scanVars
<1>5. CASE ThreadStep(t)
  <2>1. MiddlewareInv'
    BY <1>5, StepThread DEF ScreensInv
  <2>2. CASE ScanWrites(t)
    <3>1. thread[t].key \in MiddlewareKeys
      BY DEF ScreensInv, MiddlewareInv, CallInv, ThreadCall
    <3>2. ScanWrite(thread[t].key, Current(t))
      BY <2>2 DEF ScanWrites
    <3> QED
      BY <1>2, <1>3, <2>1, <3>1, <3>2, MiddlewareFresh DEF ScreensInv
  <2>3. CASE ~ScanWrites(t)
    <3>1. UNCHANGED <<now, lastSize, writeTimes, reports>>
      BY <1>5, <2>3 DEF ThreadStep, SkipsEmpty, ScanDeletes, ScanDelete,
         CountsViolation, HandlesViolation, CallReturns, scanVars
    <3> QED
      BY <1>2, <1>3, <2>1, <3>1 DEF ScreensInv, FreshInv, EveryMessageAfresh
  <2> QED
    BY <2>2, <2>3
<1> QED
  BY <1>1, <1>4, <1>5

\* Once a text is replaced, all of the message an agent can read is what was out
\* of reach.
LEMMA ReplacedCarries ==
  ASSUME NEW message \in Message, NEW route \in Routes
  PROVE  Carried(WithContent(message, Notice, route)) \subseteq OutOfReach(message, route)
BY HookAssumption DEF Message, Routes, WithContent, Carried, OutOfReach

\* An untouched message carries the text that was found, and what was not looked at.
LEMMA UntouchedCarries ==
  ASSUME NEW message \in Message, NEW text \in Carried(message),
         text # Extract(message)
  PROVE  text = message.text
BY HookAssumption DEF Message, Carried, Extract

\* A message passed on as it came, whose text, if it has one, is no unsafe one.
LEMMA PassedIsSafe ==
  ASSUME NEW sender \in Senders, NEW message \in Message, NEW route \in Routes,
         Delivery(sender, message, route, Extract(message)),
         Extract(message) \in Texts =>
            ~Unsafe(Extract(message), MessageId[<<sender, messageCounter'>>])
  PROVE  DeliveredIsSafe'
<1>1. /\ Extract(message) # NoText => delivered'.got = message
      /\ Extract(message) = NoText => delivered'.got = NoMessage
      /\ delivered'.message = message /\ delivered'.route = route
      /\ delivered'.sender = sender /\ delivered'.number = messageCounter'
  BY DEF Delivery
<1>2. Carried(NoMessage) = {}
  BY HookAssumption DEF Carried, NoMessage
<1>3. Carried(delivered'.got) \subseteq Carried(message)
  BY <1>1, <1>2
<1>4. ASSUME NEW text \in Carried(message)
      PROVE  \/ /\ text \in OutOfReach(message, route)
                /\ text # Extract(message)
             \/ ~Unsafe(text, MessageId[<<sender, messageCounter'>>])
  <2>1. text \in Texts
    BY DEF Carried
  <2>2. CASE text = Extract(message)
    BY <2>1, <2>2
  <2>3. CASE text # Extract(message)
    BY <2>3, UntouchedCarries DEF OutOfReach
  <2> QED
    BY <2>2, <2>3
<1> QED
  BY <1>1, <1>3, <1>4 DEF DeliveredIsSafe, Unsafe

\* The hook writes under the key of its next message.
LEMMA StepScanMessage ==
  ASSUME ScreensInv, NEW sender \in Senders, NEW message \in Messages, NEW route \in Routes,
         ScanMessage(sender, message, route), KeepMiddleware
  PROVE  ScreensInv'
<1> DEFINE text == Extract(message)
           n == messageCounter + 1
           k == MessageId[<<sender, n>>]
<1>0. text \in Texts /\ message \in Message
  BY HookAssumption DEF ScanMessage
<1>1. /\ messageCounter \in Nat /\ messageCounter < MaxMessages
      /\ messageCounter' = n /\ UNCHANGED onViolation /\ ScanWrite(k, text)
  BY DEF ScreensInv, HookInv, ScanMessage
<1>2. <<sender, n>> \in DOMAIN MessageId /\ k \in ScanKeys \ MiddlewareKeys
  BY <1>1, NextKey DEF ScreensInv
<1>3. MiddlewareInv'
  <2>1. /\ held' \in [ScanKeys -> Texts \cup {NoText}]
        /\ \A j \in MiddlewareKeys : held'[j] = held[j]
    <3>1. held \in [ScanKeys -> Texts \cup {NoText}] /\ MiddlewareKeys \subseteq ScanKeys
      BY MiddlewareAssumption DEF ScreensInv, MiddlewareInv, HeldInv, MiddlewareKeys
    <3>2. held' = [held EXCEPT ![k] = text] \/ held' = held
      BY <1>1 DEF ScanWrite
    <3> QED
      BY <1>0, <1>2, <3>1, <3>2
  <2>2. UNCHANGED <<mode, violationCount, thread>>
    BY DEF KeepMiddleware
  <2>3. \A t \in Threads : CallInv(thread[t])'
    BY <2>2 DEF ScreensInv, MiddlewareInv, CallInv, SafeOut, ThreadCall, Unsafe
  <2> QED
    BY <2>1, <2>2, <2>3 DEF ScreensInv, MiddlewareInv, HeldInv
<1>4. DeliveredIsSafe'
  <2>1. CASE ScanDecision(k, text) = "block"
    <3>1. Delivery(sender, message, route, Replacement(text))
      BY <2>1 DEF ScanMessage
    <3>2. /\ delivered'.message = message /\ delivered'.route = route
          /\ delivered'.got = IF Replacement(text) = NoText THEN NoMessage
                              ELSE IF Replacement(text) = text THEN message
                              ELSE WithContent(message, Replacement(text), route)
      BY <3>1 DEF Delivery
    <3>3. CASE onViolation = "warn"
      BY <1>1, <3>3 DEF DeliveredIsSafe
    <3>4. CASE onViolation = "block"
      <4>1. Carried(delivered'.got) = {}
        BY <3>2, <3>4, HookAssumption DEF Replacement, Carried, NoMessage
      <4> QED
        BY <4>1 DEF DeliveredIsSafe
    <3>5. CASE onViolation \in {"strip", "quarantine"}
      <4>1. Replacement(text) = Notice /\ Notice # text
        BY <1>0, <3>5, HookAssumption DEF Replacement
      <4>2. delivered'.got \in {NoMessage, WithContent(message, Notice, route)}
        BY <3>2, <4>1
      <4>3. Carried(delivered'.got) \subseteq OutOfReach(message, route)
        BY <1>0, <4>2, ReplacedCarries, HookAssumption DEF Carried, NoMessage
      <4> QED
        BY <1>1, <3>2, <3>5, <4>3 DEF DeliveredIsSafe
    <3> QED
      BY <3>3, <3>4, <3>5 DEF ScreensInv, HookInv
  <2>2. CASE ScanDecision(k, text) # "block"
    <3>1. Delivery(sender, message, route, text)
      BY <2>2 DEF ScanMessage
    <3>2. ~Unsafe(text, k)
      BY <1>0, <1>2, <2>2, ContentDecides
    <3> QED
      BY <1>0, <1>1, <3>1, <3>2, PassedIsSafe
  <2> QED
    BY <2>1, <2>2
<1>5. HookInv'
  BY <1>1, <1>4 DEF ScreensInv, HookInv
<1>6. FreshInv'
  <2>1. FreshInv
    BY DEF ScreensInv
  <2>2. /\ now' \in Nat
        /\ lastSize' = [j \in ScanKeys |-> lastSize'[j]]
        /\ writeTimes' = [j \in ScanKeys |-> writeTimes'[j]]
        /\ \A j \in ScanKeys \ {k} :
              lastSize'[j] = lastSize[j] /\ writeTimes'[j] = writeTimes[j]
        /\ HistoryReport(k, text) = {} => reports' = reports
    BY <1>1, <1>2, <2>1, WriteElsewhere
  <2>3. ASSUME NEW m \in DOMAIN MessageId, m[2] > messageCounter'
        PROVE  lastSize'[MessageId[m]] = 0 /\ writeTimes'[MessageId[m]] = <<>>
    <3>1. m # <<sender, n>> /\ m[2] > messageCounter
      <4>1. m[2] \in Nat /\ m[2] > n
        BY <1>1, <2>3, HookAssumption
      <4> QED
        BY <1>1, <4>1
    <3>2. MessageId[m] \in ScanKeys \ {k}
      BY <1>2, <3>1, HookAssumption
    <3> QED
      BY <2>1, <2>2, <3>1, <3>2 DEF FreshInv
  <2>4. OneIsNoAnomaly => HistoryReport(k, text) = {}
    <3>1. lastSize[k] = 0 /\ writeTimes[k] = <<>> /\ now \in Nat
      <4>1. <<sender, n>>[2] > messageCounter
        BY <1>1
      <4> QED
        BY <1>2, <2>1, <4>1 DEF FreshInv
    <3> QED
      BY <1>0, <3>1, FirstWriteUnnoticed
  <2>5. OneIsNoAnomaly => EveryMessageAfresh'
    BY <2>1, <2>2, <2>4 DEF FreshInv, EveryMessageAfresh
  <2> QED
    BY <2>2, <2>3, <2>5 DEF FreshInv
<1> QED
  BY <1>3, <1>5, <1>6 DEF ScreensInv

\* Whatever leaves the detectors' memory, the store, the threads and the hook's
\* modes alone keeps the invariant; the clock only runs forward.
LEMMA StepIdle ==
  ASSUME ScreensInv, now' \in Nat, messageCounter' \in Nat,
         UNCHANGED <<held, lastSize, writeTimes, reports, mode, violationCount,
                     thread, onViolation>>,
         messageCounter' = messageCounter, DeliveredIsSafe'
  PROVE  ScreensInv'
<1>1. \A t \in Threads : CallInv(thread[t])'
  BY DEF ScreensInv, MiddlewareInv, CallInv, SafeOut, ThreadCall, Unsafe
<1>2. MiddlewareInv'
  BY <1>1 DEF ScreensInv, MiddlewareInv, HeldInv
<1>3. HookInv' /\ FreshInv'
  BY DEF ScreensInv, HookInv, FreshInv, EveryMessageAfresh
<1> QED
  BY <1>2, <1>3 DEF ScreensInv

LEMMA StepScreens ==
  ASSUME ScreensInv, [ScreensNext]_screensVars
  PROVE  ScreensInv'
<1>1. now \in Nat /\ messageCounter \in Nat /\ DeliveredIsSafe
  BY DEF ScreensInv, HookInv, FreshInv
<1>2. CASE MiddlewareNext /\ KeepHook
  BY <1>2, StepLangchain
<1>3. CASE HookNext /\ KeepMiddleware
  <2>1. ASSUME NEW sender \in Senders, NEW message \in Messages, NEW route \in Routes,
               PassBlank(sender, message, route)
        PROVE  ScreensInv'
    <3>1. UNCHANGED <<held, now, lastSize, writeTimes, reports, onViolation,
                      messageCounter>>
      BY <2>1 DEF PassBlank, scanVars
    <3>2. DeliveredIsSafe'
      BY <2>1, PassedIsSafe, HookAssumption DEF PassBlank
    <3> QED
      BY <1>1, <1>3, <3>1, <3>2, StepIdle DEF KeepMiddleware
  <2>2. ASSUME NEW sender \in Senders, NEW message \in Messages, NEW route \in Routes,
               ScanMessage(sender, message, route)
        PROVE  ScreensInv'
    BY <1>3, <2>2, StepScanMessage
  <2>3. CASE ResetMetrics
    <3>1. UNCHANGED <<held, now, lastSize, writeTimes, reports, onViolation,
                      messageCounter, delivered>>
      BY <2>3 DEF ResetMetrics, scanVars
    <3>2. DeliveredIsSafe'
      BY <1>1, <3>1 DEF DeliveredIsSafe, Unsafe
    <3> QED
      BY <1>1, <1>3, <3>1, <3>2, StepIdle DEF KeepMiddleware
  <2> QED
    BY <1>3, <2>1, <2>2, <2>3 DEF HookNext
<1>4. CASE ScanTick /\ KeepMiddleware /\ KeepHook
  <2>1. DeliveredIsSafe'
    BY <1>1, <1>4 DEF DeliveredIsSafe, Unsafe, KeepHook
  <2> QED
    BY <1>1, <1>4, <2>1, StepIdle DEF ScanTick, KeepMiddleware, KeepHook
<1>5. CASE UNCHANGED screensVars
  <2>1. DeliveredIsSafe'
    BY <1>1, <1>5 DEF DeliveredIsSafe, Unsafe, screensVars, hookVars
  <2> QED
    BY <1>1, <1>5, <2>1, StepIdle
       DEF screensVars, middlewareVars, hookVars, scanVars
<1> QED
  BY <1>2, <1>3, <1>4, <1>5 DEF ScreensNext

LEMMA InitScreens == ScreensInit => ScreensInv
<1> SUFFICES ASSUME ScreensInit PROVE ScreensInv
  OBVIOUS
<1>1. /\ now = 0 /\ held = [k \in ScanKeys |-> NoText]
      /\ lastSize = [k \in ScanKeys |-> 0] /\ writeTimes = [k \in ScanKeys |-> <<>>]
      /\ reports = {}
  BY DEF ScreensInit, HookInit, ScanInit
<1>2. MiddlewareInv
  <2>1. /\ thread = [t \in Threads |-> Resting] /\ violationCount = 0
        /\ mode \in {"block", "warn", "strip"}
    BY DEF ScreensInit, MiddlewareInit
  <2>2. HeldInv
    BY <1>1, MiddlewareAssumption DEF HeldInv, MiddlewareKeys
  <2> QED
    BY <2>1, <2>2, RestingCall DEF MiddlewareInv
<1>3. HookInv
  BY HookAssumption DEF ScreensInit, HookInit, HookInv, DeliveredIsSafe, Carried, NoMessage
<1>4. FreshInv
  BY <1>1, HookAssumption DEF FreshInv, EveryMessageAfresh
<1> QED
  BY <1>2, <1>3, <1>4 DEF ScreensInv

THEOREM ScreensInductive == ScreensSpec => []ScreensInv
<1>1. ScreensInit => ScreensInv
  BY InitScreens
<1>2. ScreensInv /\ [ScreensNext]_screensVars => ScreensInv'
  BY StepScreens
<1> QED
  BY <1>1, <1>2, PTL DEF ScreensSpec, screensVars

-----------------------------------------------------------------------------

\* A text is judged by its own content, whatever other threads screen under the
\* same key and however the calls interleave, when the policy does not refuse
\* sizes and rates (_check_content).
THEOREM VerdictsAreOwn == AnomaliesNotBlocked => (ScreensSpec => []VerdictIsOwn)
<1> SUFFICES ASSUME AnomaliesNotBlocked PROVE ScreensSpec => []VerdictIsOwn
  OBVIOUS
<1>1. ScreensInv => VerdictIsOwn
  BY DEF ScreensInv, MiddlewareInv, CallInv, VerdictIsOwn, Current
<1> QED
  BY <1>1, ScreensInductive, PTL

\* Between calls the middleware's keys are empty: every text written to be
\* screened is deleted by some thread, also where threads share a key
\* (_check_content).
THEOREM NothingIsKept == ScreensSpec => []NothingKept
<1>1. ScreensInv => NothingKept
  BY DEF ScreensInv, MiddlewareInv, HeldInv, NothingKept, MiddlewareKeys
<1> QED
  BY <1>1, ScreensInductive, PTL

\* In the modes that promise it the LangChain package hands on no text whose content
\* the policy blocks, and AutoGen's none but what its screening leaves in a message:
\* what stands under "text", and an object that goes through the wrapper
\* (_check_content, before_model, wrap_tool_call; scan_message,
\* _scan_incoming_message, guarded_process).
THEOREM UnsafeIsStopped == ScreensSpec => []NothingUnsafeGetsThrough
<1>1. ScreensInv => NothingUnsafeGetsThrough
  BY DEF ScreensInv, MiddlewareInv, CallInv, SafeOut, HookInv,
         NothingUnsafeGetsThrough, NothingUnsafeHandedOn
<1> QED
  BY <1>1, ScreensInductive, PTL

\* No message is judged by earlier ones: the running number never comes back, so
\* the detectors of growth and rate meet every key for the first time
\* (scan_message, reset_metrics).
THEOREM MessagesAreAfresh == OneIsNoAnomaly => (ScreensSpec => []EveryMessageAfresh)
<1> SUFFICES ASSUME OneIsNoAnomaly PROVE ScreensSpec => []EveryMessageAfresh
  OBVIOUS
<1>1. ScreensInv => EveryMessageAfresh
  BY DEF ScreensInv, FreshInv
<1> QED
  BY <1>1, ScreensInductive, PTL

=============================================================================
