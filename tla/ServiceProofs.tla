--------------------------- MODULE ServiceProofs ---------------------------
(***************************************************************************)
(* What the scanning services promise that need no guard, for any texts,   *)
(* detectors, requests, windows and intervals; and what the static         *)
(* scanners tell of a tree that others edit.                               *)
(***************************************************************************)
EXTENDS MCServices, ScanProps, FiniteSetTheorems, TLAPS

-----------------------------------------------------------------------------
(* Lists without repetition *)

\* A list that names each member of a set once.
OnceEach(list, S) ==
    /\ list \in Seq(S)
    /\ \A s \in S : \E i \in DOMAIN list : list[i] = s
    /\ \A i, j \in DOMAIN list : list[i] = list[j] => i = j

LEMMA OnceFacts ==
  ASSUME NEW S, NEW list, OnceEach(list, S)
  PROVE  /\ AsSet(list) = S
         /\ list = <<>> <=> S = {}
         /\ \A i, j \in DOMAIN list : list[i] = list[j] => i = j
<1>1. list \in Seq(S) /\ DOMAIN list = 1 .. Len(list) /\ Len(list) \in Nat
  BY DEF OnceEach
<1>2. \A i \in DOMAIN list : list[i] \in S
  BY <1>1
<1>3. AsSet(list) = S
  BY <1>2 DEF AsSet, OnceEach
<1>4. list = <<>> => S = {}
  BY DEF OnceEach
<1>5. S = {} => list = <<>>
  BY <1>1, <1>2
<1> QED
  BY <1>3, <1>4, <1>5 DEF OnceEach

LEMMA OnceOne == ASSUME NEW x PROVE OnceEach(<<x>>, {x})
<1>1. DOMAIN <<x>> = {1} /\ <<x>>[1] = x /\ <<x>> \in Seq({x})
  OBVIOUS
<1> QED
  BY <1>1 DEF OnceEach

LEMMA OnceNone == OnceEach(<<>>, {})
<1>1. DOMAIN <<>> = {} /\ <<>> \in Seq({})
  OBVIOUS
<1> QED
  BY <1>1 DEF OnceEach

LEMMA OnceBoth ==
  ASSUME NEW S, NEW T, NEW one, NEW two, OnceEach(one, S), OnceEach(two, T), S \cap T = {}
  PROVE  OnceEach(one \o two, S \cup T)
<1>1. PICK n : n = Len(one)
  OBVIOUS
<1>2. PICK m : m = Len(two)
  OBVIOUS
<1>3. PICK both : both = one \o two
  OBVIOUS
<1>4. /\ one \in Seq(S) /\ n \in Nat /\ DOMAIN one = 1 .. n
      /\ two \in Seq(T) /\ m \in Nat /\ DOMAIN two = 1 .. m
  BY <1>1, <1>2 DEF OnceEach
<1>5. one \in Seq(S \cup T) /\ two \in Seq(S \cup T)
  BY <1>4
<1>6. both \in Seq(S \cup T) /\ DOMAIN both = 1 .. n + m
  BY <1>1, <1>2, <1>3, <1>5
<1>7. \A i \in 1 .. n : both[i] = one[i] /\ both[i] \in S
  BY <1>1, <1>3, <1>4, <1>5
<1>8. \A i \in 1 .. m : both[n + i] = two[i] /\ two[i] \in T
  BY <1>1, <1>2, <1>3, <1>4, <1>5
<1>9. \A i \in 1 .. n + m : i \in 1 .. n \/ (i - n \in 1 .. m /\ n + (i - n) = i)
  BY <1>4
<1>10. ASSUME NEW s \in S \cup T PROVE \E i \in DOMAIN both : both[i] = s
  <2>1. CASE s \in S
    <3>1. PICK i \in 1 .. n : one[i] = s
      BY <1>4, <2>1 DEF OnceEach
    <3>2. i \in DOMAIN both
      BY <1>4, <1>6, <3>1
    <3> QED
      BY <1>7, <3>1, <3>2
  <2>2. CASE s \in T
    <3>1. PICK i \in 1 .. m : two[i] = s
      BY <1>4, <2>2 DEF OnceEach
    <3>2. n + i \in DOMAIN both
      BY <1>4, <1>6, <3>1
    <3> QED
      BY <1>8, <3>1, <3>2
  <2> QED
    BY <2>1, <2>2
<1>11. ASSUME NEW i \in DOMAIN both, NEW j \in DOMAIN both, both[i] = both[j] PROVE i = j
  <2>1. CASE i \in 1 .. n /\ j \in 1 .. n
    BY <1>4, <1>7, <1>11, <2>1 DEF OnceEach
  <2>2. CASE i - n \in 1 .. m /\ j - n \in 1 .. m
    <3>1. two[i - n] = two[j - n]
      <4>1. both[n + (i - n)] = two[i - n] /\ both[n + (j - n)] = two[j - n]
        BY <1>8, <2>2
      <4>2. n + (i - n) = i /\ n + (j - n) = j
        BY <1>4, <1>6, <1>11
      <4> QED
        BY <1>11, <4>1, <4>2
    <3>2. i - n = j - n
      BY <1>4, <2>2, <3>1 DEF OnceEach
    <3> QED
      BY <1>4, <1>6, <1>11, <3>2
  <2>3. \A k, l \in DOMAIN both : k \in 1 .. n /\ l - n \in 1 .. m => both[k] # both[l]
    <3>1. \A l \in DOMAIN both : l - n \in 1 .. m => both[l] \in T
      <4> SUFFICES ASSUME NEW l \in DOMAIN both, l - n \in 1 .. m PROVE both[l] \in T
        OBVIOUS
      <4>1. both[n + (l - n)] \in T
        BY <1>8
      <4>2. n + (l - n) = l
        BY <1>4, <1>6
      <4> QED
        BY <4>1, <4>2
    <3> QED
      BY <1>7, <3>1
  <2> QED
    BY <1>6, <1>9, <1>11, <2>1, <2>2, <2>3
<1> QED
  BY <1>3, <1>6, <1>10, <1>11 DEF OnceEach

\* The threats of some detectors are listed once each.
LEMMA ListedOnce ==
  ASSUME NEW flagged, flagged \subseteq Detectors
  PROVE  OnceEach(ThreatList(flagged), flagged)
<1> DEFINE Part(d) == IF d \in flagged THEN <<d>> ELSE <<>>
<1>1. \A d : OnceEach(Part(d), flagged \cap {d})
  <2> SUFFICES ASSUME NEW d PROVE OnceEach(Part(d), flagged \cap {d})
    OBVIOUS
  <2>1. CASE d \in flagged
    <3>1. flagged \cap {d} = {d} /\ Part(d) = <<d>>
      BY <2>1
    <3> QED
      BY <3>1, OnceOne
  <2>2. CASE d \notin flagged
    <3>1. flagged \cap {d} = {} /\ Part(d) = <<>>
      BY <2>2
    <3> QED
      BY <3>1, OnceNone
  <2> QED
    BY <2>1, <2>2
<1>2. ThreatList(flagged) = ((Part("prompt_injection") \o Part("secret_leakage"))
                                \o Part("self_reinforcement")) \o Part("cross_task_contamination")
  BY DEF ThreatList, DetectorOrder
<1>3. PICK first, second : first = Part("prompt_injection") /\ second = Part("secret_leakage")
  OBVIOUS
<1>4. PICK third, fourth :
        third = Part("self_reinforcement") /\ fourth = Part("cross_task_contamination")
  OBVIOUS
<1>5. /\ OnceEach(first, flagged \cap {"prompt_injection"})
      /\ OnceEach(second, flagged \cap {"secret_leakage"})
      /\ OnceEach(third, flagged \cap {"self_reinforcement"})
      /\ OnceEach(fourth, flagged \cap {"cross_task_contamination"})
      /\ ThreatList(flagged) = ((first \o second) \o third) \o fourth
  BY <1>1, <1>2, <1>3, <1>4
<1> HIDE DEF Part
<1>6. PICK two : two = first \o second
  OBVIOUS
<1>7. OnceEach(two, flagged \cap {"prompt_injection", "secret_leakage"})
  <2>1. (flagged \cap {"prompt_injection"}) \cap (flagged \cap {"secret_leakage"}) = {}
    OBVIOUS
  <2>2. (flagged \cap {"prompt_injection"}) \cup (flagged \cap {"secret_leakage"})
            = flagged \cap {"prompt_injection", "secret_leakage"}
    OBVIOUS
  <2> QED
    BY <1>5, <1>6, <2>1, <2>2, OnceBoth
<1>8. PICK three : three = two \o third
  OBVIOUS
<1>9. OnceEach(three, flagged \cap {"prompt_injection", "secret_leakage", "self_reinforcement"})
  <2>1. (flagged \cap {"prompt_injection", "secret_leakage"})
            \cap (flagged \cap {"self_reinforcement"}) = {}
    OBVIOUS
  <2>2. (flagged \cap {"prompt_injection", "secret_leakage"})
            \cup (flagged \cap {"self_reinforcement"})
            = flagged \cap {"prompt_injection", "secret_leakage", "self_reinforcement"}
    OBVIOUS
  <2> QED
    BY <1>5, <1>7, <1>8, <2>1, <2>2, OnceBoth
<1>10. Detectors = {"prompt_injection", "secret_leakage", "self_reinforcement",
                    "cross_task_contamination"}
  BY DEF Detectors, DetectorOrder
<1>11. /\ (flagged \cap {"prompt_injection", "secret_leakage", "self_reinforcement"})
              \cap (flagged \cap {"cross_task_contamination"}) = {}
       /\ (flagged \cap {"prompt_injection", "secret_leakage", "self_reinforcement"})
              \cup (flagged \cap {"cross_task_contamination"}) = flagged
  BY <1>10
<1> QED
  BY <1>5, <1>6, <1>8, <1>9, <1>11, OnceBoth

-----------------------------------------------------------------------------
(* Highest scores *)

\* Some score is the highest: the others that are above a score grow fewer as
\* it rises.
LEMMA HighestExists ==
  ASSUME NEW top \in Nat, NEW S \in SUBSET (0 .. top), S # {}
  PROVE  \E m \in S : \A n \in S : n <= m
<1> DEFINE Above(x) == { y \in S : y > x }
           R == StrictSubsetOrdering(0 .. top)
           T == { Above(x) : x \in S }
<1>1. IsFiniteSet(0 .. top)
  BY FS_Interval
<1>2. IsWellFoundedOn(R, FiniteSubsetsOf(0 .. top))
  BY FS_StrictSubsetOrderingWellFounded
<1>3. T \subseteq FiniteSubsetsOf(0 .. top)
  BY <1>1, FS_FiniteSubsetsOfFinite
<1>4. T # {}
  OBVIOUS
<1>5. PICK A \in T : \A B \in T : <<B, A>> \notin R
  <2> HIDE DEF R, T
  <2> QED
    BY <1>2, <1>3, <1>4, WFMin
<1>6. PICK m \in S : A = Above(m)
  BY <1>5
<1>7. ASSUME NEW n \in S, n > m PROVE FALSE
  <2>1. Above(n) \in T /\ Above(n) \subseteq Above(m)
    <3>1. \A y \in S : y > n => y > m
      BY <1>7
    <3> QED
      BY <3>1
  <2>2. n \in Above(m) /\ n \notin Above(n)
    BY <1>7
  <2>3. <<Above(n), Above(m)>> \in R
    BY <2>1, <2>2 DEF StrictSubsetOrdering
  <2> QED
    BY <1>5, <1>6, <2>1, <2>3
<1> QED
  BY <1>7

LEMMA MaxOfFacts ==
  ASSUME NEW S \in SUBSET (0 .. 10)
  PROVE  MaxOf(S) \in 0 .. 10
<1>1. CASE S = {}
  BY <1>1 DEF MaxOf
<1>2. CASE S # {}
  <2>1. PICK top \in Nat : top = 10
    OBVIOUS
  <2>2. \E m \in S : \A n \in S : n <= m
    BY <1>2, <2>1, HighestExists
  <2> QED
    BY <1>2, <2>2 DEF MaxOf
<1> QED
  BY <1>1, <1>2

-----------------------------------------------------------------------------
(* The copies of the scan *)

\* No threat twice in an answer.
ListsOnce(got) ==
    got.out = "result" =>
        \A i, j \in DOMAIN got.threats : got.threats[i] = got.threats[j] => i = j

\* An answer with these threats, each listed once, and this confidence.
Tells(got, S, confidence) ==
    /\ got.out = "result" /\ got.confidence = confidence
    /\ AsSet(got.threats) = S /\ ListsOnce(got)
    /\ got.safe <=> S = {}

LEMMA ResultTells ==
  ASSUME NEW list, NEW S, NEW confidence, OnceEach(list, S)
  PROVE  Tells(Result(list, confidence), S, confidence)
<1>1. PICK none : none = (list = <<>>)
  OBVIOUS
<1>2. PICK got : got = Result(list, confidence)
  OBVIOUS
<1>3. got = [out |-> "result", safe |-> none, threats |-> list, confidence |-> confidence]
  BY <1>1, <1>2, Zenon DEF Result
<1>4. got.out = "result" /\ got.safe = none /\ got.threats = list /\ got.confidence = confidence
  BY <1>3
<1>5. got.safe <=> S = {}
  BY <1>1, <1>4, OnceFacts, Zenon
<1>6. AsSet(got.threats) = S /\ ListsOnce(got)
  BY <1>4, OnceFacts DEF ListsOnce
<1> QED
  BY <1>2, <1>4, <1>5, <1>6 DEF Tells

\* The chains name every detector there is, but for contamination, which only
\* scan() names.
LEMMA NamesFacts ==
  /\ ScanNames = Detectors
  /\ RagNames = Detectors \ NotNamed /\ ToolNames = Detectors \ NotNamed
  /\ StreamNames = Detectors \ NotNamed
  /\ "prompt_injection" \in Detectors \ NotNamed
<1>1. Detectors = {"prompt_injection", "secret_leakage", "self_reinforcement",
                   "cross_task_contamination"}
  BY DEF Detectors, DetectorOrder
<1> QED
  BY <1>1 DEF ScanNames, RagNames, ToolNames, StreamNames, NotNamed

LEMMA ScanTells ==
  ASSUME NEW text, ~DetectRaises
  PROVE  Tells(ScanOf(text), Detects(text), Highest(text, Detects(text)))
<1>1. Detects(text) \subseteq Detectors /\ Detects(text) \cap ScanNames = Detects(text)
  BY NamesFacts DEF Detects
<1>2. OnceEach(ThreatList(Detects(text)), Detects(text))
  BY <1>1, ListedOnce
<1>3. ScanOf(text) = Result(ThreatList(Detects(text)), Highest(text, Detects(text)))
  BY <1>1 DEF ScanOf
<1> QED
  BY <1>2, <1>3, ResultTells

\* A strict scan of a text with a marker.
MarkCounts(text, strict) == strict /\ text \in Marked

LEMMA RagTells ==
  ASSUME NEW text, NEW strict \in BOOLEAN, ~DetectRaises
  PROVE  IF MarkCounts(text, strict)
         THEN Tells(RagOf(text, strict), (Detects(text) \ NotNamed) \cup {"prompt_injection"},
                    IF Highest(text, Detects(text)) > 7 THEN Highest(text, Detects(text)) ELSE 7)
         ELSE Tells(RagOf(text, strict), Detects(text) \ NotNamed, Highest(text, Detects(text)))
<1>1. PICK named : named = Detects(text) \ NotNamed
  OBVIOUS
<1>2. named \subseteq Detectors /\ Detects(text) \cap RagNames = named
  BY <1>1, NamesFacts DEF Detects
<1>3. PICK highest : highest = Highest(text, Detects(text))
  OBVIOUS
<1>4. CASE MarkCounts(text, strict)
  <2>1. PICK head, rest : head = <<"prompt_injection">>
                          /\ rest = ThreatList(named \ {"prompt_injection"})
    OBVIOUS
  <2>2. OnceEach(head, {"prompt_injection"}) /\ OnceEach(rest, named \ {"prompt_injection"})
    BY <1>2, <2>1, OnceOne, ListedOnce
  <2>3. /\ {"prompt_injection"} \cap (named \ {"prompt_injection"}) = {}
        /\ {"prompt_injection"} \cup (named \ {"prompt_injection"}) = named \cup {"prompt_injection"}
    OBVIOUS
  <2>4. OnceEach(head \o rest, named \cup {"prompt_injection"})
    BY <2>2, <2>3, OnceBoth
  <2>5. PICK high : high = IF highest > 7 THEN highest ELSE 7
    OBVIOUS
  <2>6. RagOf(text, strict) = Result(head \o rest, high)
    BY <1>2, <1>3, <1>4, <2>1, <2>5, Zenon DEF RagOf, MarkCounts
  <2> QED
    BY <1>1, <1>3, <1>4, <2>4, <2>5, <2>6, ResultTells
<1>5. CASE ~MarkCounts(text, strict)
  <2>1. RagOf(text, strict) = Result(ThreatList(named), highest)
    BY <1>2, <1>3, <1>5, Zenon DEF RagOf, MarkCounts
  <2> QED
    BY <1>1, <1>2, <1>3, <1>5, <2>1, ListedOnce, ResultTells
<1> QED
  BY <1>4, <1>5

\* What counts in the output of a tool of this trust.
Counted(text, trust) ==
    { d \in Detects(Truncated[text]) : Confidence[Truncated[text]][d] >= TrustThreshold[trust] }

LEMMA ToolTells ==
  ASSUME NEW text, NEW trust, ~DetectRaises
  PROVE  Tells(ToolOf(text, trust), Counted(text, trust) \ NotNamed,
               Highest(Truncated[text], Counted(text, trust)))
<1>1. PICK counted : counted = Counted(text, trust)
  OBVIOUS
<1>2. counted \subseteq Detectors /\ counted \cap ToolNames = counted \ NotNamed
  BY <1>1, NamesFacts DEF Counted, Detects
<1>3. OnceEach(ThreatList(counted \ NotNamed), counted \ NotNamed)
  BY <1>2, ListedOnce
<1>4. ToolOf(text, trust) = Result(ThreatList(counted \cap ToolNames), Highest(Truncated[text], counted))
  BY <1>1, Zenon DEF ToolOf, Counted
<1> QED
  BY <1>1, <1>2, <1>3, <1>4, ResultTells

LEMMA ScansListOnce ==
  ASSUME NEW text, NEW strict \in BOOLEAN, NEW trust
  PROVE  ListsOnce(ScanOf(text)) /\ ListsOnce(RagOf(text, strict)) /\ ListsOnce(ToolOf(text, trust))
<1>1. CASE DetectRaises
  <2>1. /\ ScanOf(text) = RaisedResult /\ RagOf(text, strict) = RaisedResult
        /\ ToolOf(text, trust) = RaisedResult
    BY <1>1 DEF ScanOf, RagOf, ToolOf
  <2>2. RaisedResult.out # "result"
    BY DEF RaisedResult
  <2> QED
    BY <2>1, <2>2 DEF ListsOnce
<1>2. CASE ~DetectRaises
  BY <1>2, ScanTells, RagTells, ToolTells DEF Tells
<1> QED
  BY <1>1, <1>2

-----------------------------------------------------------------------------
(* The middleware *)

Messages == ApiTexts \cup {Disconnect}

\* What may reach the application of a guarded path.
Passed(body) == Detects(body) = {} \/ GoesPast(body)

\* A body is refused when something is found in it and it was looked at.
LEMMA RefusedFacts ==
  ASSUME NEW body
  PROVE  /\ IsRefused(body) => Detects(body) # {} /\ body \notin Undecodable /\ ~DetectRaises
         /\ BlockOnThreat /\ ~IsRefused(body) => Passed(body)
<1>1. CASE DetectRaises
  <2>1. ScanOf(body).out # "result"
    BY <1>1 DEF ScanOf, RaisedResult
  <2> QED
    BY <1>1, <2>1 DEF IsRefused, Passed, GoesPast
<1>2. CASE ~DetectRaises
  <2>1. ScanOf(body).out = "result" /\ (ScanOf(body).safe <=> Detects(body) = {})
    BY <1>2, ScanTells DEF Tells
  <2> QED
    BY <1>2, <2>1 DEF IsRefused, Passed, GoesPast
<1> QED
  BY <1>1, <1>2

\* The inductive strengthening: what the application got, what is to be played
\* back and what is unread make up the request, and a guarded path gets its
\* first message alone, once that has passed.
WebTyped ==
    /\ request.messages \in Seq(Messages)
    /\ unread \in Seq(Messages) /\ appGot \in Seq(Messages)
    /\ \A i \in DOMAIN request.messages :
          request.messages[i] = Disconnect => i = Len(request.messages)

\* What was received, and behind it what was not.
Splits(all, got, rest) ==
    /\ Len(all) = Len(got) + Len(rest)
    /\ \A i \in 1 .. Len(rest) : rest[i] = all[Len(got) + i]
    /\ \A i \in 1 .. Len(got) : got[i] = all[i]

GotPrefix ==
    /\ Len(appGot) <= Len(request.messages)
    /\ \A i \in 1 .. Len(appGot) : appGot[i] = request.messages[i]

WebInv ==
    /\ WebTyped
    /\ GotPrefix
    /\ phase \in {"idle", "wrapped", "app", "served"}
    /\ phase = "wrapped" =>
          /\ Guarded /\ status = 0 /\ refusal = "none"
          /\ chunks = <<>> /\ appGot = <<>> /\ unread = request.messages
    /\ phase = "app" /\ ~Guarded =>
          status = 0 /\ refusal = "none" /\ chunks = <<>> /\ Splits(request.messages, appGot, unread)
    /\ phase = "app" /\ Guarded =>
          /\ refusal # "sent" /\ appGot = <<>>
          /\ \/ /\ chunks = <<>> /\ unread = <<>>
                /\ request.messages = <<>> \/ request.messages[1] = Disconnect
             \/ /\ request.messages # <<>> /\ request.messages[1] # Disconnect
                /\ chunks = <<request.messages[1]>>
                /\ BlockOnThreat => Passed(request.messages[1])
    /\ AppReadsPrefix
    /\ RefusedUnseen

\* A message that is received moves from what is unread to what was received.
LEMMA OneMore ==
  ASSUME NEW S, NEW got \in Seq(S), NEW rest \in Seq(S), NEW all \in Seq(S), rest # <<>>,
         Splits(all, got, rest)
  PROVE  /\ Append(got, rest[1]) \in Seq(S) /\ Tail(rest) \in Seq(S)
         /\ Splits(all, Append(got, rest[1]), Tail(rest))
         /\ Len(rest) = 1 => Append(got, rest[1]) = all
<1> PICK more : more = Append(got, rest[1])
  OBVIOUS
<1> PICK left : left = Tail(rest)
  OBVIOUS
<1> USE DEF Splits
<1>1. PICK n : n = Len(got)
  OBVIOUS
<1>2. PICK m : m = Len(rest)
  OBVIOUS
<1>3. n \in Nat /\ m \in Nat /\ m >= 1 /\ rest[1] = all[n + 1] /\ rest[1] \in S
  BY <1>1, <1>2
<1>4. /\ more \in Seq(S) /\ Len(more) = n + 1 /\ more[n + 1] = rest[1]
      /\ \A i \in 1 .. n : more[i] = got[i]
  BY <1>1, <1>3
<1>5. left \in Seq(S) /\ Len(left) = m - 1 /\ \A i \in 1 .. m - 1 : left[i] = rest[i + 1]
  BY <1>2, <1>3
<1>6. \A i \in 1 .. n + 1 : more[i] = all[i]
  <2>1. \A i \in 1 .. n : got[i] = all[i]
    BY <1>1
  <2>2. \A i \in 1 .. n + 1 : i \in 1 .. n \/ i = n + 1
    BY <1>3
  <2> QED
    BY <1>3, <1>4, <2>1, <2>2
<1>7. \A i \in 1 .. m - 1 : left[i] = all[n + 1 + i]
  BY <1>1, <1>2, <1>3, <1>5
<1>8. m = 1 => more = all
  <2> SUFFICES ASSUME m = 1 PROVE more = all
    OBVIOUS
  <2>1. Len(all) = n + 1
    BY <1>1, <1>2
  <2>2. DOMAIN all = 1 .. n + 1 /\ DOMAIN more = 1 .. n + 1
    BY <1>4, <2>1
  <2>3. more = [i \in 1 .. n + 1 |-> more[i]] /\ all = [i \in 1 .. n + 1 |-> all[i]]
    BY <1>4, <2>2
  <2> QED
    BY <1>6, <2>3
<1> QED
  BY <1>1, <1>2, <1>3, <1>4, <1>5, <1>6, <1>7, <1>8

LEMMA InitWeb == WebInit => WebInv
<1> SUFFICES ASSUME WebInit PROVE WebInv
  OBVIOUS
<1>1. request.messages = <<>> /\ unread = <<>> /\ appGot = <<>> /\ phase = "idle" /\ refusal = "none"
  BY DEF WebInit
<1>2. <<>> \in Seq(Messages) /\ Len(<<>>) = 0 /\ DOMAIN <<>> = {}
  OBVIOUS
<1>3. WebTyped /\ GotPrefix
  BY <1>1, <1>2 DEF WebTyped, GotPrefix
<1> QED
  BY <1>1, <1>2, <1>3 DEF WebInv, AppReadsPrefix, RefusedUnseen

LEMMA ArriveWeb ==
  ASSUME NEW r \in Requests, Arrive(r)
  PROVE  WebInv'
<1>1. /\ r.messages \in Seq(Messages)
      /\ \A i \in DOMAIN r.messages : r.messages[i] = Disconnect => i = Len(r.messages)
  BY WebAssumption DEF Request, Messages, Disconnect
<1>2. /\ request' = r /\ unread' = r.messages /\ chunks' = <<>> /\ appGot' = <<>> /\ status' = 0
      /\ refusal' = "none" /\ phase' = IF Guarded' THEN "wrapped" ELSE "app"
  BY DEF Arrive, Guarded
<1>3. <<>> \in Seq(Messages) /\ Len(<<>>) = 0 /\ DOMAIN <<>> = {} /\ Len(r.messages) \in Nat
  BY <1>1
<1>4. WebTyped' /\ GotPrefix' /\ Splits(request.messages, appGot, unread)'
  BY <1>1, <1>2, <1>3 DEF WebTyped, GotPrefix, Splits
<1>5. AppReadsPrefix' /\ RefusedUnseen'
  BY <1>2, <1>3 DEF AppReadsPrefix, RefusedUnseen
<1> QED
  BY <1>2, <1>4, <1>5 DEF WebInv

LEMMA InterceptWeb ==
  ASSUME WebInv, Intercept, installed' = installed
  PROVE  WebInv'
<1>1. /\ Guarded /\ Guarded' /\ chunks = <<>> /\ appGot = <<>> /\ refusal = "none"
      /\ unread = request.messages /\ WebTyped /\ request' = request /\ appGot' = appGot
      /\ unread' = AfterMessage
  BY DEF Intercept, WebInv, Guarded
<1>2. /\ unread \in Seq(Messages) /\ Len(unread) \in Nat /\ DOMAIN unread = 1 .. Len(unread)
      /\ \A i \in DOMAIN unread : unread[i] = Disconnect => i = Len(unread)
  BY <1>1 DEF WebTyped
<1>3. AfterMessage \in Seq(Messages)
  BY <1>2 DEF AfterMessage
<1>4. WebTyped' /\ GotPrefix'
  BY <1>1, <1>2, <1>3 DEF WebTyped, GotPrefix
<1>5. AppReadsPrefix'
  BY <1>1, <1>4 DEF AppReadsPrefix, GotPrefix
<1>6. CASE NextMessage = Disconnect
  <2>1. AfterMessage = <<>> /\ (request.messages = <<>> \/ request.messages[1] = Disconnect)
    <3>1. CASE unread = <<>>
      BY <1>1, <3>1 DEF AfterMessage
    <3>2. CASE unread # <<>>
      <4>1. Len(unread) >= 1 /\ unread[1] = Disconnect
        BY <1>2, <1>6, <3>2 DEF NextMessage
      <4>2. Len(unread) = 1
        BY <1>2, <4>1
      <4>3. PICK left : left = Tail(unread)
        OBVIOUS
      <4>4. left \in Seq(Messages) /\ Len(left) = 0
        BY <1>2, <3>2, <4>2, <4>3
      <4>5. left = <<>>
        BY <4>4
      <4> QED
        BY <1>1, <3>2, <4>1, <4>3, <4>5 DEF AfterMessage
    <3> QED
      BY <3>1, <3>2
  <2>2. phase' = "app" /\ chunks' = <<>> /\ refusal' = "none"
    BY <1>1, <1>6 DEF Intercept
  <2>3. RefusedUnseen'
    BY <1>1, <2>2 DEF RefusedUnseen
  <2> QED
    BY <1>1, <1>4, <1>5, <2>1, <2>2, <2>3 DEF WebInv
<1>7. CASE NextMessage # Disconnect
  <2>1. /\ request.messages # <<>> /\ NextMessage = request.messages[1]
        /\ request.messages[1] # Disconnect /\ chunks' = <<request.messages[1]>>
    BY <1>1, <1>7 DEF NextMessage, Intercept
  <2>2. \/ phase' = "served" /\ status' = 403 /\ refusal' = "sent" /\ IsRefused(NextMessage)
        \/ phase' = "app" /\ refusal' = "broken"
        \/ phase' = "app" /\ refusal' = "none" /\ ~IsRefused(NextMessage)
    BY <1>1, <1>7 DEF Intercept, Refuse
  <2>3. CASE phase' = "served"
    <3>1. status' = 403 /\ refusal' = "sent" /\ IsRefused(NextMessage)
      BY <2>2, <2>3
    <3>2. ~(Detects(request.messages[1]) = {} \/ GoesPast(request.messages[1])')
      <4>1. /\ Detects(NextMessage) # {} /\ NextMessage \notin Undecodable /\ ~DetectRaises
            /\ refusal' # "broken"
        BY <3>1, RefusedFacts
      <4>2. request'.messages[1] = NextMessage
        BY <1>1, <2>1
      <4> QED
        BY <2>1, <4>1, <4>2 DEF GoesPast, DetectRaises
    <3>3. appGot' # <<request.messages[1]>>
      BY <1>1
    <3>4. RefusedUnseen'
      BY <1>1, <2>3, <3>1, <3>2, <3>3 DEF RefusedUnseen
    <3> QED
      BY <1>4, <1>5, <2>3, <3>4 DEF WebInv
  <2>4. CASE phase' = "app"
    <3>1. refusal' # "sent" /\ (BlockOnThreat => Passed(request.messages[1])')
      BY <1>1, <2>1, <2>2, <2>4, RefusedFacts DEF Passed, GoesPast, DetectRaises
    <3>2. RefusedUnseen'
      BY <1>1, <2>4, <3>1 DEF RefusedUnseen
    <3> QED
      BY <1>1, <1>4, <1>5, <2>1, <2>4, <3>1, <3>2 DEF WebInv
  <2> QED
    BY <2>2, <2>3, <2>4
<1> QED
  BY <1>6, <1>7

\* The application of a guarded path gets what passed, and that alone.
LEMMA ReplayWeb ==
  ASSUME WebInv, ReceiveReplayed, installed' = installed
  PROVE  WebInv'
<1>1. /\ phase = "app" /\ chunks # <<>> /\ request' = request /\ unread' = unread
      /\ appGot' = Append(appGot, chunks[1]) /\ phase' = "served" /\ refusal' = refusal
  BY DEF ReceiveReplayed, Answered
<1>2. /\ Guarded /\ Guarded' /\ appGot = <<>> /\ request.messages # <<>> /\ WebTyped
      /\ chunks = <<request.messages[1]>> /\ refusal # "sent"
      /\ BlockOnThreat => Passed(request.messages[1])
  BY <1>1 DEF WebInv, Guarded
<1>3. PICK first : first = request.messages[1]
  OBVIOUS
<1>4. appGot' = <<first>>
  BY <1>1, <1>2, <1>3
<1>5. request.messages \in Seq(Messages) /\ Len(request.messages) >= 1 /\ first \in Messages
  BY <1>2, <1>3 DEF WebTyped
<1>6. <<first>> \in Seq(Messages) /\ Len(<<first>>) = 1 /\ DOMAIN <<first>> = {1}
  BY <1>5
<1>7. WebTyped' /\ GotPrefix' /\ AppReadsPrefix'
  BY <1>1, <1>2, <1>3, <1>4, <1>5, <1>6 DEF WebTyped, GotPrefix, AppReadsPrefix
<1>8. RefusedUnseen'
  BY <1>1, <1>2, <1>3, <1>4, <1>6 DEF RefusedUnseen, Passed, GoesPast, DetectRaises
<1> QED
  BY <1>1, <1>7, <1>8 DEF WebInv

\* The application of another path reads on, up to the end or a disconnect.
LEMMA DirectWeb ==
  ASSUME WebInv, ReceiveDirect, installed' = installed
  PROVE  WebInv'
<1>1. /\ phase = "app" /\ chunks = <<>> /\ request' = request /\ chunks' = chunks
      /\ unread' = AfterMessage /\ WebTyped /\ GotPrefix
  BY DEF ReceiveDirect, WebInv
<1>2. /\ unread \in Seq(Messages) /\ appGot \in Seq(Messages)
      /\ request.messages \in Seq(Messages)
  BY <1>1 DEF WebTyped
<1>3. AfterMessage \in Seq(Messages)
  BY <1>2 DEF AfterMessage
<1>4. Guarded' = Guarded
  BY <1>1 DEF Guarded
<1>5. CASE Guarded
  <2>1. /\ unread = <<>> /\ appGot = <<>> /\ refusal # "sent"
        /\ request.messages = <<>> \/ request.messages[1] = Disconnect
    BY <1>1, <1>5 DEF WebInv
  <2>2. NextMessage = Disconnect
    BY <2>1 DEF NextMessage
  <2>3. phase' = "served" /\ refusal' = refusal /\ appGot' = <<>>
    BY <1>1, <2>1, <2>2 DEF ReceiveDirect
  <2>4. WebTyped' /\ GotPrefix' /\ AppReadsPrefix'
    BY <1>1, <1>2, <1>3, <1>4, <1>5, <2>1, <2>3 DEF WebTyped, GotPrefix, AppReadsPrefix
  <2>5. RefusedUnseen'
    BY <1>1, <2>1, <2>3 DEF RefusedUnseen
  <2> QED
    BY <2>3, <2>4, <2>5 DEF WebInv
<1>6. CASE ~Guarded
  <2>1. Splits(request.messages, appGot, unread) /\ status = 0 /\ refusal = "none"
    BY <1>1, <1>6 DEF WebInv
  <2>2. CASE NextMessage = Disconnect
    <3>1. phase' = "served" /\ status' = 0 /\ refusal' = "none" /\ appGot' = appGot
      BY <1>1, <2>1, <2>2 DEF ReceiveDirect
    <3>2. WebTyped' /\ GotPrefix' /\ AppReadsPrefix'
      BY <1>1, <1>2, <1>3, <3>1 DEF WebTyped, GotPrefix, AppReadsPrefix
    <3>3. RefusedUnseen'
      BY <1>4, <1>6, <3>1 DEF RefusedUnseen
    <3> QED
      BY <3>1, <3>2, <3>3 DEF WebInv
  <2>3. CASE NextMessage # Disconnect
    <3>1. unread # <<>>
      BY <2>3 DEF NextMessage
    <3>2. /\ Append(appGot, unread[1]) \in Seq(Messages) /\ Tail(unread) \in Seq(Messages)
          /\ Splits(request.messages, Append(appGot, unread[1]), Tail(unread))
          /\ Len(unread) = 1 => Append(appGot, unread[1]) = request.messages
      BY <1>2, <2>1, <3>1, OneMore
    <3>3. appGot' = Append(appGot, unread[1]) /\ unread' = Tail(unread)
      BY <1>1, <2>3, <3>1 DEF ReceiveDirect, NextMessage, AfterMessage
    <3>4. WebTyped'
      BY <1>1, <3>2, <3>3 DEF WebTyped
    <3>5. Splits(request.messages, appGot, unread)'
      BY <1>1, <3>2, <3>3 DEF Splits
    <3>6. GotPrefix'
      <4>1. Len(appGot') \in Nat /\ Len(unread') \in Nat
        BY <3>4 DEF WebTyped
      <4> QED
        BY <3>5, <4>1 DEF Splits, GotPrefix
    <3>7. /\ \/ phase' = "served" /\ status' = 200 /\ appGot' = request.messages
             \/ phase' = "app" /\ status' = 0
          /\ refusal' = "none"
      BY <1>1, <2>1, <2>3, <3>2, <3>3 DEF ReceiveDirect, Answered
    <3>8. AppReadsPrefix'
      <4>1. DOMAIN appGot' = 1 .. Len(appGot')
        BY <3>2, <3>3
      <4> QED
        BY <1>1, <3>6, <3>7, <4>1 DEF AppReadsPrefix, GotPrefix
    <3>9. RefusedUnseen'
      BY <1>4, <1>6, <3>7 DEF RefusedUnseen
    <3> QED
      BY <1>1, <1>4, <1>6, <3>4, <3>5, <3>6, <3>7, <3>8, <3>9 DEF WebInv
  <2> QED
    BY <2>2, <2>3
<1> QED
  BY <1>5, <1>6

LEMMA StepWeb ==
  ASSUME WebInv, WebNext \/ UNCHANGED webVars, installed' = installed
  PROVE  WebInv'
<1>1. CASE NextRequest
  BY <1>1 DEF NextRequest, WebInv, WebTyped, GotPrefix, AppReadsPrefix, RefusedUnseen,
              Guarded, GoesPast, DetectRaises
<1>2. CASE UNCHANGED webVars
  BY <1>2 DEF webVars, WebInv, WebTyped, GotPrefix, Splits, AppReadsPrefix,
              RefusedUnseen, Guarded, Passed, GoesPast, DetectRaises
<1> QED
  BY <1>1, <1>2, ArriveWeb, InterceptWeb, ReplayWeb, DirectWeb DEF WebNext

-----------------------------------------------------------------------------
(* The extension *)

LEMMA StepFlask ==
  ASSUME FlaskFailsClosed, ApiNext \/ UNCHANGED apiVars, installed' = installed
  PROVE  FlaskFailsClosed'
<1>1. ASSUME handled' = Unhandled PROVE FlaskFailsClosed'
  BY <1>1, ApiAssumption DEF FlaskFailsClosed, Unhandled
<1>2. ASSUME NEW path, NEW body, NEW block \in BOOLEAN, FlaskRequest(path, body, block)
      PROVE  FlaskFailsClosed'
  <2> SUFFICES ASSUME FlaskLetsBy(path, body, block), path \in GuardedPaths, body # EmptyText
               PROVE  ~DetectRaises /\ (block => Detects(body) = {})
    BY <1>1, <1>2 DEF FlaskRequest, FlaskFailsClosed, DetectRaises
  <2>1. ScanOf(body).out = "result" /\ (ScanOf(body).safe \/ ~block)
    BY DEF FlaskLetsBy
  <2>2. ~DetectRaises
    BY <2>1 DEF ScanOf, RaisedResult
  <2> QED
    BY <2>1, <2>2, ScanTells DEF Tells
<1>3. CASE UNCHANGED apiVars
  BY <1>3 DEF apiVars, FlaskFailsClosed, DetectRaises
<1> QED
  BY <1>1, <1>2, <1>3 DEF ApiNext, CallScan, CallRag, CallTool, CallFilter

-----------------------------------------------------------------------------
(* The stream scanner *)

LEMMA SameSequence ==
  ASSUME NEW S, NEW s \in Seq(S), NEW t \in Seq(S), Len(s) = Len(t),
         \A i \in 1 .. Len(s) : s[i] = t[i]
  PROVE  s = t
<1>1. PICK n : n = Len(s)
  OBVIOUS
<1>2. s = [i \in 1 .. n |-> s[i]] /\ t = [i \in 1 .. n |-> t[i]]
  BY <1>1
<1> QED
  BY <1>1, <1>2

\* A text ends in these k letters of its m.
EndsIn(text, m, tail, k) ==
    /\ tail \in Seq(Nat) /\ Len(tail) = k
    /\ \A i \in 1 .. k : tail[i] = text[m - k + i]

\* The last n letters of a text: how many and which.
LEMMA LastOfFacts ==
  ASSUME NEW text \in Seq(Nat), NEW n \in Nat \ {0},
         NEW m, m = Len(text), NEW k, k = IF m > n THEN n ELSE m
  PROVE  EndsIn(text, m, LastOf(text, n), k)
<1>1. m \in Nat
  OBVIOUS
<1>2. CASE m > n
  <2>1. PICK tail : tail = SubSeq(text, m - n + 1, m)
    OBVIOUS
  <2>2. LastOf(text, n) = tail
    BY <1>2, <2>1 DEF LastOf
  <2>3. m - n + 1 \in 1 .. m
    BY <1>1, <1>2
  <2>4. /\ tail \in Seq(Nat) /\ Len(tail) = n
        /\ \A i \in 1 .. n : tail[i] = text[m - n + i]
    <3>1. PICK from : from = m - n + 1
      OBVIOUS
    <3>2. from \in 1 .. m /\ m - from + 1 = n
      BY <1>1, <2>3, <3>1
    <3>3. /\ tail \in Seq(Nat) /\ Len(tail) = m - from + 1
          /\ \A i \in 1 .. m - from + 1 : tail[i] = text[from + i - 1]
      BY <2>1, <3>1, <3>2
    <3>4. \A i \in 1 .. n : from + i - 1 = m - n + i
      BY <1>1, <3>1
    <3> QED
      BY <3>2, <3>3, <3>4
  <2> QED
    BY <1>2, <2>2, <2>4 DEF EndsIn
<1>3. CASE ~(m > n)
  BY <1>1, <1>3 DEF LastOf, EndsIn
<1> QED
  BY <1>2, <1>3

\* Where the letters of two texts in a row are.
LEMMA InARow ==
  ASSUME NEW s \in Seq(Nat), NEW t \in Seq(Nat)
  PROVE  /\ s \o t \in Seq(Nat) /\ Len(s) \in Nat /\ Len(t) \in Nat
         /\ Len(s \o t) = Len(s) + Len(t)
         /\ \A i \in 1 .. Len(s) : (s \o t)[i] = s[i]
         /\ \A i \in 1 .. Len(t) : (s \o t)[Len(s) + i] = t[i]
<1>1. s \o t \in Seq(Nat) /\ Len(s) \in Nat /\ Len(t) \in Nat
  OBVIOUS
<1>2. Len(s \o t) = Len(s) + Len(t)
  OBVIOUS
<1>3. \A i \in 1 .. Len(s) : (s \o t)[i] = s[i]
  BY <1>1
<1>4. \A i \in 1 .. Len(t) : (s \o t)[Len(s) + i] = t[i]
  BY <1>1
<1> QED
  BY <1>1, <1>2, <1>3, <1>4

\* No trimming of the window loses a letter of the next one.
LEMMA WindowOfWindow ==
  ASSUME NEW s \in Seq(Nat), NEW c \in Seq(Nat), NEW n \in Nat \ {0}
  PROVE  LastOf(LastOf(s, n) \o c, n) = LastOf(s \o c, n)
<1>1. PICK w : w = LastOf(s, n)
  OBVIOUS
<1>2. PICK ls : ls = Len(s)
  OBVIOUS
<1>3. PICK lw : lw = IF ls > n THEN n ELSE ls
  OBVIOUS
<1>4. PICK lc : lc = Len(c)
  OBVIOUS
<1>5. ls \in Nat /\ lw \in Nat /\ lc \in Nat
  BY <1>2, <1>3, <1>4
<1>6. /\ w \in Seq(Nat) /\ Len(w) = lw
      /\ \A i \in 1 .. lw : w[i] = s[ls - lw + i]
  <2>1. EndsIn(s, ls, w, lw)
    BY <1>1, <1>2, <1>3, LastOfFacts
  <2> QED
    BY <2>1 DEF EndsIn
<1>7. PICK lwc, lsc : lwc = lw + lc /\ lsc = ls + lc
  OBVIOUS
<1>8. PICK wc : wc = w \o c
  OBVIOUS
<1>9. PICK sc : sc = s \o c
  OBVIOUS
<1>10. /\ wc \in Seq(Nat) /\ Len(wc) = lwc
       /\ \A i \in 1 .. lw : wc[i] = w[i]
       /\ \A i \in 1 .. lc : wc[lw + i] = c[i]
  BY <1>4, <1>6, <1>7, <1>8, InARow
<1>11. /\ sc \in Seq(Nat) /\ Len(sc) = lsc
       /\ \A i \in 1 .. ls : sc[i] = s[i]
       /\ \A i \in 1 .. lc : sc[ls + i] = c[i]
  BY <1>2, <1>4, <1>7, <1>9, InARow
<1>12. \A i \in 1 .. lwc : wc[i] = sc[ls - lw + i]
  <2> SUFFICES ASSUME NEW i \in 1 .. lwc PROVE wc[i] = sc[ls - lw + i]
    OBVIOUS
  <2>1. CASE i <= lw
    <3>1. i \in 1 .. lw /\ ls - lw + i \in 1 .. ls
      BY <1>3, <1>5, <1>7, <2>1
    <3> QED
      BY <1>6, <1>10, <1>11, <3>1
  <2>2. CASE i > lw
    <3>1. PICK j : j = i - lw
      OBVIOUS
    <3>2. j \in 1 .. lc /\ i = lw + j /\ ls - lw + i = ls + j
      BY <1>5, <1>7, <2>2, <3>1
    <3> QED
      BY <1>10, <1>11, <3>2
  <2> QED
    BY <1>5, <1>7, <2>1, <2>2
<1>13. PICK a : a = LastOf(wc, n)
  OBVIOUS
<1>14. PICK b : b = LastOf(sc, n)
  OBVIOUS
<1>15. PICK k : k = IF lwc > n THEN n ELSE lwc
  OBVIOUS
<1>16. k \in Nat /\ k <= lwc /\ k = IF lsc > n THEN n ELSE lsc
  BY <1>3, <1>5, <1>7, <1>15
<1>17. /\ a \in Seq(Nat) /\ Len(a) = k
       /\ \A i \in 1 .. k : a[i] = wc[lwc - k + i]
  <2>1. EndsIn(wc, lwc, a, k)
    BY <1>10, <1>13, <1>15, LastOfFacts
  <2> QED
    BY <2>1 DEF EndsIn
<1>18. /\ b \in Seq(Nat) /\ Len(b) = k
       /\ \A i \in 1 .. k : b[i] = sc[lsc - k + i]
  <2>1. EndsIn(sc, lsc, b, k)
    BY <1>11, <1>14, <1>16, LastOfFacts
  <2> QED
    BY <2>1 DEF EndsIn
<1>19. \A i \in 1 .. k : a[i] = b[i]
  <2> SUFFICES ASSUME NEW i \in 1 .. k PROVE a[i] = b[i]
    OBVIOUS
  <2>1. PICK j : j = lwc - k + i
    OBVIOUS
  <2>2. j \in 1 .. lwc /\ ls - lw + j = lsc - k + i
    BY <1>5, <1>7, <1>16, <2>1
  <2>3. a[i] = wc[j] /\ wc[j] = sc[ls - lw + j]
    BY <1>12, <1>17, <2>1, <2>2
  <2> QED
    BY <1>18, <2>2, <2>3
<1>20. a = b
  BY <1>17, <1>18, <1>19, SameSequence
<1> QED
  BY <1>1, <1>8, <1>9, <1>13, <1>14, <1>20

\* The beginning of a text stays when letters come behind it.
LEMMA Beginning ==
  ASSUME NEW s \in Seq(Nat), NEW c \in Seq(Nat), NEW e \in Nat, e <= Len(s)
  PROVE  SubSeq(s \o c, 1, e) = SubSeq(s, 1, e)
<1>1. PICK sc : sc = s \o c
  OBVIOUS
<1>2. PICK ls : ls = Len(s)
  OBVIOUS
<1>3. /\ sc \in Seq(Nat) /\ ls \in Nat /\ Len(sc) >= ls
      /\ \A i \in 1 .. ls : sc[i] = s[i]
  BY <1>1, <1>2, InARow
<1>4. PICK a : a = SubSeq(sc, 1, e)
  OBVIOUS
<1>5. PICK b : b = SubSeq(s, 1, e)
  OBVIOUS
<1>6. a \in Seq(Nat) /\ Len(a) = e /\ \A i \in 1 .. e : a[i] = sc[i]
  BY <1>2, <1>3, <1>4
<1>7. b \in Seq(Nat) /\ Len(b) = e /\ \A i \in 1 .. e : b[i] = s[i]
  BY <1>2, <1>3, <1>5
<1>8. a = b
  <2>1. \A i \in 1 .. e : i \in 1 .. ls
    BY <1>2, <1>3
  <2>2. \A i \in 1 .. e : a[i] = b[i]
    BY <1>3, <1>6, <1>7, <2>1
  <2> QED
    BY <1>6, <1>7, <2>2, SameSequence
<1> QED
  BY <1>1, <1>4, <1>5, <1>8

LEMMA WholeOf == ASSUME NEW s \in Seq(Nat) PROVE SubSeq(s, 1, Len(s)) = s
<1>1. PICK n : n = Len(s)
  OBVIOUS
<1>2. PICK a : a = SubSeq(s, 1, n)
  OBVIOUS
<1>3. n \in Nat /\ a \in Seq(Nat) /\ Len(a) = n /\ \A i \in 1 .. n : a[i] = s[i]
  BY <1>1, <1>2
<1>4. a = s
  BY <1>1, <1>3, SameSequence
<1> QED
  BY <1>1, <1>2, <1>4

\* What a list of alerts tells: when, and of which threats.
ToldBy(list) == { <<list[i].chunk, list[i].threats>> : i \in DOMAIN list }

\* What it should tell, given what there was after each chunk.
Due(count, every, found) ==
    { <<n, found[n]>> : n \in { m \in 1 .. count : m % every = 0 /\ found[m] # <<>> } }

LEMMA OneMoreTold ==
  ASSUME NEW S, NEW list \in Seq(S), NEW a
  PROVE  /\ ToldBy(Append(list, a)) = ToldBy(list) \cup {<<a.chunk, a.threats>>}
         /\ Append(list, a) \in Seq(S \cup {a}) /\ Append(list, a) # <<>>
<1>1. PICK n : n = Len(list)
  OBVIOUS
<1>2. PICK more : more = Append(list, a)
  OBVIOUS
<1>3. n \in Nat /\ DOMAIN list = 1 .. n
  BY <1>1
<1>4. list \in Seq(S \cup {a})
  OBVIOUS
<1>5. /\ more \in Seq(S \cup {a}) /\ Len(more) = n + 1 /\ DOMAIN more = 1 .. n + 1
      /\ more[n + 1] = a
      /\ \A i \in 1 .. n : more[i] = list[i]
  BY <1>1, <1>2, <1>4
<1>6. 1 .. n + 1 = (1 .. n) \cup {n + 1}
  BY <1>3
<1>7. ToldBy(more) = ToldBy(list) \cup {<<a.chunk, a.threats>>}
  BY <1>3, <1>5, <1>6 DEF ToldBy
<1>8. more # <<>>
  BY <1>3, <1>5
<1> QED
  BY <1>2, <1>5, <1>7, <1>8

\* What was found in the windows so far is found in them still.
Extends(g, f, count) == \A n \in 1 .. count : g[n] = f[n]

LEMMA OneMoreDue ==
  ASSUME NEW count \in Nat, NEW every, NEW f, NEW g, Extends(g, f, count)
  PROVE  Due(count + 1, every, g) =
           Due(count, every, f) \cup
             (IF (count + 1) % every = 0 /\ g[count + 1] # <<>>
              THEN {<<count + 1, g[count + 1]>>} ELSE {})
<1>1. 1 .. count + 1 = (1 .. count) \cup {count + 1}
  OBVIOUS
<1> QED
  BY <1>1 DEF Due, Extends

-----------------------------------------------------------------------------

\* The chain of feed names what an alert should.
LEMMA StreamIsThreatening == \A text : StreamThreats(text) = Threatening(text)
<1>1. \A text : StreamFound(text) \cap StreamNames =
                   { d \in Detectors \ {"cross_task_contamination"} : Detected(d, text) }
  BY NamesFacts DEF StreamFound, NotNamed
<1> QED
  BY <1>1 DEF StreamThreats, Threatening

LEMMA StreamThreatsNow ==
  /\ Threatening(LastOf(stream, WindowSize)) = StreamThreats(LastOf(stream, WindowSize))
  /\ Threatening(LastOf(stream, WindowSize))' = StreamThreats(LastOf(stream, WindowSize))'
<1>1. StreamFound(LastOf(stream, WindowSize))' \cap StreamNames =
        { d \in Detectors \ {"cross_task_contamination"} :
              Detected(d, LastOf(stream, WindowSize))' }
  BY NamesFacts DEF StreamFound, NotNamed
<1> QED
  BY <1>1, StreamIsThreatening DEF StreamThreats, Threatening

\* Nothing is found in nothing.
LEMMA NothingInNothing == StreamThreats(<<>>) = <<>>
<1>1. ASSUME NEW d \in Detectors PROVE ~Detected(d, <<>>)
  <2>1. PICK pattern : pattern = StreamConfidence[d][1]
    OBVIOUS
  <2>2. pattern \in Seq(Nat) /\ pattern # <<>>
    BY <2>1, StreamAssumption
  <2>3. Len(pattern) \in Nat /\ Len(pattern) >= 1
    BY <2>2
  <2>4. 1 .. Len(<<>>) - Len(pattern) + 1 = {}
    BY <2>3
  <2> QED
    BY <2>1, <2>4 DEF Detected, Occurs
<1>2. StreamFound(<<>>) \cap StreamNames = {}
  BY <1>1 DEF StreamFound
<1> QED
  BY <1>2 DEF StreamThreats, ThreatList

\* The inductive strengthening: the buffer is the end of the stream, whose
\* chunks end where they should.
StreamTyped ==
    /\ interval \in Nat \ {0}
    /\ stream \in Seq(Nat) /\ ends \in Seq(Nat)
    /\ \A n \in 1 .. Len(ends) : ends[n] <= Len(stream)
    /\ IF ends = <<>> THEN stream = <<>> ELSE ends[Len(ends)] = Len(stream)
    /\ chunkCount = Len(ends)
    /\ buffer = LastOf(stream, WindowSize)
    /\ \E S : alerts \in Seq(S)

\* What there was in the last window after each chunk.
FoundAt == [n \in 1 .. Len(ends) |-> StreamThreats(LastOf(Upto(n), WindowSize))]

AlertsTell ==
    ToldBy(alerts) = IF DetectRaises THEN {} ELSE Due(Len(ends), interval, FoundAt)

StreamInv == StreamTyped /\ AlertsTell /\ SafeMeansScanned

LEMMA TellIsExact == StreamTyped /\ AlertsTell => AlertsExact
<1> SUFFICES ASSUME StreamTyped, AlertsTell PROVE AlertsExact
  OBVIOUS
<1>1. PICK n : n = Len(ends)
  OBVIOUS
<1>2. DOMAIN ends = 1 .. n
  BY <1>1 DEF StreamTyped
<1>3. \A m \in 1 .. n : FoundAt[m] = StreamThreats(LastOf(Upto(m), WindowSize))
  BY <1>1 DEF FoundAt
<1>4. Due(n, interval, FoundAt) =
        { <<m, Threatening(LastOf(Upto(m), WindowSize))>> :
            m \in { k \in { j \in DOMAIN ends : j % interval = 0 } :
                        Threatening(LastOf(Upto(k), WindowSize)) # <<>> } }
  BY <1>2, <1>3, StreamIsThreatening DEF Due
<1> QED
  BY <1>1, <1>4 DEF AlertsTell, AlertsExact, ToldBy

\* A chunk, or the empty one of finalize, leaves the alerts telling.
LEMMA FedTells ==
  ASSUME StreamTyped, AlertsTell, NEW chunk \in Seq(Nat), Fed(chunk), installed' = installed
  PROVE  /\ StreamTyped' /\ AlertsTell'
         /\ ~DetectRaises /\ IsDue(chunkCount + 1) /\ alerts' = <<>>
               => StreamThreats(LastOf(stream', WindowSize)) = <<>>
<1>1. PICK old, new : old = stream /\ new = old \o chunk
  OBVIOUS
<1>2. PICK count : count = Len(ends)
  OBVIOUS
<1>3. PICK upto : upto = ends
  OBVIOUS
<1>4. /\ old \in Seq(Nat) /\ upto \in Seq(Nat) /\ count = Len(upto) /\ count \in Nat
      /\ \A n \in 1 .. count : upto[n] <= Len(old)
      /\ interval \in Nat \ {0} /\ chunkCount = count
  BY <1>1, <1>2, <1>3 DEF StreamTyped
<1>5. /\ new \in Seq(Nat) /\ Len(old) \in Nat /\ Len(chunk) \in Nat
      /\ Len(new) = Len(old) + Len(chunk)
  BY <1>1, <1>4, InARow
<1>6. /\ stream' = new /\ interval' = interval /\ threshold' = threshold
      /\ chunkCount' = count + 1 /\ ends' = Append(upto, Len(new))
  BY <1>1, <1>3, <1>4, <1>5 DEF Fed
<1>7. PICK grown : grown = Append(upto, Len(new))
  OBVIOUS
<1>8. /\ grown \in Seq(Nat) /\ Len(grown) = count + 1 /\ grown[count + 1] = Len(new)
      /\ \A n \in 1 .. count : grown[n] = upto[n]
      /\ grown # <<>>
  <2>1. PICK size : size = Len(new)
    OBVIOUS
  <2>2. size \in Nat
    BY <1>5, <2>1
  <2>3. /\ grown \in Seq(Nat) /\ Len(grown) = count + 1 /\ grown[count + 1] = size
        /\ \A n \in 1 .. count : grown[n] = upto[n]
    BY <1>4, <1>7, <2>1, <2>2
  <2> QED
    BY <1>4, <2>1, <2>3
<1>9. Window(chunk) = LastOf(new, WindowSize)
  <2>1. buffer = LastOf(old, WindowSize)
    BY <1>1 DEF StreamTyped
  <2> QED
    BY <1>1, <1>4, <2>1, StreamAssumption, WindowOfWindow DEF Window
<1>10. PICK threats : threats = StreamThreats(LastOf(new, WindowSize))
  OBVIOUS
<1>11. PICK due : due = (IsDue(count + 1) /\ ~DetectRaises /\ threats # <<>>)
  OBVIOUS
<1>12. PICK list : list = alerts
  OBVIOUS
<1>13. PICK S : list \in Seq(S)
  BY <1>12 DEF StreamTyped
<1>14. PICK a : /\ a.threats = threats /\ a.chunk = count + 1
                /\ alerts' = IF due THEN Append(list, a) ELSE list
  <2>1. PICK total : total = totalChars + Len(chunk)
    OBVIOUS
  <2>2. PICK highest :
          highest = MaxOf({ StreamConfidence[d][2] :
                              d \in StreamFound(LastOf(new, WindowSize)) })
    OBVIOUS
  <2>3. PICK b : b = [threats |-> threats, chunk |-> count + 1, chars |-> total,
                      confidence |-> highest]
    OBVIOUS
  <2>4. alerts' = IF due THEN Append(list, b) ELSE list
    BY <1>4, <1>9, <1>10, <1>11, <1>12, <2>1, <2>2, <2>3, Zenon DEF Fed
  <2> QED
    BY <2>3, <2>4
<1>15. /\ Append(list, a) # <<>> /\ Append(list, a) \in Seq(S \cup {a})
       /\ ToldBy(Append(list, a)) = ToldBy(list) \cup {<<count + 1, threats>>}
  BY <1>13, <1>14, OneMoreTold
<1>16. StreamTyped'
  <2>1. \E T : alerts' \in Seq(T)
    BY <1>13, <1>14, <1>15
  <2>2. \A n \in 1 .. count + 1 : grown[n] <= Len(new)
    <3>1. \A n \in 1 .. count + 1 : n \in 1 .. count \/ n = count + 1
      BY <1>4
    <3>2. \A n \in 1 .. count : upto[n] \in Nat
      BY <1>4
    <3> QED
      BY <1>4, <1>5, <1>8, <3>1, <3>2
  <2>3. buffer' = LastOf(new, WindowSize)
    BY <1>9 DEF Fed
  <2> QED
    BY <1>4, <1>5, <1>6, <1>7, <1>8, <2>1, <2>2, <2>3 DEF StreamTyped
<1>17. PICK f : f = FoundAt
  OBVIOUS
<1>18. PICK g : g = FoundAt'
  OBVIOUS
<1>19. count \in Nat /\ Extends(g, f, count)
  <2> SUFFICES ASSUME NEW n \in 1 .. count PROVE g[n] = f[n]
    BY <1>4 DEF Extends
  <2>1. PICK e : e = upto[n]
    OBVIOUS
  <2>2. e \in Nat /\ e <= Len(old)
    BY <1>4, <2>1
  <2>3. PICK text : text = SubSeq(old, 1, e)
    OBVIOUS
  <2>4. Upto(n) = text
    BY <1>1, <1>3, <2>1, <2>3 DEF Upto
  <2>5. Upto(n)' = text
    <3>1. ends'[n] = e
      BY <1>6, <1>7, <1>8, <2>1
    <3>2. SubSeq(new, 1, e) = text
      BY <1>1, <1>4, <2>2, <2>3, Beginning
    <3> QED
      BY <1>6, <3>1, <3>2 DEF Upto
  <2>6. f[n] = StreamThreats(LastOf(text, WindowSize))
    BY <1>2, <1>17, <2>4 DEF FoundAt
  <2>7. n \in 1 .. Len(ends')
    BY <1>4, <1>6, <1>7, <1>8
  <2>8. g[n] = StreamThreats(LastOf(text, WindowSize))'
    BY <1>18, <2>5, <2>7 DEF FoundAt
  <2> QED
    BY <1>6, <2>6, <2>8 DEF StreamThreats, StreamFound, Detected
<1>20. g[count + 1] = threats
  <2>1. Upto(count + 1)' = new
    BY <1>5, <1>6, <1>7, <1>8, WholeOf DEF Upto
  <2>2. count + 1 \in 1 .. Len(ends')
    BY <1>4, <1>6, <1>7, <1>8
  <2>3. g[count + 1] = StreamThreats(LastOf(new, WindowSize))'
    BY <1>18, <2>1, <2>2 DEF FoundAt
  <2> QED
    BY <1>6, <1>10, <2>3 DEF StreamThreats, StreamFound, Detected
<1>21. PICK every : every = interval
  OBVIOUS
<1>22. Due(count + 1, every, g) =
         Due(count, every, f) \cup
           (IF (count + 1) % every = 0 /\ threats # <<>>
            THEN {<<count + 1, threats>>} ELSE {})
  <2>1. Due(count + 1, every, g) =
          Due(count, every, f) \cup
            (IF (count + 1) % every = 0 /\ g[count + 1] # <<>>
             THEN {<<count + 1, g[count + 1]>>} ELSE {})
    BY <1>19, OneMoreDue, Zenon
  <2> QED
    BY <1>20, <2>1
<1>23. AlertsTell'
  <2>1. DetectRaises' = DetectRaises
    BY DEF DetectRaises
  <2>2. ToldBy(list) = IF DetectRaises THEN {} ELSE Due(count, every, f)
    BY <1>2, <1>12, <1>17, <1>21 DEF AlertsTell
  <2>3. IsDue(count + 1) <=> (count + 1) % every = 0
    BY <1>21 DEF IsDue
  <2>4. ToldBy(alerts') = IF DetectRaises THEN {} ELSE Due(count + 1, every, g)
    <3>1. CASE due
      <4>1. (count + 1) % every = 0 /\ ~DetectRaises /\ threats # <<>>
        BY <1>11, <2>3, <3>1, Zenon
      <4> QED
        BY <1>14, <1>15, <1>22, <2>2, <3>1, <4>1
    <3>2. CASE ~due
      <4>1. ~((count + 1) % every = 0 /\ ~DetectRaises /\ threats # <<>>)
        BY <1>11, <2>3, <3>2, Zenon
      <4> QED
        BY <1>14, <1>22, <2>2, <3>2, <4>1
    <3> QED
      BY <3>1, <3>2
  <2>5. Len(ends') = count + 1 /\ interval' = every
    BY <1>6, <1>7, <1>8, <1>21
  <2> QED
    BY <1>18, <2>1, <2>4, <2>5 DEF AlertsTell
<1>24. ASSUME ~DetectRaises, IsDue(chunkCount + 1), alerts' = <<>> PROVE threats = <<>>
  <2>1. ~due
    BY <1>14, <1>15, <1>24
  <2> QED
    BY <1>4, <1>11, <1>24, <2>1, Zenon
<1> QED
  BY <1>6, <1>10, <1>16, <1>23, <1>24

\* A summary without alerts speaks of the end of the stream.
LEMMA SilentWhenDue ==
  ASSUME StreamTyped, AlertsTell, ~DetectRaises, alerts = <<>>,
         buffer = <<>> \/ IsDue(chunkCount)
  PROVE  StreamThreats(LastOf(stream, WindowSize)) = <<>>
<1>1. PICK n : n = Len(ends)
  OBVIOUS
<1>2. n \in Nat /\ chunkCount = n /\ stream \in Seq(Nat)
  BY <1>1 DEF StreamTyped
<1>3. CASE buffer = <<>>
  BY <1>3, NothingInNothing DEF StreamTyped
<1>4. CASE n = 0
  <2>1. ends = <<>>
    <3>1. ends \in Seq(Nat)
      BY DEF StreamTyped
    <3>2. Len(ends) = 0
      BY <1>1, <1>4
    <3> QED
      BY <3>1, <3>2
  <2>2. LastOf(stream, WindowSize) = <<>>
    BY <2>1, StreamAssumption DEF StreamTyped, LastOf
  <2> QED
    BY <2>2, NothingInNothing
<1>5. CASE n # 0 /\ IsDue(chunkCount)
  <2>1. n \in 1 .. n /\ n % interval = 0 /\ ends # <<>>
    BY <1>1, <1>2, <1>5 DEF IsDue
  <2>2. ToldBy(alerts) = {}
    BY DEF ToldBy
  <2>3. Due(n, interval, FoundAt) = {}
    BY <1>1, <2>2 DEF AlertsTell
  <2>4. FoundAt[n] = <<>>
    BY <2>1, <2>3 DEF Due
  <2>5. Upto(n) = stream
    <3>1. ends[n] = Len(stream)
      BY <1>1, <2>1 DEF StreamTyped
    <3> QED
      BY <1>2, <3>1, WholeOf DEF Upto
  <2> QED
    BY <1>1, <2>1, <2>4, <2>5 DEF FoundAt
<1> QED
  BY <1>3, <1>4, <1>5

\* The one chunk in two that is not due is followed by one that is.
LEMMA EveryOtherIsDue ==
  ASSUME NEW count \in Nat, interval \in Nat \ {0}, interval <= 2, ~IsDue(count)
  PROVE  IsDue(count + 1)
<1>1. interval = 1 \/ interval = 2
  OBVIOUS
<1>2. CASE interval = 1
  <2>1. count % 1 = 0
    OBVIOUS
  <2> QED
    BY <1>2, <2>1 DEF IsDue
<1>3. CASE interval = 2
  <2>1. count % 2 # 0 => (count + 1) % 2 = 0
    OBVIOUS
  <2> QED
    BY <1>3, <2>1 DEF IsDue
<1> QED
  BY <1>1, <1>2, <1>3

LEMMA EmptyStream ==
  /\ <<>> \in Seq(Nat) /\ <<>> \in Seq({}) /\ Len(<<>>) = 0
  /\ LastOf(<<>>, WindowSize) = <<>>
  /\ ToldBy(<<>>) = {}
  /\ \A every, found : Due(0, every, found) = {}
<1>1. <<>> \in Seq(Nat) /\ <<>> \in Seq({}) /\ Len(<<>>) = 0
  OBVIOUS
<1>2. LastOf(<<>>, WindowSize) = <<>>
  BY StreamAssumption DEF LastOf
<1>3. ToldBy(<<>>) = {}
  BY DEF ToldBy
<1>4. \A every, found : Due(0, every, found) = {}
  BY DEF Due
<1> QED
  BY <1>1, <1>2, <1>3, <1>4

LEMMA InitStream == StreamInit => StreamInv
<1> SUFFICES ASSUME StreamInit PROVE StreamInv
  OBVIOUS
<1>1. interval \in Nat \ {0}
  BY StreamAssumption DEF StreamInit
<1>2. /\ buffer = <<>> /\ chunkCount = 0 /\ alerts = <<>> /\ stream = <<>>
      /\ ends = <<>> /\ answer.call = "init"
  BY DEF StreamInit
<1> QED
  <2>1. StreamTyped
    <3>1. \A n \in 1 .. Len(ends) : ends[n] <= Len(stream)
      BY <1>2, EmptyStream
    <3>2. \E S : alerts \in Seq(S)
      BY <1>2, EmptyStream
    <3> QED
      BY <1>1, <1>2, <3>1, <3>2, EmptyStream DEF StreamTyped
  <2>2. AlertsTell
    BY <1>2, EmptyStream DEF AlertsTell
  <2> QED
    BY <1>2, <2>1, <2>2 DEF StreamInv, SafeMeansScanned

LEMMA StepStream ==
  ASSUME StreamInv, StreamNext \/ UNCHANGED streamVars, installed' = installed
  PROVE  StreamInv'
<1>1. StreamTyped /\ AlertsTell /\ SafeMeansScanned
  BY DEF StreamInv
<1>2. DetectRaises' = DetectRaises
  BY DEF DetectRaises
<1>3. ASSUME NEW chunk \in Chunks, Feed(chunk) PROVE StreamInv'
  <2>1. chunk \in Seq(Nat)
    BY StreamAssumption
  <2>2. StreamTyped' /\ AlertsTell'
    BY <1>1, <1>3, <2>1, FedTells DEF Feed
  <2>3. answer'.call = "feed"
    BY <1>3 DEF Feed
  <2> QED
    BY <2>2, <2>3 DEF StreamInv, SafeMeansScanned
<1>4. ASSUME UNCHANGED <<interval, threshold, buffer, chunkCount, alerts, stream, ends>>
      PROVE  StreamTyped' /\ AlertsTell'
  <2>1. FoundAt' = FoundAt
    BY <1>4 DEF FoundAt, Upto, StreamThreats, StreamFound, Detected
  <2> QED
    BY <1>1, <1>2, <1>4, <2>1 DEF StreamTyped, AlertsTell
<1>5. CASE FinalizeNow
  <2>1. UNCHANGED <<interval, threshold, buffer, chunkCount, alerts, stream, ends>>
    BY <1>5 DEF FinalizeNow
  <2>2. answer'.out = IF alerts = <<>> THEN "safe" ELSE "unsafe"
    BY <1>5 DEF FinalizeNow, Summary
  <2>3. alerts = <<>> /\ ~DetectRaises => StreamThreats(LastOf(stream, WindowSize)) = <<>>
    BY <1>1, <1>5, SilentWhenDue DEF FinalizeNow
  <2>4. StreamThreats(LastOf(stream, WindowSize))' = StreamThreats(LastOf(stream, WindowSize))
    BY <2>1 DEF StreamThreats, StreamFound, Detected
  <2>5. SafeMeansScanned'
    BY <1>2, <2>2, <2>3, <2>4, StreamThreatsNow DEF SafeMeansScanned
  <2> QED
    BY <1>4, <2>1, <2>5 DEF StreamInv
<1>6. CASE FinalizeFlushing
  <2>1. <<>> \in Seq(Nat) /\ Fed(<<>>) /\ ~IsDue(chunkCount)
    BY <1>6 DEF FinalizeFlushing
  <2>2. /\ StreamTyped' /\ AlertsTell'
        /\ ~DetectRaises /\ IsDue(chunkCount + 1) /\ alerts' = <<>>
              => StreamThreats(LastOf(stream', WindowSize)) = <<>>
    BY <1>1, <2>1, FedTells
  <2>3. interval' = interval /\ threshold' = threshold
    BY <2>1 DEF Fed
  <2>4. StreamThreats(LastOf(stream, WindowSize))' = StreamThreats(LastOf(stream', WindowSize))
    BY <2>3 DEF StreamThreats, StreamFound, Detected
  <2>5. interval <= 2 => IsDue(chunkCount + 1)
    BY <1>1, <2>1, EveryOtherIsDue DEF StreamTyped
  <2>6. ~DetectRaises /\ answer'.out = "safe" => alerts' = <<>>
    BY <1>6 DEF FinalizeFlushing, Raises, Summary
  <2>7. SafeMeansScanned'
    BY <1>2, <2>2, <2>3, <2>4, <2>5, <2>6, StreamThreatsNow DEF SafeMeansScanned
  <2> QED
    BY <2>2, <2>7 DEF StreamInv
<1>7. CASE ResetStream
  <2>1. /\ buffer' = <<>> /\ chunkCount' = 0 /\ alerts' = <<>> /\ stream' = <<>>
        /\ ends' = <<>> /\ interval' = interval /\ answer'.call = "reset"
    BY <1>7 DEF ResetStream
  <2> QED
    <3>1. StreamTyped'
      <4>1. \A n \in 1 .. Len(ends') : ends'[n] <= Len(stream')
        BY <2>1, EmptyStream
      <4>2. \E S : alerts' \in Seq(S)
        BY <2>1, EmptyStream
      <4>3. interval' \in Nat \ {0}
        BY <1>1, <2>1 DEF StreamTyped
      <4> QED
        BY <2>1, <4>1, <4>2, <4>3, EmptyStream DEF StreamTyped
    <3>2. AlertsTell'
      BY <2>1, EmptyStream DEF AlertsTell
    <3> QED
      BY <2>1, <3>1, <3>2 DEF StreamInv, SafeMeansScanned
<1>8. CASE UNCHANGED streamVars
  <2>1. UNCHANGED <<interval, threshold, buffer, chunkCount, alerts, stream, ends, answer>>
    BY <1>8 DEF streamVars
  <2>2. SafeMeansScanned'
    BY <1>1, <1>2, <2>1 DEF SafeMeansScanned, Threatening, Detected
  <2> QED
    BY <1>4, <2>1, <2>2 DEF StreamInv
<1> QED
  BY <1>3, <1>5, <1>6, <1>7, <1>8 DEF StreamNext
-----------------------------------------------------------------------------
(* The filter *)

\* How many of the places come up to here.
Rank(places, i) == Cardinality({ j \in places : j <= i })

\* Every rank up to the number of places is the rank of one place.
LEMMA RanksReach ==
  ASSUME NEW m \in Nat, NEW places \in SUBSET (1 .. m)
  PROVE  /\ Cardinality(places) \in Nat
         /\ \A n \in 1 .. Cardinality(places) : \E i \in places : Rank(places, i) = n
         /\ \A i \in places : Rank(places, i) \in 1 .. Cardinality(places)
         /\ \A i, j \in places : Rank(places, i) = Rank(places, j) => i = j
         /\ \A i, j \in places : Rank(places, i) < Rank(places, j) => i < j
<1> DEFINE Through(i) == { j \in places : j <= i }
           total == Cardinality(places)
           rank == [i \in places |-> Rank(places, i)]
<1>1. IsFiniteSet(places) /\ total \in Nat
  <2>1. IsFiniteSet(1 .. m)
    BY FS_Interval
  <2> QED
    BY <2>1, FS_Subset, FS_CardinalityType
<1>2. \A i \in places : /\ IsFiniteSet(Through(i)) /\ Cardinality(Through(i)) \in Nat
                        /\ Cardinality(Through(i)) <= total
                        /\ Cardinality(Through(i)) # 0
  <2> SUFFICES ASSUME NEW i \in places
               PROVE  /\ IsFiniteSet(Through(i)) /\ Cardinality(Through(i)) \in Nat
                      /\ Cardinality(Through(i)) <= total
                      /\ Cardinality(Through(i)) # 0
    OBVIOUS
  <2>1. Through(i) \in SUBSET places /\ i \in Through(i)
    OBVIOUS
  <2>2. IsFiniteSet(Through(i)) /\ Cardinality(Through(i)) <= total
    BY <1>1, <2>1, FS_Subset
  <2>3. Through(i) # {}
    BY <2>1
  <2> HIDE DEF Through
  <2> QED
    BY <2>2, <2>3, FS_CardinalityType, FS_EmptySet
<1>3. \A i \in places : Rank(places, i) = Cardinality(Through(i))
  BY DEF Rank
<1>4. \A i \in places : Rank(places, i) \in 1 .. total
  <2> HIDE DEF Through, total
  <2> QED
    BY <1>1, <1>2, <1>3
<1>5. ASSUME NEW i \in places, NEW j \in places, i < j
      PROVE  Rank(places, i) < Rank(places, j)
  <2>1. Through(i) \in SUBSET Through(j) /\ j \in Through(j) /\ j \notin Through(i)
    <3>1. \A k \in places : k <= i => k <= j
      BY <1>5
    <3>2. j <= j /\ ~(j <= i)
      BY <1>5
    <3> QED
      BY <3>1, <3>2
  <2>2. Through(i) # Through(j)
    BY <2>1
  <2> HIDE DEF Through
  <2>3. /\ Cardinality(Through(i)) <= Cardinality(Through(j))
        /\ Cardinality(Through(j)) = Cardinality(Through(i)) => Through(j) = Through(i)
    BY <1>2, <2>1, FS_Subset
  <2> QED
    BY <1>2, <1>3, <2>2, <2>3
<1>6. \A i, j \in places : Rank(places, i) = Rank(places, j) => i = j
  <2>1. \A i, j \in places : i < j \/ j < i \/ i = j
    OBVIOUS
  <2>2. \A i \in places : Rank(places, i) \in Nat
    BY <1>2, <1>3
  <2> QED
    BY <1>5, <2>1, <2>2
<1>7. rank \in Injection(places, 1 .. total)
  <2>1. rank \in [places -> 1 .. total]
    BY <1>4
  <2>2. \A i, j \in places : rank[i] = rank[j] => i = j
    BY <1>6
  <2> HIDE DEF rank, total
  <2> QED
    BY <2>1, <2>2 DEF Injection, IsInjective
<1>8. IsFiniteSet(1 .. total) /\ Cardinality(1 .. total) = total
  <2> HIDE DEF total
  <2>1. Cardinality(1 .. total) = IF 1 > total THEN 0 ELSE total - 1 + 1
    BY <1>1, FS_Interval
  <2> QED
    BY <1>1, <2>1, FS_Interval
<1>9. rank \in Surjection(places, 1 .. total)
  BY <1>7, <1>8, FS_Injection
<1>10. \A n \in 1 .. total : \E i \in places : Rank(places, i) = n
  BY <1>9 DEF Surjection
<1>11. ASSUME NEW i \in places, NEW j \in places, Rank(places, i) < Rank(places, j) PROVE i < j
  <2>1. i < j \/ j < i \/ i = j
    OBVIOUS
  <2>2. Rank(places, i) \in Nat /\ Rank(places, j) \in Nat
    BY <1>2, <1>3
  <2> QED
    BY <1>5, <1>11, <2>1, <2>2
<1> QED
  BY <1>1, <1>4, <1>6, <1>10, <1>11

\* A list is made of what stands at these places, in their order.
ComesFrom(documents, places, kept, from) ==
    /\ from \in [DOMAIN kept -> places]
    /\ \A m, n \in DOMAIN kept : m < n => from[m] < from[n]
    /\ \A n \in DOMAIN kept : kept[n] = documents[from[n]]
    /\ \A i \in places : \E n \in DOMAIN kept : from[n] = i

\* The documents selected are those at the places.
LEMMA SelectedFacts ==
  ASSUME NEW documents, NEW m \in Nat, NEW places \in SUBSET (1 .. m),
         NEW kept, kept = Selected(documents, places)
  PROVE  \E from : ComesFrom(documents, places, kept, from)
<1>1. PICK total : total = Cardinality(places)
  OBVIOUS
<1> DEFINE At(n) == CHOOSE i \in places : Cardinality({ j \in places : j <= i }) = n
           from == [n \in 1 .. total |-> At(n)]
<1>2. DOMAIN kept = 1 .. total /\ \A n \in 1 .. total : kept[n] = documents[At(n)]
  BY <1>1 DEF Selected
<1>3. \A n \in 1 .. total : At(n) \in places /\ Rank(places, At(n)) = n
  <2> SUFFICES ASSUME NEW n \in 1 .. total PROVE At(n) \in places /\ Rank(places, At(n)) = n
    OBVIOUS
  <2>1. \E i \in places : Rank(places, i) = n
    BY <1>1, RanksReach
  <2>2. \E i \in places : Cardinality({ j \in places : j <= i }) = n
    BY <2>1 DEF Rank
  <2> QED
    BY <2>2 DEF Rank
<1> HIDE DEF At
<1>4. ASSUME NEW i \in places PROVE \E n \in 1 .. total : At(n) = i
  <2>1. Rank(places, i) \in 1 .. total
    BY <1>1, RanksReach
  <2>2. PICK n \in 1 .. total : n = Rank(places, i)
    BY <2>1
  <2>3. At(n) \in places /\ Rank(places, At(n)) = Rank(places, i)
    BY <1>3, <2>2
  <2>4. \A k, l \in places : Rank(places, k) = Rank(places, l) => k = l
    BY RanksReach
  <2>5. At(n) = i
    BY <2>3, <2>4
  <2> QED
    BY <2>5
<1>5. ASSUME NEW k \in 1 .. total, NEW n \in 1 .. total, k < n PROVE At(k) < At(n)
  <2>1. At(k) \in places /\ At(n) \in places /\ Rank(places, At(k)) < Rank(places, At(n))
    BY <1>3, <1>5
  <2> QED
    BY <2>1, RanksReach
<1>6. from \in [1 .. total -> places]
  BY <1>3
<1>7. PICK f : f = from
  OBVIOUS
<1>8. f \in [1 .. total -> places] /\ \A n \in 1 .. total : f[n] = At(n)
  BY <1>6, <1>7
<1>9. \A k, n \in DOMAIN kept : k < n => f[k] < f[n]
  BY <1>2, <1>5, <1>8
<1>10. \A n \in DOMAIN kept : kept[n] = documents[f[n]]
  BY <1>2, <1>8
<1>11. \A i \in places : \E n \in DOMAIN kept : f[n] = i
  BY <1>2, <1>4, <1>8
<1>12. f \in [DOMAIN kept -> places]
  BY <1>2, <1>8
<1> QED
  BY <1>9, <1>10, <1>11, <1>12 DEF ComesFrom

-----------------------------------------------------------------------------
(* What the ways of scanning answer *)

LEMMA HighestFacts ==
  ASSUME NEW text \in ApiTexts, NEW S \in SUBSET Detects(text)
  PROVE  Highest(text, S) \in 0 .. 10 /\ \A d \in S : Confidence[text][d] \in 0 .. 10
<1>1. \A d \in S : Confidence[text][d] \in 0 .. 10
  BY ApiAssumption DEF Detects
<1>2. { Confidence[text][d] : d \in S } \in SUBSET (0 .. 10)
  BY <1>1
<1> QED
  BY <1>1, <1>2, MaxOfFacts DEF Highest

\* The less a tool is trusted, the lower its threshold.
LEMMA ThresholdFacts ==
  /\ \A i \in DOMAIN TrustOrder : TrustThreshold[TrustOrder[i]] \in Nat
  /\ \A i, j \in DOMAIN TrustOrder :
        i <= j => TrustThreshold[TrustOrder[i]] <= TrustThreshold[TrustOrder[j]]
  /\ TrustThreshold["none"] = 0
BY DEF TrustOrder, TrustThreshold

LEMMA RagAgrees ==
  ASSUME NEW text \in ApiTexts, NEW strict \in BOOLEAN, ~DetectRaises
  PROVE  /\ AsSet(RagOf(text, strict).threats) =
               (AsSet(ScanOf(text).threats) \ NotNamed)
                   \cup IF MarkCounts(text, strict) THEN {"prompt_injection"} ELSE {}
         /\ RagOf(text, strict).confidence >= ScanOf(text).confidence
         /\ ~MarkCounts(text, strict) => RagOf(text, strict).confidence = ScanOf(text).confidence
<1>1. PICK highest : highest = Highest(text, Detects(text))
  OBVIOUS
<1>2. highest \in 0 .. 10
  BY <1>1, HighestFacts
<1>3. AsSet(ScanOf(text).threats) = Detects(text) /\ ScanOf(text).confidence = highest
  BY <1>1, ScanTells DEF Tells
<1>4. CASE MarkCounts(text, strict)
  <2>1. /\ AsSet(RagOf(text, strict).threats) = (Detects(text) \ NotNamed) \cup {"prompt_injection"}
        /\ RagOf(text, strict).confidence = IF highest > 7 THEN highest ELSE 7
    BY <1>1, <1>4, RagTells DEF Tells
  <2> QED
    BY <1>2, <1>3, <1>4, <2>1
<1>5. CASE ~MarkCounts(text, strict)
  <2>1. /\ AsSet(RagOf(text, strict).threats) = Detects(text) \ NotNamed
        /\ RagOf(text, strict).confidence = highest
    BY <1>1, <1>5, RagTells DEF Tells
  <2> QED
    BY <1>2, <1>3, <1>5, <2>1
<1> QED
  BY <1>4, <1>5

LEMMA ToolAgrees ==
  ASSUME NEW text \in ApiTexts, NEW trust, ~DetectRaises
  PROVE  /\ AsSet(ToolOf(text, trust).threats)
                \subseteq AsSet(ScanOf(Truncated[text]).threats) \ NotNamed
         /\ trust = "none" =>
               /\ AsSet(ToolOf(text, trust).threats) =
                     AsSet(ScanOf(Truncated[text]).threats) \ NotNamed
               /\ ToolOf(text, trust).confidence = ScanOf(Truncated[text]).confidence
         /\ \A i, j \in DOMAIN TrustOrder :
               TrustOrder[j] = trust /\ i <= j =>
                   AsSet(ToolOf(text, trust).threats)
                       \subseteq AsSet(ToolOf(text, TrustOrder[i]).threats)
<1>1. PICK output : output = Truncated[text] /\ output \in ApiTexts
  BY ApiAssumption
<1>2. /\ AsSet(ScanOf(output).threats) = Detects(output)
      /\ ScanOf(output).confidence = Highest(output, Detects(output))
  BY ScanTells DEF Tells
<1>3. \A t : /\ AsSet(ToolOf(text, t).threats) = Counted(text, t) \ NotNamed
             /\ ToolOf(text, t).confidence = Highest(output, Counted(text, t))
  BY <1>1, ToolTells DEF Tells
<1>4. \A d \in Detects(output) : Confidence[output][d] \in 0 .. 10
  BY <1>1, HighestFacts
<1>5. \A t : Counted(text, t) \subseteq Detects(output)
  BY <1>1 DEF Counted
<1>6. Counted(text, "none") = Detects(output)
  BY <1>1, <1>4, ThresholdFacts DEF Counted
<1>7. ASSUME NEW i \in DOMAIN TrustOrder, NEW j \in DOMAIN TrustOrder, i <= j
      PROVE  Counted(text, TrustOrder[j]) \subseteq Counted(text, TrustOrder[i])
  <2>1. PICK low, high : low = TrustThreshold[TrustOrder[i]] /\ high = TrustThreshold[TrustOrder[j]]
    OBVIOUS
  <2>2. low \in Nat /\ high \in Nat /\ low <= high
    BY <1>7, <2>1, ThresholdFacts
  <2>3. \A d \in Detects(output) : Confidence[output][d] >= high => Confidence[output][d] >= low
    BY <1>4, <2>2
  <2> QED
    BY <1>1, <2>1, <2>3 DEF Counted
<1> QED
  BY <1>1, <1>2, <1>3, <1>5, <1>6, <1>7

LEMMA SafeOfRag ==
  ASSUME NEW text, NEW strict \in BOOLEAN, ~DetectRaises
  PROVE  RagOf(text, strict).safe <=> Harmless(text, strict)
<1>1. AsSet(ScanOf(text).threats) = Detects(text)
  BY ScanTells DEF Tells
<1>2. CASE MarkCounts(text, strict)
  <2>1. RagOf(text, strict).safe <=> (Detects(text) \ NotNamed) \cup {"prompt_injection"} = {}
    BY <1>2, RagTells DEF Tells
  <2> QED
    BY <1>2, <2>1 DEF Harmless, MarkCounts
<1>3. CASE ~MarkCounts(text, strict)
  <2>1. RagOf(text, strict).safe <=> Detects(text) \ NotNamed = {}
    BY <1>3, RagTells DEF Tells
  <2> QED
    BY <1>1, <1>3, <2>1 DEF Harmless, MarkCounts
<1> QED
  BY <1>2, <1>3

\* The documents that come out of a list, and where in it they come from.
KeptFrom(documents, kept, strict, from) ==
    /\ from \in [DOMAIN kept -> DOMAIN documents]
    /\ \A m, n \in DOMAIN kept : m < n => from[m] < from[n]
    /\ \A n \in DOMAIN kept : kept[n] = documents[from[n]]
    /\ \A i \in DOMAIN documents :
          Harmless(documents[i], strict) <=> \E n \in DOMAIN kept : from[n] = i

LEMMA FilterKeeps ==
  ASSUME NEW documents \in Documents, NEW strict \in BOOLEAN, ~DetectRaises
  PROVE  /\ FilterOf(documents, strict).documents = documents
         /\ \E from : KeptFrom(documents, FilterOf(documents, strict).kept, strict, from)
<1>1. documents \in Seq(ApiTexts) /\ DOMAIN documents = 1 .. Len(documents) /\ Len(documents) \in Nat
  BY ApiAssumption
<1>2. PICK places : places = SafeAt(documents, strict)
  OBVIOUS
<1>3. PICK kept : kept = Selected(documents, places)
  OBVIOUS
<1>4. FilterOf(documents, strict) = [out |-> "kept", documents |-> documents, kept |-> kept]
  BY <1>2, <1>3 DEF FilterOf
<1>5. places \in SUBSET (1 .. Len(documents))
  BY <1>1, <1>2 DEF SafeAt
<1>6. PICK from : ComesFrom(documents, places, kept, from)
  <2>1. PICK size \in Nat : size = Len(documents)
    BY <1>1
  <2>2. places \in SUBSET (1 .. size)
    BY <1>5, <2>1
  <2> QED
    BY <1>3, <2>2, SelectedFacts
<1>7. \A i \in DOMAIN documents : i \in places <=> Harmless(documents[i], strict)
  BY <1>2, SafeOfRag DEF SafeAt
<1>8. \A i \in DOMAIN documents : i \in places <=> \E n \in DOMAIN kept : from[n] = i
  BY <1>6 DEF ComesFrom
<1>9. from \in [DOMAIN kept -> DOMAIN documents]
  BY <1>1, <1>5, <1>6 DEF ComesFrom
<1>10. KeptFrom(documents, kept, strict, from)
  BY <1>6, <1>7, <1>8, <1>9 DEF KeptFrom, ComesFrom
<1> QED
  BY <1>4, <1>10

-----------------------------------------------------------------------------
(* The calls *)

ApiAgrees == NoThreatTwice /\ CopiesAgree /\ FilterKeepsTheSafe

LEMMA StepApi ==
  ASSUME ApiAgrees, ApiNext \/ UNCHANGED apiVars, installed' = installed
  PROVE  ApiAgrees'
<1>1. DetectRaises' = DetectRaises
  BY DEF DetectRaises
<1>2. /\ \A text : ScanOf(text)' = ScanOf(text)
      /\ \A text, trust : ToolOf(text, trust)' = ToolOf(text, trust)
      /\ \A text, strict : Harmless(text, strict)' = Harmless(text, strict)
  BY <1>1 DEF ScanOf, ToolOf, Harmless
<1>3. ASSUME NEW text \in ApiTexts, CallScan(text) PROVE ApiAgrees'
  <2>1. reply'.call = "scan" /\ reply'.got = ScanOf(text)
    BY <1>3 DEF CallScan
  <2>2. ListsOnce(reply'.got)
    BY <2>1, ScansListOnce
  <2> QED
    BY <2>1, <2>2 DEF ApiAgrees, NoThreatTwice, CopiesAgree, FilterKeepsTheSafe, ListsOnce
<1>4. ASSUME NEW text \in ApiTexts, NEW strict \in BOOLEAN, CallRag(text, strict)
      PROVE  ApiAgrees'
  <2>1. /\ reply'.call = "rag" /\ reply'.text = text /\ reply'.strict = strict
        /\ reply'.got = RagOf(text, strict)
    BY <1>4 DEF CallRag
  <2>2. ListsOnce(reply'.got)
    BY <2>1, ScansListOnce
  <2>3. ~DetectRaises =>
          /\ AsSet(reply'.got.threats) =
                (AsSet(ScanOf(text).threats) \ NotNamed)
                    \cup IF MarkCounts(text, strict) THEN {"prompt_injection"} ELSE {}
          /\ reply'.got.confidence >= ScanOf(text).confidence
          /\ ~MarkCounts(text, strict) => reply'.got.confidence = ScanOf(text).confidence
    BY <2>1, RagAgrees
  <2>4. NoThreatTwice'
    BY <2>2 DEF NoThreatTwice, ListsOnce
  <2>5. CopiesAgree'
    BY <1>1, <1>2, <2>1, <2>3 DEF CopiesAgree, MarkCounts
  <2> QED
    BY <2>1, <2>4, <2>5 DEF ApiAgrees, FilterKeepsTheSafe
<1>5. ASSUME NEW text \in ApiTexts, NEW trust \in TrustLevels, CallTool(text, trust)
      PROVE  ApiAgrees'
  <2>1. /\ reply'.call = "tool" /\ reply'.text = text /\ reply'.trust = trust
        /\ reply'.got = ToolOf(text, trust)
    BY <1>5 DEF CallTool
  <2>2. ListsOnce(reply'.got)
    BY <2>1, ScansListOnce
  <2>3. NoThreatTwice'
    BY <2>2 DEF NoThreatTwice, ListsOnce
  <2>4. CopiesAgree'
    BY <1>1, <1>2, <2>1, ToolAgrees DEF CopiesAgree
  <2> QED
    BY <2>1, <2>3, <2>4 DEF ApiAgrees, FilterKeepsTheSafe
<1>6. ASSUME NEW documents \in Documents, NEW strict \in BOOLEAN, CallFilter(documents, strict)
      PROVE  ApiAgrees'
  <2>1. /\ reply'.call = "filter" /\ reply'.strict = strict
        /\ reply'.got = FilterOf(documents, strict)
    BY <1>6 DEF CallFilter
  <2>2. ~DetectRaises =>
          \E from : KeptFrom(reply'.got.documents, reply'.got.kept, strict, from)
    BY <2>1, FilterKeeps
  <2>3. FilterKeepsTheSafe'
    BY <1>1, <1>2, <2>1, <2>2 DEF FilterKeepsTheSafe, KeptFrom
  <2> QED
    BY <2>1, <2>3 DEF ApiAgrees, NoThreatTwice, CopiesAgree
<1>7. ASSUME NEW path, NEW body, NEW block, FlaskRequest(path, body, block) PROVE ApiAgrees'
  <2>1. reply'.call = "flask"
    BY <1>7 DEF FlaskRequest
  <2> QED
    BY <2>1 DEF ApiAgrees, NoThreatTwice, CopiesAgree, FilterKeepsTheSafe
<1>8. CASE UNCHANGED apiVars
  <2>1. reply' = reply
    BY <1>8 DEF apiVars
  <2> QED
    BY <1>1, <1>2, <2>1 DEF ApiAgrees, NoThreatTwice, CopiesAgree, FilterKeepsTheSafe
<1> QED
  BY <1>3, <1>4, <1>5, <1>6, <1>7, <1>8 DEF ApiNext

-----------------------------------------------------------------------------
(* The tools of the MCP server *)

\* Every pattern has a score and a category the server lists.
LEMMA PatternFacts ==
  \A p \in DOMAIN McpPattern :
    /\ McpPattern[p].confidence \in 1 .. 100
    /\ McpPattern[p].category \in ThreatCategory
BY DEF McpPattern, Pattern, NoSub, ThreatCategory

LEMMA ReportFacts ==
  ASSUME NEW entry \in Entries
  PROVE  /\ ScanEntry(entry).risk = 0 <=> ScanEntry(entry).is_safe
         /\ \A p \in DOMAIN ScanEntry(entry).threats :
               ScanEntry(entry).threats[p].category \in ThreatCategory
<1>1. PICK found : found = IF entry = BlankEntry THEN {} ELSE entry
  OBVIOUS
<1>2. PICK scores : scores = {0} \cup { McpPattern[p].confidence : p \in found }
  OBVIOUS
<1>3. PICK risk : risk = CHOOSE m \in scores : \A n \in scores : n <= m
  OBVIOUS
<1>4. PICK none : none = (found = {})
  OBVIOUS
<1>5. PICK threats : threats = [p \in found |-> McpPattern[p]]
  OBVIOUS
<1>6. ScanEntry(entry) = [is_safe |-> none, threats |-> threats, risk |-> risk]
  BY <1>1, <1>2, <1>3, <1>4, <1>5, Zenon DEF ScanEntry
<1>7. \A p \in found : McpPattern[p].confidence \in 1 .. 100 /\ McpPattern[p].category \in ThreatCategory
  BY <1>1, PatternFacts, McpAssumption
<1>8. risk \in scores /\ \A n \in scores : n <= risk
  <2>1. PICK top \in Nat : top = 100
    OBVIOUS
  <2>2. scores \in SUBSET (0 .. top) /\ scores # {}
    BY <1>2, <1>7, <2>1
  <2>3. \E m \in scores : \A n \in scores : n <= m
    BY <2>2, HighestExists
  <2> QED
    BY <1>3, <2>3
<1>9. risk = 0 <=> found = {}
  <2>1. found = {} => risk = 0
    BY <1>2, <1>8
  <2>2. ASSUME NEW p \in found PROVE risk # 0
    <3>1. McpPattern[p].confidence \in scores /\ McpPattern[p].confidence \in 1 .. 100
      BY <1>2, <1>7
    <3> QED
      BY <1>8, <3>1
  <2> QED
    BY <2>1, <2>2
<1>10. /\ ScanEntry(entry).risk = risk /\ ScanEntry(entry).is_safe = none
       /\ ScanEntry(entry).threats = threats
  BY <1>6
<1>11. ScanEntry(entry).is_safe <=> found = {}
  BY <1>4, <1>10, Zenon
<1>12. \A p \in DOMAIN threats : threats[p].category \in ThreatCategory
  BY <1>5, <1>7
<1> QED
  BY <1>9, <1>10, <1>11, <1>12

LEMMA StepMcp ==
  ASSUME McpReportsListed, McpNext \/ UNCHANGED mcp
  PROVE  McpReportsListed'
<1>1. ASSUME NEW e \in Entries, NEW call \in {"store", "recall"},
             mcp' = [call |-> call, entry |-> e, action |-> Gate(e),
                     risk |-> ScanEntry(e).risk, threats |-> ScanEntry(e).threats]
      PROVE  McpReportsListed'
  <2>1. mcp'.call # "scan" /\ mcp'.action = Gate(e) /\ mcp'.risk = ScanEntry(e).risk
    BY <1>1
  <2>2. Gate(e) = "ALLOW" <=> ScanEntry(e).is_safe
    BY DEF Gate
  <2> QED
    BY <2>1, <2>2, ReportFacts DEF McpReportsListed
<1>2. ASSUME NEW e \in Entries, mcp' = [call |-> "scan", entry |-> e, got |-> ScanEntry(e)]
      PROVE  McpReportsListed'
  <2>1. mcp'.call = "scan" /\ mcp'.got = ScanEntry(e)
    BY <1>2
  <2> QED
    BY <2>1, ReportFacts DEF McpReportsListed
<1>3. ASSUME mcp'.call \in {"batch", "categories"} PROVE McpReportsListed'
  BY <1>3 DEF McpReportsListed
<1>4. CASE UNCHANGED mcp
  BY <1>4 DEF McpReportsListed
<1> QED
  BY <1>1, <1>2, <1>3, <1>4 DEF McpNext

-----------------------------------------------------------------------------

\* The services, whatever is scheduled.
LEMMA ServicesSafety == ServicesSpec => ServicesInit /\ [][ServicesNext]_servicesVars
BY PTL DEF ServicesSpec

\* Behind both guards the application sees what passed the scan, unchanged, and
\* behind the ASGI guard also what goes past it: what is no UTF-8, what the
\* detectors raise on, and a refused body whose 403 could not be sent
\* (FastAPIGuard.__call__, FlaskGuard._check_request).
THEOREM AppSees == ServicesSpec => []AppSeesWhatPassed
<1> DEFINE Inv == WebInv /\ FlaskFailsClosed
<1>1. ServicesInit => Inv
  BY InitWeb, ApiAssumption DEF ServicesInit, ApiInit, FlaskFailsClosed, Unhandled
<1>2. Inv /\ [ServicesNext]_servicesVars => Inv'
  <2> SUFFICES ASSUME Inv, [ServicesNext]_servicesVars PROVE Inv'
    OBVIOUS
  <2>1. /\ installed' = installed
        /\ WebNext \/ UNCHANGED webVars
        /\ ApiNext \/ UNCHANGED apiVars
    BY DEF ServicesNext, servicesVars
  <2> QED
    BY <2>1, StepWeb, StepFlask
<1>3. Inv => AppSeesWhatPassed
  BY DEF WebInv, AppSeesWhatPassed
<1> QED
  BY <1>1, <1>2, <1>3, ServicesSafety, PTL

\* What a request can still take: one step to intercept it, one for each of its
\* messages, and one to find the client gone.
StepsLeft ==
    CASE phase = "wrapped" -> Len(unread) + 2
      [] phase = "app" -> Len(unread) + 1
      [] OTHER -> 0

LEMMA MessageTaken ==
  ASSUME WebTyped, unread' = AfterMessage
  PROVE  /\ Len(unread) \in Nat /\ Len(unread') \in Nat
         /\ Len(unread') = IF unread = <<>> THEN 0 ELSE Len(unread) - 1
         /\ unread # <<>> => Len(unread) > 0
<1>1. unread \in Seq(Messages)
  BY DEF WebTyped
<1> QED
  BY <1>1 DEF AfterMessage

Nearer ==
    phase \in {"wrapped", "app"} =>
        StepsLeft \in Nat /\ StepsLeft' \in Nat /\ StepsLeft' < StepsLeft

\* Every step of a request that is being served brings its end nearer, however
\* its body is split and whenever its client goes away: what is left of Served
\* is that steps are taken (FastAPIGuard.__call__ and its receive wrapper).
THEOREM RequestsCountDown == ServicesSpec => [][Nearer]_webVars
<1>1. ASSUME WebInv, WebNext, phase \in {"wrapped", "app"} PROVE Nearer
  <2>1. WebTyped
    BY <1>1 DEF WebInv
  <2>2. CASE Intercept
    <3>1. phase = "wrapped" /\ phase' \in {"app", "served"} /\ unread' = AfterMessage
      BY <2>2 DEF Intercept, Refuse
    <3> QED
      BY <2>1, <3>1, MessageTaken DEF StepsLeft, Nearer
  <2>3. CASE ReceiveReplayed
    <3>1. phase = "app" /\ phase' = "served" /\ Len(unread) \in Nat
      BY <2>1, <2>3 DEF ReceiveReplayed, Answered, WebTyped
    <3> QED
      BY <3>1 DEF StepsLeft, Nearer
  <2>4. CASE ReceiveDirect
    <3>1. /\ phase = "app" /\ unread' = AfterMessage /\ phase' \in {"app", "served"}
          /\ unread = <<>> => phase' = "served"
      BY <2>4 DEF ReceiveDirect, Answered, NextMessage
    <3> QED
      BY <2>1, <3>1, MessageTaken DEF StepsLeft, Nearer
  <2>5. ~NextRequest /\ \A r \in Requests : ~Arrive(r)
    BY <1>1 DEF NextRequest, Arrive
  <2> QED
    BY <1>1, <2>2, <2>3, <2>4, <2>5 DEF WebNext
<1>2. ServicesInit => WebInv
  BY InitWeb DEF ServicesInit
<1>3. WebInv /\ [ServicesNext]_servicesVars => WebInv' /\ [Nearer]_webVars
  <2> SUFFICES ASSUME WebInv, [ServicesNext]_servicesVars PROVE WebInv' /\ [Nearer]_webVars
    OBVIOUS
  <2>1. installed' = installed /\ (WebNext \/ UNCHANGED webVars)
    BY DEF ServicesNext, servicesVars
  <2>2. WebInv'
    BY <2>1, StepWeb
  <2>3. phase \notin {"wrapped", "app"} => Nearer
    BY DEF Nearer
  <2> QED
    BY <1>1, <2>1, <2>2, <2>3
<1> QED
  BY <1>2, <1>3, ServicesSafety, PTL

\* However a text is asked about the answers agree, each copy of the loop with the
\* names its own chain holds: scan, scan_rag_input, scan_tool_output at every trust;
\* filter_safe_documents keeps the harmless documents in their order, and the MCP
\* server reports only categories it lists.
THEOREM ScansAlwaysAgree == ServicesSpec => []ScansAgree
<1> DEFINE Inv == ApiAgrees /\ McpReportsListed
<1>1. ServicesInit => Inv
  BY DEF ServicesInit, ApiInit, McpInit, ApiAgrees, NoThreatTwice, CopiesAgree,
         FilterKeepsTheSafe, McpReportsListed
<1>2. Inv /\ [ServicesNext]_servicesVars => Inv'
  <2> SUFFICES ASSUME Inv, [ServicesNext]_servicesVars PROVE Inv'
    OBVIOUS
  <2>1. /\ installed' = installed
        /\ ApiNext \/ UNCHANGED apiVars
        /\ McpNext \/ UNCHANGED mcp
    BY DEF ServicesNext, servicesVars
  <2> QED
    BY <2>1, StepApi, StepMcp
<1>3. Inv => ScansAgree
  BY DEF ApiAgrees, ScansAgree
<1> QED
  BY <1>1, <1>2, <1>3, ServicesSafety, PTL

\* What is due is scanned in the window it should be, and what a summary calls
\* safe was (StreamScanner.feed, finalize).
THEOREM StreamsAreScanned == ServicesSpec => []StreamIsScanned
<1>1. ServicesInit => StreamInv
  BY InitStream DEF ServicesInit
<1>2. StreamInv /\ [ServicesNext]_servicesVars => StreamInv'
  <2> SUFFICES ASSUME StreamInv, [ServicesNext]_servicesVars PROVE StreamInv'
    OBVIOUS
  <2>1. installed' = installed /\ (StreamNext \/ UNCHANGED streamVars)
    BY DEF ServicesNext, servicesVars
  <2> QED
    BY <2>1, StepStream
<1>3. StreamInv => StreamIsScanned
  BY TellIsExact DEF StreamInv, StreamIsScanned
<1> QED
  BY <1>1, <1>2, <1>3, ServicesSafety, PTL

-----------------------------------------------------------------------------
(* The static scanners *)

RuleNames == {"AMG001", "AMG002", "AMG003", "AMG004", "AMG005", "AMG006"}

LEMMA RulesRanked ==
  /\ \A rule \in RuleNames : SeverityOf[rule] \in 2 .. 4
  /\ SeverityOf \in [RuleNames -> 2 .. 4]
BY DEF RuleNames, SeverityOf

LEMMA MatchesAre ==
  ASSUME NEW rule, NEW file, NEW text, NEW patterns, NEW lines, NEW f
  PROVE  f \in Matches(rule, file, text, patterns, lines) <=>
            \E i \in lines : \E p \in patterns \cap text.lines[i] : f = Finding(rule, file, i, p)
BY DEF Matches

LEMMA FindingIs ==
  ASSUME NEW rule, NEW file, NEW line, NEW pattern
  PROVE  /\ Finding(rule, file, line, pattern).rule = rule
         /\ Finding(rule, file, line, pattern).file = file
         /\ Finding(rule, file, line, pattern).pattern = pattern
BY DEF Finding

\* What a finding in a text may be.
FoundIn(file, text) ==
    [rule : RuleNames, file : {file}, line : DOMAIN text.lines,
     pattern : UNION Range(text.lines)]

LEMMA MatchesWithin ==
  ASSUME NEW rule \in RuleNames, NEW file, NEW text, NEW patterns,
         NEW lines \in SUBSET DOMAIN text.lines
  PROVE  Matches(rule, file, text, patterns, lines) \subseteq FoundIn(file, text)
<1> SUFFICES ASSUME NEW i \in lines, NEW p \in patterns \cap text.lines[i]
             PROVE  Finding(rule, file, i, p) \in FoundIn(file, text)
  BY MatchesAre
<1>1. i \in DOMAIN text.lines /\ p \in UNION Range(text.lines)
  BY DEF Range
<1> QED
  BY <1>1 DEF Finding, FoundIn

LEMMA CommonWithin ==
  ASSUME NEW tool, NEW file, NEW text
  PROVE  CommonFindings(tool, file, text) \subseteq FoundIn(file, text)
<1>1. "AMG001" \in RuleNames /\ "AMG002" \in RuleNames /\ "AMG003" \in RuleNames /\ "AMG004" \in RuleNames
  BY DEF RuleNames
<1> DEFINE all == DOMAIN text.lines
           code == { i \in all : ~IsComment(text.lines[i]) }
           some == IF file \in InTest THEN {} ELSE code
<1>2. all \in SUBSET all /\ code \in SUBSET all /\ some \in SUBSET all
  OBVIOUS
<1>3. /\ Matches("AMG001", file, text, MemoryWrites(tool), all) \subseteq FoundIn(file, text)
      /\ Matches("AMG002", file, text, Secrets(tool), all) \subseteq FoundIn(file, text)
      /\ Matches("AMG003", file, text, Injections(tool), some) \subseteq FoundIn(file, text)
      /\ Matches("AMG004", file, text, UnsafeLoads(tool), code) \subseteq FoundIn(file, text)
  <2> HIDE DEF all, code, some
  <2> QED
    BY <1>1, <1>2, MatchesWithin DEF all
<1> QED
  BY <1>3 DEF CommonFindings

LEMMA PackageWithin ==
  ASSUME NEW file, NEW text \in Texts
  PROVE  PackageFindings(file, text) \subseteq FoundIn(file, text)
<1>1. text.lines \in Seq(SUBSET STRING) /\ DOMAIN text.lines = 1 .. Len(text.lines)
  <2>1. text.lines \in Seq(SUBSET STRING)
    BY ScanAssumption
  <2> QED
    BY <2>1
<1>2. "AMG005" \in RuleNames /\ "AMG006" \in RuleNames
  BY DEF RuleNames
<1>3. StoredOutputs(file, text) \subseteq FoundIn(file, text)
  <2> SUFFICES ASSUME NEW p \in ToolOutputs, NEW j \in 1 .. Len(text.lines) - 1,
                      p[1] \in text.lines[j]
               PROVE  Finding("AMG005", file, j, p[1]) \in FoundIn(file, text)
    BY DEF StoredOutputs
  <2>1. j \in DOMAIN text.lines /\ p[1] \in UNION Range(text.lines)
    BY <1>1 DEF Range
  <2> QED
    BY <1>2, <2>1 DEF Finding, FoundIn
<1>4. Matches("AMG006", file, text, Permissions, DOMAIN text.lines) \subseteq FoundIn(file, text)
  BY <1>2, MatchesWithin
<1> QED
  BY <1>3, <1>4 DEF PackageFindings

\* A scan reports only on the file it is given, by its rules, and finds finitely
\* much in it.
LEMMA ScanWithin ==
  ASSUME NEW tool, NEW file, NEW text \in Texts
  PROVE  Scan(tool, file, text) \subseteq FoundIn(file, text)
BY CommonWithin, PackageWithin DEF Scan

LEMMA ScanFinite ==
  ASSUME NEW tool, NEW file, NEW text \in Texts
  PROVE  IsFiniteSet(Scan(tool, file, text))
<1> DEFINE Lines == DOMAIN text.lines
           Patterns == UNION Range(text.lines)
           Places == RuleNames \X (Lines \X Patterns)
           place == [f \in FoundIn(file, text) |-> <<f.rule, <<f.line, f.pattern>>>>]
<1>1. IsFiniteSet(Lines)
  <2>1. Lines = 1 .. Len(text.lines) /\ Len(text.lines) \in Nat
    BY ScanAssumption
  <2>2. PICK n \in Nat : n = Len(text.lines)
    BY <2>1
  <2>3. IsFiniteSet(1 .. n)
    BY FS_Interval
  <2> QED
    BY <2>1, <2>2, <2>3
<1>2. IsFiniteSet(Patterns)
  BY ScanAssumption
<1>3. IsFiniteSet(RuleNames)
  <2> DEFINE names == <<"AMG001", "AMG002", "AMG003", "AMG004", "AMG005", "AMG006">>
  <2>1. names \in Surjection(1 .. 6, RuleNames)
    BY DEF RuleNames, Surjection
  <2>2. PICK n \in Nat : n = 6
    OBVIOUS
  <2>3. IsFiniteSet(1 .. n)
    BY FS_Interval
  <2>4. IsFiniteSet(1 .. 6)
    BY <2>2, <2>3
  <2> HIDE DEF names
  <2> QED
    BY <2>1, <2>4, FS_Surjection
<1>4. IsFiniteSet(Places)
  <2> HIDE DEF Lines, Patterns
  <2> QED
    BY <1>1, <1>2, <1>3, FS_Product
<1>5. place \in Injection(FoundIn(file, text), Places)
  <2>1. \A f \in FoundIn(file, text) : place[f] \in Places
    BY DEF FoundIn
  <2>2. ASSUME NEW f \in FoundIn(file, text), NEW g \in FoundIn(file, text), place[f] = place[g]
        PROVE  f = g
    BY <2>2 DEF FoundIn
  <2> QED
    BY <2>1, <2>2 DEF Injection, IsInjective
<1>6. IsFiniteSet(FoundIn(file, text))
  <2> HIDE DEF Places, place
  <2> QED
    BY <1>4, <1>5, FS_Injection
<1> QED
  BY <1>6, ScanWithin, FS_Subset

\* The script's patterns are the package's, the safe loader apart.
LEMMA PatternsWithin ==
  /\ Indicators("action") \subseteq Indicators("amg")
  /\ MemoryWrites("action") \subseteq MemoryWrites("amg")
  /\ Secrets("action") \subseteq Secrets("amg")
  /\ Injections("action") \subseteq Injections("amg")
  /\ UnsafeLoads("action") \subseteq UnsafeLoads("amg") \cup {"yaml.load SafeLoader"}
BY DEF Indicators, MemoryWrites, Secrets, Injections, UnsafeLoads

LEMMA MatchesGrow ==
  ASSUME NEW rule, NEW file, NEW text, NEW lines, NEW fewer, NEW more, NEW apart,
         fewer \subseteq more \cup {apart},
         NEW f \in Matches(rule, file, text, fewer, lines), f.pattern # apart
  PROVE  f \in Matches(rule, file, text, more, lines)
<1>1. PICK i \in lines : \E p \in fewer \cap text.lines[i] : f = Finding(rule, file, i, p)
  BY MatchesAre
<1>2. PICK p \in fewer \cap text.lines[i] : f = Finding(rule, file, i, p)
  BY <1>1
<1>3. p \in more \cap text.lines[i]
  BY <1>2, FindingIs
<1> QED
  BY <1>2, <1>3, MatchesAre

LEMMA ScriptFindsLess ==
  ASSUME NEW file, NEW text, NEW f \in Scan("action", file, text),
         f.pattern # "yaml.load SafeLoader"
  PROVE  f \in Scan("amg", file, text)
<1> DEFINE all == DOMAIN text.lines
           code == { i \in all : ~IsComment(text.lines[i]) }
           some == IF file \in InTest THEN {} ELSE code
<1>1. f \in CommonFindings("action", file, text)
  BY DEF Scan
<1>2. IsMemoryFile("action", text) => IsMemoryFile("amg", text)
  BY PatternsWithin DEF IsMemoryFile
<1>3. CASE /\ IsMemoryFile("action", text) /\ ~HasGuard(text)
           /\ f \in Matches("AMG001", file, text, MemoryWrites("action"), all)
  <2>1. f \in Matches("AMG001", file, text, MemoryWrites("amg"), all)
    BY <1>3, PatternsWithin, MatchesGrow
  <2> QED
    BY <1>2, <1>3, <2>1 DEF Scan, CommonFindings
<1>4. CASE f \in Matches("AMG002", file, text, Secrets("action"), all)
  <2>1. f \in Matches("AMG002", file, text, Secrets("amg"), all)
    BY <1>4, PatternsWithin, MatchesGrow
  <2> QED
    BY <2>1 DEF Scan, CommonFindings
<1>5. CASE f \in Matches("AMG003", file, text, Injections("action"), some)
  <2>1. f \in Matches("AMG003", file, text, Injections("amg"), some)
    BY <1>5, PatternsWithin, MatchesGrow
  <2> QED
    BY <2>1 DEF Scan, CommonFindings
<1>6. CASE f \in Matches("AMG004", file, text, UnsafeLoads("action"), code)
  <2>1. f \in Matches("AMG004", file, text, UnsafeLoads("amg"), code)
    BY <1>6, PatternsWithin, MatchesGrow
  <2> QED
    BY <2>1 DEF Scan, CommonFindings
<1> QED
  BY <1>1, <1>3, <1>4, <1>5, <1>6 DEF CommonFindings

-----------------------------------------------------------------------------
(* A run, over files that others edit *)

\* What a run keeps of what it finds in a text.
KeptOf(tool, file, text, asked) ==
    { f \in IF text = NoFile THEN {} ELSE Scan(tool, file, text) : IsReported(f, asked) }

RunRecord(p, a, t, rd, fi, fw, re, ex) ==
    [phase |-> p, asked |-> a, todo |-> t, read |-> rd, findings |-> fi,
     filesWith |-> fw, report |-> re, exit |-> ex]

ARun(r) ==
    r = RunRecord(r.phase, r.asked, r.todo, r.read, r.findings, r.filesWith, r.report, r.exit)

\* A run has found what is in the texts it has read, as it read them.
RunOK(tool, r) ==
    r.phase \in {"scan", "done"} =>
        /\ ARun(r) /\ r.asked \in Options
        /\ r.todo \subseteq Files /\ r.todo \cap DOMAIN r.read = {}
        /\ r.read \in [DOMAIN r.read -> Texts \cup {NoFile}]
        /\ r.findings = UNION { KeptOf(tool, f, r.read[f], r.asked) : f \in DOMAIN r.read }
        /\ IsFiniteSet(r.findings)
        /\ r.filesWith = { f.file : f \in r.findings }
        /\ r.phase = "done" =>
              /\ r.todo = {}
              /\ r.report = Report(r.asked.format, r.findings)
              /\ r.exit = IF r.asked.fail /\ r.findings # {} THEN 1 ELSE 0

\* As long as nobody edits it, a run reads the tree as it is.
RunSees(r) ==
    edits = 0 /\ r.phase \in {"scan", "done"} =>
        /\ r.todo \cup DOMAIN r.read = Collect(r.asked)
        /\ \A f \in DOMAIN r.read : r.read[f] = tree[f]

ScanInv ==
    /\ tree \in [Files -> Texts \cup {NoFile}]
    /\ edits \in Nat
    /\ run = [tool \in Tools |-> run[tool]]
    /\ \A tool \in Tools : RunOK(tool, run[tool]) /\ RunSees(run[tool])

LEMMA KeptFacts ==
  ASSUME NEW tool, NEW file, NEW text \in Texts \cup {NoFile}, NEW asked
  PROVE  /\ IsFiniteSet(KeptOf(tool, file, text, asked))
         /\ \A f \in KeptOf(tool, file, text, asked) : f.file = file /\ f.rule \in RuleNames
<1>1. CASE text = NoFile
  BY <1>1, FS_EmptySet DEF KeptOf
<1>2. CASE text # NoFile
  <2>1. text \in Texts /\ KeptOf(tool, file, text, asked) \subseteq Scan(tool, file, text)
    BY <1>2 DEF KeptOf
  <2>2. IsFiniteSet(KeptOf(tool, file, text, asked))
    BY <2>1, ScanFinite, FS_Subset
  <2>3. KeptOf(tool, file, text, asked) \subseteq FoundIn(file, text)
    BY <2>1, ScanWithin
  <2> QED
    BY <2>2, <2>3 DEF FoundIn
<1> QED
  BY <1>1, <1>2

\* One file more.
LEMMA RunReads ==
  ASSUME NEW tool, NEW r, RunOK(tool, r), r.phase = "scan",
         NEW file \in r.todo, NEW text \in Texts \cup {NoFile}, NEW s,
         s = [phase |-> "scan", asked |-> r.asked, todo |-> r.todo \ {file},
              read |-> ReadToo(r.read, file, text),
              findings |-> r.findings \cup KeptOf(tool, file, text, r.asked),
              filesWith |-> r.filesWith \cup { f.file : f \in KeptOf(tool, file, text, r.asked) },
              report |-> r.report, exit |-> r.exit]
  PROVE  /\ RunOK(tool, s)
         /\ RunSees(r) /\ text = tree[file] => RunSees(s)
<1>1. /\ r.asked \in Options /\ r.todo \subseteq Files /\ r.todo \cap DOMAIN r.read = {}
      /\ r.read \in [DOMAIN r.read -> Texts \cup {NoFile}]
      /\ r.findings = UNION { KeptOf(tool, f, r.read[f], r.asked) : f \in DOMAIN r.read }
      /\ IsFiniteSet(r.findings)
      /\ r.filesWith = { f.file : f \in r.findings }
  BY DEF RunOK
<1>2. file \notin DOMAIN r.read
  BY <1>1
<1>3. /\ s.phase = "scan" /\ s.asked = r.asked /\ s.todo = r.todo \ {file}
      /\ s.read = ReadToo(r.read, file, text)
      /\ s.findings = r.findings \cup KeptOf(tool, file, text, r.asked)
      /\ s.filesWith = r.filesWith \cup { f.file : f \in KeptOf(tool, file, text, r.asked) }
      /\ ARun(s)
  BY DEF ARun, RunRecord
<1>4. /\ DOMAIN s.read = DOMAIN r.read \cup {file}
      /\ s.read \in [DOMAIN s.read -> Texts \cup {NoFile}]
      /\ s.read[file] = text
      /\ \A f \in DOMAIN r.read : s.read[f] = r.read[f]
  <2>1. PICK read : read = r.read
    OBVIOUS
  <2>2. /\ DOMAIN ReadToo(read, file, text) = DOMAIN read \cup {file}
        /\ ReadToo(read, file, text) \in [DOMAIN read \cup {file} -> Texts \cup {NoFile}]
        /\ ReadToo(read, file, text)[file] = text
        /\ \A f \in DOMAIN read : ReadToo(read, file, text)[f] = read[f]
    BY <1>1, <1>2, <2>1 DEF ReadToo
  <2> QED
    BY <1>3, <2>1, <2>2
<1>5. s.findings = UNION { KeptOf(tool, f, s.read[f], s.asked) : f \in DOMAIN s.read }
  BY <1>1, <1>3, <1>4
<1>6. IsFiniteSet(s.findings)
  BY <1>1, <1>3, KeptFacts, FS_Union
<1>7. s.filesWith = { f.file : f \in s.findings }
  BY <1>1, <1>3
<1>8. RunOK(tool, s)
  BY <1>1, <1>2, <1>3, <1>4, <1>5, <1>6, <1>7 DEF RunOK
<1>9. ASSUME RunSees(r), text = tree[file] PROVE RunSees(s)
  BY <1>3, <1>4, <1>9 DEF RunSees
<1> QED
  BY <1>8, <1>9

\* The first of the files left, for there is one.
LEMMA FirstFile ==
  ASSUME NEW todo \in SUBSET Files, todo # {}
  PROVE  (CHOOSE f \in todo : \A g \in todo : f <= g) \in todo
<1>1. todo \in SUBSET Nat
  BY ScanAssumption
<1>2. \E f \in todo : \A g \in todo : f <= g
  <2>1. PICK top \in todo : TRUE
    OBVIOUS
  <2> DEFINE S == { top - f : f \in { g \in todo : g <= top } }
  <2>2. top \in Nat /\ S \in SUBSET (0 .. top) /\ S # {}
    <3>1. top - top \in S
      BY <1>1, <2>1
    <3> QED
      BY <1>1, <2>1, <3>1
  <2>3. PICK m \in S : \A n \in S : n <= m
    <3> HIDE DEF S
    <3> QED
      BY <2>2, HighestExists
  <2>4. PICK f \in todo : f <= top /\ m = top - f
    BY <2>3
  <2>5. ASSUME NEW g \in todo PROVE f <= g
    <3>1. CASE g <= top
      <4>1. top - g <= m
        BY <2>3, <3>1
      <4> QED
        BY <1>1, <2>2, <2>4, <4>1
    <3>2. CASE ~(g <= top)
      BY <1>1, <2>2, <2>4, <3>2
    <3> QED
      BY <3>1, <3>2
  <2> QED
    BY <2>4, <2>5
<1> QED
  BY <1>2

LEMMA CollectFiles ==
  ASSUME NEW asked
  PROVE  /\ Collect(asked) \subseteq Files
         /\ \A f \in Collect(asked) : tree[f] # NoFile
<1>1. \A glob : Selects(glob) \subseteq Files
  BY ScanAssumption DEF Selects
<1> QED
  BY <1>1 DEF Collect

LEMMA InitScan == ScanInit => ScanInv
<1> SUFFICES ASSUME ScanInit PROVE ScanInv
  OBVIOUS
<1>1. tree \in [Files -> Texts \cup {NoFile}] /\ edits = 0
  BY ScanAssumption DEF ScanInit
<1>2. run = [tool \in Tools |-> NoRun] /\ NoRun.phase = "idle"
  BY DEF ScanInit, NoRun
<1> QED
  BY <1>1, <1>2 DEF ScanInv, RunOK, RunSees

\* A step of one tool leaves the other's run and the tree alone.
LEMMA ToolSteps ==
  ASSUME ScanInv, NEW tool \in Tools, NEW s, run' = [run EXCEPT ![tool] = s],
         UNCHANGED <<tree, edits>>, RunOK(tool, s), RunSees(s)
  PROVE  ScanInv'
<1>1. run'[tool] = s /\ \A t \in Tools : t # tool => run'[t] = run[t]
  BY DEF ScanInv
<1>2. run' = [t \in Tools |-> run'[t]]
  BY DEF ScanInv
<1>3. \A asked : Collect(asked)' = Collect(asked)
  BY DEF Collect
<1>4. ASSUME NEW t \in Tools PROVE RunOK(t, run'[t])
  BY <1>1 DEF ScanInv
<1>5. ASSUME NEW t \in Tools PROVE RunSees(run[t])'
  <2>1. RunSees(run'[t])
    BY <1>1 DEF ScanInv
  <2> QED
    BY <2>1 DEF RunSees, Collect, IsExcluded
<1> QED
  BY <1>2, <1>4, <1>5 DEF ScanInv

LEMMA ReadsKeep ==
  ASSUME ScanInv, NEW tool \in Tools, ScanNext(tool)
  PROVE  ScanInv'
<1> DEFINE r == run[tool]
           file == CHOOSE f \in r.todo : \A g \in r.todo : f <= g
           text == tree[file]
           kept == KeptOf(tool, file, text, r.asked)
           s == [phase |-> "scan", asked |-> r.asked, todo |-> r.todo \ {file},
                 read |-> ReadToo(r.read, file, text), findings |-> r.findings \cup kept,
                 filesWith |-> r.filesWith \cup { f.file : f \in kept },
                 report |-> r.report, exit |-> r.exit]
<1>1. /\ r.phase = "scan" /\ r.todo # {} /\ RunOK(tool, r) /\ RunSees(r)
      /\ ARun(r) /\ r.todo \in SUBSET Files /\ UNCHANGED <<tree, edits>>
  BY DEF ScanNext, ScanInv, RunOK
<1>2. file \in r.todo
  BY <1>1, FirstFile
<1>3. text \in Texts \cup {NoFile}
  BY <1>1, <1>2 DEF ScanInv
<1>4. run' = [run EXCEPT ![tool] = s]
  <2>1. kept = { f \in IF tree[file] = NoFile THEN {} ELSE Scan(tool, file, tree[file]) :
                   IsReported(f, r.asked) }
    BY DEF KeptOf
  <2>2. run' = [run EXCEPT
                  ![tool].todo = @ \ {file},
                  ![tool].read = ReadToo(@, file, tree[file]),
                  ![tool].findings = @ \cup kept,
                  ![tool].filesWith = @ \cup { f.file : f \in kept }]
    BY <2>1 DEF ScanNext
  <2> HIDE DEF kept, file
  <2>3. run' = [run EXCEPT ![tool] =
                  [r EXCEPT !.todo = @ \ {file}, !.read = ReadToo(@, file, tree[file]),
                            !.findings = @ \cup kept,
                            !.filesWith = @ \cup { f.file : f \in kept }]]
    <3>1. PICK names : names = { f.file : f \in kept }
      OBVIOUS
    <3> QED
      BY <2>2, <3>1 DEF ScanInv
  <2>4. [r EXCEPT !.todo = @ \ {file}, !.read = ReadToo(@, file, tree[file]),
                  !.findings = @ \cup kept,
                  !.filesWith = @ \cup { f.file : f \in kept }] = s
    <3>1. PICK a, t, rd, fi, fw, re, ex :
            r = RunRecord("scan", a, t, rd, fi, fw, re, ex)
      BY <1>1 DEF ARun
    <3>2. PICK t2, rd2, fi2, fw2 :
            /\ t2 = r.todo \ {file} /\ rd2 = ReadToo(r.read, file, tree[file])
            /\ fi2 = r.findings \cup kept
            /\ fw2 = r.filesWith \cup { f.file : f \in kept }
      OBVIOUS
    <3>3. [r EXCEPT !.todo = t2, !.read = rd2, !.findings = fi2, !.filesWith = fw2]
            = RunRecord("scan", a, t2, rd2, fi2, fw2, re, ex)
      <4> HIDE DEF r
      <4>1. PICK r1 : r1 = [r EXCEPT !.todo = t2]
        OBVIOUS
      <4>2. PICK r2 : r2 = [r1 EXCEPT !.read = rd2]
        OBVIOUS
      <4>3. PICK r3 : r3 = [r2 EXCEPT !.findings = fi2]
        OBVIOUS
      <4>4. PICK r4 : r4 = [r3 EXCEPT !.filesWith = fw2]
        OBVIOUS
      <4>5. r1 = RunRecord("scan", a, t2, rd, fi, fw, re, ex)
        BY <3>1, <4>1 DEF RunRecord
      <4>6. r2 = RunRecord("scan", a, t2, rd2, fi, fw, re, ex)
        BY <4>2, <4>5 DEF RunRecord
      <4>7. r3 = RunRecord("scan", a, t2, rd2, fi2, fw, re, ex)
        BY <4>3, <4>6 DEF RunRecord
      <4>8. r4 = RunRecord("scan", a, t2, rd2, fi2, fw2, re, ex)
        BY <4>4, <4>7 DEF RunRecord
      <4> QED
        BY <4>1, <4>2, <4>3, <4>4, <4>8
    <3>4. r.phase = "scan" /\ r.asked = a /\ r.report = re /\ r.exit = ex
      BY <3>1 DEF RunRecord
    <3> HIDE DEF r
    <3> QED
      BY <3>2, <3>3, <3>4 DEF RunRecord
  <2> QED
    BY <2>3, <2>4
<1>5. RunOK(tool, s) /\ RunSees(s)
  <2> HIDE DEF file
  <2> QED
    BY <1>1, <1>2, <1>3, RunReads
<1> HIDE DEF s
<1> QED
  BY <1>1, <1>4, <1>5, ToolSteps

LEMMA BeginKeeps ==
  ASSUME ScanInv, NEW tool \in Tools, NEW asked \in Options,
         BeginRefused(tool, asked) \/ Begin(tool, asked)
  PROVE  ScanInv'
<1>1. CASE BeginRefused(tool, asked)
  <2>1. PICK code : run' = [run EXCEPT ![tool] = NewRun("refused", asked, {}, code)]
    BY <1>1 DEF BeginRefused
  <2>2. RunOK(tool, NewRun("refused", asked, {}, code))
        /\ RunSees(NewRun("refused", asked, {}, code))
    BY DEF NewRun, RunOK, RunSees
  <2>3. UNCHANGED <<tree, edits>>
    BY <1>1 DEF BeginRefused
  <2> QED
    BY <2>1, <2>2, <2>3, ToolSteps
<1>2. CASE Begin(tool, asked)
  <2> DEFINE s == NewRun("scan", asked, Collect(asked), 0)
  <2>1. run' = [run EXCEPT ![tool] = s] /\ UNCHANGED <<tree, edits>>
    BY <1>2 DEF Begin
  <2>2. /\ s.phase = "scan" /\ s.asked = asked /\ s.todo = Collect(asked) /\ s.read = <<>>
        /\ s.findings = {} /\ s.filesWith = {} /\ ARun(s)
    BY DEF NewRun, ARun, RunRecord
  <2>3. DOMAIN s.read = {} /\ s.read \in [DOMAIN s.read -> Texts \cup {NoFile}]
    <3>1. DOMAIN <<>> = {} /\ <<>> \in [{} -> Texts \cup {NoFile}]
      OBVIOUS
    <3> QED
      BY <2>2, <3>1
  <2>4. RunOK(tool, s)
    <3>1. s.findings = UNION { KeptOf(tool, f, s.read[f], s.asked) : f \in DOMAIN s.read }
      BY <2>2, <2>3
    <3>2. s.filesWith = { f.file : f \in s.findings } /\ IsFiniteSet(s.findings)
      BY <2>2, FS_EmptySet
    <3>3. s.todo \subseteq Files /\ s.todo \cap DOMAIN s.read = {}
      BY <2>2, <2>3, CollectFiles
    <3> HIDE DEF s
    <3> QED
      BY <2>2, <2>3, <3>1, <3>2, <3>3 DEF RunOK
  <2>5. RunSees(s)
    BY <2>2, <2>3 DEF RunSees
  <2> HIDE DEF s
  <2> QED
    BY <2>1, <2>4, <2>5, ToolSteps
<1> QED
  BY <1>1, <1>2

LEMMA FinishKeeps ==
  ASSUME ScanInv, NEW tool \in Tools, Finish(tool)
  PROVE  ScanInv'
<1> DEFINE r == run[tool]
           s == [r EXCEPT !.phase = "done", !.report = Report(r.asked.format, r.findings),
                          !.exit = IF r.asked.fail /\ r.findings # {} THEN 1 ELSE 0]
<1>1. /\ r.phase = "scan" /\ r.todo = {} /\ RunOK(tool, r) /\ RunSees(r)
      /\ ARun(r) /\ UNCHANGED <<tree, edits>>
  BY DEF Finish, ScanInv, RunOK
<1>2. run' = [run EXCEPT ![tool] = s]
  BY <1>1 DEF Finish, ScanInv
<1>3. /\ s.phase = "done" /\ s.asked = r.asked /\ s.todo = {} /\ s.read = r.read
      /\ s.findings = r.findings /\ s.filesWith = r.filesWith
      /\ s.report = Report(r.asked.format, r.findings)
      /\ s.exit = IF r.asked.fail /\ r.findings # {} THEN 1 ELSE 0
      /\ ARun(s)
  <2>1. PICK p, a, t, rd, fi, fw, re, ex :
          r = RunRecord(p, a, t, rd, fi, fw, re, ex)
    BY <1>1 DEF ARun
  <2>2. PICK report, exit : /\ report = Report(r.asked.format, r.findings)
                            /\ exit = IF r.asked.fail /\ r.findings # {} THEN 1 ELSE 0
    OBVIOUS
  <2>3. s = RunRecord("done", a, t, rd, fi, fw, report, exit)
    <3>1. s = [r EXCEPT !.phase = "done", !.report = report, !.exit = exit]
      <4> HIDE DEF r
      <4> QED
        BY <2>2
    <3> HIDE DEF s, r
    <3>2. PICK r1 : r1 = [r EXCEPT !.phase = "done"]
      OBVIOUS
    <3>3. PICK r2 : r2 = [r1 EXCEPT !.report = report]
      OBVIOUS
    <3>4. PICK r3 : r3 = [r2 EXCEPT !.exit = exit]
      OBVIOUS
    <3>5. r1 = RunRecord("done", a, t, rd, fi, fw, re, ex)
      BY <2>1, <3>2 DEF RunRecord
    <3>6. r2 = RunRecord("done", a, t, rd, fi, fw, report, ex)
      BY <3>3, <3>5 DEF RunRecord
    <3>7. r3 = RunRecord("done", a, t, rd, fi, fw, report, exit)
      BY <3>4, <3>6 DEF RunRecord
    <3> QED
      BY <3>1, <3>2, <3>3, <3>4, <3>7
  <2> HIDE DEF s
  <2> QED
    BY <1>1, <2>1, <2>2, <2>3 DEF ARun, RunRecord
<1> HIDE DEF s
<1>4. RunOK(tool, s)
  BY <1>1, <1>3 DEF RunOK
<1>5. RunSees(s)
  BY <1>1, <1>3 DEF RunSees
<1> QED
  BY <1>1, <1>2, <1>4, <1>5, ToolSteps

LEMMA StepScan == ScanInv /\ [ScanNextStep]_scanVars => ScanInv'
<1> SUFFICES ASSUME ScanInv, [ScanNextStep]_scanVars PROVE ScanInv'
  OBVIOUS
<1>1. ASSUME NEW tool \in Tools, ScanStep(tool) PROVE ScanInv'
  BY <1>1, BeginKeeps, ReadsKeep, FinishKeeps DEF ScanStep
<1>2. ASSUME NEW file \in Files, NEW text \in Texts \cup {NoFile}, Edit(file, text)
      PROVE  ScanInv'
  <2>1. edits' \in Nat /\ edits' # 0 /\ UNCHANGED run
    BY <1>2 DEF Edit, ScanInv
  <2>2. tree' \in [Files -> Texts \cup {NoFile}]
    BY <1>2 DEF Edit, ScanInv
  <2>3. \A tool \in Tools : RunSees(run[tool])'
    BY <2>1 DEF RunSees
  <2>4. \A tool \in Tools : RunOK(tool, run[tool])'
    BY <2>1 DEF ScanInv, RunOK
  <2> QED
    BY <2>1, <2>2, <2>3, <2>4 DEF ScanInv
<1>3. CASE UNCHANGED scanVars
  BY <1>3 DEF scanVars, ScanInv, RunOK, RunSees, Collect, IsExcluded
<1> QED
  BY <1>1, <1>2, <1>3 DEF ScanNextStep

-----------------------------------------------------------------------------
(* What a completed run tells *)

LEMMA CompletedRun ==
  ASSUME ScanInv, NEW tool \in Tools, Completed(tool), NEW r, r = run[tool]
  PROVE  /\ r.todo = {} /\ r.asked \in Options /\ r.asked \in Asked
         /\ r.report = Report(r.asked.format, r.findings)
         /\ r.exit = IF r.asked.fail /\ r.findings # {} THEN 1 ELSE 0
         /\ r.read \in [DOMAIN r.read -> Texts \cup {NoFile}]
         /\ IsFiniteSet(r.findings)
         /\ r.filesWith = { f.file : f \in r.findings }
         /\ \A f : f \in r.findings <=>
               \E file \in DOMAIN r.read : f \in KeptOf(tool, file, r.read[file], r.asked)
         /\ \A f \in r.findings : f.rule \in RuleNames /\ f.file \in DOMAIN r.read
<1>1. RunOK(tool, r) /\ r.phase = "done"
  BY DEF ScanInv, Completed
<1>2. /\ r.todo = {} /\ r.asked \in Options
      /\ r.report = Report(r.asked.format, r.findings)
      /\ r.exit = IF r.asked.fail /\ r.findings # {} THEN 1 ELSE 0
      /\ r.read \in [DOMAIN r.read -> Texts \cup {NoFile}]
      /\ IsFiniteSet(r.findings)
      /\ r.filesWith = { f.file : f \in r.findings }
      /\ r.findings = UNION { KeptOf(tool, f, r.read[f], r.asked) : f \in DOMAIN r.read }
  BY <1>1 DEF RunOK
<1>3. r.asked \in Asked
  BY <1>2, ScanAssumption
<1>4. \A f : f \in r.findings <=>
         \E file \in DOMAIN r.read : f \in KeptOf(tool, file, r.read[file], r.asked)
  BY <1>2
<1>5. ASSUME NEW f \in r.findings PROVE f.rule \in RuleNames /\ f.file \in DOMAIN r.read
  <2>1. PICK file \in DOMAIN r.read : f \in KeptOf(tool, file, r.read[file], r.asked)
    BY <1>4
  <2>2. r.read[file] \in Texts \cup {NoFile}
    BY <1>2, <2>1
  <2> QED
    BY <2>1, <2>2, KeptFacts
<1> QED
  BY <1>2, <1>3, <1>4, <1>5

LEMMA ReportedBelow ==
  ASSUME NEW f, f.rule \in RuleNames, NEW asked \in Asked, NEW lower \in Asked,
         lower.severity <= asked.severity, IsReported(f, asked)
  PROVE  IsReported(f, lower)
<1>1. /\ SeverityOf[f.rule] \in 2 .. 4 /\ asked.severity \in 0 .. 4 /\ lower.severity \in 0 .. 4
      /\ SeverityOf[f.rule] >= asked.severity
  BY RulesRanked DEF Asked, IsReported
<1> QED
  BY <1>1 DEF IsReported

LEMMA WithinHolds ==
  ASSUME ScanInv
  PROVE  ScriptWithinPackage
<1> SUFFICES ASSUME SameJob, NEW f \in run["action"].findings, f.pattern # "yaml.load SafeLoader"
             PROVE  f \in run["amg"].findings
  BY DEF ScriptWithinPackage
<1> DEFINE script == run["action"]
           package == run["amg"]
<1>1. /\ "amg" \in Tools /\ "action" \in Tools /\ Completed("amg") /\ Completed("action")
      /\ package.read = script.read /\ package.asked.severity <= script.asked.severity
  BY DEF SameJob, Tools
<1>2. /\ script.asked \in Asked /\ script.read \in [DOMAIN script.read -> Texts \cup {NoFile}]
      /\ \A g : g \in script.findings <=>
            \E file \in DOMAIN script.read : g \in KeptOf("action", file, script.read[file], script.asked)
      /\ f.rule \in RuleNames
  BY <1>1, CompletedRun
<1>3. /\ package.asked \in Asked
      /\ \A g : g \in package.findings <=>
            \E file \in DOMAIN package.read : g \in KeptOf("amg", file, package.read[file], package.asked)
  BY <1>1, CompletedRun
<1> HIDE DEF script, package
<1>4. PICK file \in DOMAIN script.read : f \in KeptOf("action", file, script.read[file], script.asked)
  BY <1>2 DEF script
<1>5. PICK text : text = script.read[file]
  OBVIOUS
<1>6. text # NoFile /\ f \in Scan("action", file, text) /\ IsReported(f, script.asked)
  BY <1>4, <1>5 DEF KeptOf
<1>7. f \in Scan("amg", file, text)
  BY <1>6, ScriptFindsLess
<1>8. IsReported(f, package.asked)
  BY <1>1, <1>2, <1>3, <1>6, ReportedBelow DEF script, package
<1>9. f \in KeptOf("amg", file, package.read[file], package.asked)
  BY <1>1, <1>5, <1>6, <1>7, <1>8 DEF KeptOf, script, package
<1> QED
  BY <1>1, <1>3, <1>4, <1>9 DEF package, script

\* The counts of the four severities are those of all findings.
LEMMA CountsAddUp ==
  ASSUME NEW S, IsFiniteSet(S), \A f \in S : f.rule \in RuleNames
  PROVE  Cardinality(S) = Cardinality(OfSeverity(S, 4)) + Cardinality(OfSeverity(S, 3))
                           + Cardinality(OfSeverity(S, 2)) + Cardinality(OfSeverity(S, 1))
<1>1. PICK a : a = OfSeverity(S, 4)
  OBVIOUS
<1>2. PICK b : b = OfSeverity(S, 3)
  OBVIOUS
<1>3. PICK c : c = OfSeverity(S, 2)
  OBVIOUS
<1>4. OfSeverity(S, 1) = {}
  BY RulesRanked DEF OfSeverity
<1>5. S = (a \cup b) \cup c /\ a \cap b = {} /\ (a \cup b) \cap c = {}
  BY <1>1, <1>2, <1>3, RulesRanked DEF OfSeverity
<1>6. IsFiniteSet(a) /\ IsFiniteSet(b) /\ IsFiniteSet(c)
  <2>1. a \in SUBSET S /\ b \in SUBSET S /\ c \in SUBSET S
    BY <1>1, <1>2, <1>3 DEF OfSeverity
  <2> QED
    BY <2>1, FS_Subset
<1>7. Cardinality(a) \in Nat /\ Cardinality(b) \in Nat /\ Cardinality(c) \in Nat
  BY <1>6, FS_CardinalityType
<1>8. Cardinality({}) = 0
  BY FS_EmptySet
<1>9. PICK na, nb, nc \in Nat : na = Cardinality(a) /\ nb = Cardinality(b) /\ nc = Cardinality(c)
  BY <1>7
<1>10. IsFiniteSet(a \cup b) /\ Cardinality(a \cup b) = na + nb
  <2>1. /\ IsFiniteSet(a \cup b)
        /\ Cardinality(a \cup b) = Cardinality(a) + Cardinality(b) - Cardinality(a \cap b)
    BY <1>6, FS_Union
  <2>2. Cardinality(a \cap b) = 0
    BY <1>5, <1>8
  <2>3. Cardinality(a \cup b) = na + nb - 0
    BY <1>9, <2>1, <2>2
  <2> QED
    BY <2>1, <2>3
<1>11. PICK d : d = a \cup b
  OBVIOUS
<1>12. Cardinality(d \cup c) = (na + nb) + nc
  <2>1. Cardinality(d \cup c) = Cardinality(d) + Cardinality(c) - Cardinality(d \cap c)
    BY <1>6, <1>10, <1>11, FS_Union
  <2>2. Cardinality(d \cap c) = 0
    BY <1>5, <1>8, <1>11
  <2>3. Cardinality(d \cup c) = (na + nb) + nc - 0
    BY <1>9, <1>10, <1>11, <2>1, <2>2
  <2> QED
    BY <2>3
<1>13. Cardinality(S) = na + nb + nc + 0
  BY <1>5, <1>11, <1>12
<1> QED
  BY <1>1, <1>2, <1>3, <1>4, <1>8, <1>9, <1>13

LEMMA AddsUpHolds ==
  ASSUME ScanInv
  PROVE  ReportAddsUp
<1> SUFFICES ASSUME NEW tool \in Tools, Completed(tool), NEW r, r = run[tool]
             PROVE  /\ Accounted(r) = r.findings
                    /\ r.asked.format = "json" =>
                          /\ r.report.total = Cardinality(r.findings)
                          /\ r.report.total = r.report.critical + r.report.high
                                               + r.report.medium + r.report.low
                    /\ r.asked.format = "sarif" =>
                          /\ \A res \in r.report.results : res.finding.rule \in r.report.rules
                          /\ \A rule \in r.report.rules : \E f \in r.findings : f.rule = rule
                    /\ r.filesWith = { f.file : f \in r.findings }
                    /\ r.filesWith \subseteq DOMAIN r.read
  BY DEF ReportAddsUp
<1>1. /\ r.asked \in Asked /\ r.report = Report(r.asked.format, r.findings)
      /\ IsFiniteSet(r.findings) /\ r.filesWith = { f.file : f \in r.findings }
      /\ \A f \in r.findings : f.rule \in RuleNames /\ f.file \in DOMAIN r.read
  BY CompletedRun
<1>2. r.filesWith \subseteq DOMAIN r.read
  BY <1>1
<1>3. r.asked.format \in {"text", "json", "sarif"}
  BY <1>1 DEF Asked
<1>4. CASE r.asked.format = "text"
  <2>1. r.report = TextReport(r.findings)
    BY <1>1, <1>4 DEF Report
  <2>2. Accounted(r) = UNION { r.report[s] : s \in DOMAIN r.report }
    BY <1>4 DEF Accounted
  <2>3. DOMAIN r.report = { SeverityOf[f.rule] : f \in r.findings }
    BY <2>1 DEF TextReport
  <2>4. \A s \in DOMAIN r.report : r.report[s] = { f \in r.findings : SeverityOf[f.rule] = s }
    BY <2>1 DEF TextReport, OfSeverity
  <2>5. \A f \in r.findings : f \in r.report[SeverityOf[f.rule]]
    BY <2>3, <2>4
  <2>6. Accounted(r) = r.findings
    BY <2>2, <2>3, <2>4, <2>5
  <2> QED
    BY <1>1, <1>2, <1>4, <2>6
<1>5. CASE r.asked.format = "json"
  <2>1. r.report = JsonReport(r.findings)
    BY <1>1, <1>5 DEF Report
  <2>2. Accounted(r) = r.findings
    BY <1>5 DEF Accounted
  <2>3. /\ r.report.total = Cardinality(r.findings)
        /\ r.report.critical = Cardinality(OfSeverity(r.findings, 4))
        /\ r.report.high = Cardinality(OfSeverity(r.findings, 3))
        /\ r.report.medium = Cardinality(OfSeverity(r.findings, 2))
        /\ r.report.low = Cardinality(OfSeverity(r.findings, 1))
    BY <2>1 DEF JsonReport
  <2>4. r.report.total = r.report.critical + r.report.high + r.report.medium + r.report.low
    BY <1>1, <2>3, CountsAddUp
  <2> QED
    BY <1>1, <1>2, <1>5, <2>2, <2>3, <2>4
<1>6. CASE r.asked.format = "sarif"
  <2>1. r.report = SarifReport(r.findings)
    BY <1>1, <1>6 DEF Report
  <2>2. /\ r.report.rules = { f.rule : f \in r.findings }
        /\ r.report.results =
              { [finding |-> f, level |-> Level(SeverityOf[f.rule])] : f \in r.findings }
    BY <2>1 DEF SarifReport
  <2>3. Accounted(r) = { res.finding : res \in r.report.results }
    BY <1>6 DEF Accounted
  <2>4. Accounted(r) = r.findings
    <3> DEFINE told(f) == [finding |-> f, level |-> Level(SeverityOf[f.rule])]
    <3>1. \A f : told(f).finding = f
      OBVIOUS
    <3>2. r.report.results = { told(f) : f \in r.findings }
      BY <2>2
    <3> HIDE DEF told
    <3> QED
      BY <2>3, <3>1, <3>2
  <2>5. \A res \in r.report.results : res.finding.rule \in r.report.rules
    BY <2>2
  <2> QED
    BY <1>1, <1>2, <1>6, <2>2, <2>4, <2>5
<1> QED
  BY <1>3, <1>4, <1>5, <1>6

LEMMA ExitTells ==
  ASSUME ScanInv
  PROVE  ExitTellsTheTree
<1> SUFFICES ASSUME NEW tool \in Tools, Completed(tool), edits = 0, NEW r, r = run[tool],
                    r.asked.fail
             PROVE  r.exit = 1 <=> \E f \in Collect(r.asked) :
                        \E finding \in Scan(tool, f, tree[f]) :
                            SeverityOf[finding.rule] >= r.asked.severity
  BY DEF ExitTellsTheTree
<1>1. /\ r.todo = {} /\ r.exit = IF r.asked.fail /\ r.findings # {} THEN 1 ELSE 0
      /\ \A f : f \in r.findings <=>
            \E file \in DOMAIN r.read : f \in KeptOf(tool, file, r.read[file], r.asked)
  BY CompletedRun
<1>2. DOMAIN r.read = Collect(r.asked) /\ \A f \in DOMAIN r.read : r.read[f] = tree[f]
  <2>1. RunSees(r) /\ r.phase = "done"
    BY DEF ScanInv, Completed
  <2> QED
    BY <1>1, <2>1 DEF RunSees
<1>3. r.exit = 1 <=> \E file \in Collect(r.asked) : KeptOf(tool, file, tree[file], r.asked) # {}
  BY <1>1, <1>2
<1>4. ASSUME NEW file \in Collect(r.asked)
      PROVE  KeptOf(tool, file, tree[file], r.asked) # {} <=>
               \E finding \in Scan(tool, file, tree[file]) :
                  SeverityOf[finding.rule] >= r.asked.severity
  BY CollectFiles DEF KeptOf, IsReported
<1> QED
  BY <1>3, <1>4

-----------------------------------------------------------------------------
(* The composite action *)

SeverityNames == {"low", "medium", "high"}

LEMMA LevelsRanked ==
  /\ \A name \in SeverityNames : SeverityLevel[name] \in 0 .. 2
  /\ SeverityLevel["low"] = 0 /\ SeverityLevel["medium"] = 1 /\ SeverityLevel["high"] = 2
BY DEF SeverityNames, SeverityLevel

LEMMA QuickSeverities ==
  ASSUME NEW policy
  PROVE  \A r \in QuickResults(policy) : r.severity \in SeverityNames
<1>1. ASSUME NEW file, NEW text, NEW r \in QuickScanOf(file, text, policy)
      PROVE  r.severity \in SeverityNames
  <2>1. \/ r \in HardcodedSecrets(file, text)
        \/ r \in UnprotectedWrites(file, text)
        \/ r \in MissingPolicyFile(file, text)
    BY DEF QuickScanOf
  <2> QED
    BY <2>1 DEF HardcodedSecrets, UnprotectedWrites, MissingPolicyFile, QuickFinding,
       SeverityNames
<1> QED
  BY <1>1 DEF QuickResults

\* The highest level reaches a bound above the lowest when a result does.
LEMMA MaxSeverityReaches ==
  ASSUME NEW results, \A r \in results : r.severity \in SeverityNames, NEW bound \in 0 .. 2
  PROVE  MaxSeverity(results) >= bound <=>
            bound = 0 \/ \E r \in results : SeverityLevel[r.severity] >= bound
<1> DEFINE levels == { SeverityLevel[r.severity] : r \in results } \cup {0}
<1>1. levels \in SUBSET (0 .. 2) /\ levels # {} /\ 2 \in Nat
  BY LevelsRanked
<1>2. PICK m \in levels : \A n \in levels : n <= m
  <2>1. PICK two \in Nat : two = 2
    OBVIOUS
  <2> HIDE DEF levels
  <2> QED
    BY <1>1, <2>1, HighestExists
<1>3. PICK top \in levels : top = MaxSeverity(results) /\ \A n \in levels : n <= top
  BY <1>2 DEF MaxSeverity
<1>4. top \in 0 .. 2 /\ \A n \in levels : n \in 0 .. 2
  BY <1>1, <1>3
<1>5. top >= bound <=> bound = 0 \/ \E n \in levels : n # 0 /\ n >= bound
  <2> HIDE DEF levels
  <2> QED
    BY <1>3, <1>4
<1>6. (\E n \in levels : n # 0 /\ n >= bound) =>
         \E r \in results : SeverityLevel[r.severity] >= bound
  OBVIOUS
<1>7. ASSUME NEW r \in results, SeverityLevel[r.severity] >= bound, bound # 0
      PROVE  \E n \in levels : n # 0 /\ n >= bound
  <2>1. SeverityLevel[r.severity] \in levels /\ SeverityLevel[r.severity] \in 0 .. 2
    BY LevelsRanked
  <2> QED
    BY <1>7, <2>1
<1> QED
  BY <1>3, <1>5, <1>6, <1>7

LEMMA QuickRunFails ==
  ASSUME NEW asked \in QuickOptions, QuickRun(asked)
  PROVE  QuickFailsForCause'
<1> SUFFICES ASSUME ScansTree(asked) PROVE QuickFailsForCause'
  <2>1. CASE ImportFails(asked)
    <3>1. asked.launch = "action" /\ quick'.asked = asked /\ ~quick'.written /\ quick'.exit = 1
      BY <2>1 DEF ImportFails, QuickEnds
    <3> QED
      BY <3>1 DEF QuickFailsForCause
  <2> QED
    BY <2>1 DEF QuickRun
<1> DEFINE results == QuickResults(asked.policy)
           bound == SeverityLevel[asked.failOn]
           crashed == QuickCrashes(asked, results)
<1>1. asked.failOn \in SeverityNames /\ bound \in 0 .. 2 /\ (bound = 0 <=> asked.failOn = "low")
  BY QuickAssumption, LevelsRanked DEF SeverityNames
<1>2. /\ quick'.asked = asked /\ quick'.tree = tree
      /\ quick'.written = (asked.output = "sarif" /\ ~crashed)
      /\ quick'.exit = IF crashed \/ MaxSeverity(results) >= bound THEN 1 ELSE 0
      /\ asked.launch = "module"
  BY DEF ScansTree, QuickEnds
<1>3. MaxSeverity(results) >= bound <=>
         asked.failOn = "low" \/ \E r \in results : SeverityLevel[r.severity] >= bound
  BY <1>1, QuickSeverities, MaxSeverityReaches
<1>4. (\E r \in results : SeverityLevel[r.severity] >= bound) <=>
         \E f \in Files : /\ tree[f] # NoFile
                          /\ \E r \in QuickScanOf(f, tree[f], asked.policy) :
                                SeverityLevel[r.severity] >= bound
  BY DEF QuickResults
<1>5. crashed <=> asked.output = "sarif" /\ ~quick'.written
  BY <1>2 DEF QuickCrashes
<1>6. quick'.exit = 1 <=> crashed \/ MaxSeverity(results) >= bound
  BY <1>2
<1> HIDE DEF results, crashed, bound
<1>7. quick'.exit = 1 <=>
         \/ asked.failOn = "low"
         \/ asked.output = "sarif" /\ ~quick'.written
         \/ \E f \in Files : /\ tree[f] # NoFile
                              /\ \E r \in QuickScanOf(f, tree[f], asked.policy) :
                                    SeverityLevel[r.severity] >= bound
  BY <1>3, <1>4, <1>5, <1>6
<1> QED
  BY <1>2, <1>7 DEF QuickFailsForCause, bound

LEMMA InitQuick == QuickInit => ScanInv /\ QuickFailsForCause
BY InitScan DEF QuickInit, NoRun, QuickFailsForCause

LEMMA StepQuick ==
  ScanInv /\ QuickFailsForCause /\ [QuickNext]_quickVars => ScanInv' /\ QuickFailsForCause'
<1> SUFFICES ASSUME ScanInv, QuickFailsForCause, [QuickNext]_quickVars
             PROVE  ScanInv' /\ QuickFailsForCause'
  OBVIOUS
<1>1. UNCHANGED quick => QuickFailsForCause'
  BY DEF QuickFailsForCause
<1>2. UNCHANGED scanVars => ScanInv'
  BY StepScan
<1>3. CASE ScanNextStep /\ UNCHANGED quick
  BY <1>1, <1>3, StepScan
<1>4. ASSUME NEW asked \in QuickOptions, QuickRun(asked) PROVE ScanInv' /\ QuickFailsForCause'
  BY <1>2, <1>4, QuickRunFails DEF QuickRun
<1>5. CASE UNCHANGED quickVars
  BY <1>1, <1>2, <1>5 DEF quickVars
<1> QED
  BY <1>3, <1>4, <1>5 DEF QuickNext

\* What the stand-alone script finds the package's scanner finds as well, however
\* the tree is edited before, between and during the two runs.
THEOREM ScriptIsWithin == QuickSpec => []ScriptWithinPackage
BY InitQuick, StepQuick, WithinHolds, PTL DEF QuickSpec

\* A report accounts for every finding of its run, in each of the formats.
THEOREM ReportsAddUp == QuickSpec => []ReportAddsUp
BY InitQuick, StepQuick, AddsUpHolds, PTL DEF QuickSpec

\* The exit codes of `amg scan`, of action/scan.py and of scanner/scan.py started
\* as a module tell of the tree; the composite action's exit code is 1 whatever the
\* tree holds.
THEOREM ExitsTell == QuickSpec => []ExitsTellTheTree
BY InitQuick, StepQuick, ExitTells, PTL DEF QuickSpec, ExitsTellTheTree

=============================================================================
