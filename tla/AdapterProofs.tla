---------------------------- MODULE AdapterProofs ---------------------------
(***************************************************************************)
(* What the CrewAI and LlamaIndex adapters keep of their two stores, and   *)
(* what the LangChain history shows, for any keys and messages, whatever   *)
(* the guard answers; and that what the guard holds back reaches none of   *)
(* them.  The guard is known by GuardFacade alone, which GuardProofs shows *)
(* it implements.                                                          *)
(***************************************************************************)
EXTENDS ChatHistory, ChatStore, CrewMemory, FiniteSetTheorems, TLAPS

(* CrewAI: GuardedMemory *)

CrewCall ==
    [step : {"none", "write", "clear", "search"}, names : SUBSET Names,
     note : Notes \cup {NoValue}, results : SUBSET (Notes \cup {NoValue})]

CrewTypeOK ==
    /\ store \in [Keys -> Entry]
    /\ memory \in [Names -> Notes \cup {NoValue}]
    /\ owned \in SUBSET Names
    /\ crewCall \in CrewCall

\* While a write is under way the guard already holds the note, under the name
\* of the call; and a search only screens what there is.
CallInv ==
    /\ crewCall.step = "write" =>
          /\ crewCall.note \in Notes
          /\ \A n \in crewCall.names :
                store[AgentKey[n]] \in {crewCall.note, Redacted[crewCall.note]}
    /\ crewCall.step = "search" =>
          \A n \in crewCall.names : memory[n] # NoValue

CrewInv == CrewTypeOK /\ CallInv /\ MirrorAgrees

-----------------------------------------------------------------------------

\* A write changes its own key alone, to the value or its redaction.
LEMMA WriteKeepsRest ==
  ASSUME store \in [Keys -> Entry], NEW k \in Keys, NEW v \in Values, NEW out,
         Write(k, v, out)
  PROVE  /\ store' \in [Keys -> Entry]
         /\ \A j \in Keys : j # k => store'[j] = store[j]
         /\ out \in {"allow", "redact"} => store'[k] \in {v, Redacted[v]}
         /\ out \notin {"allow", "redact"} => UNCHANGED store
BY CrewKeysAssumption DEF Write, Written, Entry

\* A delete removes its own key, or nothing when the guard protects it.
LEMMA DeleteKeepsRest ==
  ASSUME store \in [Keys -> Entry], NEW k \in Keys, Delete(k)
  PROVE  /\ store' \in [Keys -> Entry]
         /\ \A j \in Keys : j # k => store'[j] = store[j]
         /\ k \in Undeletable => UNCHANGED store
BY DEF Delete, Entry

\* A key no name of the agent maps to may be written at any time.
LEMMA AsideKeepsMirror ==
  ASSUME CrewInv, store' \in [Keys -> Entry], UNCHANGED <<memory, owned>>,
         \A n \in Names : store'[AgentKey[n]] = store[AgentKey[n]],
         crewCall' \in CrewCall, crewCall.step # "write", crewCall'.step # "write",
         crewCall'.step = "search" => \A n \in crewCall'.names : memory[n] # NoValue
  PROVE  CrewInv'
BY DEF CrewInv, CrewTypeOK, CallInv, MirrorAgrees

\* Forgetting a name forgets it in both memories, or in neither.
LEMMA ForgetKeepsMirror ==
  ASSUME CrewInv, crewCall.step \in {"none", "clear"}, NEW m \in Names, Forget(m),
         crewCall' \in CrewCall, crewCall'.step = crewCall.step
  PROVE  CrewInv'
<1>1. /\ AgentKey[m] \in Keys /\ \A n \in Names : AgentKey[n] \in Keys
      /\ \A n \in Names : n # m => AgentKey[n] # AgentKey[m]
  BY CrewKeysAssumption
<1>2. /\ store' \in [Keys -> Entry]
      /\ \A n \in Names : n # m => store'[AgentKey[n]] = store[AgentKey[n]]
      /\ AgentKey[m] \in Undeletable => UNCHANGED store
  BY <1>1, DeleteKeepsRest DEF Forget, CrewInv, CrewTypeOK
<1>3. CASE AgentKey[m] \in Undeletable
  BY <1>2, <1>3 DEF Forget, CrewInv, CrewTypeOK, CallInv, MirrorAgrees
<1>4. CASE AgentKey[m] \notin Undeletable
  <2>1. owned' = owned \ {m} /\ memory' = [memory EXCEPT ![m] = NoValue]
    BY <1>4 DEF Forget
  <2>2. CrewTypeOK'
    BY <1>2, <2>1 DEF CrewInv, CrewTypeOK
  <2>3. MirrorAgrees'
    BY <1>2, <2>1 DEF CrewInv, CrewTypeOK, MirrorAgrees
  <2> QED
    BY <2>2, <2>3 DEF CrewInv, CallInv
<1> QED
  BY <1>3, <1>4

LEMMA InitCrew == CrewInit => CrewInv
<1> SUFFICES ASSUME CrewInit PROVE CrewInv
  OBVIOUS
<1>1. crewCall = NoCrewCall /\ NoCrewCall \in CrewCall /\ NoCrewCall.step = "none"
  BY DEF CrewInit, NoCrewCall, CrewCall
<1>2. CrewTypeOK
  BY <1>1, CrewKeysAssumption DEF CrewInit, FreshGuard, CrewTypeOK, Entry
<1> QED
  BY <1>1, <1>2 DEF CrewInit, CrewInv, CallInv, MirrorAgrees

\* The guard takes the note first.
LEMMA WriteNoteKeepsMirror ==
  ASSUME CrewInv, NEW m \in Names, NEW note \in Notes, WriteNote(m, note)
  PROVE  CrewInv'
<1>1. PICK out : /\ Write(AgentKey[m], note, out)
                 /\ IF out \in {"allow", "redact"}
                    THEN /\ owned' = owned \cup {m}
                         /\ crewCall' = [NoCrewCall EXCEPT !.step = "write", !.names = {m},
                                                           !.note = note]
                    ELSE UNCHANGED <<owned, crewCall>>
  BY DEF WriteNote
<1>2. AgentKey[m] \in Keys /\ note \in Values
  BY CrewKeysAssumption
<1>3. /\ store' \in [Keys -> Entry]
      /\ \A j \in Keys : j # AgentKey[m] => store'[j] = store[j]
      /\ out \in {"allow", "redact"} => store'[AgentKey[m]] \in {note, Redacted[note]}
      /\ out \notin {"allow", "redact"} => UNCHANGED store
  BY <1>1, <1>2, WriteKeepsRest DEF CrewInv, CrewTypeOK
<1>4. \A n \in Names : n # m => store'[AgentKey[n]] = store[AgentKey[n]]
  BY <1>3, CrewKeysAssumption
<1>5. UNCHANGED memory /\ crewCall.step = "none"
  BY DEF WriteNote
<1>6. CASE out \in {"allow", "redact"}
  <2>1. /\ crewCall' \in CrewCall /\ crewCall'.step = "write"
        /\ crewCall'.names = {m} /\ crewCall'.note = note
    <3>1. crewCall' = [step |-> "write", names |-> {m}, note |-> note, results |-> {}]
      BY <1>1, <1>6 DEF NoCrewCall
    <3> QED
      BY <3>1 DEF CrewCall
  <2>2. CrewTypeOK'
    BY <1>1, <1>3, <1>5, <1>6, <2>1 DEF CrewInv, CrewTypeOK
  <2>3. CallInv'
    BY <1>3, <1>6, <2>1 DEF CallInv
  <2>4. MirrorAgrees'
    <3> SUFFICES ASSUME NEW n \in owned', n # m
                 PROVE  /\ memory'[n] # NoValue
                        /\ store'[AgentKey[n]] \in {memory'[n], Redacted[memory'[n]]}
      BY <2>1 DEF MirrorAgrees
    <3>1. n \in owned /\ n \in Names
      BY <1>1, <1>6 DEF CrewInv, CrewTypeOK
    <3> QED
      BY <1>4, <1>5, <3>1 DEF CrewInv, MirrorAgrees
  <2> QED
    BY <2>2, <2>3, <2>4 DEF CrewInv
<1>7. CASE out \notin {"allow", "redact"}
  BY <1>1, <1>3, <1>5, <1>7 DEF CrewInv, CrewTypeOK, CallInv, MirrorAgrees
<1> QED
  BY <1>6, <1>7

\* Then the wrapped memory gets it.
LEMMA WriteThroughKeepsMirror ==
  ASSUME CrewInv, WriteThrough
  PROVE  CrewInv'
<1>1. /\ crewCall.step = "write" /\ UNCHANGED <<store, owned>>
      /\ memory' = [n \in Names |-> IF n \in crewCall.names THEN crewCall.note ELSE memory[n]]
      /\ crewCall.note \in Notes
  BY DEF WriteThrough, CrewInv, CallInv
<1>2. crewCall' = NoCrewCall /\ NoCrewCall \in CrewCall /\ NoCrewCall.step = "none"
  BY DEF WriteThrough, NoCrewCall, CrewCall
<1>3. CrewTypeOK'
  BY <1>1, <1>2 DEF CrewInv, CrewTypeOK
<1>4. MirrorAgrees'
  <2> SUFFICES ASSUME NEW n \in owned
               PROVE  /\ memory'[n] # NoValue
                      /\ store[AgentKey[n]] \in {memory'[n], Redacted[memory'[n]]}
    BY <1>1 DEF MirrorAgrees
  <2>1. n \in Names
    BY DEF CrewInv, CrewTypeOK
  <2>2. CASE n \in crewCall.names
    BY <1>1, <2>1, <2>2, CrewKeysAssumption DEF CrewInv, CallInv
  <2>3. CASE n \notin crewCall.names
    BY <1>1, <2>1, <2>3 DEF CrewInv, MirrorAgrees
  <2> QED
    BY <2>2, <2>3
<1> QED
  BY <1>2, <1>3, <1>4 DEF CrewInv, CallInv

LEMMA StepCrew == CrewInv /\ [CrewNext]_crewVars => CrewInv'
<1> SUFFICES ASSUME CrewInv, [CrewNext]_crewVars PROVE CrewInv'
  OBVIOUS
<1>1. ASSUME NEW n \in Names, NEW note \in Notes, WriteNote(n, note) PROVE CrewInv'
  BY <1>1, WriteNoteKeepsMirror
<1>2. CASE WriteThrough
  BY <1>2, WriteThroughKeepsMirror
<1>3. ASSUME UNCHANGED <<store, memory, owned>>, crewCall.step # "write",
             crewCall' \in CrewCall, crewCall'.step \notin {"write", "search"}
      PROVE  CrewInv'
  BY <1>3, AsideKeepsMirror DEF CrewInv, CrewTypeOK
<1>4. NoCrewCall \in CrewCall /\ NoCrewCall.step = "none"
  BY DEF NoCrewCall, CrewCall
<1>5. ASSUME NEW k \in Keys, ReadNote(k) PROVE CrewInv'
  <2>1. UNCHANGED store
    BY <1>5 DEF ReadNote, Read, ReadDefault, ReadReturned, ReadRefused
  <2> QED
    BY <1>3, <1>5, <2>1 DEF ReadNote, CrewInv, CrewTypeOK
<1>6. ASSUME NEW n \in Names, DeleteNote(n) PROVE CrewInv'
  BY <1>6, ForgetKeepsMirror DEF DeleteNote, CrewInv, CrewTypeOK
<1>7. ASSUME NEW n \in Names, ClearNote(n) PROVE CrewInv'
  <2>1. crewCall' \in CrewCall /\ crewCall'.step = crewCall.step
    BY <1>7 DEF ClearNote, CrewInv, CrewTypeOK, CrewCall
  <2> QED
    BY <1>7, <2>1, ForgetKeepsMirror DEF ClearNote
<1>8. ASSUME NEW n \in Names, SearchScreens(n) PROVE CrewInv'
  <2>1. PICK out :
          /\ Write(SearchKey, memory[n], out)
          /\ crewCall' = [crewCall EXCEPT !.names = @ \ {n},
                !.results = IF out = "block" THEN @ ELSE @ \cup {memory[n]}]
    BY <1>8 DEF SearchScreens
  <2>2. /\ crewCall.step = "search" /\ n \in crewCall.names
        /\ UNCHANGED <<memory, owned>>
    BY <1>8 DEF SearchScreens
  <2>3. memory[n] \in Values /\ SearchKey \in Keys
    BY <2>2, CrewKeysAssumption DEF CrewInv, CrewTypeOK, CallInv
  <2>4. /\ store' \in [Keys -> Entry]
        /\ \A m \in Names : store'[AgentKey[m]] = store[AgentKey[m]]
    BY <2>1, <2>3, WriteKeepsRest, CrewKeysAssumption DEF CrewInv, CrewTypeOK
  <2>5. /\ crewCall' \in CrewCall /\ crewCall'.step = "search"
        /\ crewCall'.names \subseteq crewCall.names
    BY <2>1, <2>2 DEF CrewInv, CrewTypeOK, CrewCall
  <2>6. \A m \in crewCall'.names : memory[m] # NoValue
    BY <2>2, <2>5 DEF CrewInv, CallInv
  <2> QED
    BY <2>2, <2>4, <2>5, <2>6, AsideKeepsMirror
<1>9. CASE ClearNotes
  <2>1. crewCall' \in CrewCall /\ crewCall'.step = "clear"
    BY <1>9 DEF ClearNotes, NoCrewCall, CrewCall, CrewInv, CrewTypeOK
  <2> QED
    BY <1>3, <1>9, <2>1 DEF ClearNotes
<1>10. CASE ClearReturns \/ SearchReturns
  BY <1>3, <1>4, <1>10 DEF ClearReturns, SearchReturns
<1>11. ASSUME NEW found \in SUBSET { n \in Names : memory[n] # NoValue }, Search(found)
       PROVE  CrewInv'
  <2>1. crewCall' \in CrewCall /\ crewCall'.step = "search" /\ crewCall'.names = found
    BY <1>11 DEF Search, NoCrewCall, CrewCall
  <2>2. UNCHANGED <<store, memory, owned>> /\ crewCall.step = "none"
    BY <1>11 DEF Search
  <2>3. store' \in [Keys -> Entry]
    BY <2>2 DEF CrewInv, CrewTypeOK
  <2> QED
    BY <2>1, <2>2, <2>3, AsideKeepsMirror
<1>12. ASSUME NEW k \in CallbackKeys, NEW text \in Notes, Callback(k, text) PROVE CrewInv'
  <2>1. PICK out : Write(k, text, out)
    BY <1>12 DEF Callback
  <2>2. k \in Keys /\ text \in Values
    BY CrewKeysAssumption
  <2>3. /\ store' \in [Keys -> Entry]
        /\ \A m \in Names : store'[AgentKey[m]] = store[AgentKey[m]]
    BY <2>1, <2>2, WriteKeepsRest, CrewKeysAssumption DEF CrewInv, CrewTypeOK
  <2>4. UNCHANGED <<memory, owned, crewCall>> /\ crewCall.step = "none"
    BY <1>12 DEF Callback
  <2> QED
    BY <2>3, <2>4, AsideKeepsMirror DEF CrewInv, CrewTypeOK
<1>13. CASE UNCHANGED crewVars
  BY <1>13 DEF crewVars, CrewInv, CrewTypeOK, CallInv, MirrorAgrees
<1> QED
  BY <1>1, <1>2, <1>5, <1>6, <1>7, <1>8, <1>9, <1>10, <1>11, <1>12, <1>13 DEF CrewNext

\* Guard and wrapped memory agree about every name the agent owns, whatever the
\* guard refuses, holds back or redacts, between the steps of a write as well.
THEOREM CrewMirrorAgrees == CrewSpec => []MirrorAgrees
<1>1. CrewInv => MirrorAgrees
  BY DEF CrewInv
<1> QED
  BY <1>1, InitCrew, StepCrew, PTL DEF CrewSpec

-----------------------------------------------------------------------------
(* LlamaIndex: GuardedChatStore *)

StoreCall ==
    [step : {"none", "set", "add"}, turns : Seq(Turns), at : Nat \ {0},
     screened : Seq(accepted)]

\* What is about to be stored was let through, and is of the list of the call.
StoreInv ==
    /\ inner \in Seq(accepted)
    /\ storeCall \in StoreCall
    /\ storeCall.screened \in Seq(Range(storeCall.turns))
    /\ storeCall.step = "add" => storeCall.turns # <<>> /\ Head(storeCall.turns) \in accepted

\* The inner list after a call that has ended.
LEMMA StoreEnds ==
  ASSUME NEW list, list \in Seq(accepted), inner' = list, storeCall' = NoStoreCall,
         accepted' = accepted
  PROVE  StoreInv'
BY DEF StoreInv, NoStoreCall, StoreCall

\* A message joins those screened only when the guard lets it through.
LEMMA SetWritesKeeps ==
  ASSUME StoreInv, SetWrites
  PROVE  StoreInv'
<1> DEFINE m == storeCall.turns[storeCall.at]
           k == ItemKey[storeCall.at - 1]
<1>1. PICK out \in WriteAnswers[k][m] :
        /\ Screened(m, out)
        /\ storeCall' =
             CASE Takes(out) -> [storeCall EXCEPT !.at = @ + 1,
                                                  !.screened = Append(@, m)]
               [] ~Takes(out) /\ out = "block" /\ ~DropBlocked -> NoStoreCall
               [] OTHER -> [storeCall EXCEPT !.at = @ + 1]
  BY DEF SetWrites
<1>2. /\ UNCHANGED inner /\ storeCall.step = "set"
      /\ storeCall.at \in DOMAIN storeCall.turns
      /\ storeCall \in StoreCall
  BY DEF SetWrites, StoreInv, StoreCall
<1>3. accepted \subseteq accepted' /\ (Takes(out) => m \in accepted')
  BY <1>1 DEF Screened, Takes
<1>4. /\ inner \in Seq(accepted') /\ storeCall.screened \in Seq(accepted')
      /\ storeCall.screened \in Seq(Range(storeCall.turns))
  BY <1>2, <1>3 DEF StoreInv, StoreCall
<1>5. CASE Takes(out)
  <2>1. m \in Range(storeCall.turns)
    BY <1>2 DEF Range
  <2>2. /\ Append(storeCall.screened, m) \in Seq(accepted')
        /\ Append(storeCall.screened, m) \in Seq(Range(storeCall.turns))
    BY <1>3, <1>4, <1>5, <2>1
  <2>3. storeCall' = [storeCall EXCEPT !.at = @ + 1, !.screened = Append(@, m)]
    BY <1>1, <1>5
  <2>4. /\ storeCall' \in StoreCall' /\ storeCall'.step = "set"
        /\ storeCall'.screened = Append(storeCall.screened, m)
        /\ storeCall'.turns = storeCall.turns
    <3>1. storeCall' = [step |-> storeCall.step, turns |-> storeCall.turns,
                        at |-> storeCall.at + 1,
                        screened |-> Append(storeCall.screened, m)]
      BY <1>2, <2>3 DEF StoreCall
    <3>2. storeCall.at + 1 \in Nat \ {0} /\ storeCall.turns \in Seq(Turns)
      BY <1>2 DEF StoreCall
    <3> QED
      BY <1>2, <2>2, <3>1, <3>2 DEF StoreCall
  <2> QED
    BY <1>2, <1>4, <2>2, <2>4 DEF StoreInv
<1>6. CASE storeCall' = NoStoreCall
  BY <1>2, <1>4, <1>6 DEF StoreInv, NoStoreCall, StoreCall
<1>7. CASE storeCall' = [storeCall EXCEPT !.at = @ + 1]
  <2>1. /\ storeCall' \in StoreCall' /\ storeCall'.step = "set"
        /\ storeCall'.screened = storeCall.screened
        /\ storeCall'.turns = storeCall.turns
    BY <1>2, <1>4, <1>7 DEF StoreCall
  <2> QED
    BY <1>2, <1>4, <2>1 DEF StoreInv
<1> QED
  BY <1>1, <1>5, <1>6, <1>7

LEMMA StepStore == StoreInv /\ [StoreNext]_storeVars => StoreInv'
<1> SUFFICES ASSUME StoreInv, [StoreNext]_storeVars PROVE StoreInv'
  OBVIOUS
<1>1. inner \in Seq(accepted) /\ storeCall \in StoreCall
  BY DEF StoreInv
<1>2. ASSUME NEW turns \in TurnLists, SetBegins(turns) PROVE StoreInv'
  <2>1. turns \in Seq(Turns)
    BY StoreKeysAssumption
  <2>2. storeCall' = [step |-> "set", turns |-> turns, at |-> 1, screened |-> <<>>]
    BY <1>2 DEF SetBegins, NoStoreCall
  <2>3. <<>> \in Seq(accepted) /\ <<>> \in Seq(Range(turns))
    OBVIOUS
  <2>4. accepted' = accepted /\ inner' = inner
    BY <1>2 DEF SetBegins
  <2>5. storeCall' \in StoreCall' /\ storeCall'.screened \in Seq(Range(storeCall'.turns))
    BY <2>1, <2>2, <2>3, <2>4 DEF StoreCall
  <2> QED
    BY <1>1, <2>2, <2>4, <2>5 DEF StoreInv
<1>3. CASE SetWrites
  BY <1>3, SetWritesKeeps
<1>4. CASE SetStores
  BY <1>1, <1>4, StoreEnds DEF SetStores, StoreCall
<1>5. ASSUME NEW m \in Turns, AddTurn(m) PROVE StoreInv'
  <2>1. PICK out \in WriteAnswers[AddKey][m] :
          /\ Screened(m, out)
          /\ storeCall' = IF Takes(out)
                          THEN [NoStoreCall EXCEPT !.step = "add", !.turns = <<m>>]
                          ELSE NoStoreCall
    BY <1>5 DEF AddTurn
  <2>2. inner' = inner /\ accepted \subseteq accepted' /\ (Takes(out) => m \in accepted')
    BY <1>5, <2>1 DEF AddTurn, Screened, Takes
  <2>3. inner' \in Seq(accepted')
    BY <1>1, <2>2
  <2>4. CASE Takes(out)
    <3>1. storeCall' = [step |-> "add", turns |-> <<m>>, at |-> 1, screened |-> <<>>]
      BY <2>1, <2>4 DEF NoStoreCall
    <3>2. <<m>> \in Seq(Turns) /\ <<m>> # <<>> /\ Head(<<m>>) = m
      OBVIOUS
    <3> QED
      BY <2>2, <2>3, <2>4, <3>1, <3>2 DEF StoreInv, StoreCall
  <2>5. CASE ~Takes(out)
    BY <2>1, <2>3, <2>5 DEF StoreInv, NoStoreCall, StoreCall
  <2> QED
    BY <2>4, <2>5
<1>6. CASE AddStores
  <2>1. PICK i \in 1 .. Len(inner) + 1 : inner' = InsertAt(inner, i, Head(storeCall.turns))
    BY <1>6 DEF AddStores
  <2>2. Head(storeCall.turns) \in accepted
    BY <1>6 DEF AddStores, StoreInv
  <2>3. SubSeq(inner, 1, i - 1) \in Seq(accepted) /\ SubSeq(inner, i, Len(inner)) \in Seq(accepted)
    BY <1>1, <2>1
  <2>4. InsertAt(inner, i, Head(storeCall.turns)) \in Seq(accepted)
    BY <2>2, <2>3 DEF InsertAt
  <2> QED
    BY <1>6, <2>1, <2>4, StoreEnds DEF AddStores
<1>7. ASSUME UNCHANGED <<storeCall, accepted>>, inner' \in Seq(accepted) PROVE StoreInv'
  BY <1>7 DEF StoreInv, StoreCall
<1>8. CASE DeleteConversation
  BY <1>7, <1>8 DEF DeleteConversation
<1>9. ASSUME NEW i \in DOMAIN ItemKey, DeleteTurn(i) PROVE StoreInv'
  <2>1. i \in Nat
    BY StoreKeysAssumption
  <2>2. ASSUME i < Len(inner) PROVE RemoveAt(inner, i + 1) \in Seq(accepted)
    <3>1. SubSeq(inner, 1, i) \in Seq(accepted)
      BY <1>1, <2>1, <2>2
    <3>2. SubSeq(inner, i + 2, Len(inner)) \in Seq(accepted)
      BY <1>1, <2>1, <2>2
    <3>3. (i + 1) - 1 = i /\ (i + 1) + 1 = i + 2
      BY <2>1
    <3> QED
      BY <3>1, <3>2, <3>3 DEF RemoveAt
  <2> QED
    BY <1>1, <1>7, <1>9, <2>2 DEF DeleteTurn
<1>10. CASE UNCHANGED storeVars
  BY <1>1, <1>7, <1>10 DEF storeVars
<1> QED
  BY <1>2, <1>3, <1>4, <1>5, <1>6, <1>8, <1>9, <1>10 DEF StoreNext

LEMMA InitStore == StoreInit => StoreInv
BY DEF StoreInit, StoreInv, NoStoreCall, StoreCall

\* The conversation that is read back only ever holds messages the guard has let
\* through.
THEOREM InnerIsScreened == StoreSpec => []InnerScreened
<1>1. StoreInv => InnerScreened
  BY DEF StoreInv, InnerScreened
<1> QED
  BY <1>1, InitStore, StepStore, PTL DEF StoreSpec

\* While a list is being set the conversation changes at once, to messages of
\* that list, after all of them were screened.
THEOREM SetAtOnce == StoreSpec => SetIsAllOrNothing
<1> DEFINE AtOnce == inner' # inner /\ storeCall.step = "set" =>
              /\ storeCall.at > Len(storeCall.turns)
              /\ Range(inner') \subseteq Range(storeCall.turns)
<1>1. ASSUME StoreInv, StoreNext, inner' # inner, storeCall.step = "set" PROVE AtOnce
  <2>1. SetStores
    BY <1>1 DEF StoreNext, SetBegins, SetWrites, AddTurn, AddStores,
       DeleteConversation, DeleteTurn
  <2>2. inner' = storeCall.screened /\ storeCall.at > Len(storeCall.turns)
    BY <1>1, <2>1 DEF SetStores
  <2>3. storeCall.screened \in Seq(Range(storeCall.turns))
    BY <1>1 DEF StoreInv
  <2>4. Range(inner') \subseteq Range(storeCall.turns)
    BY <2>2, <2>3 DEF Range
  <2> QED
    BY <2>2, <2>4
<1>2. StoreInv /\ [StoreNext]_storeVars => [AtOnce]_storeVars
  BY <1>1
<1> QED
  BY <1>2, InitStore, StepStore, PTL DEF StoreSpec, SetIsAllOrNothing

-----------------------------------------------------------------------------
(* LangChain: GuardedChatMessageHistory *)

\* The numbers of the messages a store holds of the first c, and their list.
NumberedIn(st, c) == { i \in 0 .. c - 1 : st[MessageKey[i]] # NoValue }

ListedIn(st, c) ==
    [n \in 1 .. Cardinality(NumberedIn(st, c)) |->
        st[MessageKey[CHOOSE i \in NumberedIn(st, c) :
                         Cardinality({ j \in NumberedIn(st, c) : j <= i }) = n]]]

\* The messages from number g on.
From(st, g, c) == [n \in 1 .. c - g |-> st[MessageKey[g + n - 1]]]

\* Two stores that hold the same of the first c messages.
Alike(st, other, c) == \A i \in 0 .. c - 1 : st[MessageKey[i]] = other[MessageKey[i]]

LEMMA ListedFrom ==
  ASSUME NEW st, NEW c \in Nat, NEW g \in 0 .. c, NumberedIn(st, c) = g .. c - 1
  PROVE  ListedIn(st, c) = From(st, g, c)
<1>1. Cardinality(g .. c - 1) = c - g
  <2>1. PICK e \in Int : e = c - 1
    OBVIOUS
  <2>2. Cardinality(g .. e) = IF g > e THEN 0 ELSE e - g + 1
    BY FS_Interval
  <2> QED
    BY <2>1, <2>2
<1>2. \A i \in g .. c - 1 : Cardinality({ j \in g .. c - 1 : j <= i }) = i - g + 1
  <2> SUFFICES ASSUME NEW i \in g .. c - 1
               PROVE  Cardinality({ j \in g .. c - 1 : j <= i }) = i - g + 1
    OBVIOUS
  <2>1. { j \in g .. c - 1 : j <= i } = g .. i
    OBVIOUS
  <2>2. Cardinality(g .. i) = i - g + 1
    BY FS_Interval
  <2> QED
    BY <2>1, <2>2
<1>3. ASSUME NEW n \in 1 .. c - g
      PROVE  (CHOOSE i \in g .. c - 1 : Cardinality({ j \in g .. c - 1 : j <= i }) = n) = g + n - 1
  <2>1. g + n - 1 \in g .. c - 1
    OBVIOUS
  <2>2. \A i \in g .. c - 1 : Cardinality({ j \in g .. c - 1 : j <= i }) = n <=> i = g + n - 1
    BY <1>2
  <2> QED
    BY <2>1, <2>2
<1>4. ListedIn(st, c) =
        [n \in 1 .. c - g |->
            st[MessageKey[CHOOSE i \in g .. c - 1 :
                             Cardinality({ j \in g .. c - 1 : j <= i }) = n]]]
  BY <1>1 DEF ListedIn
<1> QED
  BY <1>3, <1>4 DEF From

\* Stores alike in the messages list the same.
LEMMA AlikeList ==
  ASSUME NEW st, NEW other, NEW c \in Nat, NEW g \in 0 .. c,
         NumberedIn(st, c) = g .. c - 1, Alike(st, other, c)
  PROVE  NumberedIn(other, c) = g .. c - 1 /\ ListedIn(other, c) = ListedIn(st, c)
<1>1. NumberedIn(other, c) = NumberedIn(st, c)
  BY DEF NumberedIn, Alike
<1>2. From(other, g, c) = From(st, g, c)
  <2>1. \A n \in 1 .. c - g : g + n - 1 \in 0 .. c - 1
    OBVIOUS
  <2> QED
    BY <2>1 DEF From, Alike
<1> QED
  BY <1>1, <1>2, ListedFrom

\* A message more is listed last.
LEMMA ListedOneMore ==
  ASSUME NEW st, NEW other, NEW c \in Nat, NEW g \in 0 .. c, NumberedIn(st, c) = g .. c - 1,
         Alike(st, other, c), other[MessageKey[c]] # NoValue
  PROVE  /\ NumberedIn(other, c + 1) = g .. c
         /\ ListedIn(other, c + 1) = Append(ListedIn(st, c), other[MessageKey[c]])
<1>1. NumberedIn(other, c) = g .. c - 1 /\ ListedIn(st, c) = From(other, g, c)
  BY AlikeList, ListedFrom
<1>2. NumberedIn(other, c + 1) = g .. c
  <2>1. 0 .. (c + 1) - 1 = (0 .. c - 1) \cup {c} /\ g .. c = (g .. c - 1) \cup {c}
    OBVIOUS
  <2> QED
    BY <1>1, <2>1 DEF NumberedIn
<1>3. PICK d \in Nat : d = c + 1
  OBVIOUS
<1>4. ListedIn(other, d) = From(other, g, d)
  <2>1. g \in 0 .. d /\ d - 1 = c
    BY <1>3
  <2> QED
    BY <1>2, <1>3, <2>1, ListedFrom
<1>5. PICK old : old = From(other, g, c)
  OBVIOUS
<1>6. PICK new : new = From(other, g, d)
  OBVIOUS
<1>7. PICK m \in Nat : m = c - g
  OBVIOUS
<1>8. old = [n \in 1 .. m |-> other[MessageKey[g + n - 1]]]
  BY <1>5, <1>7 DEF From
<1>9. new = [n \in 1 .. m + 1 |-> other[MessageKey[g + n - 1]]]
  <2>1. d - g = m + 1
    BY <1>3, <1>7
  <2> QED
    BY <1>6, <2>1 DEF From
<1>10. g + (m + 1) - 1 = c
  BY <1>7
<1>11. new = Append(old, other[MessageKey[c]])
  BY <1>8, <1>9, <1>10
<1> QED
  BY <1>1, <1>2, <1>3, <1>4, <1>5, <1>6, <1>11

\* The first message less.
LEMMA ListedOneLess ==
  ASSUME NEW st, NEW other, NEW c \in Nat, NEW g \in 0 .. c, NumberedIn(st, c) = g .. c - 1,
         NEW a \in 0 .. c - 1, \A i \in 0 .. a - 1 : st[MessageKey[i]] = NoValue,
         other[MessageKey[a]] = NoValue,
         \A i \in 0 .. c - 1 : i # a => other[MessageKey[i]] = st[MessageKey[i]]
  PROVE  \/ NumberedIn(other, c) = g .. c - 1 /\ ListedIn(other, c) = ListedIn(st, c)
         \/ /\ g < c /\ NumberedIn(other, c) = g + 1 .. c - 1
            /\ Len(ListedIn(st, c)) = c - g
            /\ ListedIn(other, c) = SubSeq(ListedIn(st, c), 2, Len(ListedIn(st, c)))
<1>1. \A i \in 0 .. c - 1 : st[MessageKey[i]] # NoValue <=> i \in g .. c - 1
  BY DEF NumberedIn
<1>2. a <= g
  <2>1. g < c => g \notin 0 .. a - 1
    BY <1>1
  <2> QED
    BY <2>1
<1>3. CASE a < g
  <2>1. Alike(st, other, c)
    <3>1. st[MessageKey[a]] = NoValue
      BY <1>1, <1>3
    <3> QED
      BY <3>1 DEF Alike
  <2> QED
    BY <2>1, AlikeList
<1>4. CASE a = g
  <2>1. PICK h \in 0 .. c : h = g + 1
    BY <1>4
  <2>2. NumberedIn(other, c) = h .. c - 1
    <3>1. \A i \in 0 .. c - 1 : other[MessageKey[i]] # NoValue <=> i \in h .. c - 1
      BY <1>1, <1>4, <2>1
    <3>2. h .. c - 1 \subseteq 0 .. c - 1
      BY <2>1
    <3> QED
      BY <3>1, <3>2 DEF NumberedIn
  <2>3. PICK m \in Nat : m = c - g
    OBVIOUS
  <2>4. PICK old : old = ListedIn(st, c)
    OBVIOUS
  <2>5. PICK new : new = ListedIn(other, c)
    OBVIOUS
  <2>6. old = [n \in 1 .. m |-> st[MessageKey[g + n - 1]]]
    BY <2>3, <2>4, ListedFrom DEF From
  <2>7. new = [n \in 1 .. m - 1 |-> other[MessageKey[h + n - 1]]]
    <3>1. c - h = m - 1
      BY <2>1, <2>3
    <3> QED
      BY <2>2, <2>5, <3>1, ListedFrom DEF From
  <2>8. Len(old) = m /\ m > 0
    BY <1>4, <2>3, <2>6
  <2>9. \A n \in 1 .. m - 1 : new[n] = old[n + 1]
    <3> SUFFICES ASSUME NEW n \in 1 .. m - 1 PROVE new[n] = old[n + 1]
      OBVIOUS
    <3>1. h + n - 1 = g + (n + 1) - 1 /\ n + 1 \in 1 .. m
      BY <2>1
    <3>2. g + (n + 1) - 1 \in 0 .. c - 1 /\ g + (n + 1) - 1 # a
      BY <1>4, <2>3
    <3> QED
      BY <2>6, <2>7, <3>1, <3>2
  <2>10. new = SubSeq(old, 2, m)
    <3>1. SubSeq(old, 2, m) = [n \in 1 .. m - 1 |-> old[n + 1]]
      BY <2>6, <2>8
    <3> QED
      BY <2>7, <2>9, <3>1
  <2> QED
    BY <1>4, <2>1, <2>2, <2>3, <2>4, <2>5, <2>8, <2>10
<1> QED
  BY <1>2, <1>3, <1>4

-----------------------------------------------------------------------------

HistoryCall ==
    [step : {"none", "message", "count", "clear"}, at : 0 .. Capacity, upto : 0 .. Capacity,
     message : Messages \cup {NoMessage}]

HistoryTypeOK ==
    /\ store \in [Keys -> Entry]
    /\ store[CountKey] \in (0 .. Capacity) \cup {NoValue}
    /\ historyCall \in HistoryCall

\* Where a call is, and what it has done so far.
UnderWay ==
    /\ historyCall.step \in {"message", "count"} =>
          historyCall.message \in Messages /\ historyCall.at = Count /\ Count < Capacity
    /\ historyCall.step = "count" =>
          store[MessageKey[Count]] \in {historyCall.message, Redacted[historyCall.message]}
    /\ historyCall.step = "clear" =>
          /\ historyCall.upto = Count /\ historyCall.at <= Count
          /\ \A i \in 0 .. historyCall.at - 1 : store[MessageKey[i]] = NoValue

\* The messages that are missing are the first ones: a clear that could not
\* reset the count leaves them behind.
FirstAreMissing == \E g \in 0 .. Count : NumberedIn(store, Count) = g .. Count - 1

HistoryInv == HistoryTypeOK /\ UnderWay /\ FirstAreMissing

LEMMA ShownListed ==
  /\ Shown = ListedIn(store, Count)
  /\ Shown' = ListedIn(store', Count')
BY DEF Shown, Numbered, Stored, ListedIn, NumberedIn

LEMMA CountFacts ==
  ASSUME HistoryTypeOK
  PROVE  /\ Count \in 0 .. Capacity /\ Capacity \in Nat /\ Count \in Nat
         /\ \A i \in 0 .. Capacity - 1 : MessageKey[i] \in Keys /\ MessageKey[i] # CountKey
         /\ \A i, j \in 0 .. Capacity - 1 : MessageKey[i] = MessageKey[j] => i = j
         /\ CountKey \in Keys
BY HistoryKeysAssumption DEF HistoryTypeOK, Count, Stored

\* The guard's answer to a write of a message, or of the count.
LEMMA MessageWritten ==
  ASSUME HistoryTypeOK, NEW k \in Keys \ {CountKey}, NEW v \in Values, NEW out, Write(k, v, out)
  PROVE  /\ store' \in [Keys -> Entry] /\ store'[CountKey] = store[CountKey] /\ Count' = Count
         /\ \A j \in Keys : j # k => store'[j] = store[j]
         /\ out \in {"allow", "redact"} => store'[k] \in {v, Redacted[v]}
<1>1. store \in [Keys -> Entry] /\ CountKey \in Keys
  BY HistoryKeysAssumption DEF HistoryTypeOK
<1>2. /\ store' \in [Keys -> Entry] /\ \A j \in Keys : j # k => store'[j] = store[j]
      /\ out \in {"allow", "redact"} => store'[k] \in {v, Redacted[v]}
  BY <1>1, WriteKeepsRest
<1>3. store'[CountKey] = store[CountKey]
  BY <1>1, <1>2
<1> QED
  BY <1>2, <1>3 DEF Count, Stored

LEMMA CountWritten ==
  ASSUME HistoryTypeOK, NEW n \in 0 .. Capacity, NEW out, Write(CountKey, n, out)
  PROVE  /\ store' \in [Keys -> Entry]
         /\ store'[CountKey] \in (0 .. Capacity) \cup {NoValue}
         /\ \A j \in Keys : j # CountKey => store'[j] = store[j]
         /\ store' = store \/ (store'[CountKey] = n /\ Count' = n)
<1>1. store \in [Keys -> Entry] /\ CountKey \in Keys /\ n \in Values /\ n # NoValue
  BY HistoryKeysAssumption DEF HistoryTypeOK
<1>2. out # "redact"
  BY HistoryKeysAssumption DEF Write
<1>3. store' = store \/ store' = [store EXCEPT ![CountKey] = n]
  BY <1>2 DEF Write, Written
<1> QED
  BY <1>1, <1>3 DEF HistoryTypeOK, Entry, Count, Stored

\* A step of a call that leaves what is shown alone.
LEMMA NothingShownMoves ==
  ASSUME HistoryInv, HistoryTypeOK', Count' = Count, Alike(store, store', Count)
  PROVE  FirstAreMissing' /\ Shown' = Shown
<1>1. PICK st : st = store
  OBVIOUS
<1>2. PICK other : other = store'
  OBVIOUS
<1>3. PICK c : c = Count
  OBVIOUS
<1>4. c \in Nat
  BY <1>3, CountFacts DEF HistoryInv
<1>5. PICK g \in 0 .. c : NumberedIn(st, c) = g .. c - 1
  BY <1>1, <1>3 DEF HistoryInv, FirstAreMissing
<1>6. NumberedIn(other, c) = g .. c - 1 /\ ListedIn(other, c) = ListedIn(st, c)
  BY <1>1, <1>2, <1>3, <1>4, <1>5, AlikeList
<1>7. Count' = c /\ store' = other
  BY <1>2, <1>3
<1> QED
  BY <1>1, <1>3, <1>5, <1>6, <1>7, ShownListed DEF FirstAreMissing

\* What the log makes of a step of a call.
LogStep == History!Next \/ UNCHANGED <<Shown, Adding>>

LEMMA InitHistory == HistoryInit => HistoryInv /\ History!Init
<1> SUFFICES ASSUME HistoryInit PROVE HistoryInv /\ History!Init
  OBVIOUS
<1>1. /\ Count = 0 /\ 0 \in 0 .. Capacity /\ historyCall = NoHistoryCall
      /\ store \in [Keys -> Entry] /\ store[CountKey] = NoValue
  BY HistoryKeysAssumption DEF HistoryInit, FreshGuard, Count, Stored, Entry
<1>2. HistoryTypeOK /\ UnderWay /\ Adding = NoMessage
  BY <1>1 DEF HistoryTypeOK, UnderWay, NoHistoryCall, HistoryCall, Adding
<1>3. 0 \in 0 .. 0 /\ NumberedIn(store, 0) = 0 .. 0 - 1
  BY DEF NumberedIn
<1>4. FirstAreMissing
  BY <1>1, <1>3 DEF FirstAreMissing
<1>5. ListedIn(store, 0) = From(store, 0, 0)
  BY <1>3, ListedFrom
<1>6. Shown \in Seq(Values)
  <2>1. From(store, 0, 0) = <<>>
    BY DEF From
  <2>2. Shown = <<>>
    BY <1>1, <1>5, <2>1, ShownListed
  <2> QED
    BY <2>2
<1> QED
  BY <1>2, <1>4, <1>6 DEF HistoryInv, History!Init

\* Without messages nothing is shown, whatever the count is written to be.
LEMMA NothingIsShown ==
  ASSUME NEW st, NEW c \in Nat, \A i \in 0 .. c - 1 : st[MessageKey[i]] = NoValue
  PROVE  NumberedIn(st, c) = c .. c - 1 /\ ListedIn(st, c) = <<>>
<1>1. NumberedIn(st, c) = c .. c - 1 /\ c \in 0 .. c
  BY DEF NumberedIn
<1>2. From(st, c, c) = <<>>
  BY DEF From
<1> QED
  BY <1>1, <1>2, ListedFrom

\* A count written over an empty history.
LEMMA CountReset ==
  ASSUME HistoryInv, \A i \in 0 .. Count - 1 : store[MessageKey[i]] = NoValue,
         NEW out, Write(CountKey, 0, out)
  PROVE  /\ store' \in [Keys -> Entry] /\ store'[CountKey] \in (0 .. Capacity) \cup {NoValue}
         /\ FirstAreMissing' /\ Shown' = Shown
<1>1. HistoryTypeOK /\ 0 \in 0 .. Capacity /\ Count \in Nat
  BY CountFacts, HistoryKeysAssumption DEF HistoryInv
<1>2. /\ store' \in [Keys -> Entry] /\ store'[CountKey] \in (0 .. Capacity) \cup {NoValue}
      /\ store' = store \/ Count' = 0
  BY <1>1, CountWritten
<1>3. PICK c \in Nat : c = Count'
  BY <1>1, <1>2 DEF Count, Stored
<1>4. \A i \in 0 .. c - 1 : store'[MessageKey[i]] = NoValue
  BY <1>2, <1>3 DEF Count, Stored
<1>5. PICK other : other = store'
  OBVIOUS
<1>6. NumberedIn(other, c) = c .. c - 1 /\ ListedIn(other, c) = <<>>
  BY <1>4, <1>5, NothingIsShown
<1>7. Shown = <<>>
  BY <1>1, NothingIsShown, ShownListed
<1>8. c \in 0 .. c
  OBVIOUS
<1> QED
  BY <1>2, <1>3, <1>5, <1>6, <1>7, <1>8, ShownListed DEF FirstAreMissing

LEMMA BuildHistoryKeeps ==
  ASSUME HistoryInv, BuildHistory
  PROVE  HistoryInv' /\ LogStep
<1>1. PICK out : Write(CountKey, 0, out)
  BY DEF BuildHistory
<1>2. Count = 0 /\ historyCall.step = "none" /\ UNCHANGED historyCall
  BY DEF BuildHistory, Count
<1>3. /\ store' \in [Keys -> Entry] /\ store'[CountKey] \in (0 .. Capacity) \cup {NoValue}
      /\ FirstAreMissing' /\ Shown' = Shown
  BY <1>1, <1>2, CountReset
<1>4. HistoryTypeOK' /\ UnderWay'
  BY <1>2, <1>3 DEF HistoryInv, HistoryTypeOK, UnderWay
<1>5. Adding' = Adding
  BY <1>2 DEF Adding
<1> QED
  BY <1>3, <1>4, <1>5 DEF HistoryInv, LogStep

LEMMA AddBeginsKeeps ==
  ASSUME HistoryInv, NEW m \in Messages, AddBegins(m)
  PROVE  HistoryInv' /\ LogStep
<1>1. /\ historyCall.step = "none" /\ Count < Capacity /\ UNCHANGED store
      /\ historyCall' = [step |-> "message", at |-> Count, upto |-> 0, message |-> m]
  BY DEF AddBegins, NoHistoryCall
<1>2. Count' = Count /\ Shown' = Shown
  BY <1>1 DEF Count, Stored, Shown, Numbered
<1>3. Count \in 0 .. Capacity /\ 0 \in 0 .. Capacity
  BY CountFacts, HistoryKeysAssumption DEF HistoryInv
<1>4. HistoryTypeOK' /\ UnderWay'
  BY <1>1, <1>2, <1>3 DEF HistoryInv, HistoryTypeOK, UnderWay, HistoryCall
<1>5. FirstAreMissing'
  BY <1>1, <1>2 DEF HistoryInv, FirstAreMissing
<1>6. Adding = NoMessage /\ Adding' = m
  BY <1>1 DEF Adding
<1>7. History!Begin(m)
  BY <1>2, <1>6 DEF History!Begin
<1> QED
  BY <1>4, <1>5, <1>7 DEF HistoryInv, LogStep, History!Next

\* The message goes under the number that comes next, which is not shown yet.
LEMMA AddWritesMessageKeeps ==
  ASSUME HistoryInv, AddWritesMessage
  PROVE  HistoryInv' /\ LogStep
<1> DEFINE k == MessageKey[historyCall.at]
<1>1. PICK out : /\ Write(k, historyCall.message, out)
                 /\ historyCall' = IF out \in {"allow", "redact"}
                                   THEN [historyCall EXCEPT !.step = "count"]
                                   ELSE NoHistoryCall
  BY DEF AddWritesMessage
<1>2. /\ historyCall.step = "message" /\ historyCall.at = Count /\ Count < Capacity
      /\ historyCall.message \in Messages /\ historyCall \in HistoryCall
  BY DEF AddWritesMessage, HistoryInv, UnderWay, HistoryTypeOK
<1>3. /\ HistoryTypeOK /\ Count \in 0 .. Capacity - 1 /\ Count \in Nat
      /\ k \in Keys \ {CountKey} /\ historyCall.message \in Values \ {NoMessage}
      /\ 0 \in 0 .. Capacity
  BY <1>2, CountFacts, HistoryKeysAssumption DEF HistoryInv
<1>4. /\ store' \in [Keys -> Entry] /\ store'[CountKey] = store[CountKey] /\ Count' = Count
      /\ \A j \in Keys : j # k => store'[j] = store[j]
      /\ out \in {"allow", "redact"} =>
            store'[k] \in {historyCall.message, Redacted[historyCall.message]}
  BY <1>1, <1>3, MessageWritten
<1>5. Alike(store, store', Count)
  <2>1. \A i \in 0 .. Count - 1 : MessageKey[i] \in Keys /\ MessageKey[i] # k
    BY <1>2, <1>3, CountFacts
  <2> QED
    BY <1>4, <2>1 DEF Alike
<1>6. CASE out \in {"allow", "redact"}
  <2>1. historyCall' = [historyCall EXCEPT !.step = "count"]
    BY <1>1, <1>6
  <2>2. /\ historyCall' \in HistoryCall /\ historyCall'.step = "count"
        /\ historyCall'.message = historyCall.message /\ historyCall'.at = historyCall.at
    BY <1>2, <2>1 DEF HistoryCall
  <2>3. HistoryTypeOK'
    BY <1>3, <1>4, <2>2 DEF HistoryTypeOK
  <2>4. UnderWay'
    BY <1>2, <1>4, <1>6, <2>2 DEF UnderWay
  <2>5. Adding' = Adding
    BY <1>2, <2>2 DEF Adding
  <2> QED
    BY <1>4, <1>5, <2>3, <2>4, <2>5, NothingShownMoves DEF HistoryInv, LogStep
<1>7. CASE out \notin {"allow", "redact"}
  <2>1. historyCall' = NoHistoryCall
    BY <1>1, <1>7
  <2>2. historyCall' \in HistoryCall /\ historyCall'.step = "none"
    BY <1>3, <2>1 DEF NoHistoryCall, HistoryCall
  <2>3. HistoryTypeOK' /\ UnderWay'
    BY <1>3, <1>4, <2>2 DEF HistoryTypeOK, UnderWay
  <2>4. FirstAreMissing' /\ Shown' = Shown
    BY <1>4, <1>5, <2>3, NothingShownMoves
  <2>5. Adding = historyCall.message /\ Adding' = NoMessage
    BY <1>2, <2>2 DEF Adding
  <2>6. History!Lose
    BY <1>3, <2>4, <2>5 DEF History!Lose
  <2> QED
    BY <2>3, <2>4, <2>6 DEF HistoryInv, LogStep, History!Next
<1> QED
  BY <1>6, <1>7

\* Only then is it counted, and shown.
LEMMA AddWritesCountKeeps ==
  ASSUME HistoryInv, AddWritesCount
  PROVE  HistoryInv' /\ LogStep
<1>1. PICK c \in Nat : c = Count
  BY CountFacts DEF HistoryInv
<1>2. PICK out : Write(CountKey, historyCall.at + 1, out)
  BY DEF AddWritesCount
<1>3. /\ historyCall.step = "count" /\ historyCall.at = c /\ c < Capacity
      /\ historyCall.message \in Messages /\ HistoryTypeOK
      /\ store[MessageKey[c]] \in {historyCall.message, Redacted[historyCall.message]}
  BY <1>1 DEF AddWritesCount, HistoryInv, UnderWay
<1>4. /\ c + 1 \in 0 .. Capacity /\ c \in 0 .. Capacity - 1 /\ 0 \in 0 .. Capacity
      /\ historyCall.message \in Values \ {NoMessage}
      /\ store[MessageKey[c]] # NoValue
  BY <1>3, HistoryKeysAssumption
<1>5. /\ store' \in [Keys -> Entry]
      /\ store'[CountKey] \in (0 .. Capacity) \cup {NoValue}
      /\ \A j \in Keys : j # CountKey => store'[j] = store[j]
      /\ store' = store \/ Count' = c + 1
  BY <1>2, <1>3, <1>4, CountWritten
<1>6. historyCall' = NoHistoryCall
  BY DEF AddWritesCount
<1>7. historyCall' \in HistoryCall /\ historyCall'.step = "none"
  BY <1>4, <1>6 DEF NoHistoryCall, HistoryCall
<1>8. HistoryTypeOK' /\ UnderWay'
  BY <1>5, <1>7 DEF HistoryTypeOK, UnderWay
<1>9. Adding = historyCall.message /\ Adding' = NoMessage /\ Adding # NoMessage
  BY <1>3, <1>4, <1>7 DEF Adding
<1>10. CASE store' = store
  <2>1. Count' = Count /\ Alike(store, store', Count)
    BY <1>10 DEF Count, Stored, Alike
  <2>2. FirstAreMissing' /\ Shown' = Shown
    BY <1>8, <2>1, NothingShownMoves
  <2>3. History!Lose
    BY <1>9, <2>2 DEF History!Lose
  <2> QED
    BY <1>8, <2>2, <2>3 DEF HistoryInv, LogStep, History!Next
<1>11. CASE Count' = c + 1
  <2>1. PICK st : st = store
    OBVIOUS
  <2>2. PICK other : other = store'
    OBVIOUS
  <2>3. \A i \in 0 .. c : other[MessageKey[i]] = st[MessageKey[i]]
    BY <1>3, <1>4, <1>5, <2>1, <2>2, CountFacts
  <2>4. Alike(st, other, c) /\ other[MessageKey[c]] = st[MessageKey[c]]
    BY <2>3 DEF Alike
  <2>5. PICK g \in 0 .. c : NumberedIn(st, c) = g .. c - 1
    BY <1>1, <2>1 DEF HistoryInv, FirstAreMissing
  <2>6. /\ NumberedIn(other, c + 1) = g .. c
        /\ ListedIn(other, c + 1) = Append(ListedIn(st, c), other[MessageKey[c]])
    BY <1>4, <2>1, <2>4, <2>5, ListedOneMore
  <2>7. FirstAreMissing'
    <3>1. g \in 0 .. c + 1 /\ g .. c = g .. (c + 1) - 1
      OBVIOUS
    <3> QED
      BY <1>11, <2>2, <2>6, <3>1 DEF FirstAreMissing
  <2>8. Shown' = Append(Shown, store[MessageKey[c]])
    BY <1>1, <1>11, <2>1, <2>2, <2>4, <2>6, ShownListed
  <2>9. History!Accept
    BY <1>3, <1>9, <2>8 DEF History!Accept
  <2> QED
    BY <1>8, <2>7, <2>9 DEF HistoryInv, LogStep, History!Next
<1> QED
  BY <1>5, <1>10, <1>11

LEMMA ClearBeginsKeeps ==
  ASSUME HistoryInv, ClearBegins
  PROVE  HistoryInv' /\ LogStep
<1>1. /\ historyCall.step = "none" /\ UNCHANGED store
      /\ historyCall' = [step |-> "clear", at |-> 0, upto |-> Count, message |-> NoMessage]
  BY DEF ClearBegins, NoHistoryCall
<1>2. Count' = Count /\ Shown' = Shown
  BY <1>1 DEF Count, Stored, Shown, Numbered
<1>3. Count \in 0 .. Capacity /\ 0 \in 0 .. Capacity
  BY CountFacts, HistoryKeysAssumption DEF HistoryInv
<1>4. HistoryTypeOK' /\ UnderWay'
  BY <1>1, <1>2, <1>3 DEF HistoryInv, HistoryTypeOK, UnderWay, HistoryCall
<1>5. FirstAreMissing' /\ Adding' = Adding
  BY <1>1, <1>2 DEF HistoryInv, FirstAreMissing, Adding
<1> QED
  BY <1>2, <1>4, <1>5 DEF HistoryInv, LogStep

\* A message deleted is the first shown, or was missing.
LEMMA ClearDeletesKeeps ==
  ASSUME HistoryInv, ClearDeletes, \A i \in 0 .. Capacity - 1 : MessageKey[i] \notin Undeletable
  PROVE  HistoryInv' /\ LogStep
<1>1. PICK c \in Nat : c = Count
  BY CountFacts DEF HistoryInv
<1>2. PICK a \in 0 .. c - 1 : a = historyCall.at
  BY <1>1 DEF ClearDeletes, HistoryInv, HistoryTypeOK, HistoryCall, UnderWay
<1>3. /\ historyCall.step = "clear" /\ historyCall.upto = c /\ historyCall \in HistoryCall
      /\ historyCall' = [historyCall EXCEPT !.at = @ + 1]
      /\ \A i \in 0 .. a - 1 : store[MessageKey[i]] = NoValue
      /\ Delete(MessageKey[a]) /\ HistoryTypeOK
  BY <1>1, <1>2 DEF ClearDeletes, HistoryInv, HistoryTypeOK, UnderWay
<1>4. /\ c \in 0 .. Capacity /\ a \in 0 .. Capacity - 1 /\ a + 1 \in 0 .. Capacity
      /\ MessageKey[a] \in Keys /\ MessageKey[a] # CountKey /\ CountKey \in Keys
      /\ \A i \in 0 .. c - 1 : MessageKey[i] \in Keys /\ (i # a => MessageKey[i] # MessageKey[a])
  BY <1>1, <1>3, CountFacts
<1>5. /\ store \in [Keys -> Entry] /\ store' = [store EXCEPT ![MessageKey[a]] = NoValue]
  BY <1>3, <1>4 DEF Delete, HistoryTypeOK
<1>6. /\ store' \in [Keys -> Entry] /\ store'[CountKey] = store[CountKey]
      /\ store'[MessageKey[a]] = NoValue
      /\ \A i \in 0 .. c - 1 : i # a => store'[MessageKey[i]] = store[MessageKey[i]]
  BY <1>4, <1>5 DEF Entry
<1>7. Count' = c
  BY <1>1, <1>6 DEF Count, Stored
<1>8. /\ historyCall' \in HistoryCall /\ historyCall'.step = "clear"
      /\ historyCall'.upto = c /\ historyCall'.at = a + 1
  BY <1>2, <1>3, <1>4 DEF HistoryCall
<1>9. \A i \in 0 .. (a + 1) - 1 : store'[MessageKey[i]] = NoValue
  <2>1. \A i \in 0 .. (a + 1) - 1 : i = a \/ (i \in 0 .. a - 1 /\ i \in 0 .. c - 1 /\ i # a)
    OBVIOUS
  <2> QED
    BY <1>3, <1>6, <2>1
<1>10. HistoryTypeOK' /\ UnderWay'
  BY <1>3, <1>6, <1>7, <1>8, <1>9 DEF HistoryTypeOK, UnderWay
<1>11. Adding = NoMessage /\ Adding' = NoMessage
  BY <1>3, <1>8 DEF Adding
<1>12. PICK st : st = store
  OBVIOUS
<1>13. PICK other : other = store'
  OBVIOUS
<1>14. PICK g \in 0 .. c : NumberedIn(st, c) = g .. c - 1
  BY <1>1, <1>12 DEF HistoryInv, FirstAreMissing
<1>15. \/ NumberedIn(other, c) = g .. c - 1 /\ ListedIn(other, c) = ListedIn(st, c)
       \/ /\ g < c /\ NumberedIn(other, c) = g + 1 .. c - 1
          /\ Len(ListedIn(st, c)) = c - g
          /\ ListedIn(other, c) = SubSeq(ListedIn(st, c), 2, Len(ListedIn(st, c)))
  <2>1. /\ \A i \in 0 .. a - 1 : st[MessageKey[i]] = NoValue
        /\ other[MessageKey[a]] = NoValue
        /\ \A i \in 0 .. c - 1 : i # a => other[MessageKey[i]] = st[MessageKey[i]]
    BY <1>3, <1>6, <1>12, <1>13
  <2>2. a \in 0 .. c - 1 /\ c \in Nat /\ g \in 0 .. c /\ NumberedIn(st, c) = g .. c - 1
    BY <1>14
  <2> QED
    BY <2>1, <2>2, ListedOneLess
<1>16. Shown = ListedIn(st, c) /\ Shown' = ListedIn(other, c)
  BY <1>1, <1>7, <1>12, <1>13, ShownListed
<1>17. CASE NumberedIn(other, c) = g .. c - 1 /\ ListedIn(other, c) = ListedIn(st, c)
  BY <1>7, <1>10, <1>11, <1>13, <1>16, <1>17 DEF HistoryInv, FirstAreMissing, LogStep
<1>18. CASE /\ g < c /\ NumberedIn(other, c) = g + 1 .. c - 1
            /\ Len(ListedIn(st, c)) = c - g
            /\ ListedIn(other, c) = SubSeq(ListedIn(st, c), 2, Len(ListedIn(st, c)))
  <2>1. FirstAreMissing'
    BY <1>7, <1>13, <1>18 DEF FirstAreMissing
  <2>2. 1 \in 1 .. Len(Shown) /\ 1 + 1 = 2
    BY <1>16, <1>18
  <2>3. Shown' = SubSeq(Shown, 2, Len(Shown))
    BY <1>16, <1>18
  <2>4. History!Forget
    BY <1>11, <2>2, <2>3 DEF History!Forget
  <2> QED
    BY <1>10, <2>1, <2>4 DEF HistoryInv, LogStep, History!Next
<1> QED
  BY <1>15, <1>17, <1>18

LEMMA ClearResetsCountKeeps ==
  ASSUME HistoryInv, ClearResetsCount
  PROVE  HistoryInv' /\ LogStep
<1>1. PICK out : Write(CountKey, 0, out)
  BY DEF ClearResetsCount
<1>2. historyCall.step = "clear" /\ \A i \in 0 .. Count - 1 : store[MessageKey[i]] = NoValue
  BY DEF ClearResetsCount, HistoryInv, UnderWay
<1>3. /\ store' \in [Keys -> Entry] /\ store'[CountKey] \in (0 .. Capacity) \cup {NoValue}
      /\ FirstAreMissing' /\ Shown' = Shown
  BY <1>1, <1>2, CountReset
<1>4. historyCall' \in HistoryCall /\ historyCall'.step = "none"
  BY HistoryKeysAssumption DEF ClearResetsCount, NoHistoryCall, HistoryCall
<1>5. HistoryTypeOK' /\ UnderWay'
  BY <1>3, <1>4 DEF HistoryTypeOK, UnderWay
<1>6. Adding' = Adding
  BY <1>2, <1>4 DEF Adding
<1> QED
  BY <1>3, <1>5, <1>6 DEF HistoryInv, LogStep

LEMMA StepHistory ==
  ASSUME \A i \in 0 .. Capacity - 1 : MessageKey[i] \notin Undeletable
  PROVE  HistoryInv /\ [HistoryNext]_historyVars => HistoryInv' /\ LogStep
<1> SUFFICES ASSUME HistoryInv, [HistoryNext]_historyVars PROVE HistoryInv' /\ LogStep
  OBVIOUS
<1>1. CASE BuildHistory
  BY <1>1, BuildHistoryKeeps
<1>2. ASSUME NEW m \in Messages, AddBegins(m) PROVE HistoryInv' /\ LogStep
  BY <1>2, AddBeginsKeeps
<1>3. CASE ClearBegins
  BY <1>3, ClearBeginsKeeps
<1>4. CASE AddWritesMessage
  BY <1>4, AddWritesMessageKeeps
<1>5. CASE AddWritesCount
  BY <1>5, AddWritesCountKeeps
<1>6. CASE ClearDeletes
  BY <1>6, ClearDeletesKeeps
<1>7. CASE ClearResetsCount
  BY <1>7, ClearResetsCountKeeps
<1>8. CASE UNCHANGED historyVars
  <2>1. UNCHANGED <<store, historyCall>>
    BY <1>8 DEF historyVars
  <2>2. HistoryInv'
    BY <2>1 DEF HistoryInv, HistoryTypeOK, UnderWay, FirstAreMissing, Count, Stored, NumberedIn
  <2>3. UNCHANGED <<Shown, Adding>>
    BY <2>1 DEF Shown, Numbered, Count, Stored, Adding
  <2> QED
    BY <2>2, <2>3 DEF LogStep
<1> QED
  BY <1>1, <1>2, <1>3, <1>4, <1>5, <1>6, <1>7, <1>8 DEF HistoryNext, HistoryStep

\* The chat history is a log of messages, whichever of its writes the guard holds
\* back, when no message is under a key the guard refuses to delete: a clear that
\* leaves some of the messages would not forget from the old end.
THEOREM HistoryIsALog ==
  ASSUME \A i \in 0 .. Capacity - 1 : MessageKey[i] \notin Undeletable
  PROVE  HistorySpec => HistoryIsLog
<1>1. HistoryInv /\ [HistoryNext]_historyVars => HistoryInv'
  BY StepHistory
<1>2. HistoryInv /\ [HistoryNext]_historyVars => [History!Next]_<<Shown, Adding>>
  BY StepHistory DEF LogStep
<1> QED
  BY <1>1, <1>2, InitHistory, PTL DEF HistorySpec, HistoryIsLog, History!Spec

-----------------------------------------------------------------------------
(* What the guard refuses stays out of the adapters.  Bad: the values the    *)
(* guard's answers hold back, AnswersHold of GuardProofs says which.         *)

\* The guard neither takes such a value nor makes one by redacting.
KeepsOut(Bad) ==
    /\ Bad \subseteq Values
    /\ \A k \in Keys : \A v \in Values :
          /\ "allow" \in WriteAnswers[k][v] => v \notin Bad
          /\ "redact" \in WriteAnswers[k][v] => Redacted[v] \notin Bad

\* It does not take one, redacted or not.
HeldBack(Bad) ==
    /\ Bad \subseteq Values
    /\ \A k \in Keys : \A v \in Bad : WriteAnswers[k][v] \cap {"allow", "redact"} = {}

NoneStored(Bad) == store \in [Keys -> Entry] /\ \A k \in Keys : store[k] \notin Bad

LEMMA WriteStoresNone ==
  ASSUME NEW Bad, KeepsOut(Bad), NoneStored(Bad), NEW k \in Keys, NEW v \in Values,
         NEW out \in WriteAnswers[k][v], Write(k, v, out), Redacted \in [Values -> Values]
  PROVE  NoneStored(Bad)'
<1>1. \/ store' = [store EXCEPT ![k] = v] /\ v \notin Bad
      \/ store' = [store EXCEPT ![k] = Redacted[v]] /\ Redacted[v] \notin Bad
      \/ store' = store
  <2>1. out = "allow" => v \notin Bad
    BY DEF KeepsOut
  <2>2. out = "redact" => Redacted[v] \notin Bad
    BY DEF KeepsOut
  <2> QED
    BY <2>1, <2>2 DEF Write, Written
<1>2. Redacted[v] \in Values
  OBVIOUS
<1> QED
  BY <1>1, <1>2 DEF NoneStored, Entry

LEMMA DeleteStoresNone ==
  ASSUME NEW Bad, Bad \subseteq Values, NoValue \notin Values, NoneStored(Bad),
         NEW k \in Keys, Delete(k)
  PROVE  NoneStored(Bad)'
BY DEF Delete, NoneStored, Entry

LEMMA FreshStoresNone ==
  ASSUME NEW Bad, Bad \subseteq Values, NoValue \notin Values, FreshGuard
  PROVE  NoneStored(Bad)
BY DEF FreshGuard, NoneStored, Entry

LEMMA HistoryStoresNone ==
  ASSUME NEW Bad, KeepsOut(Bad), HistoryInv, NoneStored(Bad), [HistoryNext]_historyVars
  PROVE  NoneStored(Bad)'
<1>1. Bad \subseteq Values /\ NoValue \notin Values /\ Redacted \in [Values -> Values]
  BY HistoryKeysAssumption DEF KeepsOut
<1>2. CountKey \in Keys /\ \A n \in 0 .. Capacity : n \in Values
  BY HistoryKeysAssumption
<1>3. HistoryTypeOK /\ UnderWay /\ Count \in Nat /\ Capacity \in Nat
  BY CountFacts DEF HistoryInv
<1>4. ASSUME UNCHANGED store PROVE NoneStored(Bad)'
  BY <1>4 DEF NoneStored
<1>5. ASSUME NEW n \in 0 .. Capacity, NEW out \in WriteAnswers[CountKey][n],
             Write(CountKey, n, out)
      PROVE  NoneStored(Bad)'
  BY <1>1, <1>2, <1>5, WriteStoresNone
<1>6. CASE BuildHistory \/ ClearResetsCount
  <2>1. 0 \in 0 .. Capacity
    BY <1>3
  <2> QED
    BY <1>5, <1>6, <2>1 DEF BuildHistory, ClearResetsCount
<1>7. CASE ClearBegins \/ \E m \in Messages : AddBegins(m)
  BY <1>4, <1>7 DEF ClearBegins, AddBegins
<1>8. CASE AddWritesMessage
  <2>1. /\ historyCall.message \in Messages /\ historyCall.at = Count /\ Count < Capacity
    BY <1>3, <1>8 DEF AddWritesMessage, UnderWay
  <2>2. historyCall.message \in Values /\ historyCall.at \in 0 .. Capacity - 1
    BY <1>3, <2>1, HistoryKeysAssumption
  <2>3. MessageKey[historyCall.at] \in Keys
    BY <1>3, <2>2, CountFacts
  <2> QED
    BY <1>1, <1>8, <2>2, <2>3, WriteStoresNone DEF AddWritesMessage
<1>9. CASE AddWritesCount
  <2>1. historyCall.at = Count /\ Count < Capacity
    BY <1>3, <1>9 DEF AddWritesCount, UnderWay
  <2>2. historyCall.at + 1 \in 0 .. Capacity
    BY <1>3, <2>1
  <2> QED
    BY <1>5, <1>9, <2>2 DEF AddWritesCount
<1>10. CASE ClearDeletes
  <2>1. historyCall.at \in 0 .. Capacity - 1
    BY <1>3, <1>10, CountFacts DEF ClearDeletes, UnderWay, HistoryTypeOK, HistoryCall
  <2>2. MessageKey[historyCall.at] \in Keys
    BY <1>3, <2>1, CountFacts
  <2> QED
    BY <1>1, <1>10, <2>2, DeleteStoresNone DEF ClearDeletes
<1>11. CASE UNCHANGED historyVars
  BY <1>4, <1>11 DEF historyVars
<1> QED
  BY <1>6, <1>7, <1>8, <1>9, <1>10, <1>11 DEF HistoryNext, HistoryStep

\* What is shown is in the store.
LEMMA ShownIsStored ==
  ASSUME HistoryInv, NEW n \in DOMAIN Shown
  PROVE  \E k \in Keys : Shown[n] = store[k]
<1>1. PICK c \in Nat : c = Count /\ c \in 0 .. Capacity
  BY CountFacts DEF HistoryInv
<1>2. PICK g \in 0 .. c : NumberedIn(store, c) = g .. c - 1
  BY <1>1 DEF HistoryInv, FirstAreMissing
<1>3. Shown = From(store, g, c)
  BY <1>1, <1>2, ShownListed, ListedFrom
<1>4. n \in 1 .. c - g /\ Shown[n] = store[MessageKey[g + n - 1]]
  BY <1>3 DEF From
<1>5. g + n - 1 \in 0 .. Capacity - 1
  BY <1>1, <1>4, HistoryKeysAssumption
<1>6. MessageKey[g + n - 1] \in Keys
  BY <1>5, CountFacts DEF HistoryInv
<1> QED
  BY <1>4, <1>6

\* The messages a LangChain agent is shown are none of those the guard holds
\* back: with AnswersHold, no message with a secret or an injection, over any
\* sequence of add and clear, cut short or not.
THEOREM HistoryShowsNone ==
  ASSUME NEW Bad, KeepsOut(Bad),
         \A i \in 0 .. Capacity - 1 : MessageKey[i] \notin Undeletable
  PROVE  HistorySpec => [](\A n \in DOMAIN Shown : Shown[n] \notin Bad)
<1> DEFINE Inv == HistoryInv /\ NoneStored(Bad)
<1>1. HistoryInit => Inv
  <2>1. Bad \subseteq Values /\ NoValue \notin Values
    BY HistoryKeysAssumption DEF KeepsOut
  <2> QED
    BY <2>1, InitHistory, FreshStoresNone DEF HistoryInit
<1>2. Inv /\ [HistoryNext]_historyVars => Inv'
  BY StepHistory, HistoryStoresNone
<1>3. Inv => \A n \in DOMAIN Shown : Shown[n] \notin Bad
  BY ShownIsStored DEF NoneStored
<1> QED
  BY <1>1, <1>2, <1>3, PTL DEF HistorySpec

\* The conversation a LlamaIndex agent reads back has no message the guard holds
\* back, although it is kept in a store the guard does not screen.  No secret is
\* meant: the guard redacts those, and the wrapped store gets them as they came.
THEOREM ConversationHasNone ==
  ASSUME NEW Bad, HeldBack(Bad), \A turns \in TurnLists : Len(turns) <= Room
  PROVE  StoreSpec => [](\A i \in DOMAIN inner : inner[i] \notin Bad)
<1> DEFINE NoneAccepted ==
      /\ accepted \cap Bad = {}
      /\ storeCall.step = "set" => storeCall.turns \in TurnLists
<1>1. ASSUME NEW k \in Keys, NEW m, NEW out \in WriteAnswers[k][m], Screened(m, out),
             NoneAccepted
      PROVE  accepted' \cap Bad = {}
  BY <1>1 DEF Screened, LetThrough, HeldBack
<1>2. StoreInv /\ NoneAccepted /\ [StoreNext]_storeVars => NoneAccepted'
  <2> SUFFICES ASSUME StoreInv, NoneAccepted, [StoreNext]_storeVars PROVE NoneAccepted'
    OBVIOUS
  <2>1. NoStoreCall.step = "none"
    BY DEF NoStoreCall
  <2>2. storeCall \in StoreCall
    BY DEF StoreInv
  <2>3. ASSUME UNCHANGED accepted,
               UNCHANGED storeCall \/ storeCall' = NoStoreCall
        PROVE  NoneAccepted'
    BY <2>1, <2>3
  <2>4. ASSUME NEW turns \in TurnLists, SetBegins(turns) PROVE NoneAccepted'
    <3>1. storeCall'.turns = turns /\ accepted' = accepted
      BY <2>4 DEF SetBegins, NoStoreCall
    <3> QED
      BY <3>1
  <2>5. CASE SetWrites
    <3>1. /\ storeCall.at \in Nat \ {0} /\ storeCall.turns \in TurnLists
          /\ storeCall.at <= Len(storeCall.turns)
      BY <2>2, <2>5 DEF SetWrites, StoreCall
    <3>2. Len(storeCall.turns) <= Room /\ Len(storeCall.turns) \in Nat
      BY <2>2, <3>1 DEF StoreCall
    <3>3. storeCall.at - 1 \in 0 .. Room - 1
      BY <3>1, <3>2, StoreKeysAssumption
    <3>4. ItemKey[storeCall.at - 1] \in Keys
      BY <3>3, StoreKeysAssumption
    <3>5. accepted' \cap Bad = {}
      BY <1>1, <2>5, <3>4 DEF SetWrites
    <3>6. storeCall'.turns = storeCall.turns \/ storeCall' = NoStoreCall
      BY <2>2, <2>5 DEF SetWrites, StoreCall
    <3> QED
      BY <2>1, <3>1, <3>5, <3>6
  <2>6. ASSUME NEW m \in Turns, AddTurn(m) PROVE NoneAccepted'
    <3>1. accepted' \cap Bad = {}
      BY <1>1, <2>6, StoreKeysAssumption DEF AddTurn
    <3>2. storeCall'.step # "set"
      BY <2>6 DEF AddTurn, NoStoreCall
    <3> QED
      BY <3>1, <3>2
  <2>7. CASE SetStores \/ AddStores \/ DeleteConversation
             \/ \E i \in DOMAIN ItemKey : DeleteTurn(i)
    BY <2>3, <2>7 DEF SetStores, AddStores, DeleteConversation, DeleteTurn
  <2>8. CASE UNCHANGED storeVars
    BY <2>3, <2>8 DEF storeVars
  <2> QED
    BY <2>4, <2>5, <2>6, <2>7, <2>8 DEF StoreNext
<1>3. StoreInit => NoneAccepted
  BY DEF StoreInit, NoStoreCall
<1>4. StoreInv /\ NoneAccepted => \A i \in DOMAIN inner : inner[i] \notin Bad
  BY DEF StoreInv
<1> QED
  BY <1>2, <1>3, <1>4, InitStore, StepStore, PTL DEF StoreSpec

\* The memory a CrewAI agent's searches go to gets nothing the guard holds back:
\* what there is of it was there before.
THEOREM CrewGetsNone ==
  ASSUME NEW Bad, HeldBack(Bad)
  PROVE  CrewSpec => [](\A n \in Names : memory[n] \in Bad => memory[n] = Found0[n])
<1> DEFINE OldOnly == \A n \in Names : memory[n] \in Bad => memory[n] = Found0[n]
           Got == OldOnly /\ (crewCall.step = "write" => crewCall.note \notin Bad)
<1>1. CrewInv /\ Got /\ [CrewNext]_crewVars => Got'
  <2> SUFFICES ASSUME CrewInv, Got, [CrewNext]_crewVars PROVE Got'
    OBVIOUS
  <2>1. /\ memory \in [Names -> Notes \cup {NoValue}] /\ crewCall \in CrewCall
        /\ NoCrewCall.step = "none" /\ NoValue \notin Bad
        /\ \A n \in Names : AgentKey[n] \in Keys
    BY CrewKeysAssumption DEF CrewInv, CrewTypeOK, NoCrewCall, HeldBack
  <2>2. ASSUME UNCHANGED memory,
               crewCall'.step # "write" \/ UNCHANGED crewCall
        PROVE  Got'
    BY <2>2
  <2>3. ASSUME NEW n \in Names, NEW note \in Notes, WriteNote(n, note) PROVE Got'
    <3>1. PICK out \in WriteAnswers[AgentKey[n]][note] :
            IF out \in {"allow", "redact"}
            THEN crewCall' = [NoCrewCall EXCEPT !.step = "write", !.names = {n},
                                                !.note = note]
            ELSE UNCHANGED crewCall
      BY <2>3 DEF WriteNote
    <3>2. UNCHANGED memory
      BY <2>3 DEF WriteNote
    <3>3. CASE out \in {"allow", "redact"}
      <4>1. note \notin Bad
        BY <2>1, <3>1, <3>3 DEF HeldBack
      <4>2. crewCall'.note = note
        BY <3>1, <3>3 DEF NoCrewCall
      <4> QED
        BY <3>2, <4>1, <4>2
    <3> QED
      BY <2>2, <3>1, <3>2, <3>3
  <2>4. CASE WriteThrough
    <3>1. /\ memory' = [n \in Names |->
                          IF n \in crewCall.names THEN crewCall.note ELSE memory[n]]
          /\ crewCall.note \notin Bad /\ crewCall'.step = "none"
      BY <2>1, <2>4 DEF WriteThrough
    <3> QED
      BY <3>1
  <2>5. ASSUME NEW n \in Names, Forget(n), crewCall'.step # "write" \/ UNCHANGED crewCall
        PROVE  Got'
    <3>1. memory' = memory \/ memory' = [memory EXCEPT ![n] = NoValue]
      BY <2>5 DEF Forget
    <3>2. OldOnly'
      BY <2>1, <3>1
    <3> QED
      BY <2>5, <3>2
  <2>6. ASSUME NEW n \in Names, DeleteNote(n) \/ ClearNote(n) PROVE Got'
    <3>1. crewCall'.step = crewCall.step \/ UNCHANGED crewCall
      BY <2>1, <2>6 DEF DeleteNote, ClearNote, CrewCall
    <3>2. UNCHANGED crewCall \/ crewCall.step = "clear"
      BY <2>6 DEF DeleteNote, ClearNote
    <3> QED
      BY <2>5, <2>6, <3>1, <3>2 DEF DeleteNote, ClearNote
  <2>7. ASSUME NEW n \in Names, SearchScreens(n) PROVE Got'
    <3>1. crewCall'.step = "search"
      BY <2>1, <2>7 DEF SearchScreens, CrewCall
    <3> QED
      BY <2>2, <2>7, <3>1 DEF SearchScreens
  <2>8. CASE (\E k \in Keys : ReadNote(k))
             \/ \E k \in CallbackKeys, text \in Notes : Callback(k, text)
    BY <2>2, <2>8 DEF ReadNote, Callback
  <2>9. CASE ClearNotes \/ ClearReturns \/ SearchReturns
             \/ \E found \in SUBSET { n \in Names : memory[n] # NoValue } : Search(found)
    <3>1. UNCHANGED memory
      BY <2>9 DEF ClearNotes, ClearReturns, SearchReturns, Search
    <3>2. ASSUME NEW names, NEW step, step # "write",
                 crewCall' = [NoCrewCall EXCEPT !.step = step, !.names = names]
          PROVE  crewCall'.step # "write"
      BY <3>2 DEF NoCrewCall
    <3>3. CASE ClearNotes
      BY <2>2, <3>1, <3>2, <3>3 DEF ClearNotes
    <3>4. CASE ClearReturns \/ SearchReturns
      BY <2>1, <2>2, <3>1, <3>4 DEF ClearReturns, SearchReturns
    <3>5. CASE \E found \in SUBSET { n \in Names : memory[n] # NoValue } : Search(found)
      BY <2>2, <3>1, <3>2, <3>5 DEF Search
    <3> QED
      BY <2>9, <3>3, <3>4, <3>5
  <2>10. CASE UNCHANGED crewVars
    BY <2>2, <2>10 DEF crewVars
  <2> QED
    BY <2>3, <2>4, <2>6, <2>7, <2>8, <2>9, <2>10 DEF CrewNext
<1>2. CrewInit => Got
  BY DEF CrewInit, NoCrewCall
<1> HIDE DEF OldOnly
<1> QED
  BY <1>1, <1>2, InitCrew, StepCrew, PTL DEF CrewSpec, OldOnly

=============================================================================
