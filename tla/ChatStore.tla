----------------------------- MODULE ChatStore -----------------------------
(***************************************************************************)
(* integrations/llamaindex.py: GuardedChatStore writes each message to the *)
(* guard and, when the guard takes it, to the chat store it wraps.  The    *)
(* guard is only asked: what is read is the wrapped store, which holds the *)
(* messages as they came, not redacted.  One conversation.                 *)
(***************************************************************************)
EXTENDS GuardFacade, SequencesExt

CONSTANTS
    Turns,             \* the messages
    ItemKey,           \* i -> llamaindex_messages.<conversation>.<i>
    AddKey,            \* llamaindex_messages.<conversation>.add
    ConversationKey,   \* llamaindex_messages.<conversation>
    TurnLists,         \* the lists passed to set_messages
    DropBlocked,       \* drop_blocked
    Room               \* bound on the length of the wrapped conversation

VARIABLES
    inner,             \* the wrapped store's list, oldest first
    storeCall,         \* the call in progress
    accepted           \* history: the messages the guard has let through

storeVars == <<store, last, inner, storeCall, accepted>>

ASSUME StoreKeysAssumption ==
    /\ Room \in Nat
    /\ ItemKey \in [0 .. Room - 1 -> Keys]
    /\ AddKey \in Keys /\ ConversationKey \in Keys
    /\ TurnLists \subseteq Seq(Turns)
    /\ DropBlocked \in BOOLEAN

NoStoreCall == [step |-> "none", turns |-> <<>>, at |-> 1, screened |-> <<>>]

LetThrough(out) == out \in {"allow", "redact"}

\* Mutant: a quarantined message is kept.
TakesUnlessBlocked(out) == out # "block"

\* `decision == Action.QUARANTINE` and the exception leave a message out.
Takes(out) == LetThrough(out)

Screened(m, out) ==
    accepted' = IF LetThrough(out) THEN accepted \cup {m} ELSE accepted

\* set_messages: every message is written, then those taken replace the list;
\* when none is, the old list stays.
SetBegins(turns) ==
    /\ storeCall.step = "none"
    /\ storeCall' = [NoStoreCall EXCEPT !.step = "set", !.turns = turns]
    /\ UNCHANGED <<store, last, inner, accepted>>

\* Mutant: a message is stored as soon as it is taken.
SetWritesThrough ==
    /\ storeCall.step = "set"
    /\ storeCall.at <= Len(storeCall.turns)
    /\ LET m == storeCall.turns[storeCall.at]
           k == ItemKey[storeCall.at - 1]
       IN  \E out \in WriteAnswers[k][m] :
              /\ Write(k, m, out)
              /\ Screened(m, out)
              /\ IF Takes(out)
                 THEN /\ inner' = Append(storeCall.screened, m)
                      /\ storeCall' = [storeCall EXCEPT !.at = @ + 1,
                                                        !.screened = Append(@, m)]
                 ELSE UNCHANGED inner /\ storeCall' = NoStoreCall

SetWrites ==
    /\ storeCall.step = "set"
    /\ storeCall.at <= Len(storeCall.turns)
    /\ LET m == storeCall.turns[storeCall.at]
           k == ItemKey[storeCall.at - 1]
       IN  \E out \in WriteAnswers[k][m] :
              /\ Write(k, m, out)
              /\ Screened(m, out)
              /\ storeCall' =
                   CASE Takes(out) -> [storeCall EXCEPT !.at = @ + 1,
                                                        !.screened = Append(@, m)]
                     [] ~Takes(out) /\ out = "block" /\ ~DropBlocked -> NoStoreCall
                     [] OTHER -> [storeCall EXCEPT !.at = @ + 1]
    /\ UNCHANGED inner

SetStores ==
    /\ storeCall.step = "set"
    /\ storeCall.at > Len(storeCall.turns)
    /\ inner' = IF storeCall.screened # <<>> THEN storeCall.screened ELSE inner
    /\ storeCall' = NoStoreCall
    /\ UNCHANGED <<store, last, accepted>>

\* add_message: all added messages share one key of the guard.
AddTurn(m) ==
    /\ storeCall.step = "none"
    /\ Len(inner) < Room
    /\ \E out \in WriteAnswers[AddKey][m] :
          /\ Write(AddKey, m, out)
          /\ Screened(m, out)
          /\ storeCall' = IF Takes(out)
                          THEN [NoStoreCall EXCEPT !.step = "add", !.turns = <<m>>]
                          ELSE NoStoreCall
    /\ UNCHANGED inner

\* The wrapped store appends, or inserts when given an index.
AddStores ==
    /\ storeCall.step = "add"
    /\ \E i \in 1 .. Len(inner) + 1 : inner' = InsertAt(inner, i, Head(storeCall.turns))
    /\ storeCall' = NoStoreCall
    /\ UNCHANGED <<store, last, accepted>>

\* delete_messages: the guard is asked to delete a key no message is under.
DeleteConversation ==
    /\ storeCall.step = "none"
    /\ Delete(ConversationKey)
    /\ inner' = <<>>
    /\ UNCHANGED <<storeCall, accepted>>

\* delete_message, and delete_last_message with the last index: a refusal of
\* the guard is ignored.
DeleteTurn(i) ==
    /\ storeCall.step = "none"
    /\ Delete(ItemKey[i])
    /\ inner' = IF i < Len(inner) THEN RemoveAt(inner, i + 1) ELSE inner
    /\ UNCHANGED <<storeCall, accepted>>

StoreInit ==
    /\ FreshGuard
    /\ inner = <<>>
    /\ storeCall = NoStoreCall
    /\ accepted = {}

StoreNext ==
    \/ \E turns \in TurnLists : SetBegins(turns)
    \/ SetWrites
    \/ SetStores
    \/ \E m \in Turns : AddTurn(m)
    \/ AddStores
    \/ DeleteConversation
    \/ \E i \in DOMAIN ItemKey : DeleteTurn(i)

StoreSpec == StoreInit /\ [][StoreNext]_storeVars

-----------------------------------------------------------------------------

\* The wrapped store, from which the conversation is read back, only ever holds
\* messages the guard let through, over any sequence of set, add and delete in
\* which some messages of a list are refused (integrations/llamaindex.py).
InnerScreened == \A i \in DOMAIN inner : inner[i] \in accepted

\* A set_messages that raises in the middle of its list has changed nothing of
\* the wrapped conversation, whatever the guard has taken of it by then.
SetIsAllOrNothing ==
    [][inner' # inner /\ storeCall.step = "set" =>
          /\ storeCall.at > Len(storeCall.turns)
          /\ Range(inner') \subseteq Range(storeCall.turns)]_storeVars

=============================================================================
