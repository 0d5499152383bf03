---------------------------- MODULE ChatHistory ----------------------------
(***************************************************************************)
(* integrations/langchain.py: GuardedChatMessageHistory keeps a session in *)
(* the store of a guard, one key per message and one for their number.  A  *)
(* call makes several calls to the guard, each of which may be refused:    *)
(* every step below is one of them.  drop_blocked only decides whether a   *)
(* refused message is reported, and is left out.                           *)
(***************************************************************************)
EXTENDS GuardFacade, FiniteSets

CONSTANTS
    Messages, NoMessage,
    CountKey,          \* messages.<session>.__count__
    MessageKey,        \* i -> messages.<session>.<i>
    Capacity           \* bound: no message is added beyond this number

VARIABLE historyCall   \* the call in progress: its step, index and message

ASSUME HistoryKeysAssumption ==
    /\ Capacity \in Nat
    /\ MessageKey \in [0 .. Capacity - 1 -> Keys \ {CountKey}]
    /\ \A i, j \in 0 .. Capacity - 1 : MessageKey[i] = MessageKey[j] => i = j
    /\ CountKey \in Keys
    /\ 0 .. Capacity \subseteq Values
    /\ \A n \in 0 .. Capacity : "redact" \notin WriteAnswers[CountKey][n]
    /\ NoValue \notin Values /\ Redacted \in [Values -> Values]
    /\ Messages \subseteq Values \ {NoMessage}

NoHistoryCall == [step |-> "none", at |-> 0, upto |-> 0, message |-> NoMessage]

\* self.guard.read(self._index_key, 0) or 0
Count == IF Stored(CountKey) THEN store[CountKey] ELSE 0

\* The numbers of the messages there are.
Numbered == { i \in 0 .. Count - 1 : Stored(MessageKey[i]) }

\* The list `messages` returns: missing messages are skipped.
Shown ==
    [n \in 1 .. Cardinality(Numbered) |->
        store[MessageKey[CHOOSE i \in Numbered :
                            Cardinality({ j \in Numbered : j <= i }) = n]]]

\* __init__, of the first and of any later object for the session.
BuildHistory ==
    /\ historyCall.step = "none"
    /\ ~Stored(CountKey)
    /\ \E out \in WriteAnswers[CountKey][0] : Write(CountKey, 0, out)
    /\ UNCHANGED historyCall

\* add_message: the message is written, then the count.
AddBegins(m) ==
    /\ historyCall.step = "none"
    /\ Count < Capacity
    /\ historyCall' = [NoHistoryCall EXCEPT !.step = "message", !.at = Count,
                                            !.message = m]
    /\ UNCHANGED <<store, last>>

\* Mutant: a message held back counts as well.
AddWritesMessageHeld ==
    /\ historyCall.step = "message"
    /\ LET k == MessageKey[historyCall.at]
       IN  \E out \in WriteAnswers[k][historyCall.message] :
              /\ Write(k, historyCall.message, out)
              /\ historyCall' = IF out # "block"
                                THEN [historyCall EXCEPT !.step = "count"]
                                ELSE NoHistoryCall

\* A message that is blocked or quarantined does not count.
AddWritesMessage ==
    /\ historyCall.step = "message"
    /\ LET k == MessageKey[historyCall.at]
       IN  \E out \in WriteAnswers[k][historyCall.message] :
              /\ Write(k, historyCall.message, out)
              /\ historyCall' = IF out \in {"allow", "redact"}
                                THEN [historyCall EXCEPT !.step = "count"]
                                ELSE NoHistoryCall

\* The answer to the write of the count is not looked at: when it is held back
\* the next message takes the same key.
AddWritesCount ==
    /\ historyCall.step = "count"
    /\ \E out \in WriteAnswers[CountKey][historyCall.at + 1] :
          Write(CountKey, historyCall.at + 1, out)
    /\ historyCall' = NoHistoryCall

\* clear: the messages are deleted from the first to the last, then the count
\* is reset.
ClearBegins ==
    /\ historyCall.step = "none"
    /\ historyCall' = [NoHistoryCall EXCEPT !.step = "clear", !.upto = Count]
    /\ UNCHANGED <<store, last>>

ClearDeletes ==
    /\ historyCall.step = "clear"
    /\ historyCall.at < historyCall.upto
    /\ Delete(MessageKey[historyCall.at])
    /\ historyCall' = [historyCall EXCEPT !.at = @ + 1]

ClearResetsCount ==
    /\ historyCall.step = "clear"
    /\ historyCall.at = historyCall.upto
    /\ \E out \in WriteAnswers[CountKey][0] : Write(CountKey, 0, out)
    /\ historyCall' = NoHistoryCall

HistoryInit ==
    /\ FreshGuard
    /\ historyCall = NoHistoryCall

\* The steps of a call in progress.
HistoryStep ==
    \/ AddWritesMessage
    \/ AddWritesCount
    \/ ClearDeletes
    \/ ClearResetsCount

HistoryNext ==
    \/ BuildHistory
    \/ \E m \in Messages : AddBegins(m)
    \/ ClearBegins
    \/ HistoryStep

historyVars == <<store, last, historyCall>>

HistorySpec == HistoryInit /\ [][HistoryNext]_historyVars

-----------------------------------------------------------------------------

Adding ==
    IF historyCall.step \in {"message", "count"} THEN historyCall.message ELSE NoMessage

History == INSTANCE MessageLog WITH Texts <- Values, log <- Shown, adding <- Adding

\* The history is a log of messages.  Whichever of its writes the guard holds
\* back, and however calls that were cut short are followed by others: a
\* message is shown once its own call put it at the end, or never; the order
\* is that of the calls; what was cleared or overwritten never comes back
\* (add_message, clear and messages of integrations/langchain.py).
HistoryIsLog == History!Spec

=============================================================================
