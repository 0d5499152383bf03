----------------------------- MODULE MessageLog -----------------------------
(***************************************************************************)
(* What a chat history promises whoever adds messages to it one at a time: *)
(* a log.  A message being added joins the end of the log, as it is or     *)
(* redacted, or is lost; the log otherwise changes only by forgetting from *)
(* its old end.  ChatHistory implements it with the list `messages`        *)
(* returns.                                                                *)
(***************************************************************************)
EXTENDS Naturals, Sequences

CONSTANTS Messages, Texts, NoMessage, Redacted

VARIABLES log, adding

Begin(m) ==
    /\ adding = NoMessage
    /\ adding' = m
    /\ UNCHANGED log

Accept ==
    /\ adding # NoMessage
    /\ \E text \in {adding, Redacted[adding]} : log' = Append(log, text)
    /\ adding' = NoMessage

Lose ==
    /\ adding # NoMessage
    /\ adding' = NoMessage
    /\ UNCHANGED log

Forget ==
    /\ adding = NoMessage
    /\ \E n \in 1 .. Len(log) : log' = SubSeq(log, n + 1, Len(log))
    /\ UNCHANGED adding

Init == adding = NoMessage /\ log \in Seq(Texts)

Next == (\E m \in Messages : Begin(m)) \/ Accept \/ Lose \/ Forget

Spec == Init /\ [][Next]_<<log, adding>>

=============================================================================
