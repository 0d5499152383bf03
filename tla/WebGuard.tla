------------------------------ MODULE WebGuard ------------------------------
(***************************************************************************)
(* FastAPIGuard (middleware.py), an ASGI middleware: it takes the first    *)
(* message of a request itself, has its body scanned, and plays it back to *)
(* the application.  A client sends its body in one or more messages, all  *)
(* but the last with more_body, and may disconnect.                        *)
(***************************************************************************)
EXTENDS ScanApi

CONSTANTS
    Requests,           \* what clients send, see Request
    Undecodable,        \* bodies that are no UTF-8
    BlockOnThreat

VARIABLES
    request,            \* the request being served
    unread,             \* what of its messages nobody has received yet
    chunks,             \* body_chunks, to be played back
    phase,              \* "idle", "wrapped", "app", "served"
    status,             \* of the response, 0 before there is one
    refusal,            \* the 403: "none", "sent", or "broken" when a send raised
    appGot              \* the bodies the application has received

webVars == <<request, unread, chunks, phase, status, refusal, appGot>>

Request == [http : BOOLEAN, path : Paths, messages : Seq(ApiTexts \cup {"disconnect"})]

Disconnect == "disconnect"

\* A client that has gone sends nothing more.
ASSUME WebAssumption ==
    /\ Requests \subseteq Request
    /\ Disconnect \notin ApiTexts
    /\ \A r \in Requests : \A i \in DOMAIN r.messages :
          r.messages[i] = Disconnect => i = Len(r.messages)
    /\ BlockOnThreat \in BOOLEAN

\* receive(): after its last message a client has nothing but a disconnect.
NextMessage == IF unread = <<>> THEN Disconnect ELSE unread[1]
AfterMessage == IF unread = <<>> THEN <<>> ELSE Tail(unread)

Arrive(r) ==
    /\ phase = "idle"
    /\ request' = r
    /\ unread' = r.messages
    /\ chunks' = <<>>
    /\ appGot' = <<>>
    /\ status' = 0
    /\ refusal' = "none"
    /\ phase' = IF r.http /\ r.path \in GuardedPaths THEN "wrapped" ELSE "app"

\* What the try block makes of the first message: every exception, the scan's
\* among them, is passed over.
IsRefused(body) ==
    /\ body \notin Undecodable
    /\ ScanOf(body).out = "result"
    /\ ~ScanOf(body).safe
    /\ BlockOnThreat

\* Mutant: the 403 is sent and the application called all the same.
RefuseBoth == phase' = "app" /\ status' = 403 /\ refusal' = "sent"

\* The start and the body of the 403 are two awaits of send.  If the first raises no
\* response has begun, if the second does one has; both are inside the try, and
\* with the exception passed over the application is called.
Refuse ==
    \/ phase' = "served" /\ status' = 403 /\ refusal' = "sent"
    \/ phase' = "app" /\ status' \in {0, 403} /\ refusal' = "broken"

Intercept ==
    /\ phase = "wrapped"
    /\ unread' = AfterMessage
    /\ chunks' = IF NextMessage = Disconnect THEN chunks ELSE <<NextMessage>>
    /\ IF NextMessage # Disconnect /\ IsRefused(NextMessage) THEN Refuse
       ELSE phase' = "app" /\ UNCHANGED <<status, refusal>>
    /\ UNCHANGED <<request, appGot>>

\* The application has its whole body once a message comes without more_body;
\* what is played back has none.  A response that has begun keeps its status.
Answered ==
    /\ phase' = "served"
    /\ status' = IF status = 0 THEN 200 ELSE status
    /\ UNCHANGED refusal

\* Mutant: the application reads on from the client.
ReplayForgotten ==
    /\ phase = "app" /\ chunks # <<>>
    /\ chunks' = <<>>
    /\ UNCHANGED <<phase, status, refusal, request, unread, appGot>>

ReceiveReplayed ==
    /\ phase = "app" /\ chunks # <<>>
    /\ appGot' = Append(appGot, chunks[1])
    /\ chunks' = Tail(chunks)
    /\ Answered
    /\ UNCHANGED <<request, unread>>

\* Mutant: the application waits on when the client is gone.
ReceiveIgnoringDisconnect ==
    /\ phase = "app" /\ chunks = <<>>
    /\ unread # <<>>
    /\ unread' = AfterMessage
    /\ IF NextMessage = Disconnect
       THEN UNCHANGED <<phase, status, refusal, appGot>>
       ELSE /\ appGot' = Append(appGot, NextMessage)
            /\ IF Len(unread) = 1 THEN Answered ELSE UNCHANGED <<phase, status, refusal>>
    /\ UNCHANGED <<request, chunks>>

ReceiveDirect ==
    /\ phase = "app" /\ chunks = <<>>
    /\ unread' = AfterMessage
    /\ IF NextMessage = Disconnect
       THEN phase' = "served" /\ UNCHANGED <<status, refusal, appGot>>
       ELSE /\ appGot' = Append(appGot, NextMessage)
            /\ IF Len(unread) = 1 THEN Answered ELSE UNCHANGED <<phase, status, refusal>>
    /\ UNCHANGED <<request, chunks>>

NextRequest ==
    /\ phase = "served"
    /\ phase' = "idle"
    /\ UNCHANGED <<request, unread, chunks, status, refusal, appGot>>

WebInit ==
    /\ request = [http |-> FALSE, path |-> NoPath, messages |-> <<>>]
    /\ unread = <<>> /\ chunks = <<>> /\ appGot = <<>>
    /\ phase = "idle" /\ status = 0 /\ refusal = "none"

WebNext ==
    \/ \E r \in Requests : Arrive(r)
    \/ Intercept \/ ReceiveReplayed \/ ReceiveDirect \/ NextRequest

-----------------------------------------------------------------------------

Guarded == request.http /\ request.path \in GuardedPaths

\* What the application takes for the body is a prefix of what the client sent,
\* in order and nothing twice; and with a path nobody guards it is all of it,
\* unless the client went away.
AppReadsPrefix ==
    /\ Len(appGot) <= Len(request.messages)
    /\ \A i \in DOMAIN appGot : appGot[i] = request.messages[i]
    /\ phase = "served" /\ status = 200 /\ ~Guarded => appGot = request.messages

\* What goes past the guard with a threat in it or without having been looked at:
\* a body that is no UTF-8, every body while the detectors raise, and one whose
\* refusal could not be sent.
GoesPast(body) == body \in Undecodable \/ DetectRaises \/ refusal = "broken"

\* On a guarded path with blocking the application is given at most the first message,
\* and gets to see one exactly when nothing is found in it or it goes past the guard;
\* a refusal that went out is the end of the request.
RefusedUnseen ==
    /\ refusal = "sent" => status = 403 /\ phase # "app" /\ appGot = <<>>
    /\ Guarded /\ BlockOnThreat =>
          /\ Len(appGot) <= 1
          /\ phase = "served" /\ request.messages # <<>> /\ request.messages[1] # Disconnect =>
                (appGot = <<request.messages[1]>> <=>
                    \/ Detects(request.messages[1]) = {}
                    \/ GoesPast(request.messages[1]))

\* What an application behind either guard sees, and that it is unchanged: what
\* passed the scan and, of the ASGI guard, what goes past it.
AppSeesWhatPassed == AppReadsPrefix /\ RefusedUnseen /\ FlaskFailsClosed

\* Every request is served in the end, refused, answered or given up.
Served == phase \in {"wrapped", "app"} ~> phase = "served"
=============================================================================
