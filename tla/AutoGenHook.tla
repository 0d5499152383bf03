---------------------------- MODULE AutoGenHook ----------------------------
(***************************************************************************)
(* autogen_agent_memory_guard: MemoryGuardHook screens each message under  *)
(* a key of its own, made of the sender and a running number; a group chat *)
(* and an agent put what it returns in the place of the text they found.   *)
(* A message is a string, a dict with "content" or "text", or an object    *)
(* with .content.                                                          *)
(***************************************************************************)
EXTENDS ScanGuard, Functions

CONSTANTS
    Senders, Messages,
    MessageId,          \* <<sender, number>> -> autogen.<sender>.msg.<number>
    Blank,              \* an empty content, None, or of no known format
    Absent,             \* a field the message does not have
    Notice,             \* the placeholder that replaces a text
    SenderWord,         \* sender -> the category its name reads as
    MaxMessages         \* bound on the messages screened

VARIABLES
    onViolation,        \* on_violation
    totalScans, violationsDetected, messageCounter,
    delivered,          \* the last message, with its number and route, and what
                        \* the agent got for it
    category            \* violation_type of the last violation

Message ==
    [form : {"string", "object"}, content : Texts \cup {Blank}, text : {Absent}]
    \cup [form : {"dict"}, content : Texts \cup {Blank, Absent},
          text : Texts \cup {Blank, Absent}]

ASSUME HookAssumption ==
    /\ MaxMessages \in Nat
    /\ MessageId \in [Senders \X (1 .. MaxMessages) -> ScanKeys]
    /\ \A m, n \in DOMAIN MessageId : MessageId[m] = MessageId[n] => m = n
    /\ Messages \subseteq Message
    /\ {Blank, Absent, Notice} \cap Texts = {}

hookVars == <<scanVars, onViolation, totalScans, violationsDetected,
              messageCounter, delivered, category>>

\* An agent with register_hook has the message replaced by what the hook returns;
\* around one without, the message is changed before it is passed on.
Routes == {"hook", "wrapper"}

\* _extract_content
Extract(message) == IF message.content = Absent THEN message.text ELSE message.content

\* Mutant: the hook leaves an object as it is, too.
WithContentOfStrings(message, new, route) ==
    CASE message.form = "dict" -> [message EXCEPT !.content = new]
      [] message.form = "string" -> [form |-> "string", content |-> new, text |-> Absent]
      [] OTHER -> message

\* Where the new text goes: into "content" of a dict; in the place of a string, and
\* with the hook also of an object, which the wrapper passes on as it is.
WithContent(message, new, route) ==
    CASE message.form = "dict" -> [message EXCEPT !.content = new]
      [] message.form = "string" \/ route = "hook" ->
            [form |-> "string", content |-> new, text |-> Absent]
      [] OTHER -> message

\* Nothing is delivered.
NoMessage == [form |-> "none", content |-> Absent, text |-> Absent]

\* What an agent can read in a message.
Carried(message) == {message.content, message.text} \cap Texts

Delivery(sender, message, route, new) ==
    delivered' =
        [sender |-> sender, number |-> messageCounter', route |-> route, message |-> message,
         got |-> IF new = NoText THEN NoMessage
                 ELSE IF new = Extract(message) THEN message
                 ELSE WithContent(message, new, route)]

\* Mutant: a violation is only reported.
ReplacementNone(text) == text

\* _handle_violation, by mode; NoText: it raises.
Replacement(text) ==
    CASE onViolation = "block" -> NoText
      [] onViolation = "warn" -> text
      [] onViolation \in {"strip", "quarantine"} -> Notice

\* _extract_violation_type looks for words in the text of the exception, which
\* names the key and not the rule.
ViolationType(sender) == SenderWord[sender]

\* scan_message, and _scan_incoming_message, guarded_process or
\* _scan_message_hook around it.
ScanMessage(sender, message, route) ==
    LET text == Extract(message)
        k == MessageId[<<sender, messageCounter + 1>>]
    IN  /\ text \in Texts
        /\ messageCounter < MaxMessages
        /\ messageCounter' = messageCounter + 1
        /\ totalScans' = totalScans + 1
        /\ ScanWrite(k, text)
        /\ IF ScanDecision(k, text) = "block"
           THEN /\ violationsDetected' = violationsDetected + 1
                /\ Delivery(sender, message, route, Replacement(text))
                /\ category' = ViolationType(sender)
           ELSE /\ Delivery(sender, message, route, text)
                /\ UNCHANGED <<violationsDetected, category>>
        /\ UNCHANGED onViolation

\* A message in which no text is found goes on unscreened.
PassBlank(sender, message, route) ==
    /\ Extract(message) \notin Texts
    /\ UNCHANGED <<scanVars, onViolation, totalScans, violationsDetected,
                   messageCounter, category>>
    /\ Delivery(sender, message, route, Extract(message))

\* Mutant: the message number starts again too.
ResetAll ==
    /\ totalScans' = 0 /\ violationsDetected' = 0 /\ messageCounter' = 0
    /\ UNCHANGED <<scanVars, onViolation, delivered, category>>

ResetMetrics ==
    /\ totalScans' = 0
    /\ violationsDetected' = 0
    /\ UNCHANGED <<scanVars, onViolation, messageCounter, delivered, category>>

HookInit ==
    /\ ScanInit
    /\ onViolation \in {"block", "warn", "strip", "quarantine"}
    /\ totalScans = 0 /\ violationsDetected = 0 /\ messageCounter = 0
    /\ delivered = [sender |-> "nobody", number |-> 0, route |-> "hook",
                    message |-> NoMessage, got |-> NoMessage]
    /\ category = "none"

HookNext ==
    \/ \E sender \in Senders, message \in Messages, route \in Routes :
          PassBlank(sender, message, route) \/ ScanMessage(sender, message, route)
    \/ ResetMetrics

-----------------------------------------------------------------------------

\* Every message is screened as if it were the first: no key is used twice, also
\* after reset_metrics, so no verdict rests on earlier messages, and the
\* detectors of growth and rate, which work by key, have nothing to report of
\* texts within MaxBytes.
EveryMessageAfresh == reports \cap Range(MessageId) = {}

\* What screening leaves in a message: nothing is ever taken from under "text",
\* whether it was looked at or stood beside a "content", and the wrapper cannot
\* change an object.
OutOfReach(message, route) ==
    {message.text} \cup IF message.form = "object" /\ route = "wrapper"
                        THEN {message.content} ELSE {}

\* What an agent is given carries no text the policy blocks, except in warn mode
\* and for what is out of reach in strip and quarantine mode; in block mode only
\* what was never looked at gets through (_scan_incoming_message,
\* guarded_process, _scan_message_hook, _handle_violation).
DeliveredIsSafe ==
    onViolation # "warn" =>
        \A text \in Carried(delivered.got) :
            \/ /\ text \in OutOfReach(delivered.message, delivered.route)
               /\ onViolation = "block" => text # Extract(delivered.message)
            \/ ~Unsafe(text, MessageId[<<delivered.sender, delivered.number>>])

=============================================================================
