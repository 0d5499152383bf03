----------------------------- MODULE ScanGuard -----------------------------
(***************************************************************************)
(* The guard inside the message-screening packages (src/integrations): a   *)
(* text is written to have it screened, under a key the package makes up.  *)
(* Whoever screens a text sees only whether the write raised: a write that *)
(* is held back or redacted counts as safe.                                *)
(***************************************************************************)
EXTENDS HistoryDetectors

CONSTANTS
    ScanKeys, Texts, NoText,
    Content             \* text -> findings of the content detectors

VARIABLES
    now,                \* time.monotonic()
    held,               \* the guard's store
    lastSize, writeTimes,    \* what SizeAnomaly and RapidChange remember
    reports             \* history: the keys they have reported something of

scanVars == <<now, held, lastSize, writeTimes, reports>>

ASSUME TextsAssumption ==
    /\ NoText \notin Texts
    /\ Content \in [Texts -> SUBSET Finding]
    /\ Size \in [Texts -> Nat]

HistoryReport(k, text) ==
    SizeFindings(lastSize[k], Size[text]) \cup RapidFindings(writeTimes[k], now)

ScanDecision(k, text) == Decision(Content[text] \cup HistoryReport(k, text), k)

\* guard.write: screened writes are remembered, whatever the decision.
ScanWrite(k, text) ==
    /\ held' = IF ScanDecision(k, text) \in {"allow", "redact"}
               THEN [held EXCEPT ![k] = text] ELSE held
    /\ lastSize' = [lastSize EXCEPT ![k] = Size[text]]
    /\ writeTimes' = [writeTimes EXCEPT ![k] = WritesAfter(@, now)]
    /\ reports' = IF HistoryReport(k, text) # {} THEN reports \cup {k} ELSE reports
    /\ UNCHANGED now

\* Deleting a missing key is no error, and the detectors do not hear of it.
ScanDelete(k) ==
    /\ held' = [held EXCEPT ![k] = NoText]
    /\ UNCHANGED <<now, lastSize, writeTimes, reports>>

ScanTick ==
    /\ now' = now + 1
    /\ UNCHANGED <<held, lastSize, writeTimes, reports>>

ScanInit ==
    /\ now = 0
    /\ held = [k \in ScanKeys |-> NoText]
    /\ lastSize = [k \in ScanKeys |-> 0]
    /\ writeTimes = [k \in ScanKeys |-> <<>>]
    /\ reports = {}

\* A text whose content alone the policy blocks.
Unsafe(text, k) == Decision(Content[text], k) = "block"

=============================================================================
