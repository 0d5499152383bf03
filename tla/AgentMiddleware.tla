-------------------------- MODULE AgentMiddleware --------------------------
(***************************************************************************)
(* langchain_agent_memory_guard/middleware.py: one middleware object, with *)
(* one guard, is called from several threads (an agent runs the tools of a *)
(* turn in parallel, and agents may share it).  A text is screened by two  *)
(* calls of the guard, a write and a delete of the same key, which other   *)
(* threads may come between.                                               *)
(***************************************************************************)
EXTENDS ScanGuard

CONSTANTS
    Threads,
    Empty,              \* a message without content, which is not screened
    InputKey, OutputKey,     \* __scan__model_input, __scan__model_output
    ToolKeys,           \* __scan__tool_output[<tool>]
    MessageLists,       \* the conversations before_model is given
    MaxCalls            \* bound on the calls made

VARIABLES
    mode,               \* on_violation
    violationCount,     \* _violation_count
    thread,             \* the call each thread is in
    calls               \* how many calls were made, for the bound

ASSUME MiddlewareAssumption ==
    /\ Empty \notin Texts
    /\ {InputKey, OutputKey} \cup ToolKeys \subseteq ScanKeys
    /\ MessageLists \subseteq Seq(Texts \cup {Empty})

middlewareVars == <<scanVars, mode, violationCount, thread, calls>>

\* A call: what is still to be screened (texts), what the call will hand on
\* (out), and the count it has read (seen).
NewCall(step, hook, key, texts) ==
    [step |-> step, hook |-> hook, key |-> key, texts |-> texts,
     out |-> <<>>, seen |-> 0]

Resting == NewCall("rest", "none", InputKey, <<>>)

Current(t) == Head(thread[t].texts)

\* The current text of a call is done with: handed on as `outs`, a sequence.
Done(call, outs) ==
    [call EXCEPT !.step = "next", !.texts = Tail(@), !.out = @ \o outs]

Proceeds(t, outs) == thread' = [thread EXCEPT ![t] = Done(@, outs)]

Calls(t, hook, key, texts) ==
    /\ thread[t].step = "rest"
    /\ calls < MaxCalls
    /\ calls' = calls + 1
    /\ thread' = [thread EXCEPT ![t] = NewCall("next", hook, key, texts)]
    /\ UNCHANGED <<scanVars, mode, violationCount>>

\* before_model screens the conversation, after_model the model's message.
\* wrap_tool_call and awrap_tool_call screen what the tool returned.
BeforeModel(t) == \E texts \in MessageLists : Calls(t, "before_model", InputKey, texts)

AfterModel(t) == \E m \in Texts : Calls(t, "after_model", OutputKey, <<m>>)

WrapToolCall(t) ==
    \E k \in ToolKeys, m \in Texts \cup {Empty} : Calls(t, "wrap_tool_call", k, <<m>>)

SkipsEmpty(t) ==
    /\ thread[t].step = "next"
    /\ thread[t].texts # <<>>
    /\ Current(t) = Empty
    /\ Proceeds(t, <<Empty>>)
    /\ UNCHANGED <<scanVars, mode, violationCount, calls>>

\* Mutant: a write held back by the guard is a violation as well.
VerdictOfAction(decision) ==
    IF decision \in {"allow", "redact"} THEN "delete" ELSE "unsafe"

\* _check_content: unsafe is what raises PolicyViolation.
Verdict(decision) == IF decision = "block" THEN "unsafe" ELSE "delete"

Judged(call) ==
    [call EXCEPT !.step = Verdict(ScanDecision(call.key, Head(call.texts)))]

ScanWrites(t) ==
    /\ thread[t].step = "next"
    /\ thread[t].texts # <<>>
    /\ Current(t) # Empty
    /\ ScanWrite(thread[t].key, Current(t))
    /\ thread' = [thread EXCEPT ![t] = Judged(@)]
    /\ UNCHANGED <<mode, violationCount, calls>>

\* Mutant: only a text allowed as it is gets cleaned up.
ScanDeletesAllowed(t) ==
    /\ thread[t].step = "delete"
    /\ IF Content[Current(t)] = {} THEN ScanDelete(thread[t].key)
       ELSE UNCHANGED scanVars
    /\ Proceeds(t, <<Current(t)>>)
    /\ UNCHANGED <<mode, violationCount, calls>>

ScanDeletes(t) ==
    /\ thread[t].step = "delete"
    /\ ScanDelete(thread[t].key)
    /\ Proceeds(t, <<Current(t)>>)
    /\ UNCHANGED <<mode, violationCount, calls>>

\* `self._violation_count += 1` reads and then writes.
CountsViolation(t) ==
    /\ thread[t].step = "unsafe"
    /\ thread' = [thread EXCEPT ![t] =
                     [@ EXCEPT !.step = "violation", !.seen = violationCount]]
    /\ UNCHANGED <<scanVars, mode, violationCount, calls>>

\* Mutant: only blocking mode acts on a violation.
HandsOnUnlessRaised(t) == <<Current(t)>>

\* What is handed on of a text found unsafe, when nothing is raised: after_model
\* has nothing to strip from, wrap_tool_call puts a notice in its place.
HandsOn(t) ==
    IF mode = "warn" \/ thread[t].hook = "after_model" THEN <<Current(t)>>
    ELSE IF thread[t].hook = "before_model" THEN <<>> ELSE <<Empty>>

HandlesViolation(t) ==
    /\ thread[t].step = "violation"
    /\ violationCount' = thread[t].seen + 1
    /\ IF mode = "block" THEN thread' = [thread EXCEPT ![t] = Resting]
       ELSE Proceeds(t, HandsOn(t))
    /\ UNCHANGED <<scanVars, mode, calls>>

CallReturns(t) ==
    /\ thread[t].step = "next"
    /\ thread[t].texts = <<>>
    /\ thread' = [thread EXCEPT ![t] = Resting]
    /\ UNCHANGED <<scanVars, mode, violationCount, calls>>

MiddlewareInit ==
    /\ ScanInit
    /\ mode \in {"block", "warn", "strip"}
    /\ violationCount = 0
    /\ thread = [t \in Threads |-> Resting]
    /\ calls = 0

ThreadStep(t) ==
    \/ SkipsEmpty(t) \/ ScanWrites(t) \/ ScanDeletes(t)
    \/ CountsViolation(t) \/ HandlesViolation(t) \/ CallReturns(t)

MiddlewareNext ==
    \E t \in Threads :
        BeforeModel(t) \/ AfterModel(t) \/ WrapToolCall(t) \/ ThreadStep(t)

-----------------------------------------------------------------------------

\* A text is found unsafe when its own content is what the policy blocks, and
\* only then: sizes and rates of the texts screened before it under the same key,
\* and the texts other threads are screening, decide nothing (_check_content).
VerdictIsOwn ==
    \A t \in Threads :
        /\ thread[t].step = "unsafe" => Unsafe(Current(t), thread[t].key)
        /\ thread[t].step = "delete" => ~Unsafe(Current(t), thread[t].key)

\* "We use a temporary key to test the content without persisting it": with no
\* call in progress the guard's store is empty, however the writes and deletes
\* of one key by several threads fell (_check_content).
NothingKept ==
    (\A t \in Threads : thread[t].step = "rest") =>
        \A k \in ToolKeys \cup {InputKey, OutputKey} : held[k] = NoText

\* A call that returns hands on nothing unsafe, in the modes that promise it;
\* after_model in strip mode does not (HandlesViolation).
NothingUnsafeHandedOn ==
    \A t \in Threads : \A i \in DOMAIN thread[t].out :
        \/ mode = "warn"
        \/ mode = "strip" /\ thread[t].hook = "after_model"
        \/ thread[t].out[i] = Empty
        \/ ~Unsafe(thread[t].out[i], thread[t].key)

=============================================================================
