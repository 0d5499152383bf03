----------------------------- MODULE MCScreens -----------------------------
(***************************************************************************)
(* The two message-screening packages for TLC.  A program uses one of      *)
(* them: which one is chosen at the start.                                 *)
(***************************************************************************)
EXTENDS AgentMiddleware, AutoGenHook

CONSTANTS plain, long, secret, inject,    \* texts
          input, output, tool,            \* keys of the middleware
          bot, user,                      \* senders
          t1, t2                          \* threads

VARIABLE package

MCContent ==
    [m \in {plain, long, secret, inject} |->
        CASE m = secret -> {Found("sensitive_data", SevHigh)}
          [] m = inject -> {Found("prompt_injection", SevHigh)}
          [] OTHER -> {}]

MCSize == [m \in {plain, long, secret, inject} |-> IF m = long THEN 5 ELSE 1]

MCMessageId == [n \in {bot, user} \X (1 .. 3) |-> n]

MCScanKeys == {input, output, tool} \cup { MCMessageId[n] : n \in DOMAIN MCMessageId }

MCLists == {<<inject, plain>>, <<Empty, long, inject>>, <<secret>>}

Says(form, content, field) == [form |-> form, content |-> content, text |-> field]

\* Each text in each place a message may have it, one text under "content" with
\* another under "text", and messages without content.
MCMessages ==
    { Says("string", m, Absent) : m \in {plain, long, secret, inject, Blank} }
    \cup {Says("object", plain, Absent), Says("object", inject, Absent),
          Says("dict", inject, Absent), Says("dict", Absent, inject),
          Says("dict", plain, inject), Says("dict", inject, secret),
          Says("dict", Blank, inject)}

MCNoSimilar == [m \in {plain, long, secret, inject} |-> {m}]

MCSenderWord == [s \in {bot, user} |-> "policy_violation"]

\* The one package's keys start with "__scan__", the other's with "autogen.".
ASSUME ScreensAssumption ==
    ({InputKey, OutputKey} \cup ToolKeys) \cap Range(MessageId) = {}

ScreensInit ==
    /\ package \in {"langchain", "autogen"}
    /\ MiddlewareInit /\ HookInit
    /\ package = "langchain" => onViolation = "block"
    /\ package = "autogen" => mode = "block"

KeepMiddleware == UNCHANGED <<mode, violationCount, thread, calls>>
KeepHook ==
    UNCHANGED <<onViolation, totalScans, violationsDetected, messageCounter,
                delivered, category>>

ScreensNext ==
    /\ UNCHANGED package
    /\ \/ package = "langchain" /\ MiddlewareNext /\ KeepHook
       \/ package = "autogen" /\ HookNext /\ KeepMiddleware
       \/ now < 1 /\ ScanTick /\ KeepMiddleware /\ KeepHook

\* Neither package hands on what the policy blocks, in the modes that promise it.
NothingUnsafeGetsThrough == NothingUnsafeHandedOn /\ DeliveredIsSafe

ScreensSpec == ScreensInit /\ [][ScreensNext]_<<middlewareVars, hookVars, package>>

=============================================================================
