# Agent Memory Guard in TLA+

A TLA+ model of `agent_memory_guard` and of the packages, servers and scanners
around it: a guard that stands between an AI agent and its memory store, screens
what is written and read, keeps the trust and the provenance of every entry, and
can take the store back to an earlier state; the adapters that put frameworks on
top of it; the services that scan text without it; and the static scanners. The
modules are checked with TLC on small instances; the properties that matter most
are proved with TLAPS for every value of the constants.

Paths below are relative to the package, `src/src/agent_memory_guard/`, unless
they begin with `src/`. `PROJECT.json` holds the map from every definition to the
lines it models, the runs, the mutants that show each property can fail, the
hazards and the theorems.

To check a run: `tlc -config GuardTrust.cfg MCGuard.tla` (section 3 names the
module of each). To check proofs: `tlapm GuardProofs.tla`.

## 1. Inventory

### The parts and their state

| part | state | operations | what makes it correct |
|---|---|---|---|
| guard facade, `guard.py` | the store, values held in quarantine, current task, the event log | `write read delete retire_if promote baseline snapshot rollback authorize set_current_task` | nothing unsafe is committed or returned; protected keys keep their contents; a refused call changes nothing its caller sees |
| lineage, `lineage.py` | parents of each key, trust of each key | `record assess set_trust trust ancestry` | the graph is acyclic; derived memory is no more trusted than what it came from |
| classification, `classification.py` | class and origin task of each key | `set get clear`, promotion edges | what came from outside never becomes policy or preference; a preference needs the user's opt-in |
| authority, `authority.py` | none | `evaluate` a tool call against a contract | an argument is filled only by memory trusted enough for its role |
| policy, `policies/policy.py` | none (an immutable rule list) | `decide applies_to`, the `strict`, `permissive` and `tiered` policies | the most severe applicable action wins |
| integrity, `integrity.py` | a digest per key | `baseline verify clear` | an immutable key that was changed is not returned |
| snapshots, `storage/snapshots.py` | a ring of deep copies | `capture get latest` | the ring is bounded and drops its oldest |
| content detectors, `detectors/{injection,leakage,long_horizon}.py` | none | `inspect redact` | (regular expressions: outside the model) |
| key and task detectors, `detectors/{protected_keys,cross_task}.py` | shared with the guard | `inspect` | see the guard |
| detectors with a history, `detectors/{anomaly,self_reinforcement}.py` | last size, recent write times, recent own writes, per key | `inspect note_independent_write reset` | what they report is exactly what the calls of the window deserve |
| in-tree adapters, `integrations/{langchain,llamaindex,crewai}.py` | keys in the guard; a wrapped store; the keys an agent owns | add, list, set, delete, clear, search | the history is a log; the two copies agree; nothing the guard held back reaches the wrapped store |
| message screening, the packages under `src/integrations/` | a guard, counters, a scan key per source or per message | `before_model after_model wrap_tool_call`; `scan_message` | a verdict is about the message alone; nothing is kept; an unsafe text goes on only where the package cannot reach it |
| text services, `scan.py rag.py tools.py streaming.py` | none; a window, counters, alerts | `scan scan_rag_input scan_tool_output filter_safe_documents`; `feed finalize reset` | the copies of one loop, each with its own list of names, agree where they share a name; nothing due stays unscanned |
| web middleware, `middleware.py` | the request being served | an ASGI wrapper, a Flask hook | the application sees what passed, unchanged and in order, and otherwise only what the guard lets go past; every request is served |
| REST server, `server.py` | one guard | `/write /read /scan /events /stats /reset` | what a client is told is what the guard holds and decided |
| MCP server, `src/mcp-server/` | none (patterns of its own) | five tools | it reports only categories it lists; the gates agree with the scan |
| static scanners, `scanner/`, `src/action/scan.py`, `src/scanner/`, `cli.py` | files listed, findings so far | a run over a tree | exit code and report tell of the tree; the script finds nothing the package's scanner does not |

### How they interact

Everything about memory goes through the guard. `write` runs the detectors on the
value (the protected-key, cross-task and self-reinforcement detectors share state
with the guard), asks the policy for an action per finding and takes the most
severe, checks the class of the key, then records lineage and assesses trust, and
only then quarantines, redacts or commits. A committed write sets trust, class,
origin task and, for an immutable key, the first baseline. `read` verifies the
baseline, screens, and redacts or blocks. `delete`, `retire_if` and `rollback`
each touch only some of the places a key is known in. `authorize` reads trust.
The store itself belongs to the caller, who may change it without the guard.

The adapters turn one method of a framework into several calls of the guard, any
of which may be refused or held back in the middle. The message-screening
packages write a text under a made-up key only to learn whether the write raises,
and delete it again. The REST server and `amg check` are callers of one guard.
The text services, the MCP server and the static scanners share nothing with the
guard but the names of its detectors.

The library is synchronous and starts no thread. Its hard part is **long sequences
of legal calls** over six dictionaries with different lifetimes, calls that fail
halfway, and detectors whose answer depends on earlier (also refused) calls.
Around it there are real interleavings: threads that screen messages with one
middleware object, bodies that arrive in parts from clients that leave, trees that
are edited while they are scanned. `PROJECT.json` lists the hazards, each at its
line.

## 2. The modules

| module | what it is | builds on |
|---|---|---|
| `Classification` | memory classes, promotion graph | |
| `Lineage` | trust lattice; `Record`, `Assess`, reachability as operators | `Classification` |
| `LineageRecord` | `record()` as one atomic step (abstract specification) | `Lineage` |
| `LineageSearch` | `record()` as it runs: its loop and the search of `_reaches` | `Lineage`; implements `LineageRecord` |
| `Policy` | rules, decision, the strict and tiered policies | |
| `Authority` | the use-time gate | `Lineage` |
| `MemoryGuard` | the facade: all state of the guard, an action per outcome of each public call | `Policy`, `Authority` |
| `GuardFacade` | what a caller sees of the guard: a store and an answer per call (abstract specification) | |
| `MemoryGuardProps` | what the guard promises, and what its documentation promises for it | `MemoryGuard`; maps it to `GuardFacade` |
| `HistoryDetectors` | size, rate and self-reinforcement detectors as operators on what they remember of one key | `Policy` |
| `GuardHistory` | the guard with those detectors, on a clock | `MemoryGuard`, `HistoryDetectors`; implements `MemoryGuard` |
| `GuardHistoryProps` | what these detectors must report, told from a log of the calls | `GuardHistory` |
| `MessageLog` | a log of messages, some of which are lost (abstract specification) | |
| `ChatHistory` | the LangChain history, a step per guard call | `GuardFacade`; implements `MessageLog` |
| `ChatStore`, `CrewMemory` | the LlamaIndex store and the CrewAI memory, a step per guard call | `GuardFacade` |
| `ScanGuard` | the guard inside the message-screening packages: the store under scan keys, sizes and rates | `HistoryDetectors` |
| `AgentMiddleware` | the LangChain middleware, its calls made by several threads | `ScanGuard` |
| `AutoGenHook` | the AutoGen hook, agent and group chat | `ScanGuard` |
| `TextDetectors` | `detect()`, which the package's detectors lack and a program's subclasses may have; the detectors by name | |
| `StreamScan` | the stream scanner | `TextDetectors` |
| `ScanApi` | `scan`, `rag`, `tools`, the Flask guard | `TextDetectors` |
| `WebGuard` | the ASGI guard, message by message | `ScanApi` |
| `McpScan` | the MCP tools | |
| `RestServer` | the endpoints over one guard, with its event log; `amg check` | `MemoryGuard` |
| `RestServerProps` | what a client may conclude | `RestServer` |
| `ScanRules` | the rules and report formats of the two twin scanners | |
| `StaticScan` | their runs over a tree that is edited meanwhile | `ScanRules` |
| `QuickScan` | the composite action's scanner | `StaticScan` |
| `ScanProps` | what a pipeline relies on | `QuickScan` |
| `MCGuard`, `MCHistory`, `MCSearch`, `MCAdapters`, `MCScreens`, `MCServices`, `MCServer`, `MCScan` | instances for TLC | |
| `OperatorProofs` | lemmas about the operators of `Lineage` and `Policy` | `Policy`, `Lineage` |
| `GuardProofs`, `HistoryProofs`, `ServerProofs` | theorems about the guard, its detectors with a history, the REST server | `OperatorProofs` |
| `SearchProofs`, `AdapterProofs`, `MessageProofs`, `ServiceProofs` | theorems about `record()`, the adapters, message screening, and the services with the static scanners | |

### MemoryGuard: state and actions

| variable | in the code |
|---|---|
| `store` | `MemoryGuard._store` (a dictionary; `NoValue` = key absent) |
| `quarantine` | `_quarantine` |
| `baselines` | `IntegrityRegistry._baselines` |
| `class`, `originTask` | `ClassificationRegistry` |
| `currentTask` | `_current_task`, shared with the cross-task detector |
| `edges`, `trust` | `LineageGraph._edges` (as sets), `_trust` (0 = never set) |
| `snapshots` | `SnapshotStore._snapshots`, oldest first |
| `last` | the last call and its answer (return value or exception) |
| `author`, `outside` | history for the properties, read by no action: the latest committed write of a key; the values a key was given without the guard |

A `write(...)` is a record of its arguments, and ends in one of
`WriteReclassifying` (`ClassificationError`), `WriteBlocked` (`PolicyViolation`,
with a snapshot when `snapshot_on_block`), `WriteCyclic` (`ValueError` out of
`record`, with the edges it had appended), `WriteLaundered` (lineage capped the
trust: value quarantined, **trust set**), `WriteQuarantined`, `WriteCommitted`.
`read` is `ReadMissing`, `ReadDrifted` (`IntegrityError`) or `ReadScreened`. The
rest are one or two actions per call, named after it. `Tamper` is the owner of
the store changing it directly.

`GuardHistory` conjoins to each of these actions what it does to
`lastSize`, `writeTimes`, `selfWrites`, replaces the free choice of anomalies by
what the detectors compute (`WriteReport`, `ReadReport`), and adds `Tick`.

`LineageSearch` has the local variables of the two loops: `call`, `at` (the
`for` loop of `record`), `stack`, `seen` (the `while` loop of `_reaches`), and
edges as the lists they are.

### The adapters

They are built on `GuardFacade`, which knows of the guard only its store and its
answers: a write is answered by an action or an exception, and only `allow` and
`redact` store anything. `MemoryGuard` is proved to implement it, with
`FacadeWriteAnswers` and `FacadeReadAnswers` as the answers of a policy. Between two
calls of the guard a method is in the middle: `historyCall`, `storeCall` and
`crewCall` hold where, with its local variables. An exception ends the method where
the code lets it out. In CrewAI the wrapped memory is `memory`, in LlamaIndex
`inner`; `accepted` (history) is what the guard has let through.

### Message screening

`ScanGuard` keeps of the guard what a screened text depends on: the store under the
scan keys, last sizes, write times, the strict policy. `AgentMiddleware` has a record per
thread: which hook it runs (`hook`), the texts left, what it will hand on (`out`), and
at which line it is: before the write, between write and delete, before and after
reading the violation count. `AutoGenHook` is one action per message, since a chat
delivers one at a time. A message has a form (string, dict, object) and the two places a
text may stand in, `content` and `text`; a route says whether the agent takes a hook or
is wrapped. `Extract` finds the text that is screened, `WithContent` puts the placeholder
where that form and route let it go, and `OutOfReach` names the texts that nothing
ever replaces.

### Services

`installed` says whether the package's own detectors are used, on which every scan
raises `AttributeError`, or subclasses that have `detect()`. The loop over the detectors
is written out four times in the code and its `isinstance` chain with it; the model keeps
the chains apart (`ScanNames`, `RagNames`, `ToolNames`, `StreamNames`), so that a name
lost in one of them shows. A stream is a sequence of
letters, so that a pattern may be cut by the window; `stream` and `ends` are history.
`WebGuard` follows one request at a time through "wrapped" (the middleware has it),
"app" and "served"; `refusal` says whether a 403 went out or a `send` of it raised. `RestServer` adds to `MemoryGuard` the events (`WriteEvents`,
`ReadEvents`: which detector is named, in which order), the last response, and `told`
(history): what clients have been told is stored. `McpScan` has no state of the code; it has all its patterns.

### Static scanners

A file's text is a set of words (what `MEMORY_INDICATORS` and the guard's names look
for) and a sequence of lines, each a set of the patterns that match it. A pattern of the
command line is a sequence of tokens, because what `lstrip` does to it matters;
`RGlob` and `FnMatch` say which files it selects. A run lists the files, reads them one by
one and finishes with a report and an exit code; `Edit` changes or removes a
file at any moment. `QuickRun` is the program started by the composite action, which
ends at its imports (`ImportFails`), or as a module from a checkout (`ScansTree`): that
reads the tree in one step, since it keeps no list and each finding is about one file.

### What is abstracted

- A value is a member of a small set. What the regular expressions find in it is
  the constant `Content` (`Confidence`, `StreamConfidence`, the lines of a text), what
  `redact` makes of it is `Redacted`, its size is `Size`, likeness is `Similar`. A
  SHA-256 digest is the value.
- Values are immutable, so a deep copy and a reference are alike (see 7).
- A glob pattern of a policy is the set of keys it matches. `immutable_keys` is kept
  twice, as `ImmutableGlob` (what the patterns match, used for protection) and
  `ImmutableExact` (keys listed literally, used for baselines), because the code
  looks them up in these two different ways.
- Wording of messages, timing figures, colours and identifiers are left out.
- A detector that raises is skipped by the guard; of the package's detectors only the
  one of sizes can (a text that is no UTF-8), and its findings are open in `MemoryGuard`.
- Time is in whole seconds of `time.monotonic()`; confidences are in tenths.

## 3. The runs

Each run is one question. All passing runs explore their whole state space.

| run (module) | question | states |
|---|---|---|
| `GuardTrust` (`MCGuard`) | Three keys, derivations along and against every edge, receipts, `verified=True`, deletions, a baseline taken by hand, the authority gate. Can the graph become cyclic, HIGH trust appear without a receipt, or memory fill a role that needs VERIFIED? Is a derivation bounded by all parents when it is committed? | 69,887 |
| `GuardScreen` (`MCGuard`) | Strict policy; an immutable key present from the start, an ordinary one; secrets and injections written or put into the store from outside; snapshots by hand, on block and on retirement in a ring of one. Does any path (delete, retire, rollback, a full ring, quarantine) change a protected key, commit something unsafe, return it, or forget a baseline? Is what a retirement removes in the newest snapshot? Does all of it look to a caller like `GuardFacade`? | 33,913 |
| `GuardClass` (`MCGuard`) | One key through all classes, by writes and promotions, in two tasks, with a parent that launders it. Does an untrusted class ever hold more than LOW or turn into policy or preference? Can a classified key become a preference without the opt-in? | 120,076 |
| `LineageSearch` (`MCSearch`) | `record()` loop by loop, on every graph of up to five edges over four keys that calls can build. Does it compute what `Record` says, stay acyclic throughout, use up at every step some of the work a call may do, and return? | 465,606 |
| `GuardHistory` (`MCHistory`) | The detectors with a history on a clock, with refused writes, deletions and retirements in between. Do they report exactly what the log of calls deserves, and does the guard with them implement `MemoryGuard`? | 119,069 |
| `Adapters` (`MCAdapters`) | The three adapters on a guard that may hold back any write and refuse some deletions. Is the history a log: a message appended by its own call or lost, never moved, never back? Do wrapped stores hold only what was let through; is a list replaced at once or not at all; do an agent's two copies agree? | 21,046 |
| `Screens` (`MCScreens`) | Two threads in one LangChain middleware, in its three modes; the AutoGen hook in its four, with messages of every form by both routes. Is a verdict the text's own, whatever other threads and earlier messages did under the key? Is nothing left in the guard's store? Is anything unsafe handed on besides what is out of the package's reach? | 1,086,706 |
| `Services` (`MCServices`) | The services, each with detectors that raise and detectors that work. Are the alerts exactly those of the due windows of the whole stream? Where do the copies of the loop agree? Does the filter keep the harmless documents in order? Does an application behind the guards see what passed, in order, and beyond that exactly what goes past them (a refusal whose `send` raises among it)? Is every request served? Does the MCP server report only what it lists? | 16,379 |
| `Server` (`MCServer`) | Sequences of requests to the REST server. Does a client find what it was told is stored, are refusals and redactions told with the right request, does `/scan` forecast `/write`? | 15,633 |
| `Scanners` (`MCScan`) | The three static scanners on two trees, every kind of option, and an edit at any moment. Does the script find only what the package finds, does the exit code tell of the tree (of the composite action: only when its scanner is started as a module), does each report account for every finding? | 75,568 |

Runs that show a disagreement between the code and what it says of itself, each a
short counterexample (`findings` in `PROJECT.json` quotes both sides):

| run | what TLC shows |
|---|---|
| `ReadLeak` (`MCGuard`) | A read with both a secret and a size anomaly is decided `quarantine`, which outranks `redact`, and for a read means nothing: the secret is returned. |
| `DefaultScan` (`MCScan`) | `"**/*.py".lstrip("**/")` is `".py"`: with the default include pattern no file is selected, and a scan reports nothing and passes. |

Properties that are conjunctions of named parts (`StreamIsScanned`, `ScansAgree`,
`AppSeesWhatPassed`, `EventsAreTold`, `ExitsTellTheTree`, `AnomaliesExact`,
`NothingUnsafeGetsThrough`) have the parts next to them, and a mutant for each part.

### Bounds and why they are enough

Three keys in `GuardTrust` allow a derivation of a derivation and a cycle of
length three; a fourth matters only to the search, and `LineageSearch` has four.
Two values per verdict (with, without) suffice because screening looks at one
value at a time. A ring of one is full from the first capture on, so that every
later one evicts. `Window = Cooldown = 1` with a clock of 0..2 puts writes before, on
and after the boundary; `MaxWrites = MaxSelfWrites = HistorySize = 2` with four logged
calls exceeds each limit by one or more.

An adapter works on one conversation or one agent; three messages (`Capacity`) let an
overwritten one be followed by another, two (`Room`) let a list be partly refused. Two
threads and three calls (`MaxCalls` of `Screens`) let a third call's write fall between
another's write and delete while the first is in its violation; the clock ticks once. A
window of three letters (`WindowSize`) with patterns of two and three, chunks of up to
five, and intervals of one to three over four chunks (`MaxChunks`) cut patterns at every
place. A body has at most two parts. Two events (`MaxEvents`; the last request may go
past it) are enough for a page of one to be the newest, and for a refused request's event
to stand before the next's. Three files and one edit (`MaxEdits` of `Scanners`) let a file
change before, while and after it is read.

The bounds that stand in guards are `MaxCalls` and `MaxTime` (`GuardHistory`),
`MaxEdges` (`LineageSearch`), `Capacity`, `Room`, `MaxCalls` and `MaxMessages`
(`Screens`), `MaxChunks`, `MaxEvents`, `MaxEdits`. `GuardTrust`, `GuardScreen` and
`GuardClass` need none: their state is finite. `Server` runs with
`snapshot_on_block` off, since no endpoint shows a snapshot. No symmetry is used: the
keys of an instance play different roles.

`LineageSearch`, `Screens`, `Services`, `Server` and the scanner runs set
`CHECK_DEADLOCK FALSE`: at their bound no more calls are made, and a scan that has ended
is over. The other runs check deadlock.

### Fairness

The guard, the adapters, the screening packages, the REST server and the scanners
only react, so their specifications state no fairness and their properties are safety.

`LineageSearch` assumes weak fairness of the steps of a call in progress: a
synchronous loop runs on. Nobody has to make a call. Under it `CallsReturn` holds.

`Services` assumes weak fairness of `Intercept`, `ReceiveReplayed` and `ReceiveDirect`:
an ASGI server runs the coroutine of a request, and `receive()` gives a message or a
disconnect. No client has to send anything. Under it `Served` holds: no
application waits for ever for a message the guard has taken.

### Mutants

Each property of a passing run has a definition, marked "Mutant" in its module,
that changes one definition of the model the way a plausible bug would (the ring
checked before the append, `assess` before `record`, a search from the wrong end, a
message counted though it was held back, a window trimmed before the chunk is added,
a body replayed for ever). With it in place TLC finds the property violated under the
run's own constants.

## 4. The proofs

All are for arbitrary constants that satisfy the named assumptions, an `ASSUME` in the
module that declares the constants: that `ImmutableExact` is a subset of `ImmutableGlob`
and both are keys, that the calls of the environment are calls, that an adapter's keys are
different, that limits and windows are natural numbers and contents are findings. TLC evaluates each
in a run. Some theorems need more, and state it:

- what a theorem on screening assumes of the policy: `ProtectedBlocked`, `InjectionsHeld`
  (blocked or quarantined), `InjectionsBlocked` for reads, `SecretsNotAllowed`. `StrictMeets`
  and `TieredMeets` show that the two policies the library ships meet them, as far as they
  do, when content detectors report at LOW or above (`ContentCounts`): they report at HIGH
  unless they are built with another severity, and no rule would act on INFO;
- of the redaction, which is a constant here (`RedactionCleans`): what it leaves of a value
  without an injection has neither a secret nor an injection;
- `VerdictsAreOwn`: the policy refuses no size and no rate (`AnomaliesNotBlocked`; by
  `StrictHoldsBack` the strict one, which the packages use, does not);
- `MessagesAreAfresh`: one write is none too many and no text is too large as such
  (`OneIsNoAnomaly`);
- `LoopsTold`: `max_self_writes <= history_size`, which the constructor does not check;
- `HistoryIsALog`, `HistoryShowsNone`: the guard refuses to delete no message's key;
- `HistoryShowsNone`, `ConversationHasNone`, `CrewGetsNone`: which values the guard's
  answers hold back (`KeepsOut`, `HeldBack`); `AnswersHold` of `GuardProofs` says which
  those are for the answers of `MemoryGuard`. `ConversationHasNone` also that no list is
  longer than `Room`, the bound on the keys.

**Types** (`TypeCorrect`). `TypeOK` is inductive alone; the ring bound needs
`MaxSnapshots >= 1`.

**Lineage** (`RecordKeepsAcyclic`). `Ancestors(e, k)` is the least set that holds
the parents of `k` and is closed under "parent of". For the new graph a closed set
without `k` is exhibited: the old ancestors, extended by those of the new parents
when the child is among them. It covers the `record` that raises halfway.

**The loops of record** (`SearchImplementsRecord`, `SearchKeepsAcyclic`).
`LineageSearch` implements `LineageRecord` with the edges "settled" by the last
call. The invariant has an outer part (the parents before `at` are appended, and
none closes a cycle of the *settled* graph) and an inner one (what was met is
reachable, and what is reachable is met or behind something on the stack). The
two meet in `OwnEdgesIrrelevant`: edges of the child itself cannot change whether
another key reaches the child. This is why the operator `Record`, which tests
against the graph before the call, is right, and it is the bridge on which
`MemoryGuard` stands.

**Trust** (`LineageStaysAcyclic`, `HighTrustAttested`, `UntrustedCapped`,
`VerifiedNeverFilled`). Neither needs the others but all need the types, so
`TrustInv` is their conjunction with "trust never exceeds HIGH", which is what
`VerifiedNeverFilled` rests on. `OtherSteps` says once what the
steps that are not writes leave alone; `WriteTrust` goes through the outcomes of
a write. `WriteLaundered` is the delicate case: it sets trust without an author,
and `HighTrustIsAttested` survives only since a laundered trust is strictly
below what the write claimed, which is at most HIGH.

**Action properties** (`DerivedBounded`, `UntrustedStays`, `PreferenceAsked`) follow
from the same invariant, the last from the types alone. The first shows that the cap is
over every parent ever recorded for the key; the second uses that the default promotion
graph has no edge out of the untrusted classes; the third goes through every way a class
is set.

**Screening** (`StrictDecides`, `ProtectedKept`, `NothingUnsafeCommitted`,
`ReadsReturnSafe`). Protected keys only ever hold values given from outside, and
whatever unsafe value a key holds was put under that key from outside. Both are
strengthened by the same of every snapshot (`ProtectedInv`, `CleanInv`), since rollback
brings old values back; `StoreComesFrom` and `SnapshotsComeFrom` say once, for every
step, where a value in the store or a snapshot can come from. `ReadsReturnSafe` is about
the last answer and needs `CleanInv` of the state before the read.

**The policies** (`DecisionMonotone`, `TieredDecides`, `StrictScreens`, `TieredScreens`).
More findings never lower a decision, so one finding of a content detector is enough to
know what a decision is at least, whatever the other detectors report or fail to report:
this is the lemma (`DecisionBlocks`) all of screening rests on. `StrictDecides` and
`TieredDecides` go through the rules of the shipped policies, first match first. The last
two theorems need nothing of the policy any more but that it is one of these. They differ
in one place: under `Policy.tiered` an injection under a key of the `facts` namespace is
quarantined, which a read ignores, so what came there from outside may be returned.

**Integrity and retirement** (`BaselinesStable`, `ImmutableKept`,
`RetirementsCaptured`). `ImmutableKept` fixes a key and the value it has when the guard is
built; the invariant (`WordInv`) is that its baseline is that value for good, from which a
read that returns anything else would have raised. It needs that nobody calls
`baseline()` on the key. `RetirementsCaptured` rests on `CapturedLast`: in a ring of at
least one the newest snapshot is the store at the moment of the capture.

**The guard as its callers see it** (`GuardImplementsFacade`). Every step of
`MemoryGuard` is a step of `GuardFacade` or leaves what a caller sees unchanged:
one lemma per public call, the outcomes of `write` below it. It carries everything
`MemoryGuard` does on its way (lineage, trust, quarantine, snapshots) out of the
caller's sight. `AnswersHold` says of the answers themselves which values they hold back.

**The adapters** (`CrewMirrorAgrees`, `InnerIsScreened`, `SetAtOnce`, `HistoryShowsNone`,
`ConversationHasNone`, `CrewGetsNone`). For any number
of names and messages and any answers of the guard. `CrewInv` adds to the agreement of
the two copies where a method is (`CallInv`), in particular that a name being written is
the one name that may differ. `StoreInv` says that what a call has screened so far was
let through. The last three carry the screening of the guard to what an agent is shown:
no injection gets into any of the three memories. A secret stays out of the LangChain
history, which is the guard's store itself; the other two keep the message as it came
when the guard redacts its copy, so for them the theorem is about injections only.

**Refinement** (`HistoryImplements`, `HistoryHighTrust`, `HistoryKeepsPromises`,
`HistoryStrictScreens`). What the detectors with a
history report is always among the anomalies `MemoryGuard` leaves open, so
`GuardHistory` implements it with the identity mapping, and inherits what is
proved of it: every promise about lineage, trust, classes, baselines and retirements, and
the screening under `Policy.strict`.

**What the histories recall** (`HistoryRecalled`, `AnomaliesTold`, `LoopsTold`). The
properties are told from the log of all calls, the detectors look at a few numbers. The
invariant relates the two: for every key there is an increasing map from what is
remembered to places in the log, whose range has every write of the window (`RapidInv`),
or every own write since the last thing that breaks a run, save those too old or pushed
out by `HistorySize` later ones (`SelfInv`). A count of one is then a count of the other:
the map is an injection between the writes within the window. The last size is that of a
value the key has met (`SizeInv`), which needs the same of every value in the store and in
a snapshot. The log is in the order of the clock (`LogInv`). `JumpIsReported` speaks of
sizes above zero: an empty value leaves the detector without a last size, and a jump after
it is not reported (`detectors/anomaly.py:59`).

**The cost of a search** (`SearchCost`, `CallsAreFinite`). What `_reaches` has pushed are the edge slots of
the keys it has seen and of the key it began with, each once (`LinearInv`). That a key is
expanded once follows from `seen`, except for the first, which is never marked: there it
needs that the graph is acyclic, so that the search does not come back. From this
`CallsAreFinite` shows a bound: `FuelLeft` is a natural number that every step of a call
lowers, and at the call of `record` with n parents on E edges it is 1 + n * (E + n + 2). The
n inside is what makes it hold: the graph grows by an edge per parent while the call goes
on. Only that steps are taken, the fairness, is left of `CallsReturn`.

**Message screening** (`VerdictsAreOwn`, `NothingIsKept`, `UnsafeIsStopped`,
`MessagesAreAfresh`). `ScreensInv` has a part for each package and one for what they
share. For the middleware: where each thread is and what that says of its text
(`CallInv`), and that a text held under one of its keys is about to be deleted by *some*
thread (`HeldInv`); of which thread it is does not matter, and with a shared key it may be
another's. For the hook: the detectors remember nothing of a message number that has not
been used (`FreshInv`). `UnsafeIsStopped` has for AutoGen the exceptions of the code: in
strip and quarantine mode `PassedIsSafe` and `StepScanMessage` show by cases on form and route that what is
left unsafe is an `OutOfReach` text, in block mode only one that was never looked at.

**The REST server** (`ReadsTell`, `ScansForecast`, `EventsTold`, `ServerImplementsGuard`,
`ServerKeepsTrust`, `ReadsAreClean`). What clients have been
told is the store, equal to it after every served request. `/scan` decides as a `/write`
would whose anomalies are none (`Forecast`). The events of a request are the last ones in
the log, so that a page of the newest contains them (`PageOfList`). Every request is a call
of `MemoryGuard`, leaves it alone, or is the reset that builds it anew (`RestartedGuard`):
so the invariants of the guard hold of the server's across resets. Nothing but its own
writes fills its store, so no answer to `/read` has a secret or an injection, without the
exception for values from outside that the library needs.

**The services** (`AppSees`, `StreamsAreScanned`, `ScansAlwaysAgree`, `RequestsCountDown`). `WebInv` splits the
request of an unguarded path into what the application got and what is unread, and says of
a guarded one that the application gets its first message alone, once that has passed or
goes past the guard: no UTF-8, raising detectors, or a 403 whose `send` raised inside the
`try` that passes over every exception.
`StreamInv`: the buffer is the end of the stream, and the alerts are those of the windows
that were due (`WindowOfWindow`: the end of the end of a stream is its end).
`ScansAlwaysAgree` takes each copy of the loop with the names of its own chain
(`ScanTells`, `RagTells`, `ToolTells` say what each lists): they agree but for the one
name only `scan.py` has, each lists a detector once (`OnceEach`), and the documents kept
are the harmless ones, by an increasing map to their places. `RequestsCountDown`: every step of a request lowers
`StepsLeft`, its unread messages and the stages ahead, which is `Served` but for the
fairness.

**The chat history** (`HistoryIsALog`). `ChatHistory` implements `MessageLog`: each of its
steps appends the message of the call under way, drops the oldest, or changes nothing that
is shown. The messages are numbered with gaps; the invariant (`FirstAreMissing`) is that
the gaps come first, which a half-done `clear` keeps since it deletes in order. With a
message that cannot be deleted the gap is in the middle, hence the hypothesis.

**The static scanners** (`ScriptIsWithin`, `ReportsAddUp`, `ExitsTell`). `ScanInv` says of
a run that its findings are those in the texts it has read, *as it read them*; `RunSees`
that as long as nobody has edited, those are the tree's. The patterns of the script are
among the package's (`PatternsWithin`, `ScriptFindsLess`); findings are finitely many, so
that the counts by severity add up to their number. `ExitsTell` covers both
ways the composite action's scanner can be started: from the action the exit code is 1
whatever the tree holds, as a module it tells of the tree.

**Only model-checked.** `CallsReturn` and `Served` are liveness under fairness, which
TLAPS does not reach; of both the counting argument is proved (`CallsAreFinite`,
`RequestsCountDown`), and what is left to TLC is that a call or a request always has a next
step, and takes it. The two properties that fail (`ReadLeak`, `DefaultScan`) have
nothing to prove. Every other property of a run is stated by a theorem listed in
`PROJECT.json`.

## 5. Further divergences met, without a run

Found while modelling; the model follows the code in all of them.

The guard:

- A derived write held back as laundered sets the trust of the entry it did **not**
  replace (`guard.py:507`): a LOW entry may become MEDIUM.
- Trust is assessed once, when the child is written (`guard.py:540`): a parent
  rewritten with less trust leaves its children above it.
- `immutable_keys` are looked up literally when baselines are taken
  (`guard.py:131`, `policy.py:68` says globs): a key a glob matches is write-protected but
  never baselined, and a change behind the guard goes unnoticed.
- Rolling a retirement back brings values without their class and task
  (`guard.py:686`). `rollback` restores values and nothing else.
- A write quarantined for its growth is remembered as the last size, so the same write
  tried again is stored (`detectors/anomaly.py:48`).
- `delete` and `retire_if` leave trust, edges and quarantine of a key; `read` does
  not consult the quarantine; any source may declare `cls=policy` on a first write.
- The origin task of a key is kept when another task rewrites it.
- `Policy.tiered` documents that an injection into `facts.*` is quarantined, but
  the key is also protected, and `protected_key` blocks it.
- `detectors/self_reinforcement.py:9-18` announces two rules, a cool-down after which
  any further own write is flagged, and a similarity that counts as reinforcement. The code
  (141-144) flags only when both are met: own writes that do not resemble what is remembered
  may go on at any rate. `SelfLoopExact` says what the code does.
- An UNKNOWN source breaks a run of the agent's own writes; dissimilar decoys push
  the repeated value out of a short history; with `history_size <
  max_self_writes` nothing is ever reported.
- `PrometheusMetrics.handle_event` calls `event.get`: registered with a guard it raises on
  every event, which the guard swallows; its quarantine gauge waits for an action
  `release` that does not exist.

The adapters:

- LangChain: the message is stored and then the count; a count held back makes the
  next message overwrite the last. `HistoryIsLog` holds all the same, since the last was
  never shown. A redacted dictionary becomes text, which `messages_from_dict` does
  not take. Histories of one session held by two objects at once are not modelled.
- LlamaIndex: the wrapped store gets the message as it came, though the guard's copy
  was redacted. A list of which nothing passes leaves the old list in place. The guard's
  copies of deleted messages stay, and their indices no longer match.
- CrewAI: `read(owner=...)` reads another agent's entry; an entry named
  `search_result` shares its key with searches (the model assumes it away, in
  `CrewKeysAssumption`); `search` hands on what was only quarantined.

Message screening:

- Quarantine and redact count as safe and the message goes on as it was.
- `after_model` in strip mode strips nothing (`src/integrations/` … `middleware.py:76`
  says otherwise). The violation count may lose one to another thread.
- AutoGen's strip mode is to "replace violating content with a safe placeholder"
  (`hook.py:44`; "pass sanitized message through", README line 88 of that package). The
  placeholder is put under `content` (`guarded_chat.py:129-131`, `guarded_agent.py:109-111`),
  so a text found under `text` of a dictionary stays there beside it; a text under `text`
  next to a `content` is never looked at; around an agent without `register_hook` an object
  message is passed on unchanged (`guarded_chat.py:99-104`), also in quarantine mode. A
  dictionary whose `content` is empty is not screened at all, whatever its `text`.
- AutoGen: a fresh key per message blinds the detectors of growth and rate
  (`EveryMessageAfresh` is why), the store only grows, and `violation_type` is read out of
  a text in which the sender's name may stand.

Services:

- `scan.py`, `streaming.py`, `tools.py` and `rag.py` call `detector.detect(...)`,
  which no detector has. `FastAPIGuard` swallows the error, so every request
  passes; `FlaskGuard` lets it out.
- The copies of the scan loop have drifted: only `scan.py` has a name for cross-task
  contamination. The others count its confidence and list no threat.
- The 403 of `FastAPIGuard` is sent inside the `try` whose `except Exception: pass`
  (`middleware.py:93`) is meant for the scan: when a `send` raises, the application is called
  with the refused body.
- `FastAPIGuard` replays only the first part of a body, without `more_body`: the
  application takes it for the whole.
- `StreamScanner.finalize` feeds an empty chunk, which counts as one, and scans
  only if that count is due: with an interval of three or more a stream may end
  unscanned. A chunk longer than the window loses its head unscanned.
- The server's `/write` and `/scan` never answer `block`: the exception becomes a 500.
  `/events?limit=0` lists all events and a negative limit drops the first. `amg serve
  --policy` does not set what the server reads.
- The MCP server lists the category `integrity_tampering`, which no pattern reports.

Static scanners:

- `amg scan` of a single file reads nothing (its help says "Directory or file").
  `fnmatch` wants a directory before `test*`, so a top-level `tests/` is scanned. A missing
  path passes in the action and is an error in the package.
- `docs/cli/scan.md:26` and the code differ on the default severity; the action's
  critical count in SARIF mode counts high ones too.
- The composite action runs its scanner by path (`src/action.yml:30`), which leaves the
  action's own directory off the module path: `from scanner.rules import`
  (`src/scanner/scan.py:8`) raises, and every build fails whatever the tree holds. What the
  model says of its rules, exit codes and report holds for `python -m scanner.scan`.
- The composite action's SARIF report is a set of dictionaries: it raises on the first
  result. `--fail-on low` fails every build.

## 6. What is left

- Event handlers that call the guard back in the middle of a call. None in this
  repository does. The question would be which invariants survive re-entrance.
- Two threads inside one call of the guard: an action per line of `write`.
- Values as references, for what a reader may change in a snapshot after a rollback.
- What `/scan` and a rejected `/write` share with detectors that remember: the server's
  theorems are about a guard whose anomalies are open.

## 7. Not modelled, and why

- **Matching** (regular expressions, the ML classifier, similarity, JSON sizes,
  glob syntax, YAML): pure functions of text, tested as such; constants here.
- **Behavioural detectors** (`tool_abuse`, `privilege_escalation`,
  `excessive_autonomy`): not among the guard's defaults and created nowhere in the package;
  in `MemoryGuard` their findings would be members of `Anomalies`.
- **Handlers and metrics**: handlers run inside a call; the repository's own only
  count or forward. The events they get are those of `RestServer`.
- **Threads inside a call**: the package takes no lock anywhere. Its servers run their
  handlers on one event loop without awaiting in between, so calls are atomic there;
  where threads are to be expected (the LangChain middleware) they interleave between the
  calls of the guard.
- **Aliasing** between the store, snapshots and what a caller holds.
- **Custom promotion graphs**: the default one is modelled; a caller may pass any.
- **Receipts' contents**: valid or not.
- **`/scan/file`, `/health`, `amg serve`**, the shell steps of the actions, benchmarks,
  examples, templates: callers and wrappers without state of their own.
