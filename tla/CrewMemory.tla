----------------------------- MODULE CrewMemory -----------------------------
(***************************************************************************)
(* integrations/crewai.py: GuardedMemory writes an agent's entry to the    *)
(* guard under a key of the agent, and what the guard takes also to the    *)
(* memory it wraps, as it came.  Reads are answered by the guard, searches *)
(* by the wrapped memory.  One agent; its callback shares the guard.       *)
(***************************************************************************)
EXTENDS GuardFacade

CONSTANTS
    Names,             \* the keys the agent uses
    Notes,             \* the values it writes
    AgentKey,          \* name -> crewai.<agent>.<name>
    SearchKey,         \* crewai.<agent>.search_result
    CallbackKeys,      \* crewai.callback.<role>.task_start and .task_complete
    Found0             \* the wrapped memory at the start

VARIABLES
    memory,            \* the wrapped memory: name -> value
    owned,             \* _owned_keys
    crewCall           \* the call in progress

\* The code does not keep a name from being "search_result", see the README.
ASSUME CrewKeysAssumption ==
    /\ AgentKey \in [Names -> Keys]
    /\ \A m, n \in Names : AgentKey[m] = AgentKey[n] => m = n
    /\ SearchKey \in Keys
    /\ CallbackKeys \subseteq Keys
    /\ \A n \in Names : AgentKey[n] \notin CallbackKeys \cup {SearchKey}
    /\ Notes \subseteq Values /\ NoValue \notin Values
    /\ Redacted \in [Values -> Values]
    /\ Found0 \in [Names -> Notes \cup {NoValue}]

NoCrewCall == [step |-> "none", names |-> {}, note |-> NoValue, results |-> {}]

\* write: the name is owned once the guard has taken the value ...
WriteNote(n, note) ==
    /\ crewCall.step = "none"
    /\ \E out \in WriteAnswers[AgentKey[n]][note] :
          /\ Write(AgentKey[n], note, out)
          /\ IF out \in {"allow", "redact"}
             THEN /\ owned' = owned \cup {n}
                  /\ crewCall' = [NoCrewCall EXCEPT !.step = "write", !.names = {n},
                                                    !.note = note]
             ELSE UNCHANGED <<owned, crewCall>>
    /\ UNCHANGED memory

\* ... and the wrapped memory gets the original.
WriteThrough ==
    /\ crewCall.step = "write"
    /\ memory' = [n \in Names |->
                    IF n \in crewCall.names THEN crewCall.note ELSE memory[n]]
    /\ crewCall' = NoCrewCall
    /\ UNCHANGED <<store, last, owned>>

\* read: with another agent's name as owner the guard is asked for that agent's
\* key, nothing else is asked.
ReadNote(k) ==
    /\ crewCall.step = "none"
    /\ Read(k)
    /\ UNCHANGED <<memory, owned, crewCall>>

\* Mutant: the wrapped memory forgets also what the guard keeps.
ForgetAnyway(n) ==
    /\ Delete(AgentKey[n])
    /\ owned' = IF AgentKey[n] \in Undeletable THEN owned ELSE owned \ {n}
    /\ memory' = [memory EXCEPT ![n] = NoValue]

\* delete: nothing happens to a key the guard does not delete.
Forget(n) ==
    /\ Delete(AgentKey[n])
    /\ IF AgentKey[n] \in Undeletable THEN UNCHANGED <<owned, memory>>
       ELSE /\ owned' = owned \ {n}
            /\ memory' = [memory EXCEPT ![n] = NoValue]

DeleteNote(n) ==
    /\ crewCall.step = "none"
    /\ Forget(n)
    /\ UNCHANGED crewCall

\* clear: a copy of the owned names, in the order of a set.
ClearNotes ==
    /\ crewCall.step = "none"
    /\ crewCall' = [NoCrewCall EXCEPT !.step = "clear", !.names = owned]
    /\ UNCHANGED <<store, last, memory, owned>>

ClearNote(n) ==
    /\ crewCall.step = "clear" /\ n \in crewCall.names
    /\ Forget(n)
    /\ crewCall' = [crewCall EXCEPT !.names = @ \ {n}]

ClearReturns ==
    /\ crewCall.step = "clear" /\ crewCall.names = {}
    /\ crewCall' = NoCrewCall
    /\ UNCHANGED <<store, last, memory, owned>>

\* search: each result is written under one key to have it screened; it is
\* returned unless that raises, quarantined or not.  found: what the wrapped
\* memory answers.
Search(found) ==
    /\ crewCall.step = "none"
    /\ crewCall' = [NoCrewCall EXCEPT !.step = "search", !.names = found]
    /\ UNCHANGED <<store, last, memory, owned>>

SearchScreens(n) ==
    /\ crewCall.step = "search" /\ n \in crewCall.names
    /\ \E out \in WriteAnswers[SearchKey][memory[n]] :
          /\ Write(SearchKey, memory[n], out)
          /\ crewCall' = [crewCall EXCEPT !.names = @ \ {n},
                !.results = IF out = "block" THEN @ ELSE @ \cup {memory[n]}]
    /\ UNCHANGED <<memory, owned>>

SearchReturns ==
    /\ crewCall.step = "search" /\ crewCall.names = {}
    /\ crewCall' = NoCrewCall
    /\ UNCHANGED <<store, last, memory, owned>>

\* CrewAISecurityCallback: task texts go to keys of their own.
Callback(k, text) ==
    /\ crewCall.step = "none"
    /\ \E out \in WriteAnswers[k][text] : Write(k, text, out)
    /\ UNCHANGED <<memory, owned, crewCall>>

CrewInit ==
    /\ FreshGuard
    /\ memory = Found0
    /\ owned = {}
    /\ crewCall = NoCrewCall

CrewNext ==
    \/ \E n \in Names, note \in Notes : WriteNote(n, note)
    \/ WriteThrough
    \/ \E k \in Keys : ReadNote(k)
    \/ \E n \in Names : DeleteNote(n) \/ ClearNote(n) \/ SearchScreens(n)
    \/ ClearNotes \/ ClearReturns
    \/ \E found \in SUBSET { n \in Names : memory[n] # NoValue } : Search(found)
    \/ SearchReturns
    \/ \E k \in CallbackKeys, text \in Notes : Callback(k, text)

crewVars == <<store, last, memory, owned, crewCall>>

CrewSpec == CrewInit /\ [][CrewNext]_crewVars

-----------------------------------------------------------------------------

\* Guard and wrapped memory agree about the entries of the agent: between
\* calls, and for all names but the one being written, an owned name is in
\* both, in the guard as it came or redacted.  Refused writes, refused deletes,
\* searches and clear keep them in step (integrations/crewai.py).
MirrorAgrees ==
    \A n \in owned :
        ~(crewCall.step = "write" /\ n \in crewCall.names) =>
            /\ memory[n] # NoValue
            /\ store[AgentKey[n]] \in {memory[n], Redacted[memory[n]]}

=============================================================================
