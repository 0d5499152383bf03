---------------------------- MODULE GuardFacade ----------------------------
(***************************************************************************)
(* What the caller of a guard sees of it: the contents of the store and an *)
(* answer per call.  MemoryGuard implements this specification             *)
(* (GuardProofs); the adapters of integrations/ are built on it.           *)
(*                                                                         *)
(* A write is answered by the action taken or by an exception.  Only       *)
(* "allow" and "redact" store anything, under the key of the call alone.   *)
(***************************************************************************)
EXTENDS Naturals, Sequences

CONSTANTS
    Keys, Values, NoValue,
    Redacted,          \* value -> what redacting makes of it
    WriteAnswers,      \* key -> value -> the answers a write may get
    ReadAnswers,       \* key -> value -> the answers a read of it may get
    Undeletable        \* the keys delete() refuses

VARIABLES store, last

Entry == Values \cup {NoValue}

Stored(k) == store[k] # NoValue

Answered(op, key, out, value) ==
    last' = [op |-> op, key |-> key, out |-> out, value |-> value]

\* What a write answered by out makes of the store.
Written(k, v, out) ==
    CASE out = "allow"  -> [store EXCEPT ![k] = v]
      [] out = "redact" -> [store EXCEPT ![k] = Redacted[v]]
      [] OTHER -> store

Write(k, v, out) ==
    /\ out \in WriteAnswers[k][v]
    /\ store' = Written(k, v, out)
    /\ Answered("write", k, out, NoValue)

ReadDefault(k) ==
    /\ ~Stored(k)
    /\ Answered("read", k, "default", NoValue)
    /\ UNCHANGED store

ReadReturned(k) ==
    /\ Stored(k)
    /\ \/ "allow" \in ReadAnswers[k][store[k]]
             /\ Answered("read", k, "returned", store[k])
       \/ "redact" \in ReadAnswers[k][store[k]]
             /\ Answered("read", k, "returned", Redacted[store[k]])
    /\ UNCHANGED store

ReadRefused(k) ==
    /\ Stored(k)
    /\ \E out \in ReadAnswers[k][store[k]] \cap {"block", "integrity_error"} :
          Answered("read", k, out, NoValue)
    /\ UNCHANGED store

Read(k) == ReadDefault(k) \/ ReadReturned(k) \/ ReadRefused(k)

Delete(k) ==
    \/ /\ k \notin Undeletable
       /\ store' = [store EXCEPT ![k] = NoValue]
       /\ Answered("delete", k, "deleted", NoValue)
    \/ /\ k \in Undeletable
       /\ Answered("delete", k, "block", NoValue)
       /\ UNCHANGED store

\* Retirement, rollback, and what the owner of the store does to it.
Elsewhere ==
    /\ store' \in [Keys -> Entry]
    /\ last'.op \in {"retire", "rollback", "tamper"}

\* Every other call leaves the store alone.
Aside ==
    /\ UNCHANGED store
    /\ last'.op \in {"promote", "baseline", "snapshot", "rollback", "authorize", "task"}

\* A guard just built over an empty store.
FreshGuard ==
    /\ store = [k \in Keys |-> NoValue]
    /\ last = [op |-> "init", key |-> NoValue, out |-> "built", value |-> NoValue]

Init ==
    /\ store \in [Keys -> Entry]
    /\ last.op = "init"

Next ==
    \/ \E k \in Keys :
        \/ \E v \in Values : \E out \in WriteAnswers[k][v] : Write(k, v, out)
        \/ Read(k)
        \/ Delete(k)
    \/ Elsewhere
    \/ Aside

Spec == Init /\ [][Next]_<<store, last>>

=============================================================================
