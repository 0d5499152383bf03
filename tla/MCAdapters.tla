----------------------------- MODULE MCAdapters -----------------------------
(***************************************************************************)
(* The three adapters of integrations/ for TLC.  A program uses one of     *)
(* them: which one is chosen at the start.                                 *)
(***************************************************************************)
EXTENDS ChatHistory, ChatStore, CrewMemory

CONSTANTS plain, secret, masked, inject,     \* texts
          count, m0, m1, m2,                 \* keys of a session
          item0, item1, added, conversation, \* keys of a conversation
          n1, n2, a1, a2, found, started     \* names and keys of an agent

VARIABLE adapter

MCKeys == {count, m0, m1, m2, item0, item1, added, conversation, a1, a2, found, started}

MCValues == {plain, secret, masked, inject} \cup 0 .. 3

MCRedacted == [v \in MCValues |-> IF v = secret THEN masked ELSE v]

\* The strict policy, whose detectors of sizes and rates may hold back any write;
\* a2 is a protected key under a policy with no rule about protected keys.
MCWriteAnswers ==
    [k \in MCKeys |-> [v \in MCValues |->
        CASE v = inject -> {"block"}
          [] v = secret -> {"redact", "quarantine"}
          [] OTHER -> {"allow", "quarantine"}]]

MCReadAnswers ==
    [k \in MCKeys |-> [v \in MCValues |->
        CASE v = inject -> {"block"} [] v = secret -> {"redact"} [] OTHER -> {"allow"}]]

MCMessageKey == [i \in 0 .. 2 |-> CASE i = 0 -> m0 [] i = 1 -> m1 [] i = 2 -> m2]

MCItemKey == [i \in 0 .. 1 |-> IF i = 0 THEN item0 ELSE item1]

MCTurnLists == {<<plain>>, <<inject>>, <<plain, secret>>, <<secret, inject>>,
                <<inject, plain>>}

MCAgentKey == [n \in {n1, n2} |-> IF n = n1 THEN a1 ELSE a2]

MCFound0 == [n \in {n1, n2} |-> plain]

AdaptersInit ==
    /\ adapter \in {"langchain", "llamaindex", "crewai"}
    /\ HistoryInit /\ StoreInit /\ CrewInit

KeepHistory == UNCHANGED historyCall
KeepStore == UNCHANGED <<inner, storeCall, accepted>>
KeepCrew == UNCHANGED <<memory, owned, crewCall>>

AdaptersNext ==
    /\ UNCHANGED adapter
    /\ \/ adapter = "langchain" /\ HistoryNext /\ KeepStore /\ KeepCrew
       \/ adapter = "llamaindex" /\ StoreNext /\ KeepHistory /\ KeepCrew
       \/ adapter = "crewai" /\ CrewNext /\ KeepHistory /\ KeepStore

AdaptersSpec ==
    AdaptersInit
    /\ [][AdaptersNext]_<<store, last, historyCall, inner, storeCall, accepted,
                          memory, owned, crewCall, adapter>>

=============================================================================
