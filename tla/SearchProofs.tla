---------------------------- MODULE SearchProofs ----------------------------
(***************************************************************************)
(* The loops of LineageGraph compute what Lineage says of them, for any    *)
(* keys, graph and call: LineageSearch implements LineageRecord.           *)
(***************************************************************************)
EXTENDS LineageSearch, OperatorProofs, FiniteSetTheorems

-----------------------------------------------------------------------------
(* The members of a sequence *)

LEMMA LastOrBefore ==
  \A n \in Nat : \A i \in 1 .. n : i = n \/ i \in 1 .. n - 1
OBVIOUS

LEMMA LastAndFront ==
  ASSUME NEW s \in Seq(Keys), s # <<>>
  PROVE  /\ Last(s) \in Keys /\ Front(s) \in Seq(Keys)
         /\ ToSet(s) = ToSet(Front(s)) \cup {Last(s)}
<1>1. Len(s) \in Nat \ {0} /\ DOMAIN s = 1 .. Len(s)
  OBVIOUS
<1>2. /\ Front(s) \in Seq(Keys) /\ Len(Front(s)) = Len(s) - 1
      /\ \A i \in 1 .. Len(s) - 1 : Front(s)[i] = s[i]
  BY <1>1 DEF Front
<1>3. DOMAIN Front(s) = 1 .. Len(s) - 1
  BY <1>2
<1>4. Last(s) \in Keys /\ Last(s) = s[Len(s)]
  BY <1>1 DEF Last
<1>5. ASSUME NEW x \in ToSet(s) PROVE x \in ToSet(Front(s)) \cup {Last(s)}
  <2>1. PICK i \in 1 .. Len(s) : x = s[i]
    BY <1>1 DEF ToSet
  <2>2. CASE i = Len(s)
    BY <2>1, <2>2, <1>4
  <2>3. CASE i \in 1 .. Len(s) - 1
    BY <2>3, <2>1, <1>2, <1>3 DEF ToSet
  <2> QED
    BY <1>1, <2>2, <2>3, LastOrBefore
<1>6. ToSet(Front(s)) \subseteq ToSet(s)
  BY <1>1, <1>2, <1>3 DEF ToSet
<1>7. Last(s) \in ToSet(s)
  BY <1>1, <1>4 DEF ToSet
<1> QED
  BY <1>2, <1>4, <1>5, <1>6, <1>7

LEMMA JoinedMembers ==
  ASSUME NEW s \in Seq(Keys), NEW t \in Seq(Keys)
  PROVE  s \o t \in Seq(Keys) /\ ToSet(s \o t) = ToSet(s) \cup ToSet(t)
<1>1. /\ s \o t \in Seq(Keys) /\ DOMAIN (s \o t) = 1 .. Len(s) + Len(t)
      /\ DOMAIN s = 1 .. Len(s) /\ DOMAIN t = 1 .. Len(t)
      /\ Len(s) \in Nat /\ Len(t) \in Nat
      /\ \A i \in 1 .. Len(s) + Len(t) :
            (s \o t)[i] = IF i <= Len(s) THEN s[i] ELSE t[i - Len(s)]
  OBVIOUS
<1>2. ASSUME NEW x \in ToSet(s \o t) PROVE x \in ToSet(s) \cup ToSet(t)
  <2>1. PICK i \in 1 .. Len(s) + Len(t) : x = (s \o t)[i]
    BY <1>1 DEF ToSet
  <2>2. CASE i <= Len(s)
    BY <2>1, <2>2, <1>1 DEF ToSet
  <2>3. CASE ~(i <= Len(s))
    <3>1. i - Len(s) \in 1 .. Len(t) /\ x = t[i - Len(s)]
      BY <2>1, <2>3, <1>1
    <3> QED
      BY <3>1, <1>1 DEF ToSet
  <2> QED
    BY <2>2, <2>3
<1>3. ToSet(s) \subseteq ToSet(s \o t)
  <2> SUFFICES ASSUME NEW i \in 1 .. Len(s) PROVE s[i] \in ToSet(s \o t)
    BY <1>1 DEF ToSet
  <2>1. i \in 1 .. Len(s) + Len(t) /\ (s \o t)[i] = s[i]
    BY <1>1
  <2> QED
    BY <2>1, <1>1 DEF ToSet
<1>4. ToSet(t) \subseteq ToSet(s \o t)
  <2> SUFFICES ASSUME NEW i \in 1 .. Len(t) PROVE t[i] \in ToSet(s \o t)
    BY <1>1 DEF ToSet
  <2>1. i + Len(s) \in 1 .. Len(s) + Len(t) /\ (s \o t)[i + Len(s)] = t[i]
    BY <1>1
  <2> QED
    BY <2>1, <1>1 DEF ToSet
<1> QED
  BY <1>1, <1>2, <1>3, <1>4

LEMMA AppendedMember ==
  ASSUME NEW s \in Seq(Keys), NEW x \in Keys
  PROVE  Append(s, x) \in Seq(Keys) /\ ToSet(Append(s, x)) = ToSet(s) \cup {x}
<1>1. ToSet(<<x>>) = {x} /\ <<x>> \in Seq(Keys)
  BY DEF ToSet
<1>2. Append(s, x) = s \o <<x>>
  OBVIOUS
<1> QED
  BY <1>1, <1>2, JoinedMembers

LEMMA EdgeSetsType ==
  ASSUME NEW lists \in [Keys -> Seq(Keys)]
  PROVE  /\ EdgeSets(lists) \in EdgeMap
         /\ \A k \in Keys : EdgeSets(lists)[k] = ToSet(lists[k])
<1>1. \A s \in Seq(Keys) : ToSet(s) \subseteq Keys
  BY DEF ToSet
<1> QED
  BY <1>1 DEF EdgeSets, EdgeMap

-----------------------------------------------------------------------------
(* Edges of the child do not change whether another key reaches it. *)

WithEdges(e, c, S) == [e EXCEPT ![c] = @ \cup S]

LEMMA OwnEdgesIrrelevant ==
  ASSUME NEW e \in EdgeMap, NEW c \in Keys, NEW S \in SUBSET Keys,
         NEW q \in Keys, q # c
  PROVE  Reaches(WithEdges(e, c, S), q, c) <=> Reaches(e, q, c)
<1> DEFINE f == WithEdges(e, c, S)
<1>1. /\ \A k \in Keys : e[k] \subseteq f[k]
      /\ \A k \in Keys \ {c} : f[k] = e[k]
  BY DEF WithEdges, EdgeMap
<1>2. ASSUME Reaches(e, q, c) PROVE Reaches(f, q, c)
  <2> SUFFICES ASSUME NEW T \in SUBSET Keys, f[q] \subseteq T, ClosedUnder(f, T)
               PROVE  c \in T
    BY DEF Reaches
  <2>1. e[q] \subseteq T /\ ClosedUnder(e, T)
    BY <1>1 DEF ClosedUnder
  <2> QED
    BY <2>1, <1>2 DEF Reaches
<1>3. ASSUME Reaches(f, q, c) PROVE Reaches(e, q, c)
  <2> SUFFICES ASSUME NEW T \in SUBSET Keys, e[q] \subseteq T, ClosedUnder(e, T),
                      c \notin T
               PROVE  FALSE
    BY DEF Reaches
  <2>1. f[q] \subseteq T /\ ClosedUnder(f, T)
    BY <1>1 DEF ClosedUnder
  <2> QED
    BY <2>1, <1>3 DEF Reaches
<1> QED
  BY <1>2, <1>3

-----------------------------------------------------------------------------
(* The inductive invariant.  The outer loop has appended the parents before *)
(* the one it is at, none of which closes a cycle of the settled graph; the *)
(* search has only met ancestors of that one, and what it has not yet       *)
(* visited of them is on the stack.                                         *)

SearchTypeOK ==
    /\ parents \in [Keys -> Seq(Keys)]
    /\ IF pc = "idle" THEN call = NoCall
       ELSE call \in Requests
    /\ pc = "record" => at \in 1 .. Len(call.parents) + 1
    /\ pc = "search" => at \in 1 .. Len(call.parents)
    /\ stack \in Seq(Keys) /\ seen \in SUBSET Keys
    /\ pc \in {"idle", "record", "search"}
    /\ answer \in {"none", "recorded", "raised"}
    /\ settled \in [Keys -> SUBSET Keys]
    /\ pushed \in Nat

Edges == EdgeSets(parents)

Appended == { call.parents[i] : i \in 1 .. at - 1 }

LoopInv ==
    /\ Edges = WithEdges(settled, call.child, Appended)
    /\ \A i \in 1 .. at - 1 : ~ClosesCycle(settled, call.child, call.parents[i])

Met == seen \cup ToSet(stack)

SearchInv ==
    /\ Parent # call.child
    /\ \A T \in SUBSET Keys :
          Edges[Parent] \subseteq T /\ ClosedUnder(Edges, T) => Met \subseteq T
    /\ Edges[Parent] \subseteq Met
    /\ \A n \in seen : Edges[n] \subseteq Met
    /\ call.child \notin seen

RecordInv ==
    /\ SearchTypeOK
    /\ pc = "idle" => Edges = settled
    /\ pc # "idle" => LoopInv
    /\ pc = "search" => SearchInv

LEMMA CallTypes ==
  ASSUME SearchTypeOK, pc # "idle"
  PROVE  /\ call \in Requests
         /\ call.child \in Keys /\ call.parents \in Seq(Keys)
         /\ Len(call.parents) \in Nat
         /\ DOMAIN call.parents = 1 .. Len(call.parents)
         /\ at \in 1 .. Len(call.parents) + 1
         /\ (pc = "search" \/ at <= Len(call.parents)) =>
               at \in 1 .. Len(call.parents) /\ Parent \in Keys
         /\ Appended \in SUBSET Keys
<1>1. call \in Requests /\ call.child \in Keys /\ call.parents \in Seq(Keys)
  BY SearchAssumption DEF SearchTypeOK
<1>2. Len(call.parents) \in Nat /\ DOMAIN call.parents = 1 .. Len(call.parents)
  BY <1>1
<1>3. at \in 1 .. Len(call.parents) + 1 /\ (pc = "search" => at \in 1 .. Len(call.parents))
  <2>1. /\ pc \in {"record", "search"}
        /\ pc = "record" => at \in 1 .. Len(call.parents) + 1
        /\ pc = "search" => at \in 1 .. Len(call.parents)
    BY DEF SearchTypeOK
  <2> QED
    BY <2>1, <1>2
<1>4. \A i \in 1 .. Len(call.parents) : call.parents[i] \in Keys
  BY <1>1
<1>5. (pc = "search" \/ at <= Len(call.parents)) =>
         at \in 1 .. Len(call.parents) /\ Parent \in Keys
  BY <1>2, <1>3, <1>4 DEF Parent
<1>6. Appended \in SUBSET Keys
  BY <1>2, <1>3, <1>4 DEF Appended
<1> QED
  BY <1>1, <1>2, <1>3, <1>5, <1>6

LEMMA InitRecord == SearchInit => RecordInv /\ Atomic!RecordInit
<1> SUFFICES ASSUME SearchInit PROVE RecordInv /\ Atomic!RecordInit
  OBVIOUS
<1>1. \A k \in Keys : ToSet(parents[k]) = {}
  BY DEF SearchInit, ToSet
<1>2. Edges = settled
  BY <1>1 DEF SearchInit, Edges, EdgeSets
<1>3. SearchTypeOK
  BY DEF SearchInit, SearchTypeOK
<1> QED
  BY <1>2, <1>3 DEF SearchInit, RecordInv, Atomic!RecordInit

\* The loop at m has recorded what Record records, if it stops there.
LEMMA LoopStops ==
  ASSUME NEW e \in EdgeMap, NEW c \in Keys, NEW ps \in Seq(Keys),
         NEW m \in 1 .. Len(ps) + 1,
         \A i \in 1 .. m - 1 : ~ClosesCycle(e, c, ps[i]),
         m = Len(ps) + 1 \/ ClosesCycle(e, c, ps[m])
  PROVE  /\ Record(e, c, ps) = WithEdges(e, c, { ps[i] : i \in 1 .. m - 1 })
         /\ RecordRaises(e, c, ps) <=> m # Len(ps) + 1
<1>1. Len(ps) \in Nat /\ DOMAIN ps = 1 .. Len(ps)
  OBVIOUS
<1>2. 1 .. m - 1 \subseteq Recordable(e, c, ps)
  <2> SUFFICES ASSUME NEW i \in 1 .. m - 1 PROVE i \in Recordable(e, c, ps)
    OBVIOUS
  <2>1. i \in DOMAIN ps /\ 1 .. i \subseteq 1 .. m - 1
    BY <1>1
  <2> QED
    BY <2>1 DEF Recordable
<1>3. ASSUME NEW i \in Recordable(e, c, ps) PROVE i \in 1 .. m - 1
  <2>1. i \in 1 .. Len(ps) /\ \A j \in 1 .. i : ~ClosesCycle(e, c, ps[j])
    BY <1>1, <1>3 DEF Recordable
  <2>2. m = Len(ps) + 1 \/ m \notin 1 .. i
    BY <2>1
  <2> QED
    BY <2>1, <2>2, <1>1
<1>4. Recordable(e, c, ps) = 1 .. m - 1
  BY <1>2, <1>3
<1>5. 1 .. m - 1 = 1 .. Len(ps) <=> m = Len(ps) + 1
  <2>1. ASSUME m # Len(ps) + 1 PROVE m \in 1 .. Len(ps) /\ m \notin 1 .. m - 1
    BY <2>1, <1>1
  <2>2. m = Len(ps) + 1 => m - 1 = Len(ps)
    BY <1>1
  <2> QED
    BY <2>1, <2>2
<1> QED
  BY <1>1, <1>4, <1>5 DEF Record, RecordRaises, WithEdges

\* The abstract specification's Record is Lineage's.
LEMMA SameRecord ==
  ASSUME NEW e, NEW c, NEW ps
  PROVE  /\ Atomic!Record(e, c, ps) = Record(e, c, ps)
         /\ Atomic!RecordRaises(e, c, ps) = RecordRaises(e, c, ps)
<1>1. \A x, y : Atomic!ClosesCycle(x, c, y) <=> ClosesCycle(x, c, y)
  BY DEF Atomic!ClosesCycle, ClosesCycle, Atomic!Reaches, Reaches,
         Atomic!ClosedUnder, ClosedUnder
<1>2. Atomic!Recordable(e, c, ps) = Recordable(e, c, ps)
  BY <1>1 DEF Atomic!Recordable, Recordable
<1> QED
  BY <1>2 DEF Atomic!Record, Record, Atomic!RecordRaises, RecordRaises

\* record() returns: a step of the abstract specification, and the invariant
\* between two calls.
LEMMA ReturnIsRecord ==
  ASSUME RecordInv, pc # "idle", NEW out \in {"recorded", "raised"}, Return(out),
         out = "recorded" => at = Len(call.parents) + 1,
         out = "raised" =>
            /\ at <= Len(call.parents)
            /\ ClosesCycle(settled, call.child, Parent)
  PROVE  RecordInv' /\ Atomic!RecordCall(call) /\ call \in Requests
<1>1. /\ call \in Requests /\ call.child \in Keys /\ call.parents \in Seq(Keys)
      /\ at \in 1 .. Len(call.parents) + 1 /\ Len(call.parents) \in Nat
  BY CallTypes DEF RecordInv
<1>2. settled \in EdgeMap /\ LoopInv
  BY DEF RecordInv, SearchTypeOK, EdgeMap
<1>3. at = Len(call.parents) + 1 \/ ClosesCycle(settled, call.child, call.parents[at])
  BY DEF Parent
<1>4. /\ Record(settled, call.child, call.parents) = Edges
      /\ RecordRaises(settled, call.child, call.parents)
            <=> at # Len(call.parents) + 1
  BY <1>1, <1>2, <1>3, LoopStops DEF LoopInv, Appended
<1>5. Edges' = Edges /\ settled' = Edges
  BY DEF Return, Edges, EdgeSets
<1>6. out = "raised" <=> at # Len(call.parents) + 1
  BY <1>1
<1>7. answer' = IF RecordRaises(settled, call.child, call.parents) THEN "raised"
                ELSE "recorded"
  BY <1>4, <1>6 DEF Return
<1>8. SearchTypeOK'
  <2>1. settled' \in [Keys -> SUBSET Keys]
    BY <1>5, EdgeSetsType DEF Edges, EdgeMap, RecordInv, SearchTypeOK
  <2> QED
    BY <2>1 DEF RecordInv, SearchTypeOK, Return, EndSearch
<1>9. RecordInv'
  BY <1>5, <1>8 DEF RecordInv, Return
<1>10. Atomic!RecordCall(call)
  BY <1>4, <1>5, <1>7, SameRecord DEF Atomic!RecordCall
<1> QED
  BY <1>1, <1>9, <1>10

\* Every step preserves the invariant and is a step of the abstract
\* specification or changes nothing of it.
LEMMA StepRecord ==
  ASSUME RecordInv, [SearchNext]_searchVars
  PROVE  RecordInv' /\ [\E q \in Requests : Atomic!RecordCall(q)]_<<settled, answer>>
<1>1. SearchTypeOK /\ settled \in EdgeMap /\ Edges \in EdgeMap
  BY EdgeSetsType DEF RecordInv, SearchTypeOK, Edges, EdgeMap
<1>2. \A k \in Keys : Edges[k] = ToSet(parents[k])
  BY <1>1, EdgeSetsType DEF SearchTypeOK, Edges
<1>3. ASSUME NEW q \in Requests, Call(q)
      PROVE  RecordInv' /\ UNCHANGED <<settled, answer>>
  <2>1. q.child \in Keys /\ q.parents \in Seq(Keys) /\ Len(q.parents) \in Nat
    BY SearchAssumption
  <2>2. SearchTypeOK'
    BY <1>1, <1>3, <2>1 DEF SearchTypeOK, Call
  <2>3. Edges' = settled' /\ pc' = "record" /\ at' = 1
    BY <1>3 DEF Call, RecordInv, Edges, EdgeSets
  <2>4. settled' = WithEdges(settled', call'.child, {}) /\ Appended' = {}
    BY <1>1, <1>3, <2>1, <2>3 DEF WithEdges, Appended, Call, EdgeMap
  <2>5. LoopInv'
    BY <2>3, <2>4 DEF LoopInv
  <2> QED
    BY <1>3, <2>2, <2>3, <2>5 DEF RecordInv, Call
<1>4. ASSUME Recorded
      PROVE  RecordInv' /\ \E q \in Requests : Atomic!RecordCall(q)
  <2>1. at = Len(call.parents) + 1 /\ pc # "idle"
    BY <1>1, <1>4, CallTypes DEF Recorded
  <2> QED
    BY <2>1, <1>4, ReturnIsRecord DEF Recorded
<1>5. ASSUME SelfParent
      PROVE  RecordInv' /\ \E q \in Requests : Atomic!RecordCall(q)
  <2>1. ClosesCycle(settled, call.child, Parent)
    BY <1>5 DEF SelfParent, ClosesCycle
  <2> QED
    BY <2>1, <1>5, ReturnIsRecord DEF SelfParent
<1>6. ASSUME StartSearch
      PROVE  RecordInv' /\ UNCHANGED <<settled, answer>>
  <2>1. at \in 1 .. Len(call.parents) /\ Parent \in Keys
    BY <1>1, <1>6, CallTypes DEF StartSearch
  <2>2. stack' = parents[Parent] /\ stack' \in Seq(Keys)
    BY <1>1, <1>6, <2>1 DEF StartSearch, SearchedFrom, SearchTypeOK
  <2>3. SearchTypeOK'
    BY <1>1, <1>6, <2>1, <2>2 DEF SearchTypeOK, StartSearch
  <2>4. /\ Edges' = Edges /\ Parent' = Parent /\ Appended' = Appended
        /\ UNCHANGED <<parents, call, at, settled, answer>>
    BY <1>6 DEF StartSearch, Edges, EdgeSets, Parent, Appended
  <2>5. LoopInv'
    BY <1>6, <2>4 DEF RecordInv, StartSearch, LoopInv
  <2>6. Met' = Edges[Parent] /\ seen' = {}
    BY <1>2, <1>6, <2>1, <2>2 DEF Met, StartSearch
  <2>7. SearchInv'
    BY <1>6, <2>4, <2>6 DEF SearchInv, StartSearch
  <2> QED
    BY <1>6, <2>3, <2>4, <2>5, <2>7 DEF RecordInv, StartSearch
<1>7. ASSUME Encounter
      PROVE  RecordInv' /\ \E q \in Requests : Atomic!RecordCall(q)
  <2>1. /\ SearchInv /\ LoopInv /\ call.child \in Keys /\ Parent \in Keys
        /\ Appended \in SUBSET Keys /\ at <= Len(call.parents) /\ pc # "idle"
    BY <1>1, <1>7, CallTypes DEF Encounter, RecordInv
  <2>2. call.child \in Met
    BY <1>1, <1>7, LastAndFront DEF Encounter, Met, SearchTypeOK
  <2>3. Reaches(Edges, Parent, call.child)
    BY <2>1, <2>2 DEF SearchInv, Reaches
  <2>4. Reaches(settled, Parent, call.child)
    BY <1>1, <2>1, <2>3, OwnEdgesIrrelevant DEF LoopInv, SearchInv
  <2>5. ClosesCycle(settled, call.child, Parent)
    BY <2>4 DEF ClosesCycle
  <2> QED
    BY <1>7, <2>1, <2>5, ReturnIsRecord DEF Encounter
<1>8. ASSUME Skip \/ Visit
      PROVE  RecordInv' /\ UNCHANGED <<settled, answer>>
  <2> DEFINE n == Last(stack)
  <2>1. /\ SearchInv /\ LoopInv /\ call.child \in Keys /\ Parent \in Keys
        /\ pc = "search" /\ stack # <<>> /\ n # call.child
    BY <1>1, <1>8, CallTypes DEF Skip, Visit, RecordInv
  <2>2. /\ n \in Keys /\ Front(stack) \in Seq(Keys)
        /\ ToSet(stack) = ToSet(Front(stack)) \cup {n}
    BY <1>1, <2>1, LastAndFront DEF SearchTypeOK
  <2>3. /\ Edges' = Edges /\ Parent' = Parent /\ Appended' = Appended
        /\ UNCHANGED <<parents, call, at, pc, settled, answer>>
    BY <1>8 DEF Skip, Visit, Edges, EdgeSets, Parent, Appended
  <2>4. LoopInv'
    BY <2>1, <2>3 DEF LoopInv
  <2>5. CASE Skip
    <3>1. stack' = Front(stack) /\ seen' = seen /\ n \in seen /\ pushed' = pushed
      BY <2>5 DEF Skip, Popped, Seen
    <3>2. SearchTypeOK'
      BY <1>1, <2>2, <2>3, <3>1 DEF SearchTypeOK
    <3>3. Met' = Met
      BY <2>2, <3>1 DEF Met
    <3>4. SearchInv'
      BY <2>1, <2>3, <3>1, <3>3 DEF SearchInv
    <3> QED
      BY <2>1, <2>3, <2>4, <3>2, <3>4 DEF RecordInv
  <2>6. CASE Visit
    <3>1. /\ stack' = Front(stack) \o parents[n]
          /\ seen' = seen \cup {n} /\ pushed' = pushed + Len(parents[n])
      BY <2>6 DEF Visit, Popped
    <3>2. /\ stack' \in Seq(Keys)
          /\ ToSet(stack') = ToSet(Front(stack)) \cup Edges[n]
      BY <1>1, <1>2, <2>2, <3>1, JoinedMembers DEF SearchTypeOK
    <3>3. SearchTypeOK'
      BY <1>1, <2>2, <2>3, <3>1, <3>2 DEF SearchTypeOK
    <3>4. Met' = Met \cup Edges[n] /\ n \in Met
      BY <2>2, <3>1, <3>2 DEF Met
    <3>5. SearchInv'
      <4>1. ASSUME NEW T \in SUBSET Keys, Edges[Parent] \subseteq T,
                   ClosedUnder(Edges, T)
            PROVE  Met' \subseteq T
        BY <2>1, <3>4, <4>1 DEF SearchInv, ClosedUnder
      <4>2. Edges[Parent] \subseteq Met'
        BY <2>1, <3>4 DEF SearchInv
      <4>3. \A x \in seen' : Edges[x] \subseteq Met'
        BY <2>1, <3>1, <3>4 DEF SearchInv
      <4>4. call.child \notin seen'
        BY <2>1, <3>1 DEF SearchInv
      <4> QED
        BY <2>1, <2>3, <4>1, <4>2, <4>3, <4>4 DEF SearchInv
    <3> QED
      BY <2>1, <2>3, <2>4, <3>3, <3>5 DEF RecordInv
  <2> QED
    BY <1>8, <2>3, <2>5, <2>6
<1>9. ASSUME Exhausted
      PROVE  RecordInv' /\ UNCHANGED <<settled, answer>>
  <2>1. /\ SearchInv /\ LoopInv /\ call.child \in Keys /\ Parent \in Keys
        /\ at \in 1 .. Len(call.parents) /\ Len(call.parents) \in Nat
        /\ Appended \in SUBSET Keys /\ pc = "search" /\ call \in Requests
    BY <1>1, <1>9, CallTypes DEF Exhausted, RecordInv
  <2>2. Met = seen /\ seen \in SUBSET Keys
    BY <1>1, <1>9 DEF Exhausted, Met, ToSet, SearchTypeOK
  <2>3. ~Reaches(Edges, Parent, call.child)
    BY <2>1, <2>2 DEF SearchInv, Reaches, ClosedUnder
  <2>4. ~ClosesCycle(settled, call.child, Parent)
    BY <1>1, <2>1, <2>3, OwnEdgesIrrelevant DEF ClosesCycle, SearchInv, LoopInv
  <2>5. /\ parents' = [parents EXCEPT ![call.child] = Append(@, Parent)]
        /\ at' = at + 1 /\ pc' = "record" /\ UNCHANGED <<call, answer, settled>>
        /\ stack' = <<>> /\ seen' = {} /\ pushed' = 0
    BY <1>9 DEF Exhausted, EndSearch
  <2>6. /\ Append(parents[call.child], Parent) \in Seq(Keys)
        /\ ToSet(Append(parents[call.child], Parent))
              = Edges[call.child] \cup {Parent}
    BY <1>1, <1>2, <2>1, AppendedMember DEF SearchTypeOK
  <2>7. SearchTypeOK'
    <3>1. parents' \in [Keys -> Seq(Keys)]
      BY <1>1, <2>1, <2>5, <2>6 DEF SearchTypeOK
    <3>2. at' \in 1 .. Len(call.parents) + 1
      BY <2>1, <2>5
    <3> QED
      BY <1>1, <2>1, <2>5, <3>1, <3>2 DEF SearchTypeOK
  <2>8. Appended' = Appended \cup {Parent}
    <3>1. 1 .. at' - 1 = (1 .. at - 1) \cup {at}
      BY <2>1, <2>5
    <3> QED
      BY <3>1, <2>5 DEF Appended, Parent
  <2>9. Edges' = WithEdges(Edges, call.child, {Parent})
    <3>1. \A k \in Keys : Edges'[k] = ToSet(parents'[k])
      BY <2>7, EdgeSetsType DEF Edges, SearchTypeOK
    <3>2. \A k \in Keys : Edges'[k] = WithEdges(Edges, call.child, {Parent})[k]
      BY <1>1, <1>2, <2>1, <2>5, <2>6, <3>1 DEF WithEdges, EdgeMap, SearchTypeOK
    <3>3. Edges' \in [Keys -> SUBSET Keys]
      BY <2>7, EdgeSetsType DEF Edges, SearchTypeOK, EdgeMap
    <3>4. WithEdges(Edges, call.child, {Parent}) \in [Keys -> SUBSET Keys]
      BY <1>1, <2>1 DEF WithEdges, EdgeMap
    <3>5. \A f, g \in [Keys -> SUBSET Keys] : (\A k \in Keys : f[k] = g[k]) => f = g
      OBVIOUS
    <3> QED
      BY <3>2, <3>3, <3>4, <3>5
  <2>10. Edges' = WithEdges(settled, call.child, Appended \cup {Parent})
    BY <1>1, <2>1, <2>9 DEF LoopInv, WithEdges, EdgeMap
  <2>11. \A i \in 1 .. at' - 1 : ~ClosesCycle(settled, call.child, call.parents[i])
    <3>1. 1 .. at' - 1 = (1 .. at - 1) \cup {at}
      BY <2>1, <2>5
    <3> QED
      BY <3>1, <2>1, <2>4 DEF LoopInv, Parent
  <2>12. LoopInv'
    BY <2>5, <2>8, <2>10, <2>11 DEF LoopInv
  <2> QED
    BY <2>5, <2>7, <2>12 DEF RecordInv
<1>10. ASSUME UNCHANGED searchVars
       PROVE  RecordInv' /\ UNCHANGED <<settled, answer>>
  <2>1. Edges' = Edges /\ Appended' = Appended /\ Met' = Met /\ Parent' = Parent
    BY <1>10 DEF searchVars, Edges, EdgeSets, Appended, Met, Parent
  <2> QED
    BY <1>10, <2>1 DEF searchVars, RecordInv, SearchTypeOK, LoopInv, SearchInv
<1> QED
  BY <1>3, <1>4, <1>5, <1>6, <1>7, <1>8, <1>9, <1>10 DEF SearchNext, Step

\* record() with its loops does in several steps what Record does in one,
\* whatever the graph, the parents named and the order they are tried in.
THEOREM SearchImplementsRecord == SearchSpec => ImplementsRecord
<1>1. SearchInit => RecordInv /\ Atomic!RecordInit
  BY InitRecord
<1>2. RecordInv /\ [SearchNext]_searchVars
        => RecordInv' /\ [\E q \in Requests : Atomic!RecordCall(q)]_<<settled, answer>>
  BY StepRecord
<1> QED
  BY <1>1, <1>2, PTL DEF SearchSpec, ImplementsRecord, Atomic!RecordSpec

-----------------------------------------------------------------------------
(* The graph *)

AcyclicInv == RecordInv /\ Acyclic(settled)

LEMMA InitAcyclic == SearchInit => AcyclicInv
<1> SUFFICES ASSUME SearchInit PROVE AcyclicInv
  OBVIOUS
<1>1. \A k \in Keys : settled[k] \subseteq {} /\ ClosedUnder(settled, {})
  BY DEF SearchInit, ClosedUnder
<1> QED
  BY <1>1, InitRecord DEF AcyclicInv, Acyclic, Reaches

LEMMA StepAcyclic ==
  ASSUME AcyclicInv, [SearchNext]_searchVars
  PROVE  AcyclicInv'
<1>1. CASE UNCHANGED settled
  BY <1>1, StepRecord DEF AcyclicInv, Acyclic
<1>2. ASSUME NEW q \in Requests, Atomic!RecordCall(q) PROVE AcyclicInv'
  <2>1. q.child \in Keys /\ q.parents \in Seq(Keys) /\ settled \in EdgeMap
    BY SearchAssumption DEF AcyclicInv, RecordInv, SearchTypeOK, EdgeMap
  <2>2. settled' = Record(settled, q.child, q.parents)
    BY <1>2, SameRecord DEF Atomic!RecordCall
  <2>3. Acyclic(settled')
    BY <2>1, <2>2, RecordKeepsAcyclic DEF AcyclicInv
  <2> QED
    BY <2>3, StepRecord DEF AcyclicInv, Acyclic
<1> QED
  BY <1>1, <1>2, StepRecord DEF AcyclicInv

\* What a call has appended so far leaves the graph acyclic too.
LEMMA NowAcyclic ==
  ASSUME AcyclicInv
  PROVE  Acyclic(Edges)
<1>1. CASE pc = "idle"
  BY <1>1 DEF AcyclicInv, RecordInv
<1>2. CASE pc # "idle"
  <2>1. /\ call.child \in Keys /\ call.parents \in Seq(Keys)
        /\ Len(call.parents) \in Nat /\ at \in 1 .. Len(call.parents) + 1
        /\ settled \in EdgeMap /\ LoopInv
    BY <1>2, CallTypes DEF AcyclicInv, RecordInv, SearchTypeOK, EdgeMap
  <2> DEFINE done == SubSeq(call.parents, 1, at - 1)
  <2>2. /\ done \in Seq(Keys) /\ Len(done) = at - 1
        /\ \A i \in 1 .. at - 1 : done[i] = call.parents[i]
    BY <2>1
  <2>3. /\ at \in 1 .. Len(done) + 1 /\ at = Len(done) + 1
        /\ \A i \in 1 .. at - 1 : ~ClosesCycle(settled, call.child, done[i])
    BY <2>1, <2>2 DEF LoopInv
  <2>4. Record(settled, call.child, done)
          = WithEdges(settled, call.child, { done[i] : i \in 1 .. at - 1 })
    BY <2>1, <2>2, <2>3, LoopStops
  <2>5. { done[i] : i \in 1 .. at - 1 } = Appended
    BY <2>2 DEF Appended
  <2>6. Edges = Record(settled, call.child, done)
    BY <2>1, <2>4, <2>5 DEF LoopInv
  <2> QED
    BY <2>1, <2>2, <2>6, RecordKeepsAcyclic DEF AcyclicInv
<1> QED
  BY <1>1, <1>2

\* record() and its searches keep the graph acyclic at every moment.
THEOREM SearchKeepsAcyclic == SearchSpec => []GraphStaysAcyclic
<1>1. AcyclicInv => GraphStaysAcyclic
  BY NowAcyclic DEF GraphStaysAcyclic, Edges
<1> QED
  BY <1>1, InitAcyclic, StepAcyclic, PTL DEF SearchSpec

-----------------------------------------------------------------------------
(* The cost of a search *)

Row(k) == {k} \X DOMAIN parents[k]

SlotsOf(S) == UNION { Row(k) : k \in S }

\* A search has put on its stack the edges of the nodes it has seen and of the
\* parent it started from, each once.
LinearInv ==
    /\ AcyclicInv
    /\ IsFiniteSet(EdgeSlots)
    /\ pushed = IF pc = "search" THEN Cardinality(SlotsOf(seen \cup {Parent})) ELSE 0

LEMMA RowSize ==
  ASSUME NEW list \in Seq(Keys), NEW k
  PROVE  /\ IsFiniteSet({k} \X DOMAIN list)
         /\ Cardinality({k} \X DOMAIN list) = Len(list)
<1>1. PICK places : places = DOMAIN list
  OBVIOUS
<1>2. Len(list) \in Nat /\ places = 1 .. Len(list)
  BY <1>1
<1>3. IsFiniteSet(places) /\ Cardinality(places) = Len(list)
  BY <1>2, FS_Interval
<1>4. IsFiniteSet({k}) /\ Cardinality({k}) = 1
  BY FS_Singleton
<1>5. /\ IsFiniteSet({k} \X places)
      /\ Cardinality({k} \X places) = Cardinality({k}) * Cardinality(places)
  BY <1>3, <1>4, FS_Product
<1>6. Cardinality({k} \X places) = Len(list)
  BY <1>2, <1>3, <1>4, <1>5
<1> QED
  BY <1>1, <1>5, <1>6

\* The edges of one node more.
LEMMA SlotsGrow ==
  ASSUME SearchTypeOK, NEW S \in SUBSET Keys, NEW k \in Keys, k \notin S,
         IsFiniteSet(EdgeSlots)
  PROVE  Cardinality(SlotsOf(S \cup {k})) = Cardinality(SlotsOf(S)) + Len(parents[k])
<1>1. SlotsOf(S) \in SUBSET EdgeSlots
  BY DEF SlotsOf, EdgeSlots, Row
<1>2. IsFiniteSet(SlotsOf(S))
  BY <1>1, FS_Subset
<1>3. PICK row : row = Row(k)
  OBVIOUS
<1>4. IsFiniteSet(row) /\ Cardinality(row) = Len(parents[k]) /\ Len(parents[k]) \in Nat
  <2>1. parents[k] \in Seq(Keys)
    BY DEF SearchTypeOK
  <2>2. Len(parents[k]) \in Nat
    BY <2>1
  <2> QED
    BY <1>3, <2>1, <2>2, RowSize DEF Row
<1>5. PICK others : others = SlotsOf(S)
  OBVIOUS
<1>6. SlotsOf(S \cup {k}) = others \cup row /\ others \cap row = {}
  BY <1>3, <1>5 DEF SlotsOf, Row
<1>7. Cardinality(others \cup row)
        = Cardinality(others) + Cardinality(row) - Cardinality(others \cap row)
  BY <1>2, <1>4, <1>5, FS_Union
<1>8. Cardinality(others) \in Nat /\ Cardinality(others \cap row) = 0
  BY <1>2, <1>5, <1>6, FS_CardinalityType, FS_EmptySet
<1>9. Cardinality(others \cup row) = Cardinality(others) + Len(parents[k])
  BY <1>4, <1>7, <1>8
<1> QED
  BY <1>5, <1>6, <1>9

LEMMA InitLinear == SearchInit => LinearInv
<1> SUFFICES ASSUME SearchInit PROVE LinearInv
  OBVIOUS
<1>1. EdgeSlots = {}
  BY DEF SearchInit, EdgeSlots
<1> QED
  BY <1>1, InitAcyclic, FS_EmptySet DEF LinearInv, SearchInit

LEMMA StepLinear ==
  ASSUME LinearInv, [SearchNext]_searchVars
  PROVE  LinearInv'
<1>1. AcyclicInv' /\ RecordInv /\ SearchTypeOK /\ IsFiniteSet(EdgeSlots)
  BY StepAcyclic DEF LinearInv, AcyclicInv, RecordInv
<1>2. ASSUME UNCHANGED parents
      PROVE  /\ IsFiniteSet(EdgeSlots')
             /\ \A S : SlotsOf(S)' = SlotsOf(S')
  BY <1>1, <1>2 DEF EdgeSlots, SlotsOf, Row
<1>3. ASSUME UNCHANGED parents, pushed' = 0, pc' # "search"
      PROVE  LinearInv'
  BY <1>1, <1>2, <1>3 DEF LinearInv
<1>4. ASSUME NEW q \in Requests, Call(q)
      PROVE  LinearInv'
  <2>1. pushed = 0
    BY <1>4 DEF Call, LinearInv
  <2> QED
    BY <1>3, <1>4, <2>1 DEF Call
<1>5. CASE Recorded \/ SelfParent \/ Encounter
  BY <1>3, <1>5 DEF Recorded, SelfParent, Encounter, Return, EndSearch
<1>6. CASE StartSearch
  <2>1. Parent \in Keys /\ Parent' = Parent
    BY <1>1, <1>6, CallTypes DEF StartSearch, Parent
  <2>2. Cardinality(SlotsOf({} \cup {Parent})) = Cardinality(SlotsOf({})) + Len(parents[Parent])
    BY <1>1, <2>1, SlotsGrow
  <2>3. Cardinality(SlotsOf({})) = 0 /\ Len(parents[Parent]) \in Nat
    <3>1. SlotsOf({}) = {} /\ Cardinality({}) = 0
      BY FS_EmptySet DEF SlotsOf
    <3>2. parents[Parent] \in Seq(Keys)
      BY <1>1, <2>1 DEF SearchTypeOK
    <3>3. Cardinality(SlotsOf({})) = 0
      BY <3>1, Zenon
    <3> QED
      BY <3>2, <3>3
  <2>4. /\ seen' = {} /\ pc' = "search" /\ pushed' = Len(parents[Parent])
        /\ UNCHANGED parents
    BY <1>6 DEF StartSearch, SearchedFrom
  <2>5. SlotsOf(seen \cup {Parent})' = SlotsOf({} \cup {Parent})
    BY <2>1, <2>4 DEF SlotsOf, Row
  <2>6. Cardinality(SlotsOf({} \cup {Parent})) = Len(parents[Parent])
    BY <2>2, <2>3
  <2>7. pushed' = Cardinality(SlotsOf(seen \cup {Parent})')
    BY <2>4, <2>5, <2>6
  <2> QED
    BY <1>1, <1>2, <2>4, <2>7 DEF LinearInv
<1>7. CASE Skip
  <2>1. UNCHANGED <<parents, call, at, seen, pc, pushed>> /\ pc = "search"
    BY <1>7 DEF Skip
  <2>2. SlotsOf(seen \cup {Parent})' = SlotsOf(seen \cup {Parent})
    BY <2>1 DEF SlotsOf, Row, Parent
  <2> QED
    BY <1>1, <1>2, <2>1, <2>2 DEF LinearInv
<1>8. CASE Visit
  <2> DEFINE n == Last(stack)
  <2>1. /\ UNCHANGED <<parents, call, at, pc>> /\ pc = "search"
        /\ stack # <<>> /\ n \notin seen
        /\ seen' = seen \cup {n} /\ pushed' = pushed + Len(parents[n])
    BY <1>8 DEF Visit, Seen
  <2>2. Parent \in Keys /\ n \in Keys /\ n \in Met /\ seen \in SUBSET Keys
    BY <1>1, <2>1, CallTypes, LastAndFront DEF Met, SearchTypeOK
  <2>3. n # Parent
    <3>1. Reaches(Edges, Parent, n)
      BY <1>1, <2>1, <2>2 DEF RecordInv, SearchInv, Reaches
    <3> QED
      BY <2>2, <3>1, NowAcyclic DEF LinearInv, Acyclic
  <2> DEFINE S == seen \cup {Parent}
  <2>4. SlotsOf(seen \cup {Parent})' = SlotsOf(S \cup {n})
    <3>1. (seen \cup {Parent})' = S \cup {n}
      BY <2>1 DEF Parent
    <3> QED
      BY <2>1, <3>1 DEF SlotsOf, Row
  <2>5. Cardinality(SlotsOf(S \cup {n})) = Cardinality(SlotsOf(S)) + Len(parents[n])
    BY <1>1, <2>1, <2>2, <2>3, SlotsGrow
  <2>6. pushed = Cardinality(SlotsOf(S))
    BY <2>1 DEF LinearInv
  <2> QED
    BY <1>1, <1>2, <2>1, <2>4, <2>5, <2>6 DEF LinearInv
<1>9. CASE Exhausted
  <2>1. /\ parents' = [parents EXCEPT ![call.child] = Append(@, Parent)]
        /\ pc' = "record" /\ pushed' = 0 /\ pc = "search"
    BY <1>9 DEF Exhausted, EndSearch
  <2>2. call.child \in Keys /\ Parent \in Keys /\ SearchTypeOK'
    BY <1>1, <2>1, CallTypes DEF AcyclicInv, RecordInv
  <2>3. IsFiniteSet(Row(call.child)')
    <3>1. call' = call /\ parents'[call.child] \in Seq(Keys)
      BY <1>9, <2>2 DEF Exhausted, SearchTypeOK
    <3> QED
      BY <3>1, RowSize DEF Row
  <2>4. EdgeSlots' \in SUBSET (EdgeSlots \cup Row(call.child)')
    <3>1. \A k \in Keys \ {call.child} : parents'[k] = parents[k]
      BY <1>1, <2>1 DEF SearchTypeOK
    <3>2. call' = call
      BY <1>9 DEF Exhausted
    <3> QED
      BY <3>1, <3>2 DEF EdgeSlots, Row
  <2>5. IsFiniteSet(EdgeSlots')
    BY <1>1, <2>3, <2>4, FS_Union, FS_Subset
  <2> QED
    BY <1>1, <2>1, <2>5 DEF LinearInv
<1>10. CASE UNCHANGED searchVars
  <2>1. UNCHANGED <<parents, call, at, seen, pc, pushed>>
    BY <1>10 DEF searchVars
  <2>2. SlotsOf(seen \cup {Parent})' = SlotsOf(seen \cup {Parent})
    BY <2>1 DEF SlotsOf, Row, Parent
  <2> QED
    BY <1>1, <1>2, <2>1, <2>2 DEF LinearInv
<1> QED
  BY <1>4, <1>5, <1>6, <1>7, <1>8, <1>9, <1>10 DEF SearchNext, Step

LEMMA LinearBound == LinearInv => SearchIsLinear
<1> SUFFICES ASSUME LinearInv PROVE pushed <= Cardinality(EdgeSlots)
  BY DEF SearchIsLinear, EdgeCount
<1>1. Cardinality(EdgeSlots) \in Nat
  BY FS_CardinalityType DEF LinearInv
<1>2. CASE pc = "search"
  <2>1. Parent \in Keys /\ seen \in SUBSET Keys
    BY <1>2, CallTypes DEF LinearInv, AcyclicInv, RecordInv, SearchTypeOK
  <2>2. SlotsOf(seen \cup {Parent}) \in SUBSET EdgeSlots
    BY <2>1 DEF SlotsOf, EdgeSlots, Row
  <2> QED
    BY <1>2, <2>2, FS_Subset DEF LinearInv
<1>3. CASE pc # "search"
  BY <1>1, <1>3 DEF LinearInv
<1> QED
  BY <1>2, <1>3

\* A search costs no more than the graph has edges, however large it is and however
\* many paths lead to one node: every node is visited once, and the one the search
\* started from never, because the graph is acyclic.
THEOREM SearchCost == SearchSpec => []SearchIsLinear
BY LinearBound, InitLinear, StepLinear, PTL DEF SearchSpec

-----------------------------------------------------------------------------
(* The steps of a call *)

LEMMA OneRoundLess ==
  ASSUME NEW left \in Nat, left >= 1, NEW round \in Nat
  PROVE  (left - 1) * round \in Nat /\ left * round = (left - 1) * round + round
<1>1. PICK m \in Nat : left = m + 1
  OBVIOUS
<1>2. m * round \in Nat /\ (m + 1) * round = m * round + round
  OBVIOUS
<1> QED
  BY <1>1, <1>2

\* What the fuel is made of is a natural number, and so is the fuel.
LEMMA FuelTypes ==
  ASSUME LinearInv, pc # "idle"
  PROVE  /\ EdgeCount \in Nat /\ pushed \in 0 .. EdgeCount
         /\ Len(call.parents) - at + 1 \in Nat
         /\ pc = "search" => Len(call.parents) - at + 1 >= 1
         /\ Len(stack) \in Nat
<1>1. SearchTypeOK
  BY DEF LinearInv, AcyclicInv, RecordInv
<1>2. EdgeCount \in Nat
  BY FS_CardinalityType DEF LinearInv, EdgeCount
<1>3. pushed \in Nat /\ pushed <= EdgeCount
  BY <1>1, LinearBound DEF SearchTypeOK, SearchIsLinear
<1>4. Len(call.parents) \in Nat /\ at \in 1 .. Len(call.parents) + 1
  BY <1>1, CallTypes
<1>5. pc = "search" => at \in 1 .. Len(call.parents)
  BY <1>1 DEF SearchTypeOK
<1>6. Len(stack) \in Nat
  BY <1>1 DEF SearchTypeOK
<1> QED
  BY <1>2, <1>3, <1>4, <1>5, <1>6

\* The fuel while the loop runs and while a search does.
LEMMA FuelOf ==
  ASSUME NEW left, left = Len(call.parents) - at + 1,
         NEW round, round = EdgeCount + left + 2
  PROVE  /\ pc = "idle" => FuelLeft = 0
         /\ pc = "record" => FuelLeft = 1 + left * round
         /\ pc = "search" =>
               FuelLeft = 2 + (left - 1) * round + (EdgeCount - pushed + Len(stack))
BY DEF FuelLeft

LEMMA FuelPositive == LinearInv /\ pc # "idle" => FuelLeft \in Nat \ {0}
<1> SUFFICES ASSUME LinearInv, pc # "idle" PROVE FuelLeft \in Nat \ {0}
  OBVIOUS
<1>1. PICK left : left = Len(call.parents) - at + 1
  OBVIOUS
<1>2. PICK round : round = EdgeCount + left + 2
  OBVIOUS
<1>3. left \in Nat /\ round \in Nat
  BY <1>1, <1>2, FuelTypes
<1>4. CASE pc = "record"
  <2>1. left * round \in Nat
    BY <1>3
  <2>2. FuelLeft = 1 + left * round
    BY <1>1, <1>2, <1>4, FuelOf
  <2> QED
    BY <2>1, <2>2
<1>5. CASE pc = "search"
  <2>1. PICK rest : rest = (left - 1) * round
    OBVIOUS
  <2>2. rest \in Nat
    BY <1>1, <1>3, <1>5, <2>1, FuelTypes, OneRoundLess
  <2>3. EdgeCount - pushed + Len(stack) \in Nat
    BY FuelTypes
  <2>4. FuelLeft = 2 + rest + (EdgeCount - pushed + Len(stack))
    BY <1>1, <1>2, <1>5, <2>1, FuelOf
  <2> QED
    BY <2>2, <2>3, <2>4
<1>6. pc \in {"record", "search"}
  BY DEF LinearInv, AcyclicInv, RecordInv, SearchTypeOK
<1> QED
  BY <1>4, <1>5, <1>6

\* The appended edge is one more.
LEMMA OneEdgeMore ==
  ASSUME LinearInv, Exhausted
  PROVE  EdgeCount' = EdgeCount + 1
<1>1. PICK child : child = call.child
  OBVIOUS
<1>2. PICK list : list = parents[child]
  OBVIOUS
<1>3. SearchTypeOK /\ pc = "search"
  BY DEF LinearInv, AcyclicInv, RecordInv, Exhausted
<1>4. child \in Keys /\ Parent \in Keys /\ list \in Seq(Keys)
  BY <1>1, <1>2, <1>3, CallTypes DEF SearchTypeOK
<1>5. PICK n \in Nat : n = Len(list)
  BY <1>4
<1>6. DOMAIN list = 1 .. n /\ DOMAIN Append(list, Parent) = 1 .. n + 1
  BY <1>4, <1>5
<1>7. PICK new : new = <<child, n + 1>>
  OBVIOUS
<1>8. /\ parents'[child] = Append(list, Parent)
      /\ \A k \in Keys \ {child} : parents'[k] = parents[k]
  BY <1>1, <1>2, <1>3, <1>4 DEF Exhausted, SearchTypeOK
<1>9. new \notin EdgeSlots
  <2> SUFFICES ASSUME NEW k \in Keys, new \in {k} \X DOMAIN parents[k] PROVE FALSE
    BY DEF EdgeSlots
  <2>1. k = child /\ n + 1 \in DOMAIN list
    BY <1>2, <1>7
  <2> QED
    BY <1>6, <2>1
<1>10. EdgeSlots' = EdgeSlots \cup {new}
  <2>1. {child} \X DOMAIN parents'[child] = ({child} \X DOMAIN list) \cup {new}
    <3>1. DOMAIN parents'[child] = DOMAIN list \cup {n + 1}
      BY <1>6, <1>8
    <3> QED
      BY <1>7, <3>1
  <2>2. \A k \in Keys \ {child} : {k} \X DOMAIN parents'[k] = {k} \X DOMAIN parents[k]
    BY <1>8
  <2> DEFINE Now(k) == {k} \X DOMAIN parents[k]
             Then(k) == {k} \X DOMAIN parents'[k]
  <2>3. EdgeSlots = UNION { Now(k) : k \in Keys }
    BY DEF EdgeSlots
  <2>4. EdgeSlots' = UNION { Then(k) : k \in Keys }
    BY DEF EdgeSlots
  <2>5. Then(child) = Now(child) \cup {new} /\ \A k \in Keys \ {child} : Then(k) = Now(k)
    BY <1>2, <2>1, <2>2
  <2> HIDE DEF Now, Then
  <2> QED
    BY <1>4, <2>3, <2>4, <2>5
<1>11. IsFiniteSet(EdgeSlots)
  BY DEF LinearInv
<1>12. Cardinality(EdgeSlots \cup {new}) = Cardinality(EdgeSlots) + 1
  BY <1>9, <1>11, FS_AddElement
<1> QED
  BY <1>10, <1>12 DEF EdgeCount

\* A step of a call uses some of its fuel.
LEMMA FuelSpent ==
  ASSUME LinearInv, pc # "idle", Step
  PROVE  FuelLeft' \in 0 .. FuelLeft - 1
<1>1. PICK left : left = Len(call.parents) - at + 1
  OBVIOUS
<1>2. PICK edges : edges = EdgeCount
  OBVIOUS
<1>3. PICK round : round = edges + left + 2
  OBVIOUS
<1>4. PICK rest : rest = (left - 1) * round
  OBVIOUS
<1>5. left \in Nat /\ edges \in Nat /\ round \in Nat /\ pushed \in 0 .. edges /\ Len(stack) \in Nat
  BY <1>1, <1>2, <1>3, FuelTypes
<1>6. left >= 1 => rest \in Nat /\ left * round = rest + round
  BY <1>4, <1>5, OneRoundLess
<1>7. /\ pc = "record" => FuelLeft = 1 + left * round
      /\ pc = "search" => FuelLeft = 2 + rest + (edges - pushed + Len(stack))
  BY <1>1, <1>2, <1>3, <1>4, FuelOf
<1>8. LinearInv'
  BY StepLinear DEF SearchNext
<1>9. SearchTypeOK /\ Len(call.parents) \in Nat
  BY CallTypes DEF LinearInv, AcyclicInv, RecordInv
<1>10. CASE Recorded \/ SelfParent \/ Encounter
  <2>1. pc' = "idle"
    BY <1>10 DEF Recorded, SelfParent, Encounter, Return
  <2>2. FuelLeft' = 0
    BY <2>1 DEF FuelLeft
  <2> QED
    BY <2>2, FuelPositive
<1>11. ASSUME UNCHANGED parents PROVE EdgeCount' = edges
  BY <1>2, <1>11 DEF EdgeCount, EdgeSlots
<1>12. ASSUME pc' = "search", UNCHANGED <<parents, call, at>>
       PROVE  FuelLeft' = 2 + rest + (edges - pushed' + Len(stack)')
  <2>1. EdgeCount' = edges
    BY <1>11, <1>12
  <2> QED
    BY <1>1, <1>3, <1>4, <1>12, <2>1 DEF FuelLeft
<1>13. CASE StartSearch
  <2>1. /\ pc = "record" /\ pc' = "search" /\ UNCHANGED <<parents, call, at>>
        /\ at <= Len(call.parents) /\ pushed' = Len(stack')
    BY <1>13 DEF StartSearch
  <2>2. Len(stack') \in Nat
    BY <1>8 DEF LinearInv, AcyclicInv, RecordInv, SearchTypeOK
  <2>3. FuelLeft' = 2 + rest + edges
    BY <1>5, <1>12, <2>1, <2>2
  <2>4. left >= 1
    <3>1. at \in 1 .. Len(call.parents) + 1
      BY <1>9, <2>1 DEF SearchTypeOK
    <3> QED
      BY <1>1, <1>9, <2>1, <3>1
  <2>5. FuelLeft = 1 + (rest + round) /\ rest \in Nat
    BY <1>6, <1>7, <2>1, <2>4
  <2> QED
    BY <1>3, <1>5, <2>3, <2>4, <2>5
<1>14. CASE Skip \/ Visit
  <2>1. /\ pc = "search" /\ pc' = "search" /\ UNCHANGED <<parents, call, at>>
        /\ stack # <<>>
    BY <1>14 DEF Skip, Visit
  <2>2. pushed' - Len(stack') = pushed - Len(stack) + 1 /\ pushed' \in Int /\ Len(stack') \in Nat
    <3>1. stack \in Seq(Keys)
      BY <1>9 DEF SearchTypeOK
    <3>2. Front(stack) \in Seq(Keys) /\ Len(Front(stack)) = Len(stack) - 1
      <4>1. Len(stack) \in Nat \ {0} /\ DOMAIN stack = 1 .. Len(stack)
        BY <2>1, <3>1
      <4> QED
        BY <3>1, <4>1 DEF Front
    <3>3. CASE Skip
      BY <1>5, <3>2, <3>3 DEF Skip, Popped
    <3>4. CASE Visit
      <4>1. PICK more : more = parents[Last(stack)]
        OBVIOUS
      <4>2. more \in Seq(Keys) /\ Len(more) \in Nat
        <5>1. Last(stack) \in Keys
          BY <2>1, <3>1, LastAndFront
        <5> QED
          BY <1>9, <4>1, <5>1 DEF SearchTypeOK
      <4>3. stack' = Front(stack) \o more /\ pushed' = pushed + Len(more)
        BY <3>4, <4>1 DEF Visit, Popped
      <4>4. Len(stack') = Len(stack) - 1 + Len(more)
        BY <3>2, <4>2, <4>3
      <4> QED
        BY <1>5, <4>2, <4>3, <4>4
    <3> QED
      BY <1>14, <3>3, <3>4
  <2>3. FuelLeft' = 2 + rest + (edges - pushed' + Len(stack'))
    BY <1>12, <2>1
  <2>4. FuelLeft = 2 + rest + (edges - pushed + Len(stack))
    BY <1>7, <2>1
  <2>5. FuelLeft' \in Nat
    <3>1. (LinearInv /\ pc # "idle" => FuelLeft \in Nat \ {0})'
      BY FuelPositive, PTL
    <3> QED
      BY <1>8, <2>1, <3>1
  <2>6. rest \in Nat
    BY <1>1, <1>6, <2>1, FuelTypes
  <2> QED
    BY <1>5, <2>2, <2>3, <2>4, <2>5, <2>6
<1>15. CASE Exhausted
  <2>1. pc = "search" /\ pc' = "record" /\ at' = at + 1 /\ UNCHANGED call /\ stack = <<>>
    BY <1>15 DEF Exhausted
  <2>2. EdgeCount' = edges + 1
    BY <1>2, <1>15, OneEdgeMore
  <2>3. left >= 1
    BY <1>1, <2>1, FuelTypes
  <2>4. (Len(call.parents) - at + 1)' = left - 1
    <3>1. at \in Nat
      BY <1>9, <2>1 DEF SearchTypeOK
    <3> QED
      BY <1>1, <1>9, <2>1, <3>1
  <2>5. (EdgeCount + (Len(call.parents) - at + 1) + 2)' = round
    BY <1>3, <1>5, <2>2, <2>4
  <2>6. FuelLeft' = 1 + rest
    BY <1>4, <2>1, <2>4, <2>5 DEF FuelLeft
  <2>7. Len(stack) = 0 /\ rest \in Nat
    BY <1>6, <2>1, <2>3
  <2> QED
    BY <1>5, <1>7, <2>1, <2>6, <2>7
<1> QED
  BY <1>10, <1>13, <1>14, <1>15 DEF Step

\* Every step of a call of record brings it nearer to its end, for any keys and
\* graph: it returns within the steps its fuel counts.
THEOREM CallsAreFinite == SearchSpec => StepsAreCounted
<1> DEFINE Spent == pc # "idle" => FuelLeft' \in 0 .. FuelLeft - 1
<1>1. LinearInv /\ [SearchNext]_searchVars => [Spent]_searchVars
  <2> SUFFICES ASSUME LinearInv, SearchNext, pc # "idle"
               PROVE  FuelLeft' \in 0 .. FuelLeft - 1
    OBVIOUS
  <2>1. Step
    BY DEF SearchNext, Call
  <2> QED
    BY <2>1, FuelSpent
<1>2. LinearInv /\ [SearchNext]_searchVars => LinearInv'
  BY StepLinear
<1> QED
  BY <1>1, <1>2, InitLinear, PTL DEF SearchSpec, StepsAreCounted

=============================================================================
