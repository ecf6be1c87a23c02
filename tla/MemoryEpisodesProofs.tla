------------------------ MODULE MemoryEpisodesProofs ------------------------
(***************************************************************************)
(* Proofs about conversation memory for any number of workers, episodes,   *)
(* jobs, turns and events, any limits, and any goroutines that remember.   *)
(***************************************************************************)
EXTENDS MemoryEpisodes, MemoryFacts, JobQueueProofs, SequenceTheorems, FiniteSetTheorems,
  WellFoundedInduction

-------------------------------------------------------------------------------
(* Proofs about RememberFact for every set of keys, values and goroutines and  *)
(* every number of calls and events, in any interleaving.                      *)

FactsState == FactsTypeOK /\ CallsHold

\* Whatever happens around it, the table and the calls change in these ways only.
SomeEvent == UNCHANGED events \/ \E e \in Events : Happens(e)
FactsChange ==
  \/ \E r \in Rememberers, k \in Keys, v \in Values : Remember(r, k, v) /\ UNCHANGED events
  \/ \E r \in Rememberers : RememberStep(r)
  \/ remember' = [r \in Rememberers |-> NoCall] /\ UNCHANGED <<facts, drawn, met>> /\ Happens("crash")
  \/ UNCHANGED factVars /\ SomeEvent

LEMMA LargestExists ==
  ASSUME NEW n \in Nat, NEW S, S \subseteq 1..n, S # {}
  PROVE  \E m \in S : \A x \in S : x <= m
<1>. DEFINE T == {n - x : x \in S}
<1>1. \A x \in S : x \in Nat /\ n - x \in Nat
  OBVIOUS
<1>2. T \subseteq Nat /\ T # {}
  <2>1. PICK x \in S : TRUE
    OBVIOUS
  <2>2. n - x \in T
    BY <2>1
  <2>3. T \subseteq Nat
    BY <1>1
  <2>. QED  BY <2>2, <2>3
<1>3. PICK t \in T : \A u \in T : ~ (<<u, t>> \in OpToRel(<, Nat))
  <2>. HIDE DEF T
  <2>. QED  BY <1>2, NatLessThanWellFounded, WFMin, Zenon
<1>4. \A u \in T : ~ (u < t)
  BY <1>2, <1>3 DEF OpToRel
<1>5. PICK m \in S : t = n - m
  BY <1>3
<1>6. ASSUME NEW x \in S PROVE x <= m
  <2>1. n - x \in T
    OBVIOUS
  <2>. QED  BY <2>1, <1>1, <1>4, <1>5
<1>. QED  BY <1>6

\* Among the current rows of a key CurrentFact picks the latest.
LEMMA CurrentFactIsCurrent ==
  ASSUME FactsTypeOK, NEW k, CurrentOf(k) # {}
  PROVE  CurrentFact(k) \in CurrentOf(k)
<1>1. CurrentOf(k) \subseteq 1..drawn /\ drawn \in Nat
  BY DEF CurrentOf, FactsTypeOK
<1>2. \E i \in CurrentOf(k) : \A j \in CurrentOf(k) : j <= i
  BY <1>1, LargestExists
<1>. QED  BY <1>2 DEF CurrentFact

LEMMA FactsInitState == FactsInit => FactsState /\ FactsInv
<1>. SUFFICES ASSUME FactsInit PROVE FactsState /\ FactsInv
  OBVIOUS
<1>1. FactsTypeOK
  BY FactsAssumption DEF FactsInit, FactsTypeOK, Call, NoCall, FactIds
<1>2. CallsHold /\ OrderInv
  BY DEF FactsInit, CallsHold, OrderInv, MetApart, IdsApart, CallHolds, ReplacedByDrawn,
         ReplacedForward, Calls, NoCall
<1>3. LostKeys = {} /\ events.faults = 0
  BY DEF FactsInit, LostKeys
<1>4. LossInv
  <2>1. Cardinality(Rememberers) \in Nat
    BY FactsAssumption, FS_CardinalityType
  <2>. QED  BY <1>3, <2>1, FS_EmptySet DEF LossInv
<1>5. ASSUME NEW k \in Keys PROVE WeightHolds(k)
  <2>1. CurrentOf(k) = {} /\ UnderWay(k) = {} /\ met[k] = 0
    BY DEF FactsInit, CurrentOf, UnderWay, Calls, NoCall
  <2>2. Cardinality(CurrentOf(k)) = 0 /\ Cardinality(UnderWay(k)) = 0
    BY <2>1, FS_EmptySet, Zenon
  <2>. QED  BY <2>1, <2>2 DEF WeightHolds, Weight
<1>. QED  BY <1>1, <1>2, <1>4, <1>5 DEF FactsState, FactsInv

LEMMA SomeEventType ==
  ASSUME FactsTypeOK, SomeEvent
  PROVE  events' \in [used : 0..MaxEvents, faults : 0..MaxEvents] /\ events'.faults <= events'.used
BY FactsAssumption DEF FactsTypeOK, SomeEvent, Happens

LEMMA ReturnType ==
  ASSUME FactsTypeOK, NEW r \in Rememberers, Return(r)
  PROVE  /\ remember' \in [Rememberers -> Call]
         /\ remember'[r] = NoCall /\ \A q \in Rememberers : q # r => remember'[q] = remember[q]
BY FactsAssumption DEF FactsTypeOK, Return, Call, NoCall, FactIds

\* A call that has returned, or has not begun, asks nothing of the state.
LEMMA ReturnState ==
  ASSUME FactsState, NEW r \in Rememberers, Return(r), SomeEvent,
         UNCHANGED <<drawn, met>>, \A i \in DOMAIN facts' : facts'[i] \in Fact,
         DOMAIN facts \subseteq DOMAIN facts', DOMAIN facts' \subseteq 1..drawn
  PROVE  FactsState'
<1>1. FactsTypeOK'
  BY ReturnType, SomeEventType DEF FactsState, FactsTypeOK, NoCall
<1>2. CallsHold'
  BY ReturnType DEF FactsState, CallsHold, Calls, NoCall
<1>. QED  BY <1>1, <1>2 DEF FactsState

LEMMA RememberState ==
  ASSUME FactsState, NEW r \in Rememberers, NEW k \in Keys, NEW v \in Values,
         Remember(r, k, v), UNCHANGED events
  PROVE  FactsState'
<1>1. drawn' \in 0..MaxFacts /\ drawn' = drawn + 1 /\ drawn \in 0..MaxFacts
  BY FactsAssumption DEF Remember, FactsState, FactsTypeOK
<1>2. remember' = [remember EXCEPT ![r] =
        [pc |-> "lookup", id |-> drawn + 1, key |-> k, value |-> v, old |-> 0]]
  BY DEF Remember
<1>3. remember' \in [Rememberers -> Call]
  BY <1>1, <1>2, FactsAssumption DEF FactsState, FactsTypeOK, Call, FactIds
<1>4. FactsTypeOK'
  BY <1>1, <1>2, <1>3 DEF Remember, FactsState, FactsTypeOK, Call, FactIds
<1>5. CallsHold'
  BY <1>1, <1>2 DEF Remember, FactsState, FactsTypeOK, CallsHold, Calls, Call, FactIds
<1>. QED  BY <1>4, <1>5 DEF FactsState

LEMMA LookupState ==
  ASSUME FactsState, NEW r \in Rememberers, Lookup(r)
  PROVE  FactsState'
<1>0. DOMAIN facts \subseteq 1..drawn /\ (\A i \in DOMAIN facts : facts[i] \in Fact)
         /\ UNCHANGED <<facts, drawn, met>>
  BY DEF FactsState, FactsTypeOK, Lookup
<1>1. CASE Return(r) /\ SomeEvent
  BY <1>1, <1>0, ReturnState DEF Lookup
<1>2. CASE remember' = [remember EXCEPT ![r].pc = "insert"] /\ UNCHANGED events
  BY <1>2 DEF Lookup, FactsState, FactsTypeOK, CallsHold, Calls, Call
<1>3. CASE /\ CurrentOf(remember[r].key) # {} /\ UNCHANGED events
           /\ remember' = [remember EXCEPT ![r].pc = "supersede",
                                           ![r].old = CurrentFact(remember[r].key)]
  <2>1. CurrentFact(remember[r].key) \in DOMAIN facts
    BY <1>3, CurrentFactIsCurrent DEF FactsState, CurrentOf
  <2>2. FactsTypeOK'
    BY <1>3, <2>1 DEF Lookup, FactsState, FactsTypeOK, Calls, Call, FactIds
  <2>3. CallsHold'
    BY <1>3, <2>1 DEF Lookup, FactsState, FactsTypeOK, CallsHold, Calls, Call
  <2>. QED  BY <2>2, <2>3 DEF FactsState
<1>. QED  BY <1>1, <1>2, <1>3 DEF Lookup, SomeEvent, Happens

LEMMA SupersedeState ==
  ASSUME FactsState, NEW r \in Rememberers, Supersede(r)
  PROVE  FactsState'
<1>1. CASE Return(r) /\ SomeEvent /\ UNCHANGED facts
  BY <1>1, ReturnState DEF Supersede, FactsState, FactsTypeOK
<1>2. CASE /\ facts' = [facts EXCEPT ![remember[r].old].current = FALSE,
                                     ![remember[r].old].by = remember[r].id]
           /\ remember' = [remember EXCEPT ![r].pc = "insert"] /\ UNCHANGED events
  <2>1. remember[r] \in Call /\ remember[r].old \in DOMAIN facts
    BY DEF Supersede, FactsState, FactsTypeOK, CallsHold
  <2>2. DOMAIN facts' = DOMAIN facts /\ \A i \in DOMAIN facts : facts'[i] \in Fact
    <3>. DEFINE old == remember[r].old  new == [facts[old] EXCEPT !.current = FALSE, !.by = remember[r].id]
    <3>1. facts[old] \in Fact /\ remember[r].id \in FactIds \cup {0}
      BY <2>1 DEF FactsState, FactsTypeOK, Call
    <3>2. new \in Fact
      BY <3>1 DEF Fact
    <3>3. facts' = [facts EXCEPT ![old] = new]
      BY <1>2, <2>1
    <3>. HIDE DEF new
    <3>. QED  BY <2>1, <3>2, <3>3 DEF FactsState, FactsTypeOK
  <2>3. remember' \in [Rememberers -> Call] /\ \A q \in Rememberers : remember'[q].id = remember[q].id
    BY <1>2 DEF FactsState, FactsTypeOK, Call
  <2>4. FactsTypeOK'
    BY <1>2, <2>2, <2>3 DEF Supersede, FactsState, FactsTypeOK
  <2>5. CallsHold'
    BY <1>2, <2>2 DEF Supersede, FactsState, FactsTypeOK, CallsHold, Calls, Call
  <2>. QED  BY <2>4, <2>5 DEF FactsState
<1>. QED  BY <1>1, <1>2 DEF Supersede, SomeEvent, Happens

LEMMA InsertState ==
  ASSUME FactsState, NEW r \in Rememberers, InsertFact(r)
  PROVE  FactsState'
<1>1. Return(r) /\ SomeEvent /\ UNCHANGED <<drawn, met>>
  BY DEF InsertFact, SomeEvent, Happens
<1>2. remember[r] \in Call /\ remember[r].id \in 1..drawn
        /\ remember[r].key \in Keys /\ remember[r].value \in Values
  BY DEF InsertFact, FactsState, FactsTypeOK, CallsHold, Calls
<1>3. NewFact(r) \in Fact
  BY <1>2 DEF NewFact, Fact, Call, FactIds
<1>4. CASE UNCHANGED facts
  BY <1>1, <1>4, ReturnState DEF FactsState, FactsTypeOK
<1>5. CASE facts' = [i \in DOMAIN facts \cup {remember[r].id} |->
                       IF i = remember[r].id THEN NewFact(r) ELSE facts[i]]
  <2>1. DOMAIN facts' = DOMAIN facts \cup {remember[r].id}
    BY <1>5
  <2>2. \A i \in DOMAIN facts' : facts'[i] \in Fact
    BY <1>3, <1>5 DEF FactsState, FactsTypeOK
  <2>. QED  BY <1>1, <1>2, <2>1, <2>2, ReturnState DEF FactsState, FactsTypeOK
<1>. QED  BY <1>4, <1>5 DEF InsertFact

(* The types of the facts and of the calls survive whatever happens.        *)
LEMMA FactsStateStep ==
  ASSUME FactsState, FactsChange
  PROVE  FactsState'
<1>1. CASE \E r \in Rememberers, k \in Keys, v \in Values : Remember(r, k, v) /\ UNCHANGED events
  BY <1>1, RememberState
<1>2. CASE \E r \in Rememberers : RememberStep(r)
  BY <1>2, LookupState, SupersedeState, InsertState DEF RememberStep
<1>3. CASE remember' = [r \in Rememberers |-> NoCall] /\ UNCHANGED <<facts, drawn, met>> /\ Happens("crash")
  <2>0. SomeEvent
    BY <1>3 DEF SomeEvent, Happens
  <2>1. FactsTypeOK'
    BY <1>3, <2>0, SomeEventType, FactsAssumption DEF FactsState, FactsTypeOK, Call, NoCall, FactIds
  <2>2. CallsHold'
    BY <1>3 DEF CallsHold, Calls, NoCall
  <2>. QED  BY <2>1, <2>2 DEF FactsState
<1>4. CASE UNCHANGED factVars /\ SomeEvent
  BY <1>4, SomeEventType DEF factVars, FactsState, FactsTypeOK, CallsHold, Calls
<1>. QED  BY <1>1, <1>2, <1>3, <1>4 DEF FactsChange

-----------------------------------------------------------------------------
(* The order of the calls, which may overlap.                              *)

\* The end of a call, or of all of them, changes nothing that OrderInv asks.
LEMMA EndsInOrder ==
  ASSUME OrderInv, UNCHANGED <<facts, drawn, met>>,
         \A q \in Rememberers : remember'[q] = remember[q] \/ Calls(q, "idle")'
  PROVE  OrderInv'
<1>1. MetApart' /\ IdsApart' /\ CallHolds'
  BY DEF OrderInv, MetApart, IdsApart, CallHolds, Calls, Replaced
<1>2. ReplacedByDrawn' /\ ReplacedForward'
  BY DEF OrderInv, ReplacedByDrawn, ReplacedForward
<1>. QED  BY <1>1, <1>2 DEF OrderInv

\* A call begins: its id is later than all others.
LEMMA RememberInv ==
  ASSUME FactsState, OrderInv, NEW r \in Rememberers, NEW k \in Keys, NEW v \in Values,
         Remember(r, k, v)
  PROVE  OrderInv'
<1>1. /\ remember'[r].pc = "lookup" /\ remember'[r].id = drawn + 1 /\ remember'[r].key = k
      /\ \A q \in Rememberers : q # r => remember'[q] = remember[q]
      /\ drawn' = drawn + 1 /\ drawn \in Nat /\ UNCHANGED facts /\ remember[r].pc = "idle"
  BY DEF Remember, FactsState, FactsTypeOK, Calls
<1>2. \A i \in DOMAIN facts : /\ i \in Nat /\ i <= drawn /\ facts[i].key \in Keys
                              /\ facts[i].by \in Nat /\ facts[i].by <= drawn
  BY DEF FactsState, FactsTypeOK, Fact, FactIds, OrderInv, ReplacedByDrawn
<1>3. \A q \in Rememberers : ~Calls(q, "idle") =>
        remember[q].id \in Nat /\ remember[q].id <= drawn /\ remember[q].key \in Keys
  BY <1>1 DEF FactsState, CallsHold
<1>4. /\ \A l \in Keys : met[l] \in Nat /\ (met'[l] = 0 => met[l] = 0)
      /\ \A q \in Rememberers : ~Calls(q, "idle") /\ remember[q].key = k => met'[k] # 0
  <2>1. met \in [Keys -> Nat]
    BY DEF FactsState, FactsTypeOK
  <2>2. CASE UnderWay(k) = {}
    BY <2>1, <2>2 DEF Remember, UnderWay
  <2>3. CASE UnderWay(k) # {}
    BY <2>1, <2>3 DEF Remember
  <2>. QED  BY <2>2, <2>3
<1>5. MetApart'
  <2>. SUFFICES ASSUME NEW p \in Rememberers, NEW q \in Rememberers, ~Calls(p, "idle")',
                       ~Calls(q, "idle")', remember'[p].key = remember'[q].key,
                       met'[remember'[q].key] = 0, p # q
                PROVE  FALSE
    BY DEF MetApart
  <2>1. CASE p = r
    BY <1>1, <1>4, <2>1 DEF Calls
  <2>2. CASE q = r
    BY <1>1, <1>4, <2>2 DEF Calls
  <2>3. CASE p # r /\ q # r
    BY <1>1, <1>3, <1>4, <2>3 DEF OrderInv, MetApart, Calls
  <2>. QED  BY <2>1, <2>2, <2>3
<1>6. IdsApart'
  BY <1>1, <1>3 DEF OrderInv, IdsApart, Calls
<1>7. CallHolds'
  <2>1. ASSUME NEW q \in Rememberers, q # r, ~Calls(q, "idle")'
        PROVE  /\ remember'[q].id \notin DOMAIN facts'
               /\ \A i \in DOMAIN facts' : facts'[i].by = remember'[q].id => Replaced(i, q)'
               /\ Calls(q, "supersede")' => Replaced(remember[q].old, q)'
               /\ met'[remember'[q].key] = 0 =>
                    \A i \in DOMAIN facts' : facts'[i].key = remember'[q].key => i < remember'[q].id
    BY <1>1, <1>3, <1>4, <2>1 DEF OrderInv, CallHolds, Calls, Replaced
  <2>. QED  BY <1>1, <1>2, <2>1 DEF CallHolds, Calls
<1>8. ReplacedByDrawn' /\ ReplacedForward'
  BY <1>1, <1>2, <1>4 DEF OrderInv, ReplacedByDrawn, ReplacedForward
<1>. QED  BY <1>5, <1>6, <1>7, <1>8 DEF OrderInv

\* Where a call looks up the current value it keeps its id, key and value.
LEMMA LookupInv ==
  ASSUME FactsState, OrderInv, NEW r \in Rememberers, Lookup(r)
  PROVE  OrderInv'
<1>1. UNCHANGED <<facts, drawn, met>> /\ ~Calls(r, "idle")
  BY DEF Lookup, Calls
<1>. DEFINE found == CurrentOf(remember[r].key)
            old == CurrentFact(remember[r].key)
<1>2. CASE Return(r)
  BY <1>1, <1>2, ReturnType, EndsInOrder DEF FactsState, Calls, NoCall
<1>3. ASSUME /\ \A q \in Rememberers : q # r => remember'[q] = remember[q]
             /\ remember'[r].id = remember[r].id /\ remember'[r].key = remember[r].key
             /\ remember'[r].value = remember[r].value
             /\ Calls(r, "supersede")' => Replaced(remember'[r].old, r)
      PROVE  OrderInv'
  <2>1. \A q \in Rememberers : /\ ~Calls(q, "idle")' => ~Calls(q, "idle")
                               /\ remember'[q].id = remember[q].id
                               /\ remember'[q].key = remember[q].key
                               /\ remember'[q].value = remember[q].value
                               /\ \A i : Replaced(i, q)' <=> Replaced(i, q)
    BY <1>1, <1>3 DEF Calls, Replaced
  <2>2. MetApart' /\ IdsApart'
    BY <1>1, <2>1 DEF OrderInv, MetApart, IdsApart
  <2>3. ASSUME NEW q \in Rememberers, Calls(q, "supersede")' PROVE Replaced(remember'[q].old, q)
    <3>1. CASE q = r
      BY <1>3, <2>3, <3>1
    <3>2. CASE q # r
      BY <1>3, <2>3, <3>2 DEF OrderInv, CallHolds, Calls
    <3>. QED  BY <3>1, <3>2
  <2>4. \A q \in Rememberers : Calls(q, "supersede")' => Replaced(remember[q].old, q)'
    BY <1>1, <2>1, <2>3 DEF Replaced
  <2>5. CallHolds'
    BY <1>1, <2>1, <2>4 DEF OrderInv, CallHolds
  <2>6. ReplacedByDrawn' /\ ReplacedForward'
    BY <1>1 DEF OrderInv, ReplacedByDrawn, ReplacedForward
  <2>. QED  BY <2>2, <2>5, <2>6 DEF OrderInv
<1>4. CASE found = {} /\ remember' = [remember EXCEPT ![r].pc = "insert"]
  BY <1>3, <1>4 DEF FactsState, FactsTypeOK, Call, Calls
<1>5. CASE /\ found # {} /\ facts[old].value # remember[r].value
           /\ remember' = [remember EXCEPT ![r].pc = "supersede", ![r].old = old]
  <2>1. facts[old].key = remember[r].key
    BY <1>5, CurrentFactIsCurrent DEF FactsState, CurrentOf
  <2>2. Replaced(old, r)
    BY <1>5, <2>1 DEF Replaced
  <2>3. /\ \A q \in Rememberers : q # r => remember'[q] = remember[q]
        /\ remember'[r].id = remember[r].id /\ remember'[r].key = remember[r].key
        /\ remember'[r].value = remember[r].value /\ remember'[r].old = old
    BY <1>5 DEF FactsState, FactsTypeOK, Call
  <2>. QED  BY <1>3, <2>2, <2>3
<1>. QED  BY <1>2, <1>4, <1>5 DEF Lookup

\* What a successful SupersedeFact writes.
LEMMA SupersedeWrites ==
  ASSUME FactsState, OrderInv, NEW r \in Rememberers, Calls(r, "supersede"), NEW old, old = remember[r].old,
         facts' = [facts EXCEPT ![old].current = FALSE, ![old].by = remember[r].id]
  PROVE  /\ old \in DOMAIN facts /\ DOMAIN facts' = DOMAIN facts /\ Replaced(old, r)
         /\ \A i \in DOMAIN facts : i # old => facts'[i] = facts[i]
         /\ facts'[old].current = FALSE /\ facts'[old].by = remember[r].id
         /\ \A i \in DOMAIN facts : facts'[i].key = facts[i].key /\ facts'[i].value = facts[i].value
<1>1. old \in DOMAIN facts /\ Replaced(old, r)
  BY DEF FactsState, CallsHold, OrderInv, CallHolds, Calls
<1>. DEFINE new == [facts[old] EXCEPT !.current = FALSE, !.by = remember[r].id]
<1>2. facts[old] \in Fact
  BY <1>1 DEF FactsState, FactsTypeOK
<1>3. /\ new.key = facts[old].key /\ new.value = facts[old].value
      /\ new.current = FALSE /\ new.by = remember[r].id
  BY <1>2 DEF Fact
<1>4. facts' = [facts EXCEPT ![old] = new]
  BY <1>1
<1>. HIDE DEF new
<1>. QED  BY <1>1, <1>3, <1>4

LEMMA SupersedeInv ==
  ASSUME FactsState, OrderInv, NEW r \in Rememberers, Supersede(r)
  PROVE  OrderInv'
<1>1. UNCHANGED <<drawn, met>>
  BY DEF Supersede
<1>2. CASE Return(r) /\ UNCHANGED facts
  BY <1>1, <1>2, ReturnType, EndsInOrder DEF FactsState, Calls, NoCall
<1>3. CASE /\ facts' = [facts EXCEPT ![remember[r].old].current = FALSE,
                                     ![remember[r].old].by = remember[r].id]
           /\ remember' = [remember EXCEPT ![r].pc = "insert"]
  <2>1. PICK old : old = remember[r].old
    OBVIOUS
  <2>2. /\ old \in DOMAIN facts /\ DOMAIN facts' = DOMAIN facts /\ Replaced(old, r)
        /\ \A i \in DOMAIN facts : i # old => facts'[i] = facts[i]
        /\ facts'[old].current = FALSE /\ facts'[old].by = remember[r].id
        /\ \A i \in DOMAIN facts : facts'[i].key = facts[i].key /\ facts'[i].value = facts[i].value
    <3>1. Calls(r, "supersede")
      BY DEF Supersede
    <3>2. facts' = [facts EXCEPT ![old].current = FALSE, ![old].by = remember[r].id]
      BY <1>3, <2>1
    <3>. QED  BY <2>1, <3>1, <3>2, SupersedeWrites
  <2>3. /\ Calls(r, "supersede") /\ Calls(r, "insert")' /\ ~Calls(r, "idle")
        /\ \A q \in Rememberers : /\ q # r => remember'[q] = remember[q]
                                  /\ remember'[q].id = remember[q].id
                                  /\ remember'[q].key = remember[q].key
                                  /\ remember'[q].value = remember[q].value
    BY <1>3 DEF Supersede, Calls, FactsState, FactsTypeOK, Call
  <2>4. \A q \in Rememberers : ~Calls(q, "idle")' => ~Calls(q, "idle")
    BY <2>3 DEF Calls
  <2>5. \A q \in Rememberers, i \in DOMAIN facts : Replaced(i, q) => Replaced(i, q)'
    BY <2>2, <2>3 DEF Replaced
  <2>6. MetApart' /\ IdsApart'
    BY <1>1, <2>3, <2>4 DEF OrderInv, MetApart, IdsApart
  <2>7. ASSUME NEW q \in Rememberers, ~Calls(q, "idle")'
        PROVE  /\ remember'[q].id \notin DOMAIN facts'
               /\ \A i \in DOMAIN facts' : facts'[i].by = remember'[q].id => Replaced(i, q)'
               /\ Calls(q, "supersede")' => Replaced(remember[q].old, q)'
               /\ met'[remember'[q].key] = 0 =>
                    \A i \in DOMAIN facts' : facts'[i].key = remember'[q].key => i < remember'[q].id
    <3>1. ~Calls(q, "idle")
      BY <2>4, <2>7
    <3>2. remember'[q].id \notin DOMAIN facts'
      BY <2>2, <2>3, <3>1 DEF OrderInv, CallHolds
    <3>3. ASSUME NEW i \in DOMAIN facts, facts'[i].by = remember[q].id PROVE Replaced(i, q)
      <4>1. CASE i = old
        <5>1. q = r
          BY <2>2, <2>3, <3>1, <3>3, <4>1 DEF OrderInv, IdsApart
        <5>. QED  BY <2>2, <4>1, <5>1
      <4>2. CASE i # old
        BY <2>2, <3>1, <3>3, <4>2 DEF OrderInv, CallHolds
      <4>. QED  BY <4>1, <4>2
    <3>4. Calls(q, "supersede")' => Replaced(remember[q].old, q)'
      <4>1. ASSUME Calls(q, "supersede")' PROVE Replaced(remember[q].old, q)'
        <5>1. q # r /\ remember'[q] = remember[q] /\ Calls(q, "supersede")
          BY <2>3, <4>1 DEF Calls
        <5>2. remember[q].old \in DOMAIN facts /\ Replaced(remember[q].old, q)
          BY <5>1, <3>1 DEF OrderInv, CallHolds, FactsState, CallsHold
        <5>3. /\ facts'[remember[q].old].key = facts[remember[q].old].key
              /\ facts'[remember[q].old].value = facts[remember[q].old].value
          BY <2>2, <5>2
        <5>. QED  BY <5>1, <5>2, <5>3 DEF Replaced
      <4>. QED  BY <4>1
    <3>5. met'[remember'[q].key] = 0 =>
            \A i \in DOMAIN facts' : facts'[i].key = remember'[q].key => i < remember'[q].id
      BY <1>1, <2>2, <2>3, <3>1 DEF OrderInv, CallHolds
    <3>. QED  BY <2>2, <2>3, <2>5, <3>2, <3>3, <3>4, <3>5
  <2>8. CallHolds'
    BY <2>7 DEF CallHolds
  <2>9. remember[r].id \in 1..drawn /\ drawn \in Nat /\ remember[r].id \notin DOMAIN facts
    BY <2>3 DEF FactsState, FactsTypeOK, CallsHold, OrderInv, CallHolds
  <2>10. ReplacedByDrawn'
    BY <1>1, <2>2, <2>9 DEF OrderInv, ReplacedByDrawn
  <2>11. ReplacedForward'
    <3>1. met[facts[old].key] = 0 => remember[r].id > old
      <4>1. facts[old].key = remember[r].key /\ old \in Nat
        BY <2>2 DEF Replaced, FactsState, FactsTypeOK
      <4>2. met[remember[r].key] = 0 => old < remember[r].id
        BY <2>2, <2>3, <4>1 DEF OrderInv, CallHolds
      <4>. QED  BY <2>9, <4>1, <4>2
    <3>2. ASSUME NEW i \in DOMAIN facts, i # old, facts'[i].by # 0
          PROVE  /\ ~facts'[i].current
                 /\ met'[facts'[i].key] = 0 => facts'[i].by > i
                 /\ facts'[i].by \in DOMAIN facts' =>
                      facts'[facts'[i].by].key = facts'[i].key /\ facts'[facts'[i].by].value # facts'[i].value
      <4>1. facts'[i] = facts[i]
        BY <2>2, <3>2
      <4>. QED  BY <1>1, <2>2, <3>2, <4>1 DEF OrderInv, ReplacedForward
    <3>. QED  BY <1>1, <2>2, <2>9, <3>1, <3>2 DEF ReplacedForward
  <2>. QED  BY <2>6, <2>8, <2>10, <2>11 DEF OrderInv
<1>. QED  BY <1>2, <1>3 DEF Supersede

\* What a successful InsertFact writes.
LEMMA InsertWrites ==
  ASSUME FactsState, OrderInv, NEW r \in Rememberers, Calls(r, "insert"), NEW id, id = remember[r].id,
         facts' = [i \in DOMAIN facts \cup {id} |-> IF i = id THEN NewFact(r) ELSE facts[i]]
  PROVE  /\ id \notin DOMAIN facts /\ DOMAIN facts' = DOMAIN facts \cup {id}
         /\ \A i \in DOMAIN facts : facts'[i] = facts[i]
         /\ facts'[id].key = remember[r].key /\ facts'[id].value = remember[r].value
         /\ facts'[id].by = 0 /\ facts'[id].current
<1>1. id \notin DOMAIN facts
  BY DEF OrderInv, CallHolds, Calls
<1>. QED  BY <1>1 DEF NewFact

LEMMA InsertInv ==
  ASSUME FactsState, OrderInv, NEW r \in Rememberers, InsertFact(r)
  PROVE  OrderInv'
<1>1. /\ UNCHANGED <<drawn, met>> /\ Calls(r, "insert") /\ ~Calls(r, "idle") /\ Calls(r, "idle")'
      /\ \A q \in Rememberers : q # r => remember'[q] = remember[q]
  BY ReturnType DEF InsertFact, FactsState, Calls, NoCall
<1>2. CASE UNCHANGED facts
  BY <1>1, <1>2, EndsInOrder
<1>3. CASE facts' = [i \in DOMAIN facts \cup {remember[r].id} |->
                       IF i = remember[r].id THEN NewFact(r) ELSE facts[i]]
  <2>1. PICK id : id = remember[r].id
    OBVIOUS
  <2>2. /\ id \notin DOMAIN facts /\ DOMAIN facts' = DOMAIN facts \cup {id}
        /\ \A i \in DOMAIN facts : facts'[i] = facts[i]
        /\ facts'[id].key = remember[r].key /\ facts'[id].value = remember[r].value
        /\ facts'[id].by = 0 /\ facts'[id].current
    BY <1>1, <1>3, <2>1, InsertWrites
  <2>3. \A q \in Rememberers : ~Calls(q, "idle")' =>
          /\ q # r /\ remember'[q] = remember[q] /\ ~Calls(q, "idle")
          /\ remember[q].id # id /\ remember[q].id \in 1..drawn
          /\ remember[q].key = remember[r].key => met[remember[q].key] # 0
    BY <1>1, <2>1 DEF Calls, OrderInv, IdsApart, MetApart, FactsState, CallsHold
  <2>4. MetApart' /\ IdsApart'
    BY <1>1, <2>3 DEF OrderInv, MetApart, IdsApart
  <2>5. ASSUME NEW q \in Rememberers, ~Calls(q, "idle")'
        PROVE  /\ remember'[q].id \notin DOMAIN facts'
               /\ \A i \in DOMAIN facts' : facts'[i].by = remember'[q].id => Replaced(i, q)'
               /\ Calls(q, "supersede")' => Replaced(remember[q].old, q)'
               /\ met'[remember'[q].key] = 0 =>
                    \A i \in DOMAIN facts' : facts'[i].key = remember'[q].key => i < remember'[q].id
    <3>1. /\ remember'[q] = remember[q] /\ ~Calls(q, "idle") /\ remember[q].id # id
          /\ remember[q].id # 0 /\ (remember[q].key = remember[r].key => met[remember[q].key] # 0)
      BY <2>3, <2>5
    <3>2. /\ remember[q].id \notin DOMAIN facts
          /\ \A i \in DOMAIN facts : facts[i].by = remember[q].id => Replaced(i, q)
          /\ Calls(q, "supersede") => Replaced(remember[q].old, q) /\ remember[q].old \in DOMAIN facts
          /\ met[remember[q].key] = 0 =>
               \A i \in DOMAIN facts : facts[i].key = remember[q].key => i < remember[q].id
      BY <3>1 DEF OrderInv, CallHolds, FactsState, CallsHold
    <3>3. \A i \in DOMAIN facts : Replaced(i, q)' <=> Replaced(i, q)
      BY <2>2, <3>1 DEF Replaced
    <3>4. Calls(q, "supersede")' => Replaced(remember[q].old, q)'
      BY <2>2, <3>1, <3>2 DEF Calls, Replaced
    <3>5. \A i \in DOMAIN facts' : facts'[i].by = remember'[q].id => Replaced(i, q)'
      BY <2>2, <3>1, <3>2, <3>3
    <3>6. met'[remember'[q].key] = 0 =>
            \A i \in DOMAIN facts' : facts'[i].key = remember'[q].key => i < remember'[q].id
      BY <1>1, <2>2, <3>1, <3>2
    <3>. QED  BY <2>2, <3>1, <3>2, <3>4, <3>5, <3>6
  <2>6. CallHolds'
    BY <2>5 DEF CallHolds
  <2>7. ReplacedByDrawn'
    <3>1. drawn \in Nat
      BY DEF FactsState, FactsTypeOK
    <3>. QED  BY <1>1, <2>2, <3>1 DEF OrderInv, ReplacedByDrawn
  <2>8. ReplacedForward'
    <3>1. \A i \in DOMAIN facts : facts[i].by = id => Replaced(i, r)
      BY <1>1, <2>1 DEF OrderInv, CallHolds
    <3>. QED  BY <1>1, <2>2, <3>1 DEF OrderInv, ReplacedForward, Replaced
  <2>. QED  BY <2>4, <2>6, <2>7, <2>8 DEF OrderInv
<1>. QED  BY <1>2, <1>3 DEF InsertFact

(* Whatever happens, the calls keep their order.                            *)
LEMMA OrderStep ==
  ASSUME FactsState, OrderInv, FactsChange
  PROVE  OrderInv'
<1>1. CASE \E r \in Rememberers, k \in Keys, v \in Values : Remember(r, k, v) /\ UNCHANGED events
  BY <1>1, RememberInv
<1>2. CASE \E r \in Rememberers : RememberStep(r)
  BY <1>2, LookupInv, SupersedeInv, InsertInv DEF RememberStep
<1>3. CASE remember' = [r \in Rememberers |-> NoCall] /\ UNCHANGED <<facts, drawn, met>>
  BY <1>3, EndsInOrder DEF Calls, NoCall
<1>4. CASE UNCHANGED factVars
  BY <1>4, EndsInOrder DEF factVars
<1>. QED  BY <1>1, <1>2, <1>3, <1>4 DEF FactsChange

\* A set that loses elements, or gains those of another one.
LEMMA CountOfPart ==
  ASSUME NEW S, NEW T, NEW n \in Nat, IsFiniteSet(S), Cardinality(S) <= n, T \subseteq S
  PROVE  IsFiniteSet(T) /\ Cardinality(T) <= n
<1>1. IsFiniteSet(T) /\ Cardinality(T) <= Cardinality(S)
  BY FS_Subset
<1>2. Cardinality(S) \in Nat /\ Cardinality(T) \in Nat
  BY <1>1, FS_CardinalityType
<1>. QED  BY <1>1, <1>2

LEMMA CountOfMore ==
  ASSUME NEW S, NEW T, NEW U, NEW n \in Nat, NEW m \in Nat, IsFiniteSet(S), Cardinality(S) <= n,
         IsFiniteSet(U), Cardinality(U) <= m, T \subseteq S \cup U
  PROVE  IsFiniteSet(T) /\ Cardinality(T) <= n + m
<1>1. IsFiniteSet(S \cup U) /\ Cardinality(S \cup U) = Cardinality(S) + Cardinality(U) - Cardinality(S \cap U)
  BY FS_Union
<1>2. IsFiniteSet(S \cap U)
  BY FS_Intersection
<1>3. Cardinality(S) \in Nat /\ Cardinality(U) \in Nat /\ Cardinality(S \cap U) \in Nat
  BY <1>2, FS_CardinalityType
<1>4. Cardinality(S \cup U) <= n + m /\ n + m \in Nat
  BY <1>1, <1>3
<1>. QED  BY <1>1, <1>4, CountOfPart

LEMMA CountOfOneMore ==
  ASSUME NEW S, NEW T, NEW k, NEW n \in Nat, IsFiniteSet(S), Cardinality(S) <= n, T \subseteq S \cup {k}
  PROVE  IsFiniteSet(T) /\ Cardinality(T) <= n + 1
<1>1. IsFiniteSet({k}) /\ Cardinality({k}) = 1
  BY FS_Singleton
<1>2. Cardinality({k}) <= 1
  BY <1>1
<1>. QED  BY <1>1, <1>2, CountOfMore

(* Whatever happens, keys are lost by faults only: one for every goroutine *)
(* that remembers at most.                                                 *)
LEMMA LossLimit ==
  ASSUME FactsState
  PROVE  /\ events.faults \in Nat /\ Cardinality(Rememberers) \in Nat
         /\ events.faults * Cardinality(Rememberers) \in Nat
<1>1. events.faults \in Nat
  BY FactsAssumption DEF FactsState, FactsTypeOK
<1>2. Cardinality(Rememberers) \in Nat
  BY FactsAssumption, FS_CardinalityType
<1>3. \A m, n \in Nat : m * n \in Nat
  OBVIOUS
<1>. QED  BY <1>1, <1>2, <1>3

LEMMA LossKept ==
  ASSUME FactsState, LossInv, FactsState', LostKeys' \subseteq LostKeys, events'.faults >= events.faults
  PROVE  LossInv'
<1>. DEFINE n == Cardinality(Rememberers)
            limit == events.faults * n
<1>1. events.faults \in Nat /\ events'.faults \in Nat /\ n \in Nat
  BY LossLimit, FactsAssumption DEF FactsState, FactsTypeOK
<1>2. IsFiniteSet(LostKeys') /\ Cardinality(LostKeys') <= limit
  <2>1. limit \in Nat /\ IsFiniteSet(LostKeys) /\ Cardinality(LostKeys) <= limit
    BY LossLimit DEF LossInv
  <2>. HIDE DEF limit
  <2>. QED  BY <2>1, CountOfPart
<1>3. Cardinality(LostKeys') \in Nat
  BY <1>2, FS_CardinalityType
<1>. HIDE DEF n
<1>4. \A f, g \in Nat : g >= f => f * n <= g * n /\ g * n \in Nat
  BY <1>1
<1>5. Cardinality(LostKeys') <= events'.faults * n
  BY <1>1, <1>2, <1>3, <1>4
<1>. QED  BY <1>2, <1>5 DEF LossInv, n

LEMMA LossOfSome ==
  ASSUME FactsState, LossInv, NEW U, IsFiniteSet(U), Cardinality(U) <= Cardinality(Rememberers),
         LostKeys' \subseteq LostKeys \cup U, events'.faults = events.faults + 1
  PROVE  LossInv'
<1>. DEFINE n == Cardinality(Rememberers)
            limit == events.faults * n
<1>1. events.faults \in Nat /\ n \in Nat
  BY LossLimit
<1>2. IsFiniteSet(LostKeys') /\ Cardinality(LostKeys') <= limit + n
  <2>1. limit \in Nat /\ IsFiniteSet(LostKeys) /\ Cardinality(LostKeys) <= limit
    BY LossLimit DEF LossInv
  <2>. HIDE DEF limit, n
  <2>2. n \in Nat /\ Cardinality(U) <= n
    BY <1>1 DEF n
  <2>. QED  BY <2>1, <2>2, CountOfMore
<1>. HIDE DEF n
<1>3. events'.faults * n = events.faults * n + n
  BY <1>1
<1>. QED  BY <1>2, <1>3 DEF LossInv, n

\* An event that is not a fault leaves the number of faults alone.
LEMMA FaultsOrNot ==
  ASSUME FactsState, SomeEvent
  PROVE  events'.faults = events.faults \/ events'.faults = events.faults + 1
<1>1. events.faults \in Nat
  BY FactsAssumption DEF FactsState, FactsTypeOK
<1>. QED  BY <1>1 DEF SomeEvent, Happens

LEMMA RememberLoses ==
  ASSUME FactsState, NEW r \in Rememberers, NEW k \in Keys, NEW v \in Values, Remember(r, k, v)
  PROVE  LostKeys' \subseteq LostKeys
<1>1. UNCHANGED facts /\ \A q \in Rememberers : q # r => remember'[q] = remember[q]
  BY DEF Remember, FactsState, FactsTypeOK
<1>2. \A q \in Rememberers : Calls(q, "insert") => Calls(q, "insert")' /\ remember'[q].key = remember[q].key
  BY <1>1 DEF Remember, Calls
<1>. QED  BY <1>1, <1>2 DEF LostKeys, CurrentOf

\* While a call has not come to its insertion its end loses nothing.
LEMMA EarlyReturnLoses ==
  ASSUME FactsState, NEW r \in Rememberers, ~Calls(r, "insert"), UNCHANGED facts,
         \A q \in Rememberers : q # r => remember'[q] = remember[q]
  PROVE  LostKeys' \subseteq LostKeys
<1>1. \A q \in Rememberers : Calls(q, "insert") => Calls(q, "insert")' /\ remember'[q].key = remember[q].key
  BY DEF Calls
<1>. QED  BY <1>1 DEF LostKeys, CurrentOf

LEMMA LookupLoses ==
  ASSUME FactsState, NEW r \in Rememberers, Lookup(r)
  PROVE  LostKeys' \subseteq LostKeys
<1>1. \A q \in Rememberers : q # r => remember'[q] = remember[q]
  BY DEF Lookup, Return, FactsState, FactsTypeOK
<1>. QED  BY <1>1, EarlyReturnLoses DEF Lookup, Calls

\* What is closed is about to be replaced.
LEMMA SupersedeLoses ==
  ASSUME FactsState, OrderInv, NEW r \in Rememberers, Supersede(r)
  PROVE  LostKeys' \subseteq LostKeys
<1>1. \A q \in Rememberers : q # r => remember'[q] = remember[q]
  BY DEF Supersede, Return, FactsState, FactsTypeOK
<1>2. CASE UNCHANGED facts
  BY <1>1, <1>2, EarlyReturnLoses DEF Supersede, Calls
<1>. DEFINE old == remember[r].old
<1>3. CASE /\ facts' = [facts EXCEPT ![old].current = FALSE, ![old].by = remember[r].id]
           /\ remember' = [remember EXCEPT ![r].pc = "insert"]
  <2>1. old \in DOMAIN facts /\ facts[old].key = remember[r].key
    BY DEF OrderInv, CallHolds, Replaced, Supersede, Calls, FactsState, CallsHold
  <2>2. Calls(r, "insert")' /\ remember'[r].key = facts[old].key
    BY <1>3, <2>1 DEF Calls, FactsState, FactsTypeOK, Call
  <2>3. /\ DOMAIN facts' = DOMAIN facts
        /\ \A i \in DOMAIN facts : i # old => facts'[i] = facts[i]
        /\ facts'[old].key = facts[old].key
    BY <1>3, <2>1 DEF FactsState, FactsTypeOK, Fact
  <2>4. \A q \in Rememberers : Calls(q, "insert") => Calls(q, "insert")' /\ remember'[q].key = remember[q].key
    BY <1>1 DEF Calls, Supersede
  <2>. HIDE DEF old
  <2>5. ASSUME NEW k \in LostKeys' PROVE k \in LostKeys
    <3>1. k \in Keys /\ k # facts[old].key
      BY <2>2, <2>5 DEF LostKeys
    <3>2. PICK i \in DOMAIN facts : facts[i].key = k
      BY <2>3, <2>5 DEF LostKeys
    <3>3. CurrentOf(k) = {}
      BY <2>3, <2>5, <3>1 DEF LostKeys, CurrentOf
    <3>. QED  BY <2>4, <2>5, <3>1, <3>2, <3>3 DEF LostKeys
  <2>. QED  BY <2>5
<1>. QED  BY <1>2, <1>3 DEF Supersede

\* A key whose insertion succeeds has a current value.
LEMMA InsertLoses ==
  ASSUME FactsState, OrderInv, NEW r \in Rememberers, InsertFact(r)
  PROVE  \/ LostKeys' \subseteq LostKeys /\ UNCHANGED events
         \/ LostKeys' \subseteq LostKeys \cup {remember[r].key} /\ Happens("db_failed")
<1>1. \A q \in Rememberers : q # r => remember'[q] = remember[q]
  BY DEF InsertFact, Return, FactsState, FactsTypeOK
<1>2. \A q \in Rememberers : Calls(q, "insert") /\ q # r =>
        Calls(q, "insert")' /\ remember'[q].key = remember[q].key
  BY <1>1 DEF Calls
<1>3. CASE UNCHANGED facts /\ Happens("db_failed")
  BY <1>2, <1>3 DEF LostKeys, CurrentOf
<1>. DEFINE id == remember[r].id
<1>4. CASE /\ facts' = [i \in DOMAIN facts \cup {id} |-> IF i = id THEN NewFact(r) ELSE facts[i]]
           /\ UNCHANGED events
  <2>1. id \notin DOMAIN facts
    BY DEF InsertFact, OrderInv, CallHolds, Calls
  <2>2. /\ DOMAIN facts' = DOMAIN facts \cup {id} /\ \A i \in DOMAIN facts : facts'[i] = facts[i]
        /\ facts'[id].key = remember[r].key /\ facts'[id].current
    BY <1>4, <2>1 DEF NewFact
  <2>. HIDE DEF id
  <2>3. ASSUME NEW k \in LostKeys' PROVE k \in LostKeys
    <3>1. k \in Keys /\ k # remember[r].key
      BY <2>2, <2>3 DEF LostKeys, CurrentOf
    <3>2. PICK i \in DOMAIN facts' : facts'[i].key = k
      BY <2>3 DEF LostKeys
    <3>3. i \in DOMAIN facts /\ facts[i].key = k
      BY <2>2, <3>1, <3>2
    <3>4. CurrentOf(k) = {}
      BY <2>2, <2>3 DEF LostKeys, CurrentOf
    <3>5. ~\E q \in Rememberers : Calls(q, "insert") /\ remember[q].key = k
      BY <1>2, <2>3, <3>1 DEF LostKeys
    <3>. QED  BY <3>1, <3>3, <3>4, <3>5 DEF LostKeys
  <2>. QED  BY <1>4, <2>3
<1>. QED  BY <1>3, <1>4 DEF InsertFact

\* A crash ends the calls that were about to insert.
LEMMA CrashLoses ==
  ASSUME UNCHANGED facts
  PROVE  \E U : /\ IsFiniteSet(U) /\ Cardinality(U) <= Cardinality(Rememberers)
                /\ LostKeys' \subseteq LostKeys \cup U
<1>. DEFINE f == [r \in Rememberers |-> remember[r].key]
            U == {f[r] : r \in Rememberers}
<1>1. f \in Surjection(Rememberers, U)
  BY DEF Surjection
<1>2. IsFiniteSet(U) /\ Cardinality(U) <= Cardinality(Rememberers)
  <2>. HIDE DEF U, f
  <2>. QED  BY <1>1, FactsAssumption, FS_Surjection
<1>3. LostKeys' \subseteq LostKeys \cup U
  BY DEF LostKeys, CurrentOf
<1>. QED  BY <1>2, <1>3

\* One failed write loses no more.
LEMMA OneIsFew ==
  ASSUME NEW r \in Rememberers, NEW k
  PROVE  IsFiniteSet({k}) /\ Cardinality({k}) <= Cardinality(Rememberers)
<1>1. IsFiniteSet(Rememberers) /\ Rememberers # {}
  BY FactsAssumption
<1>2. Cardinality(Rememberers) \in Nat /\ Cardinality(Rememberers) # 0
  BY <1>1, FS_CardinalityType, FS_EmptySet
<1>3. IsFiniteSet({k}) /\ Cardinality({k}) = 1
  BY FS_Singleton
<1>. QED  BY <1>2, <1>3

(* Each crash and each failed write costs few keys their value.             *)
LEMMA LossStep ==
  ASSUME FactsState, FactsInv, FactsState', FactsChange
  PROVE  LossInv'
<1>0. OrderInv /\ LossInv /\ events.faults \in Nat
  BY FactsAssumption DEF FactsInv, FactsState, FactsTypeOK
<1>1. CASE \E r \in Rememberers, k \in Keys, v \in Values : Remember(r, k, v) /\ UNCHANGED events
  <2>1. LostKeys' \subseteq LostKeys /\ UNCHANGED events
    BY <1>1, RememberLoses
  <2>. QED  BY <1>0, <2>1, LossKept
<1>2. ASSUME NEW r \in Rememberers, Lookup(r) \/ Supersede(r) PROVE LossInv'
  <2>1. LostKeys' \subseteq LostKeys
    BY <1>0, <1>2, LookupLoses, SupersedeLoses
  <2>2. SomeEvent
    BY <1>2 DEF Lookup, Supersede, SomeEvent, Happens
  <2>. QED  BY <1>0, <2>1, <2>2, FaultsOrNot, LossKept
<1>3. ASSUME NEW r \in Rememberers, InsertFact(r) PROVE LossInv'
  <2>1. CASE LostKeys' \subseteq LostKeys /\ UNCHANGED events
    BY <1>0, <2>1, LossKept
  <2>2. CASE LostKeys' \subseteq LostKeys \cup {remember[r].key} /\ Happens("db_failed")
    <3>1. events'.faults = events.faults + 1
      BY <2>2 DEF Happens
    <3>. QED  BY <1>0, <2>2, <3>1, OneIsFew, LossOfSome
  <2>. QED  BY <1>0, <1>3, <2>1, <2>2, InsertLoses
<1>4. CASE remember' = [r \in Rememberers |-> NoCall] /\ UNCHANGED <<facts, drawn, met>> /\ Happens("crash")
  <2>1. events'.faults = events.faults + 1
    BY <1>4 DEF Happens
  <2>2. PICK U : /\ IsFiniteSet(U) /\ Cardinality(U) <= Cardinality(Rememberers)
                 /\ LostKeys' \subseteq LostKeys \cup U
    BY <1>4, CrashLoses
  <2>. QED  BY <1>0, <2>1, <2>2, LossOfSome
<1>5. CASE UNCHANGED factVars /\ SomeEvent
  <2>1. LostKeys' = LostKeys
    BY <1>5 DEF factVars, LostKeys, CurrentOf, Calls
  <2>. QED  BY <1>0, <1>5, <2>1, FaultsOrNot, LossKept
<1>. QED  BY <1>1, <1>2, <1>3, <1>4, <1>5 DEF FactsChange, RememberStep

-----------------------------------------------------------------------------
(* How many current values the calls of a key can leave.                   *)

LEMMA WeightTypes ==
  ASSUME FactsState, NEW k \in Keys
  PROVE  /\ IsFiniteSet(CurrentOf(k)) /\ Cardinality(CurrentOf(k)) \in Nat
         /\ IsFiniteSet(UnderWay(k)) /\ Cardinality(UnderWay(k)) \in Nat
         /\ met[k] \in Nat
<1>1. CurrentOf(k) \subseteq 1..drawn /\ drawn \in Nat
  BY DEF CurrentOf, FactsState, FactsTypeOK
<1>2. IsFiniteSet(1..drawn)
  BY <1>1, FS_Interval
<1>3. IsFiniteSet(CurrentOf(k)) /\ IsFiniteSet(UnderWay(k))
  <2>1. UnderWay(k) \subseteq Rememberers
    BY DEF UnderWay
  <2>. QED  BY <1>1, <1>2, <2>1, FactsAssumption, FS_Subset
<1>4. met[k] \in Nat
  BY DEF FactsState, FactsTypeOK
<1>. QED  BY <1>3, <1>4, FS_CardinalityType

\* A step that leaves the rows and the calls of a key alone.
LEMMA WeightSame ==
  ASSUME NEW k \in Keys, WeightHolds(k), met'[k] = met[k],
         CurrentOf(k)' = CurrentOf(k), UnderWay(k)' = UnderWay(k),
         \A q \in UnderWay(k) : remember'[q] = remember[q]
  PROVE  WeightHolds(k)'
<1>1. Weight(k)' = Weight(k)
  BY DEF Weight
<1>2. NothingClosed(k) => NothingClosed(k)'
  BY DEF NothingClosed, Calls
<1>. QED  BY <1>1, <1>2 DEF WeightHolds

\* A step that makes the weight less, or no more where something was closed.
LEMMA WeightFalls ==
  ASSUME FactsState, FactsState', NEW k \in Keys, WeightHolds(k), UNCHANGED met,
         Weight(k)' < Weight(k) \/ (Weight(k)' <= Weight(k) /\ ~NothingClosed(k))
  PROVE  WeightHolds(k)'
<1>1. Weight(k) \in Nat /\ Weight(k)' \in Nat /\ met[k] \in Nat
  <2>1. Weight(k) \in Nat /\ met[k] \in Nat
    BY WeightTypes DEF Weight
  <2>2. CurrentOf(k)' \subseteq 1..drawn' /\ drawn' \in Nat /\ UnderWay(k)' \subseteq Rememberers
    BY DEF CurrentOf, UnderWay, FactsState, FactsTypeOK
  <2>3. IsFiniteSet(CurrentOf(k)') /\ IsFiniteSet(UnderWay(k)')
    <3>1. IsFiniteSet(1..drawn')
      BY <2>2, FS_Interval
    <3>. QED  BY <2>2, <3>1, FactsAssumption, FS_Subset
  <2>4. Cardinality(CurrentOf(k)') \in Nat /\ Cardinality(UnderWay(k)') \in Nat
    BY <2>3, FS_CardinalityType
  <2>. QED  BY <2>1, <2>4 DEF Weight
<1>2. Weight(k) <= 1 + met[k] \/ (NothingClosed(k) /\ Weight(k) <= 2 + met[k])
  BY DEF WeightHolds
<1>3. Weight(k)' <= 1 + met[k]
  BY <1>1, <1>2
<1>. QED  BY <1>3 DEF WeightHolds

\* The goroutines in a call of k, after one has ended.
LEMMA OneLess ==
  ASSUME FactsState, NEW r \in Rememberers, NEW k \in Keys, ~Calls(r, "idle"), Calls(r, "idle")',
         \A q \in Rememberers : q # r => remember'[q] = remember[q]
  PROVE  /\ UnderWay(k)' = UnderWay(k) \ {r}
         /\ k # remember[r].key => UnderWay(k)' = UnderWay(k)
         /\ k = remember[r].key => Cardinality(UnderWay(k)') = Cardinality(UnderWay(k)) - 1
<1>1. UnderWay(k)' = UnderWay(k) \ {r}
  BY DEF UnderWay, Calls
<1>2. k # remember[r].key => r \notin UnderWay(k)
  BY DEF UnderWay
<1>3. k = remember[r].key => r \in UnderWay(k)
  BY DEF UnderWay
<1>4. r \in UnderWay(k) => Cardinality(UnderWay(k) \ {r}) = Cardinality(UnderWay(k)) - 1
  BY WeightTypes, FS_RemoveElement
<1>. QED  BY <1>1, <1>2, <1>3, <1>4

\* A call that only ends.
LEMMA EndWeighs ==
  ASSUME FactsState, FactsState', NEW r \in Rememberers, NEW k \in Keys, WeightHolds(k),
         ~Calls(r, "idle"), Return(r), UNCHANGED <<facts, met>>
  PROVE  WeightHolds(k)'
<1>1. Calls(r, "idle")' /\ \A q \in Rememberers : q # r => remember'[q] = remember[q]
  BY ReturnType DEF FactsState, Calls, NoCall
<1>2. CurrentOf(k)' = CurrentOf(k)
  BY DEF CurrentOf
<1>3. CASE k # remember[r].key
  <2>1. UnderWay(k)' = UnderWay(k)
    BY <1>1, <1>3, OneLess
  <2>2. r \notin UnderWay(k) /\ UnderWay(k) \subseteq Rememberers
    BY <1>3 DEF UnderWay
  <2>3. \A q \in UnderWay(k) : remember'[q] = remember[q]
    BY <1>1, <2>2
  <2>. QED  BY <1>2, <2>1, <2>3, WeightSame
<1>4. CASE k = remember[r].key
  <2>1. Cardinality(UnderWay(k)') = Cardinality(UnderWay(k)) - 1
    BY <1>1, <1>4, OneLess
  <2>2. Weight(k)' < Weight(k)
    BY <1>2, <2>1, WeightTypes DEF Weight
  <2>. QED  BY <2>2, WeightFalls
<1>. QED  BY <1>3, <1>4

\* A call begins alone and closes nothing yet, or meets another one and is counted.
LEMMA RememberWeighs ==
  ASSUME FactsState, NEW r \in Rememberers, NEW l \in Keys, NEW v \in Values, Remember(r, l, v),
         NEW k \in Keys, WeightHolds(k)
  PROVE  WeightHolds(k)'
<1>1. /\ remember[r].pc = "idle" /\ remember'[r].pc = "lookup" /\ remember'[r].key = l
      /\ \A q \in Rememberers : q # r => remember'[q] = remember[q]
      /\ UNCHANGED facts /\ met \in [Keys -> Nat]
  BY DEF Remember, FactsState, FactsTypeOK, Calls
<1>2. CurrentOf(k)' = CurrentOf(k) /\ r \notin UnderWay(k) /\ UnderWay(k) \subseteq Rememberers
  BY <1>1 DEF CurrentOf, UnderWay, Calls
<1>3. \A q \in UnderWay(k) : remember'[q] = remember[q]
  BY <1>1, <1>2
<1>4. CASE k # l
  <2>1. UnderWay(k)' = UnderWay(k)
    BY <1>1, <1>4 DEF UnderWay, Calls
  <2>2. met'[k] = met[k]
    BY <1>1, <1>4 DEF Remember
  <2>. QED  BY <1>2, <1>3, <2>1, <2>2, WeightSame
<1>5. CASE k = l
  <2>1. UnderWay(k)' = UnderWay(k) \cup {r}
    BY <1>1, <1>5 DEF UnderWay, Calls
  <2>2. Cardinality(UnderWay(k)') = Cardinality(UnderWay(k)) + 1
    BY <1>2, <2>1, WeightTypes, FS_AddElement
  <2>3. Weight(k)' = Weight(k) + 1 /\ Weight(k) \in Nat /\ met[k] \in Nat
    BY <1>2, <2>2, WeightTypes DEF Weight
  <2>4. CASE UnderWay(k) = {}
    <3>1. met'[k] = met[k] /\ Weight(k) <= 1 + met[k]
      BY <1>5, <2>4 DEF Remember, WeightHolds, NothingClosed
    <3>2. CASE CurrentOf(k) = {}
      <4>1. Cardinality(CurrentOf(k)) = 0 /\ Cardinality(UnderWay(k)) = 0
        BY <2>4, <3>2, FS_EmptySet, Zenon
      <4>2. Weight(k) = 0
        BY <4>1 DEF Weight
      <4>3. Weight(k)' <= 1 + met'[k]
        BY <2>3, <3>1, <4>2
      <4>. QED  BY <4>3 DEF WeightHolds
    <3>3. CASE CurrentOf(k) # {}
      <4>1. NothingClosed(k)'
        BY <1>1, <1>2, <2>1, <2>4, <3>3 DEF NothingClosed, Calls
      <4>2. Weight(k)' <= 2 + met'[k]
        BY <2>3, <3>1
      <4>. QED  BY <4>1, <4>2 DEF WeightHolds
    <3>. QED  BY <3>2, <3>3
  <2>5. CASE UnderWay(k) # {}
    <3>1. met'[k] = met[k] + 1
      BY <1>1, <1>5, <2>5 DEF Remember
    <3>2. NothingClosed(k) => NothingClosed(k)'
      BY <1>1, <1>2, <1>3, <2>1 DEF NothingClosed, Calls
    <3>3. Weight(k) <= 1 + met[k] => Weight(k)' <= 1 + met'[k]
      BY <2>3, <3>1
    <3>4. Weight(k) <= 2 + met[k] => Weight(k)' <= 2 + met'[k]
      BY <2>3, <3>1
    <3>. QED  BY <3>2, <3>3, <3>4 DEF WeightHolds
  <2>. QED  BY <2>4, <2>5
<1>. QED  BY <1>4, <1>5

\* The steps of a call of another key.
LEMMA OtherKeyWeighs ==
  ASSUME NEW r \in Rememberers, NEW k \in Keys, WeightHolds(k), UNCHANGED met,
         CurrentOf(k)' = CurrentOf(k), remember[r].key # k, remember'[r].key # k,
         \A q \in Rememberers : q # r => remember'[q] = remember[q]
  PROVE  WeightHolds(k)'
<1>1. UnderWay(k)' = UnderWay(k) /\ r \notin UnderWay(k) /\ UnderWay(k) \subseteq Rememberers
  BY DEF UnderWay, Calls
<1>. QED  BY <1>1, WeightSame

\* A lookup finds a row that is current, so nothing is closed by it.
LEMMA LookupWeighs ==
  ASSUME FactsState, FactsState', NEW r \in Rememberers, Lookup(r), NEW k \in Keys, WeightHolds(k)
  PROVE  WeightHolds(k)'
<1>1. UNCHANGED <<facts, met>> /\ ~Calls(r, "idle") /\ Calls(r, "lookup")
  BY DEF Lookup, Calls
<1>2. CASE Return(r)
  BY <1>1, <1>2, EndWeighs
<1>. DEFINE l == remember[r].key
            old == CurrentFact(l)
<1>3. ASSUME NEW pc \in {"insert", "supersede"}, remember'[r].pc = pc, remember'[r].key = l,
             pc = "insert" => CurrentOf(l) = {},
             pc = "supersede" => CurrentOf(l) # {} /\ remember'[r].old = old,
             \A q \in Rememberers : q # r => remember'[q] = remember[q]
      PROVE  WeightHolds(k)'
  <2>1. CurrentOf(k)' = CurrentOf(k)
    BY <1>1 DEF CurrentOf
  <2>2. CASE k # l
    BY <1>1, <1>3, <2>1, <2>2, OtherKeyWeighs
  <2>3. CASE k = l
    <3>1. UnderWay(k)' = UnderWay(k)
      BY <1>1, <1>3, <2>3 DEF UnderWay, Calls
    <3>2. Weight(k)' = Weight(k) /\ met'[k] = met[k]
      BY <1>1, <2>1, <3>1 DEF Weight
    <3>3. NothingClosed(k) => NothingClosed(k)'
      <4>. SUFFICES ASSUME NothingClosed(k) PROVE NothingClosed(k)'
        OBVIOUS
      <4>1. pc = "supersede" /\ old \in CurrentOf(k) /\ remember'[r].old = old
        BY <1>3, <2>3, CurrentFactIsCurrent DEF NothingClosed, FactsState
      <4>2. UnderWay(k) \subseteq Rememberers
        BY DEF UnderWay
      <4>. HIDE DEF old, l
      <4>. QED  BY <1>3, <2>1, <3>1, <4>1, <4>2 DEF NothingClosed, Calls
    <3>. QED  BY <3>2, <3>3 DEF WeightHolds
  <2>. QED  BY <2>2, <2>3
<1>4. CASE CurrentOf(l) = {} /\ remember' = [remember EXCEPT ![r].pc = "insert"]
  <2>1. /\ remember'[r].pc = "insert" /\ remember'[r].key = l
        /\ \A q \in Rememberers : q # r => remember'[q] = remember[q]
    BY <1>4 DEF FactsState, FactsTypeOK, Call
  <2>. QED  BY <1>4, <2>1, <1>3
<1>5. CASE /\ CurrentOf(l) # {}
           /\ remember' = [remember EXCEPT ![r].pc = "supersede", ![r].old = old]
  <2>1. /\ remember'[r].pc = "supersede" /\ remember'[r].key = l /\ remember'[r].old = old
        /\ \A q \in Rememberers : q # r => remember'[q] = remember[q]
    BY <1>5 DEF FactsState, FactsTypeOK, Call
  <2>. QED  BY <1>5, <2>1, <1>3
<1>. QED  BY <1>2, <1>4, <1>5 DEF Lookup

\* A row is closed: at the first time it counted.
LEMMA SupersedeWeighs ==
  ASSUME FactsState, FactsState', OrderInv, NEW r \in Rememberers, Supersede(r),
         NEW k \in Keys, WeightHolds(k)
  PROVE  WeightHolds(k)'
<1>1. UNCHANGED met /\ ~Calls(r, "idle") /\ Calls(r, "supersede")
  BY DEF Supersede, Calls
<1>2. CASE Return(r) /\ UNCHANGED facts
  BY <1>1, <1>2, EndWeighs
<1>3. CASE /\ facts' = [facts EXCEPT ![remember[r].old].current = FALSE,
                                     ![remember[r].old].by = remember[r].id]
           /\ remember' = [remember EXCEPT ![r].pc = "insert"]
  <2>1. PICK old : old = remember[r].old
    OBVIOUS
  <2>2. /\ old \in DOMAIN facts /\ DOMAIN facts' = DOMAIN facts /\ Replaced(old, r)
        /\ \A i \in DOMAIN facts : i # old => facts'[i] = facts[i]
        /\ facts'[old].current = FALSE
        /\ \A i \in DOMAIN facts : facts'[i].key = facts[i].key
    BY <1>1, <1>3, <2>1, SupersedeWrites
  <2>3. /\ remember'[r].pc = "insert" /\ remember'[r].key = remember[r].key
        /\ \A q \in Rememberers : q # r => remember'[q] = remember[q]
    BY <1>3 DEF FactsState, FactsTypeOK, Call
  <2>4. CurrentOf(k)' = CurrentOf(k) \ {old}
    BY <2>2 DEF CurrentOf
  <2>5. CASE k # remember[r].key
    <3>1. CurrentOf(k)' = CurrentOf(k)
      BY <2>2, <2>4, <2>5 DEF CurrentOf, Replaced
    <3>. QED  BY <1>1, <2>3, <2>5, <3>1, OtherKeyWeighs
  <2>6. CASE k = remember[r].key
    <3>1. UnderWay(k)' = UnderWay(k) /\ r \in UnderWay(k)
      BY <1>1, <2>3, <2>6 DEF UnderWay, Calls
    <3>2. Cardinality(CurrentOf(k)') =
            IF old \in CurrentOf(k) THEN Cardinality(CurrentOf(k)) - 1 ELSE Cardinality(CurrentOf(k))
      BY <2>4, WeightTypes, FS_RemoveElement
    <3>3. IF old \in CurrentOf(k) THEN Weight(k)' < Weight(k) ELSE Weight(k)' <= Weight(k)
      BY <3>1, <3>2, WeightTypes DEF Weight
    <3>4. NothingClosed(k) => old \in CurrentOf(k)
      BY <1>1, <2>1, <3>1 DEF NothingClosed
    <3>. QED  BY <1>1, <3>3, <3>4, WeightFalls
  <2>. QED  BY <2>5, <2>6
<1>. QED  BY <1>2, <1>3 DEF Supersede

\* An insertion makes of a call a current row.
LEMMA InsertWeighs ==
  ASSUME FactsState, FactsState', OrderInv, NEW r \in Rememberers, InsertFact(r),
         NEW k \in Keys, WeightHolds(k)
  PROVE  WeightHolds(k)'
<1>1. UNCHANGED met /\ Return(r) /\ ~Calls(r, "idle") /\ Calls(r, "insert")
  BY DEF InsertFact, Calls
<1>2. CASE UNCHANGED facts
  BY <1>1, <1>2, EndWeighs
<1>3. CASE facts' = [i \in DOMAIN facts \cup {remember[r].id} |->
                       IF i = remember[r].id THEN NewFact(r) ELSE facts[i]]
  <2>1. PICK id : id = remember[r].id
    OBVIOUS
  <2>2. /\ id \notin DOMAIN facts /\ DOMAIN facts' = DOMAIN facts \cup {id}
        /\ \A i \in DOMAIN facts : facts'[i] = facts[i]
        /\ facts'[id].key = remember[r].key /\ facts'[id].current
    BY <1>1, <1>3, <2>1, InsertWrites
  <2>3. Calls(r, "idle")' /\ \A q \in Rememberers : q # r => remember'[q] = remember[q]
    BY <1>1, ReturnType DEF FactsState, Calls, NoCall
  <2>4. CASE k # remember[r].key
    <3>1. CurrentOf(k)' = CurrentOf(k)
      BY <2>2, <2>4 DEF CurrentOf
    <3>2. UnderWay(k)' = UnderWay(k)
      BY <1>1, <2>3, <2>4, OneLess
    <3>3. r \notin UnderWay(k) /\ UnderWay(k) \subseteq Rememberers
      BY <2>4 DEF UnderWay
    <3>. QED  BY <1>1, <2>3, <3>1, <3>2, <3>3, WeightSame
  <2>5. CASE k = remember[r].key
    <3>1. CurrentOf(k)' = CurrentOf(k) \cup {id} /\ id \notin CurrentOf(k)
      BY <2>2, <2>5 DEF CurrentOf
    <3>2. Cardinality(CurrentOf(k)') = Cardinality(CurrentOf(k)) + 1
      BY <3>1, WeightTypes, FS_AddElement
    <3>3. Cardinality(UnderWay(k)') = Cardinality(UnderWay(k)) - 1
      BY <1>1, <2>3, <2>5, OneLess
    <3>4. Weight(k)' <= Weight(k)
      BY <3>2, <3>3, WeightTypes DEF Weight
    <3>5. ~NothingClosed(k)
      BY <1>1, <2>5 DEF NothingClosed, UnderWay
    <3>. QED  BY <1>1, <3>4, <3>5, WeightFalls
  <2>. QED  BY <2>4, <2>5
<1>. QED  BY <1>2, <1>3 DEF InsertFact

\* A crash ends all calls.
LEMMA CrashWeighs ==
  ASSUME FactsState, FactsState', NEW k \in Keys, WeightHolds(k),
         remember' = [r \in Rememberers |-> NoCall], UNCHANGED <<facts, met>>
  PROVE  WeightHolds(k)'
<1>1. CurrentOf(k)' = CurrentOf(k) /\ UnderWay(k)' = {}
  BY DEF CurrentOf, UnderWay, Calls, NoCall
<1>2. Cardinality(UnderWay(k)') = 0
  BY <1>1, FS_EmptySet
<1>3. CASE UnderWay(k) = {}
  BY <1>1, <1>3, WeightSame
<1>4. CASE UnderWay(k) # {}
  <2>1. Cardinality(UnderWay(k)) # 0
    BY <1>4, WeightTypes, FS_EmptySet
  <2>2. Weight(k)' < Weight(k)
    BY <1>1, <1>2, <2>1, WeightTypes DEF Weight
  <2>. QED  BY <2>2, WeightFalls
<1>. QED  BY <1>3, <1>4

LEMMA WeightStep ==
  ASSUME FactsState, FactsState', OrderInv, FactsChange, NEW k \in Keys, WeightHolds(k)
  PROVE  WeightHolds(k)'
<1>1. CASE \E r \in Rememberers, l \in Keys, v \in Values : Remember(r, l, v) /\ UNCHANGED events
  BY <1>1, RememberWeighs
<1>2. CASE \E r \in Rememberers : RememberStep(r)
  BY <1>2, LookupWeighs, SupersedeWeighs, InsertWeighs DEF RememberStep
<1>3. CASE remember' = [r \in Rememberers |-> NoCall] /\ UNCHANGED <<facts, drawn, met>>
  BY <1>3, CrashWeighs
<1>4. CASE UNCHANGED factVars
  BY <1>4, WeightSame DEF factVars, CurrentOf, UnderWay, Calls
<1>. QED  BY <1>1, <1>2, <1>3, <1>4 DEF FactsChange

(* Whatever happens keeps the invariant of the facts.                       *)
LEMMA FactsInvStep ==
  ASSUME FactsState, FactsInv, FactsState', FactsChange
  PROVE  FactsInv'
<1>1. OrderInv'
  BY OrderStep DEF FactsInv
<1>2. \A k \in Keys : WeightHolds(k)'
  BY WeightStep DEF FactsInv
<1>. QED  BY <1>1, <1>2, LossStep DEF FactsInv

LEMMA FewCurrentFromInv == FactsState /\ FactsInv => FewCurrent
<1>. SUFFICES ASSUME FactsState, FactsInv, NEW k \in Keys
              PROVE  Cardinality(CurrentOf(k)) <= 1 + met[k]
  BY DEF FewCurrent
<1>1. /\ Cardinality(CurrentOf(k)) \in Nat /\ Cardinality(UnderWay(k)) \in Nat /\ met[k] \in Nat
      /\ IsFiniteSet(UnderWay(k))
  BY WeightTypes
<1>2. Weight(k) <= 1 + met[k] \/ (UnderWay(k) # {} /\ Weight(k) <= 2 + met[k])
  BY DEF FactsInv, WeightHolds, NothingClosed
<1>3. UnderWay(k) # {} => Cardinality(UnderWay(k)) # 0
  BY <1>1, FS_EmptySet
<1>. QED  BY <1>1, <1>2, <1>3 DEF Weight

-------------------------------------------------------------------------------
(* Closing, digesting and forgetting episodes, and RememberFact inside them.   *)

EpisodeTypes ==
  /\ episodes \in [Owners -> Episode] /\ digests \in [Owners -> Seq(Nat)]
  /\ OneOpenEpisode /\ LinkIsArchived
CloserTypes == closer \in [Closers -> Closer] /\ ClosersHold
WorkerTypes == worker \in [Workers -> WorkerState] /\ WorkersHold
QueueTypes == QueueTypeOK /\ QueuedIsClosed
RestTypes ==
  /\ agent \in {"up", "down"} /\ said \in 0..MaxSaid /\ channel \in 0..Buffer
  /\ brain \in BOOLEAN /\ distilled \subseteq Owners /\ full \in [Owners -> Nat]

LEMMA InvParts ==
  EpisodesInv <=> FactsState /\ EpisodeTypes /\ CloserTypes /\ WorkerTypes /\ QueueTypes /\ RestTypes
BY DEF EpisodesInv, TypeOK, FactsState, EpisodeTypes, CloserTypes, WorkerTypes, QueueTypes, RestTypes

\* What every step does for the others: closed episodes stay closed.
ClosedStays == \A e \in Owners : Closed(e) => Closed(e)'

LEMMA SmallestExists ==
  ASSUME NEW S, S \subseteq Nat, S # {}
  PROVE  \E m \in S : \A x \in S : m <= x
<1>1. PICK m \in S : \A x \in S : ~ (<<x, m>> \in OpToRel(<, Nat))
  BY NatLessThanWellFounded, WFMin, Zenon
<1>2. \A x \in S : ~ (x < m)
  BY <1>1 DEF OpToRel
<1>. QED  BY <1>2

-----------------------------------------------------------------------------
(* What is left alone keeps its part of the invariant.                     *)

LEMMA SameEpisodes ==
  ASSUME EpisodeTypes, UNCHANGED <<episodes, digests>>
  PROVE  EpisodeTypes' /\ ClosedStays
BY DEF EpisodeTypes, ClosedStays, Closed, OneOpenEpisode, LinkIsArchived, OpenOnes, Open

LEMMA SameClosers ==
  ASSUME CloserTypes, UNCHANGED closer, ClosedStays
  PROVE  CloserTypes'
<1>1. ClosersHold'
  BY DEF CloserTypes, ClosersHold, ClosedStays
<1>. QED  BY <1>1 DEF CloserTypes

LEMMA SameWorkers == WorkerTypes /\ UNCHANGED worker => WorkerTypes'
BY DEF WorkerTypes, WorkersHold

\* The queue after a statement that only touches rows which are there.
LEMMA SourcesKept ==
  ASSUME QueueTypes, ClosedStays, QueueTypeOK',
         \A j \in Rows' : j \in Rows /\ jobs'[j].source = jobs[j].source
  PROVE  QueueTypes'
<1>1. QueuedIsClosed'
  BY DEF QueueTypes, QueueTypeOK, Job, QueuedIsClosed, ClosedStays
<1>. QED  BY <1>1 DEF QueueTypes

LEMMA SameQueue ==
  ASSUME QueueTypes, UNCHANGED jobs, ClosedStays
  PROVE  QueueTypes'
BY SourcesKept DEF QueueTypes, QueueTypeOK, Rows

\* A statement that rewrites one row, which may have gone meanwhile.
LEMMA RowUpdated ==
  ASSUME QueueTypes, ClosedStays, NEW j, NEW row, jobs' = [jobs EXCEPT ![j] = row],
         j \in Rows => row \in Job /\ row.source = jobs[j].source
  PROVE  QueueTypes'
<1>1. Rows' = Rows /\ \A i \in Rows : jobs'[i] = IF i = j THEN row ELSE jobs[i]
  BY DEF Rows
<1>2. QueueTypeOK'
  BY <1>1 DEF QueueTypes, QueueTypeOK
<1>. QED  BY <1>1, <1>2, SourcesKept

LEMMA EnqueueTypes ==
  ASSUME QueueTypes, ClosedStays, NEW o \in Owners, NEW k \in Kinds, Closed(o)', EnqueueJob(o, k)
  PROVE  QueueTypes'
<1>1. CASE UNCHANGED jobs
  BY <1>1, SameQueue
<1>2. CASE Rows # JobIds /\ ~UNCHANGED jobs
  <2>. DEFINE j == NewId
              new == [source |-> o, kind |-> k, status |-> "pending", due |-> TRUE,
                      attempts |-> 0, permanent |-> 0]
  <2>1. j \in JobIds /\ j \notin Rows
    BY <1>2 DEF NewId, QueueTypes, QueueTypeOK
  <2>2. jobs' = [i \in Rows \cup {j} |-> IF i = j THEN new ELSE jobs[i]]
    BY <1>2 DEF EnqueueJob
  <2>3. Rows' = Rows \cup {j} /\ jobs'[j] = new /\ \A i \in Rows : jobs'[i] = jobs[i]
    BY <2>1, <2>2 DEF Rows
  <2>4. new \in Job /\ new.source = o
    BY MaxAttemptsAssumption DEF Job, JobStatus
  <2>. HIDE DEF j, new
  <2>5. QueueTypeOK'
    BY <2>1, <2>3, <2>4 DEF QueueTypes, QueueTypeOK
  <2>6. QueuedIsClosed'
    BY <2>3, <2>4 DEF QueueTypes, QueueTypeOK, Job, QueuedIsClosed, ClosedStays
  <2>. QED  BY <2>5, <2>6 DEF QueueTypes
<1>. QED  BY <1>1, <1>2 DEF EnqueueJob

LEMMA ClaimTypes ==
  ASSUME QueueTypes, ClosedStays, NEW j \in Rows, ClaimJob(j)
  PROVE  QueueTypes'
<1>. DEFINE row == [jobs[j] EXCEPT !.status = "running"]
<1>1. row \in Job /\ row.source = jobs[j].source
  BY DEF QueueTypes, QueueTypeOK, Job, JobStatus
<1>2. jobs' = [jobs EXCEPT ![j] = row]
  BY DEF ClaimJob
<1>. HIDE DEF row
<1>. QED  BY <1>1, <1>2, RowUpdated

LEMMA RetryTimeTypes ==
  ASSUME QueueTypes, ClosedStays, NEW j \in Rows, RetryTimeReached(j)
  PROVE  QueueTypes'
<1>. DEFINE row == [jobs[j] EXCEPT !.due = TRUE]
<1>1. row \in Job /\ row.source = jobs[j].source
  BY DEF QueueTypes, QueueTypeOK, Job
<1>2. jobs' = [jobs EXCEPT ![j] = row]
  BY DEF RetryTimeReached
<1>. HIDE DEF row
<1>. QED  BY <1>1, <1>2, RowUpdated

LEMMA RescheduleTypes ==
  ASSUME QueueTypes, ClosedStays, NEW j, NEW hard \in BOOLEAN, RescheduleJob(j, hard)
  PROVE  QueueTypes'
<1>. DEFINE row == [jobs[j] EXCEPT !.status = "pending", !.due = FALSE,
                      !.attempts = OneMore(@), !.permanent = IF hard THEN OneMore(@) ELSE @]
<1>1. ASSUME j \in Rows PROVE row \in Job /\ row.source = jobs[j].source
  <2>1. jobs[j] \in Job
    BY <1>1 DEF QueueTypes, QueueTypeOK
  <2>. QED  BY <2>1, OneMoreType DEF Job, JobStatus
<1>2. jobs' = [jobs EXCEPT ![j] = row]
  BY DEF RescheduleJob
<1>. HIDE DEF row
<1>. QED  BY <1>1, <1>2, RowUpdated

LEMMA FailTypes ==
  ASSUME QueueTypes, ClosedStays, NEW j, NEW hard \in BOOLEAN, FailJob(j, hard)
  PROVE  QueueTypes'
<1>. DEFINE row == [jobs[j] EXCEPT !.status = "failed",
                      !.permanent = IF hard THEN OneMore(@) ELSE @]
<1>1. ASSUME j \in Rows PROVE row \in Job /\ row.source = jobs[j].source
  <2>1. jobs[j] \in Job
    BY <1>1 DEF QueueTypes, QueueTypeOK
  <2>. QED  BY <2>1, OneMoreType DEF Job, JobStatus
<1>2. jobs' = [jobs EXCEPT ![j] = row]
  BY DEF FailJob
<1>. HIDE DEF row
<1>. QED  BY <1>1, <1>2, RowUpdated

LEMMA CompleteTypes ==
  ASSUME QueueTypes, ClosedStays, NEW j, CompleteJob(j)
  PROVE  QueueTypes'
<1>1. Rows' = Rows \ {j} /\ \A i \in Rows' : jobs'[i] = jobs[i]
  BY DEF CompleteJob, Rows
<1>2. QueueTypeOK'
  BY <1>1 DEF QueueTypes, QueueTypeOK
<1>. QED  BY <1>1, <1>2, SourcesKept

LEMMA ReclaimTypes ==
  ASSUME QueueTypes, ClosedStays, ReclaimRunningJobs
  PROVE  QueueTypes'
<1>1. Rows' = Rows /\ \A j \in Rows : jobs'[j] \in Job /\ jobs'[j].source = jobs[j].source
  BY DEF ReclaimRunningJobs, QueueTypes, QueueTypeOK, Rows, Job, JobStatus
<1>2. QueueTypeOK'
  BY <1>1 DEF QueueTypes, QueueTypeOK
<1>. QED  BY <1>1, <1>2, SourcesKept

LEMMA RetryTypes ==
  ASSUME QueueTypes, ClosedStays, RetryFailedJobs
  PROVE  QueueTypes'
<1>1. CASE UNCHANGED jobs
  BY <1>1, SameQueue
<1>2. CASE jobs' = Unparked
  <2>1. Rows' = Rows
    BY <1>2 DEF Unparked, Rows
  <2>2. ASSUME NEW j \in Rows
        PROVE  jobs'[j] \in Job /\ jobs'[j].source = jobs[j].source
    <3>1. jobs[j] \in Job /\ 0 \in 0..MaxAttempts
      BY MaxAttemptsAssumption DEF QueueTypes, QueueTypeOK
    <3>2. CASE jobs[j].status = "failed"
      <4>1. jobs'[j] = [jobs[j] EXCEPT !.status = "pending", !.due = TRUE, !.attempts = 0,
                                       !.permanent = 0]
        BY <1>2, <3>2 DEF Unparked
      <4>2. jobs'[j] = [source |-> jobs[j].source, kind |-> jobs[j].kind, status |-> "pending",
                        due |-> TRUE, attempts |-> 0, permanent |-> 0]
        BY <3>1, <4>1 DEF Job
      <4>. QED  BY <3>1, <4>2 DEF Job, JobStatus
    <3>3. CASE jobs[j].status # "failed"
      BY <1>2, <3>1, <3>3 DEF Unparked
    <3>. QED  BY <3>2, <3>3
  <2>3. QueueTypeOK'
    BY <2>1, <2>2 DEF QueueTypes, QueueTypeOK
  <2>. QED  BY <2>1, <2>2, <2>3, SourcesKept
<1>. QED  BY <1>1, <1>2 DEF RetryFailedJobs

-----------------------------------------------------------------------------
(* The rows of the episodes.                                               *)

\* A row that is rewritten, but neither opened nor linked to what is not archived.
LEMMA EpisodeUpdated ==
  ASSUME EpisodeTypes, NEW e \in Owners, NEW row \in Episode, UNCHANGED digests,
         episodes' = [episodes EXCEPT ![e] = row],
         row.status = "open" => Open(e), Closed(e) => row.status \in {"closed", "summarized"},
         row.summary <= Len(digests[e])
  PROVE  EpisodeTypes' /\ ClosedStays
<1>1. episodes' \in [Owners -> Episode] /\ \A f \in Owners : episodes'[f] = IF f = e THEN row ELSE episodes[f]
  BY DEF EpisodeTypes
<1>2. \A f \in Owners : Open(f)' => Open(f)
  BY <1>1 DEF Open
<1>3. OneOpenEpisode'
  BY <1>2 DEF EpisodeTypes, OneOpenEpisode, OpenOnes
<1>4. LinkIsArchived'
  BY <1>1 DEF EpisodeTypes, LinkIsArchived
<1>5. ClosedStays
  BY <1>1 DEF ClosedStays, Closed
<1>. QED  BY <1>1, <1>3, <1>4, <1>5 DEF EpisodeTypes

\* A closer that moves on keeps its episode; one that drops it has none.
LEMMA GotoTypes ==
  ASSUME CloserTypes, NEW c \in Closers, NEW pc \in {"close", "enqueue"}, Goto(c, pc),
         closer[c].pc # "idle", ClosedStays, pc = "enqueue" => Closed(Cur(c))'
  PROVE  CloserTypes'
<1>1. /\ closer' \in [Closers -> Closer] /\ closer'[c].pc = pc /\ closer'[c].cur = closer[c].cur
      /\ \A d \in Closers : d # c => closer'[d] = closer[d]
  BY DEF CloserTypes, Closer, Goto
<1>2. ClosersHold'
  BY <1>1 DEF CloserTypes, ClosersHold, ClosedStays, Cur
<1>. QED  BY <1>1, <1>2 DEF CloserTypes

LEMMA DropTypes ==
  ASSUME CloserTypes, NEW c \in Closers, Drop(c), ClosedStays
  PROVE  CloserTypes'
<1>1. /\ closer' \in [Closers -> Closer] /\ closer'[c].pc = "idle"
      /\ \A d \in Closers : d # c => closer'[d] = closer[d]
  BY DEF CloserTypes, Closer, CloserIdle, Drop
<1>2. ClosersHold'
  BY <1>1 DEF CloserTypes, ClosersHold, ClosedStays
<1>. QED  BY <1>1, <1>2 DEF CloserTypes

-----------------------------------------------------------------------------
(* The steps.                                                              *)

Core == EpisodeTypes /\ CloserTypes /\ WorkerTypes /\ QueueTypes /\ RestTypes

LEMMA RecordTurnCore == Core /\ RecordTurn => Core'
<1>. SUFFICES ASSUME Core, RecordTurn PROVE Core'
  OBVIOUS
<1>. USE DEF Core
<1>1. EpisodeTypes' /\ ClosedStays
  BY SameEpisodes DEF RecordTurn, History
<1>2. CloserTypes' /\ WorkerTypes' /\ QueueTypes'
  BY <1>1, SameClosers, SameWorkers, SameQueue DEF RecordTurn
<1>3. RestTypes'
  BY EpisodesAssumption DEF RecordTurn, History, RestTypes
<1>. QED  BY <1>1, <1>2, <1>3

\* A step of the writer or the consolidator.
LEMMA CloserRest ==
  ASSUME RestTypes, ClosersOnly, UNCHANGED <<distilled, full>>, channel' \in 0..Buffer
  PROVE  RestTypes'
BY DEF RestTypes, ClosersOnly

LEMMA TakeUpTypes ==
  ASSUME CloserTypes, EpisodeTypes, NEW e \in Owners, TakeUp(e), ClosedStays
  PROVE  CloserTypes'
<1>1. /\ closer' \in [Closers -> Closer]
      /\ closer'["writer"].pc = "append" /\ closer'["writer"].cur = e
      /\ \A d \in Closers : d # "writer" => closer'[d] = closer[d]
  BY DEF CloserTypes, EpisodeTypes, Episode, Closer, CloserIdle, Closers, TakeUp
<1>2. ClosersHold'
  BY <1>1 DEF CloserTypes, ClosersHold, ClosedStays
<1>. QED  BY <1>1, <1>2 DEF CloserTypes

\* OpenEpisode finds what it looks for.
LEMMA LatestOpenIs == OpenOnes # {} => LatestOpen \in Owners /\ Open(LatestOpen)
<1>. SUFFICES ASSUME OpenOnes # {} PROVE LatestOpen \in Owners /\ Open(LatestOpen)
  OBVIOUS
<1>1. OpenOnes \subseteq 1..MaxEpisodes /\ MaxEpisodes \in Nat
  BY EpisodesAssumption DEF OpenOnes
<1>2. \E m \in OpenOnes : \A x \in OpenOnes : x <= m
  BY <1>1, LargestExists
<1>3. LatestOpen \in OpenOnes
  BY <1>2 DEF LatestOpen
<1>. QED  BY <1>3 DEF OpenOnes

LEMMA NextNewIs == AbsentOnes # {} => NextNew \in Owners /\ episodes[NextNew].status = "absent"
<1>. SUFFICES ASSUME AbsentOnes # {} PROVE NextNew \in Owners /\ episodes[NextNew].status = "absent"
  OBVIOUS
<1>1. AbsentOnes \subseteq Nat
  BY EpisodesAssumption DEF AbsentOnes
<1>2. \E m \in AbsentOnes : \A x \in AbsentOnes : m <= x
  BY <1>1, SmallestExists
<1>3. NextNew \in AbsentOnes
  BY <1>2 DEF NextNew
<1>. QED  BY <1>3 DEF AbsentOnes

LEMMA OpenEpisodeCore == Core /\ OpenEpisode => Core'
<1>. SUFFICES ASSUME Core, OpenEpisode PROVE Core'
  OBVIOUS
<1>. USE DEF Core
<1>1. ClosersOnly /\ UNCHANGED <<jobs, digests, distilled, full>> /\ channel' \in 0..Buffer
  BY EpisodesAssumption DEF OpenEpisode, History, RestTypes
<1>2. CASE OpenOnes # {} /\ TakeUp(LatestOpen) /\ UNCHANGED episodes
  <2>1. LatestOpen \in Owners
    BY <1>2, LatestOpenIs
  <2>2. EpisodeTypes' /\ ClosedStays
    BY <1>1, <1>2, SameEpisodes
  <2>3. CloserTypes'
    BY <1>2, <2>1, <2>2, TakeUpTypes
  <2>4. WorkerTypes' /\ QueueTypes' /\ RestTypes'
    BY <1>1, <2>2, SameWorkers, SameQueue, CloserRest DEF ClosersOnly
  <2>. QED  BY <2>2, <2>3, <2>4
<1>3. CASE /\ OpenOnes = {} /\ AbsentOnes # {} /\ TakeUp(NextNew)
           /\ episodes' = [episodes EXCEPT ![NextNew].status = "open"]
  <2>1. NextNew \in Owners /\ episodes[NextNew].status = "absent"
    BY <1>3, NextNewIs
  <2>2. episodes' \in [Owners -> Episode] /\ (\A f \in Owners : f # NextNew => episodes'[f] = episodes[f])
          /\ episodes'[NextNew].summary = episodes[NextNew].summary
    BY <1>3, <2>1 DEF EpisodeTypes, Episode
  <2>3. ClosedStays
    BY <2>1, <2>2 DEF ClosedStays, Closed
  <2>4. OneOpenEpisode'
    BY <1>3, <2>1, <2>2 DEF OneOpenEpisode, OpenOnes, Open
  <2>5. LinkIsArchived'
    BY <1>1, <2>1, <2>2 DEF EpisodeTypes, LinkIsArchived
  <2>6. CloserTypes'
    BY <1>3, <2>1, <2>3, TakeUpTypes
  <2>7. WorkerTypes' /\ QueueTypes' /\ RestTypes'
    BY <1>1, <2>3, SameWorkers, SameQueue, CloserRest DEF ClosersOnly
  <2>. QED  BY <1>1, <2>2, <2>4, <2>5, <2>6, <2>7 DEF EpisodeTypes
<1>4. CASE UNCHANGED <<episodes, closer>>
  <2>1. EpisodeTypes' /\ ClosedStays
    BY <1>1, <1>4, SameEpisodes
  <2>. QED  BY <1>1, <1>4, <2>1, SameClosers, SameWorkers, SameQueue, CloserRest DEF ClosersOnly
<1>. QED  BY <1>2, <1>3, <1>4 DEF OpenEpisode

LEMMA WriterHasOne == CloserTypes /\ At("writer", "append") => Cur("writer") \in Owners
BY DEF CloserTypes, ClosersHold, At, Cur, Closers

LEMMA AppendTurnCore == Core /\ AppendTurn => Core'
<1>. SUFFICES ASSUME Core, AppendTurn PROVE Core'
  OBVIOUS
<1>. USE DEF Core
<1>. DEFINE e == Cur("writer")
            n == episodes[e].turns + 1
            row == [episodes[e] EXCEPT !.turns = n, !.idle = FALSE]
<1>1. /\ ClosersOnly /\ UNCHANGED <<jobs, channel, digests, distilled, full>>
      /\ e \in Owners /\ "writer" \in Closers /\ closer["writer"].pc # "idle"
  BY WriterHasOne DEF AppendTurn, History, Closers, At
<1>2. EpisodeTypes' /\ ClosedStays
  <2>1. CASE UNCHANGED episodes
    BY <1>1, <2>1, SameEpisodes
  <2>2. CASE episodes' = [episodes EXCEPT ![e].turns = @ + 1, ![e].idle = FALSE]
    <3>1. episodes[e] \in Episode
      BY <1>1 DEF EpisodeTypes
    <3>2. row \in Episode /\ row.status = episodes[e].status /\ row.summary = episodes[e].summary
      <4>1. n \in Nat
        BY <3>1 DEF Episode
      <4>. HIDE DEF n, e
      <4>. QED  BY <3>1, <4>1 DEF Episode
    <3>3. episodes' = [episodes EXCEPT ![e] = row]
      BY <2>2, <1>1, <3>1 DEF EpisodeTypes, Episode
    <3>. HIDE DEF e, n, row
    <3>4. row.summary <= Len(digests[e])
      BY <1>1, <3>2 DEF EpisodeTypes, LinkIsArchived
    <3>. QED  BY <1>1, <3>2, <3>3, <3>4, EpisodeUpdated DEF Open, Closed
  <2>. QED  BY <2>1, <2>2 DEF AppendTurn
<1>3. CloserTypes'
  BY <1>1, <1>2, GotoTypes, DropTypes DEF AppendTurn
<1>4. channel' \in 0..Buffer
  BY <1>1 DEF RestTypes
<1>5. WorkerTypes' /\ QueueTypes' /\ RestTypes'
  BY <1>1, <1>2, <1>4, SameWorkers, SameQueue, CloserRest DEF ClosersOnly
<1>. QED  BY <1>2, <1>3, <1>5

LEMMA ConsolidatorPicks == Core /\ (ListIdleEpisodes \/ NextIdle) => Core'
<1>. SUFFICES ASSUME Core, ListIdleEpisodes \/ NextIdle PROVE Core'
  OBVIOUS
<1>. USE DEF Core
<1>1. ClosersOnly /\ UNCHANGED <<jobs, channel, episodes, digests, distilled, full>>
  BY DEF ListIdleEpisodes, NextIdle, History
<1>2. EpisodeTypes' /\ ClosedStays
  BY <1>1, SameEpisodes
<1>3. CloserTypes'
  <2>1. CASE ListIdleEpisodes
    <3>1. /\ closer' \in [Closers -> Closer]
          /\ \A c \in Closers : closer'[c].pc = closer[c].pc /\ closer'[c].cur = closer[c].cur
      <4>1. Quiet \subseteq Owners /\ closer \in [Closers -> Closer]
        BY DEF CloserTypes, Quiet, OpenOnes
      <4>2. \A m \in Closer : /\ [m EXCEPT !.todo = Quiet] \in Closer
                              /\ [m EXCEPT !.todo = Quiet].pc = m.pc /\ [m EXCEPT !.todo = Quiet].cur = m.cur
        BY <4>1 DEF Closer
      <4>3. closer' = [closer EXCEPT !["consolidator"] = [closer["consolidator"] EXCEPT !.todo = Quiet]]
        BY <2>1 DEF ListIdleEpisodes
      <4>. QED  BY <4>1, <4>2, <4>3
    <3>2. ClosersHold'
      BY <1>2, <3>1 DEF CloserTypes, ClosersHold, ClosedStays
    <3>. QED  BY <3>1, <3>2 DEF CloserTypes
  <2>2. CASE NextIdle
    <3>1. PICK e \in closer["consolidator"].todo :
            closer' = [closer EXCEPT !["consolidator"] =
              [CloserIdle EXCEPT !.pc = "close", !.cur = e,
                                 !.todo = closer["consolidator"].todo \ {e}]]
      BY <2>2 DEF NextIdle
    <3>2. e \in Owners /\ closer["consolidator"].todo \subseteq Owners
      BY <3>1 DEF CloserTypes, Closer, Closers
    <3>3. /\ closer' \in [Closers -> Closer]
          /\ closer'["consolidator"].pc = "close" /\ closer'["consolidator"].cur = e
          /\ \A c \in Closers : c # "consolidator" => closer'[c] = closer[c]
      BY <3>1, <3>2 DEF CloserTypes, Closer, CloserIdle, Closers
    <3>4. ClosersHold'
      BY <1>2, <3>2, <3>3 DEF CloserTypes, ClosersHold, ClosedStays
    <3>. QED  BY <3>3, <3>4 DEF CloserTypes
  <2>. QED  BY <2>1, <2>2
<1>4. channel' \in 0..Buffer
  BY <1>1 DEF RestTypes
<1>5. WorkerTypes' /\ QueueTypes' /\ RestTypes'
  BY <1>1, <1>2, <1>4, SameWorkers, SameQueue, CloserRest DEF ClosersOnly
<1>. QED  BY <1>2, <1>3, <1>5

LEMMA CloseEpisodeCore ==
  ASSUME Core, NEW c \in Closers, CloseEpisode(c)
  PROVE  Core'
<1>. USE DEF Core
<1>. DEFINE e == Cur(c)
            row == [episodes[e] EXCEPT !.status = "closed", !.summary = 0]
<1>1. /\ ClosersOnly /\ UNCHANGED <<jobs, channel, digests, distilled>>
      /\ closer[c].pc # "idle" /\ e \in Owners
  BY DEF CloseEpisode, At, CloserTypes, ClosersHold, Cur
<1>2. CASE UNCHANGED <<episodes, full>> /\ Drop(c)
  <2>1. EpisodeTypes' /\ ClosedStays
    BY <1>1, <1>2, SameEpisodes
  <2>2. channel' \in 0..Buffer
    BY <1>1 DEF RestTypes
  <2>3. CloserTypes'
    BY <1>2, <2>1, DropTypes
  <2>. QED  BY <1>1, <1>2, <2>1, <2>2, <2>3, SameWorkers, SameQueue, CloserRest DEF ClosersOnly
<1>3. CASE /\ episodes' = [episodes EXCEPT ![e].status = "closed", ![e].summary = 0]
           /\ full' = [full EXCEPT ![e] = IF Open(e) THEN episodes[e].turns ELSE @]
           /\ Goto(c, "enqueue")
  <2>1. episodes[e] \in Episode
    BY <1>1 DEF EpisodeTypes
  <2>2. row \in Episode /\ row.status = "closed" /\ row.summary = 0
    BY <2>1 DEF Episode
  <2>3. episodes' = [episodes EXCEPT ![e] = row]
    BY <1>1, <1>3, <2>1 DEF EpisodeTypes, Episode
  <2>4. Closed(Cur(c))'
    <3>1. closer'[c].cur = closer[c].cur
      BY <1>3 DEF CloserTypes, Closer, Goto
    <3>2. episodes'[e].status = "closed"
      BY <1>1, <2>2, <2>3 DEF EpisodeTypes
    <3>. QED  BY <3>1, <3>2 DEF Closed, Cur
  <2>5. full' \in [Owners -> Nat]
    BY <1>1, <1>3, <2>1 DEF RestTypes, Episode
  <2>. HIDE DEF e, row
  <2>6. 0 <= Len(digests[e])
    BY <1>1, LenProperties DEF EpisodeTypes
  <2>7. EpisodeTypes' /\ ClosedStays
    BY <1>1, <2>2, <2>3, <2>6, EpisodeUpdated
  <2>8. CloserTypes'
    BY <1>1, <1>3, <2>4, <2>7, GotoTypes DEF e
  <2>9. WorkerTypes' /\ QueueTypes'
    BY <1>1, <2>7, SameWorkers, SameQueue DEF ClosersOnly
  <2>10. RestTypes'
    BY <1>1, <2>5 DEF RestTypes, ClosersOnly
  <2>. QED  BY <2>7, <2>8, <2>9, <2>10
<1>. QED  BY <1>2, <1>3 DEF CloseEpisode

LEMMA EnqueueSummarizeCore ==
  ASSUME Core, NEW c \in Closers, EnqueueSummarize(c)
  PROVE  Core'
<1>. USE DEF Core
<1>1. /\ ClosersOnly /\ UNCHANGED <<channel, episodes, digests, distilled, full>> /\ Drop(c)
      /\ Cur(c) \in Owners /\ Closed(Cur(c))
  BY DEF EnqueueSummarize, History, At, CloserTypes, ClosersHold, Cur
<1>2. EpisodeTypes' /\ ClosedStays
  BY <1>1, SameEpisodes
<1>3. CloserTypes'
  BY <1>1, <1>2, DropTypes
<1>4. QueueTypes'
  <2>1. CASE UNCHANGED jobs
    BY <2>1, <1>2, SameQueue
  <2>2. CASE EnqueueJob(Cur(c), "summarize")
    <3>1. \A o \in Owners : Closed(o) => Closed(o)'
      BY <1>2 DEF ClosedStays
    <3>2. "summarize" \in Kinds
      BY EpisodesAssumption
    <3>3. PICK o \in Owners : o = Cur(c)
      BY <1>1
    <3>4. Closed(o)' /\ EnqueueJob(o, "summarize")
      BY <1>1, <2>2, <3>1, <3>3
    <3>. QED  BY <1>2, <3>2, <3>4, EnqueueTypes
  <2>. QED  BY <2>1, <2>2 DEF EnqueueSummarize
<1>5. channel' \in 0..Buffer
  BY <1>1 DEF RestTypes
<1>6. WorkerTypes' /\ RestTypes'
  BY <1>1, <1>5, SameWorkers, CloserRest DEF ClosersOnly
<1>. QED  BY <1>2, <1>3, <1>4, <1>6

-----------------------------------------------------------------------------
(* The steps of a worker.                                                  *)

\* A worker that has taken a job keeps it and its episode until it is idle.
LEMMA WorkerMoved ==
  ASSUME WorkerTypes, NEW w \in Workers, NEW row \in WorkerState,
         worker' = [worker EXCEPT ![w] = row],
         row.pc # "idle" => row.job \in JobIds /\ row.cur \in Owners
  PROVE  WorkerTypes'
<1>1. worker' \in [Workers -> WorkerState]
      /\ \A v \in Workers : worker'[v] = IF v = w THEN row ELSE worker[v]
  BY DEF WorkerTypes
<1>2. WorkersHold'
  BY <1>1 DEF WorkerTypes, WorkersHold
<1>. QED  BY <1>1, <1>2 DEF WorkerTypes

LEMMA ToTypes ==
  ASSUME WorkerTypes, NEW w \in Workers, worker[w].pc # "idle", NEW pc \in Steps, To(w, pc)
  PROVE  WorkerTypes'
<1>. DEFINE row == [worker[w] EXCEPT !.pc = pc]
<1>1. row \in WorkerState /\ row.job \in JobIds /\ row.cur \in Owners
  BY DEF WorkerTypes, WorkersHold, WorkerState
<1>2. worker' = [worker EXCEPT ![w] = row]
  BY DEF To
<1>. HIDE DEF row
<1>. QED  BY <1>1, <1>2, WorkerMoved

LEMMA SettleTypes ==
  ASSUME WorkerTypes, NEW w \in Workers, worker[w].pc # "idle",
         NEW r \in {"ok", "transient", "error"}, Settle(w, r)
  PROVE  WorkerTypes'
<1>. DEFINE row == [worker[w] EXCEPT !.pc = "settle", !.result = r]
<1>1. row \in WorkerState /\ row.job \in JobIds /\ row.cur \in Owners
  BY DEF WorkerTypes, WorkersHold, WorkerState, Steps
<1>2. worker' = [worker EXCEPT ![w] = row]
  BY DEF Settle, WorkerTypes
<1>. HIDE DEF row
<1>. QED  BY <1>1, <1>2, WorkerMoved

LEMMA HasEpisode ==
  ASSUME WorkerTypes, NEW w \in Workers, worker[w].pc # "idle"
  PROVE  worker[w].job \in JobIds /\ worker[w].cur \in Owners
BY DEF WorkerTypes, WorkersHold

LEMMA WorkerRest ==
  ASSUME RestTypes, WorkersOnly, distilled' \subseteq Owners
  PROVE  RestTypes'
BY DEF RestTypes, WorkersOnly

\* What is left of a step of a worker when its episode, itself and the queue are dealt with.
LEMMA WorkerCore ==
  ASSUME Core, WorkersOnly, EpisodeTypes', ClosedStays, WorkerTypes', distilled' \subseteq Owners,
         UNCHANGED jobs \/ QueueTypes'
  PROVE  Core'
<1>1. CloserTypes'
  BY SameClosers DEF Core, WorkersOnly
<1>2. QueueTypes'
  BY SameQueue DEF Core
<1>. QED  BY <1>1, <1>2, WorkerRest DEF Core

LEMMA ClaimCore ==
  ASSUME Core, NEW w \in Workers, NEW j \in Rows, Claim(w, j)
  PROVE  Core'
<1>. DEFINE row == [pc |-> "read", job |-> j, cur |-> jobs[j].source, turns |-> 0, result |-> "none"]
<1>1. EpisodeTypes' /\ ClosedStays
  BY SameEpisodes DEF Core, Claim
<1>2. j \in JobIds /\ jobs[j].source \in Owners
  BY DEF Core, QueueTypes, QueueTypeOK, Job
<1>3. row \in WorkerState /\ row.job \in JobIds /\ row.cur \in Owners
  BY <1>2 DEF WorkerState, Steps
<1>4. worker' = [worker EXCEPT ![w] = row]
  BY DEF Claim
<1>. HIDE DEF row
<1>5. WorkerTypes'
  BY <1>3, <1>4, WorkerMoved DEF Core
<1>6. QueueTypes'
  BY <1>1, ClaimTypes DEF Core, Claim
<1>7. WorkersOnly /\ distilled' \subseteq Owners
  BY DEF Claim, Core, RestTypes
<1>. QED  BY <1>1, <1>5, <1>6, <1>7, WorkerCore

LEMMA EpisodeTurnsCore ==
  ASSUME Core, NEW w \in Workers, EpisodeTurns(w)
  PROVE  Core'
<1>. DEFINE n == Read(episodes[worker[w].cur].turns)
            row == [worker[w] EXCEPT !.pc = IF n < MinTurns THEN "short" ELSE "distill", !.turns = n]
<1>1. /\ WorkersOnly /\ UNCHANGED <<jobs, episodes, digests, distilled>> /\ worker[w].pc # "idle"
      /\ distilled' \subseteq Owners
  BY DEF EpisodeTurns, Works, Core, RestTypes
<1>2. EpisodeTypes' /\ ClosedStays
  BY <1>1, SameEpisodes DEF Core
<1>3. WorkerTypes'
  <2>1. CASE worker' = [worker EXCEPT ![w].pc = IF n < MinTurns THEN "short" ELSE "distill",
                                      ![w].turns = n]
    <3>1. n \in Nat
      BY <1>1, HasEpisode, EpisodesAssumption DEF Core, EpisodeTypes, Episode, Read
    <3>2. worker' = [worker EXCEPT ![w] = row]
      BY <2>1 DEF Core, WorkerTypes
    <3>. HIDE DEF n
    <3>3. row \in WorkerState /\ row.job \in JobIds /\ row.cur \in Owners
      BY <1>1, <3>1, HasEpisode DEF Core, WorkerTypes, WorkerState, Steps
    <3>. HIDE DEF row
    <3>. QED  BY <3>2, <3>3, WorkerMoved DEF Core
  <2>2. CASE Settle(w, "error")
    BY <1>1, <2>2, SettleTypes DEF Core
  <2>. QED  BY <2>1, <2>2 DEF EpisodeTurns
<1>. QED  BY <1>1, <1>2, <1>3, WorkerCore

LEMMA DistillCore ==
  ASSUME Core, NEW w \in Workers, Distill(w)
  PROVE  Core'
<1>1. /\ WorkersOnly /\ UNCHANGED <<jobs, episodes, digests, distilled>> /\ worker[w].pc # "idle"
      /\ distilled' \subseteq Owners
  BY DEF Distill, Works, Core, RestTypes
<1>2. EpisodeTypes' /\ ClosedStays
  BY <1>1, SameEpisodes DEF Core
<1>3. WorkerTypes'
  BY <1>1, ToTypes, SettleTypes DEF Distill, Core, Steps
<1>. QED  BY <1>1, <1>2, <1>3, WorkerCore

\* CloseEpisode by a worker: the status is summarized, the link one that is archived.
LEMMA SummarizedTypes ==
  ASSUME EpisodeTypes, NEW e \in Owners, NEW n \in Nat, Summarized(e, n), UNCHANGED digests,
         n <= Len(digests[e])
  PROVE  EpisodeTypes' /\ ClosedStays
<1>. DEFINE row == [episodes[e] EXCEPT !.status = "summarized", !.summary = n]
<1>1. row \in Episode /\ row.status = "summarized" /\ row.summary = n
  BY DEF EpisodeTypes, Episode
<1>2. episodes' = [episodes EXCEPT ![e] = row]
  BY DEF Summarized, EpisodeTypes
<1>. HIDE DEF row
<1>. QED  BY <1>1, <1>2, EpisodeUpdated

LEMMA CloseEmptyCore ==
  ASSUME Core, NEW w \in Workers, CloseEmpty(w)
  PROVE  Core'
<1>. DEFINE e == worker[w].cur
<1>1. WorkersOnly /\ UNCHANGED <<jobs, digests>> /\ worker[w].pc # "idle" /\ Settle(w, "ok")
  BY DEF CloseEmpty, Works
<1>2. e \in Owners /\ distilled' \subseteq Owners
  BY <1>1, HasEpisode DEF CloseEmpty, Core, RestTypes
<1>3. EpisodeTypes' /\ ClosedStays
  <2>1. CASE UNCHANGED episodes
    BY <1>1, <2>1, SameEpisodes DEF Core
  <2>2. CASE Summarized(e, 0)
    <3>1. 0 <= Len(digests[e])
      BY <1>2, LenProperties DEF Core, EpisodeTypes
    <3>. HIDE DEF e
    <3>. QED  BY <1>1, <1>2, <2>2, <3>1, SummarizedTypes DEF Core
  <2>. QED  BY <2>1, <2>2 DEF CloseEmpty
<1>4. WorkerTypes'
  BY <1>1, SettleTypes DEF Core
<1>. QED  BY <1>1, <1>2, <1>3, <1>4, WorkerCore

LEMMA IngestSummaryCore ==
  ASSUME Core, NEW w \in Workers, IngestSummary(w)
  PROVE  Core'
<1>. DEFINE e == worker[w].cur
<1>1. /\ WorkersOnly /\ UNCHANGED <<jobs, episodes, distilled>> /\ worker[w].pc # "idle"
      /\ distilled' \subseteq Owners /\ e \in Owners
  BY HasEpisode DEF IngestSummary, Works, Core, RestTypes
<1>2. CASE UNCHANGED digests
  <2>1. EpisodeTypes' /\ ClosedStays
    BY <1>1, <1>2, SameEpisodes DEF Core
  <2>2. WorkerTypes'
    BY <1>1, ToTypes, SettleTypes DEF IngestSummary, Core, Steps
  <2>. QED  BY <1>1, <2>1, <2>2, WorkerCore
<1>3. CASE digests' = [digests EXCEPT ![e] = Append(@, worker[w].turns)]
  <2>1. worker[w].turns \in Nat /\ digests[e] \in Seq(Nat)
    BY <1>1 DEF Core, WorkerTypes, WorkerState, EpisodeTypes
  <2>2. digests' \in [Owners -> Seq(Nat)]
    BY <1>3, <2>1, AppendProperties DEF Core, EpisodeTypes
  <2>3. \A f \in Owners : digests'[f] = IF f = e THEN Append(digests[e], worker[w].turns)
                                        ELSE digests[f]
    BY <1>3 DEF Core, EpisodeTypes
  <2>4. \A f \in Owners : Len(digests[f]) \in Nat /\ Len(digests[f]) <= Len(digests'[f])
    <3>1. Len(Append(digests[e], worker[w].turns)) = Len(digests[e]) + 1
      BY <2>1, AppendProperties
    <3>2. \A f \in Owners : Len(digests[f]) \in Nat
      BY LenProperties DEF Core, EpisodeTypes
    <3>3. Len(digests'[e]) = Len(digests[e]) + 1
      BY <1>1, <2>3, <3>1
    <3>4. \A f \in Owners : f # e => digests'[f] = digests[f]
      BY <2>3
    <3>. HIDE DEF e
    <3>. QED  BY <1>1, <3>2, <3>3, <3>4
  <2>5. LinkIsArchived'
    <3>1. \A f \in Owners : episodes[f].summary \in Nat /\ Len(digests'[f]) \in Nat
      BY <2>2, LenProperties DEF Core, EpisodeTypes, Episode
    <3>. QED  BY <1>1, <2>4, <3>1 DEF Core, EpisodeTypes, LinkIsArchived
  <2>6. EpisodeTypes' /\ ClosedStays
    BY <1>1, <2>2, <2>5 DEF Core, EpisodeTypes, ClosedStays, Closed, OneOpenEpisode, OpenOnes, Open
  <2>7. WorkerTypes'
    BY <1>1, ToTypes, SettleTypes DEF IngestSummary, Core, Steps
  <2>. QED  BY <1>1, <2>6, <2>7, WorkerCore
<1>. QED  BY <1>2, <1>3 DEF IngestSummary

LEMMA RememberFactsCore ==
  ASSUME Core, NEW w \in Workers, RememberFacts(w)
  PROVE  Core'
<1>1. /\ WorkersOnly /\ UNCHANGED <<jobs, episodes, digests, distilled>> /\ worker[w].pc # "idle"
      /\ distilled' \subseteq Owners
  BY DEF RememberFacts, Works, Core, RestTypes
<1>2. EpisodeTypes' /\ ClosedStays
  BY <1>1, SameEpisodes DEF Core
<1>3. WorkerTypes'
  BY <1>1, ToTypes DEF RememberFacts, Core, Steps
<1>. QED  BY <1>1, <1>2, <1>3, WorkerCore

LEMMA LinkSummaryCore ==
  ASSUME Core, NEW w \in Workers, LinkSummary(w)
  PROVE  Core'
<1>. DEFINE e == worker[w].cur
<1>1. WorkersOnly /\ UNCHANGED <<jobs, digests>> /\ worker[w].pc # "idle"
  BY DEF LinkSummary, Works
<1>2. e \in Owners /\ distilled' \subseteq Owners
  BY <1>1, HasEpisode DEF LinkSummary, Core, RestTypes
<1>3. EpisodeTypes' /\ ClosedStays
  <2>1. CASE UNCHANGED episodes
    BY <1>1, <2>1, SameEpisodes DEF Core
  <2>2. CASE Summarized(e, Len(digests[e]))
    <3>1. Len(digests[e]) \in Nat
      BY <1>2, LenProperties DEF Core, EpisodeTypes
    <3>. HIDE DEF e
    <3>. QED  BY <1>1, <1>2, <2>2, <3>1, SummarizedTypes DEF Core
  <2>. QED  BY <2>1, <2>2 DEF LinkSummary
<1>4. WorkerTypes'
  BY <1>1, SettleTypes DEF LinkSummary, Core
<1>. QED  BY <1>1, <1>2, <1>3, <1>4, WorkerCore

LEMMA FinishJobCore ==
  ASSUME Core, NEW w \in Workers, FinishJob(w)
  PROVE  Core'
<1>1. /\ WorkersOnly /\ UNCHANGED <<episodes, digests, distilled>> /\ distilled' \subseteq Owners
      /\ worker' = [worker EXCEPT ![w] = Idle]
  BY DEF FinishJob, Core, RestTypes
<1>2. EpisodeTypes' /\ ClosedStays
  BY <1>1, SameEpisodes DEF Core
<1>3. Idle \in WorkerState /\ Idle.pc = "idle"
  BY DEF Idle, WorkerState, Steps
<1>4. WorkerTypes'
  BY <1>1, <1>3, WorkerMoved DEF Core
<1>5. UNCHANGED jobs \/ QueueTypes'
  BY <1>2, CompleteTypes, FailTypes, RescheduleTypes DEF FinishJob, Core
<1>. QED  BY <1>1, <1>2, <1>4, <1>5, WorkerCore

-----------------------------------------------------------------------------
(* The facts and the environment.                                          *)

\* A step that leaves the episodes and their goroutines alone.
LEMMA AloneCore ==
  ASSUME Core, UNCHANGED <<episodes, digests, closer, worker>>, RestTypes',
         UNCHANGED jobs \/ QueueTypes'
  PROVE  Core'
<1>1. EpisodeTypes' /\ ClosedStays
  BY SameEpisodes DEF Core
<1>. QED  BY <1>1, SameClosers, SameWorkers, SameQueue DEF Core

LEMMA FactCore ==
  ASSUME Core, NEW r \in Rememberers, FactStep(r) \/ HandlerRemembers(r)
  PROVE  Core'
<1>1. RestTypes'
  BY DEF FactStep, HandlerRemembers, History, Core, RestTypes
<1>. QED  BY <1>1, AloneCore DEF FactStep, HandlerRemembers, History

LEMMA GoesQuietCore ==
  ASSUME Core, NEW e \in Owners, GoesQuiet(e)
  PROVE  Core'
<1>. DEFINE row == [episodes[e] EXCEPT !.idle = TRUE]
<1>1. row \in Episode /\ row.status = episodes[e].status /\ row.summary = episodes[e].summary
  BY DEF Core, EpisodeTypes, Episode
<1>2. episodes' = [episodes EXCEPT ![e] = row]
  BY DEF GoesQuiet
<1>. HIDE DEF row
<1>3. row.summary <= Len(digests[e])
  BY <1>1 DEF Core, EpisodeTypes, LinkIsArchived
<1>4. EpisodeTypes' /\ ClosedStays
  BY <1>1, <1>2, <1>3, EpisodeUpdated DEF Core, GoesQuiet, History, Open, Closed
<1>5. RestTypes'
  BY DEF GoesQuiet, History, Core, RestTypes
<1>. QED  BY <1>4, <1>5, SameClosers, SameWorkers, SameQueue DEF Core, GoesQuiet

LEMMA EnvironmentCore ==
  ASSUME Core, CliRetry \/ BrainChanges \/ Restart \/ \E j \in Rows : RetryDue(j)
  PROVE  Core'
<1>1. UNCHANGED <<episodes, digests, closer, worker>> /\ RestTypes'
  BY DEF CliRetry, BrainChanges, Restart, RetryDue, History, Core, RestTypes
<1>2. EpisodeTypes' /\ ClosedStays
  BY <1>1, SameEpisodes DEF Core
<1>3. UNCHANGED jobs \/ QueueTypes'
  BY <1>2, RetryTypes, ReclaimTypes, RetryTimeTypes DEF CliRetry, BrainChanges, Restart, RetryDue, Core
<1>. QED  BY <1>1, <1>3, AloneCore

LEMMA CrashCore == Core /\ Crash => Core'
<1>. SUFFICES ASSUME Core, Crash PROVE Core'
  OBVIOUS
<1>1. EpisodeTypes' /\ ClosedStays
  BY SameEpisodes DEF Core, Crash, History
<1>2. CloserTypes'
  BY DEF Crash, CloserTypes, ClosersHold, Closer, CloserIdle
<1>3. WorkerTypes'
  BY DEF Crash, WorkerTypes, WorkersHold, WorkerState, Steps, Idle
<1>4. RestTypes'
  BY EpisodesAssumption DEF Crash, History, Core, RestTypes
<1>5. QueueTypes'
  BY <1>1, SameQueue DEF Core, Crash
<1>. QED  BY <1>1, <1>2, <1>3, <1>4, <1>5 DEF Core

LEMMA StutterCore == Core /\ UNCHANGED vars => Core'
<1>. SUFFICES ASSUME Core, UNCHANGED vars PROVE Core'
  OBVIOUS
<1>1. RestTypes'
  BY DEF vars, Core, RestTypes
<1>. QED  BY <1>1, AloneCore DEF vars

\* What a step does to the facts is one of the things MemoryFactsProofs expects.
LEMMA NextChangesFacts == Next => FactsChange
<1>1. ASSUME NEW w \in Workers, WorkerStep(w) PROVE FactsChange
  <2>1. w \in Rememberers
    BY EpisodesAssumption
  <2>2. CASE RememberFacts(w)
    BY <2>1, <2>2 DEF RememberFacts, FactsChange, SomeEvent, factVars
  <2>3. CASE ~RememberFacts(w)
    BY <1>1, <2>3 DEF WorkerStep, EpisodeTurns, Distill, CloseEmpty, IngestSummary, LinkSummary,
                      FinishJob, FactsChange, SomeEvent, Happens
  <2>. QED  BY <2>2, <2>3
<1>2. ASSUME NEW w \in Workers, NEW j \in Rows, Claim(w, j) PROVE FactsChange
  BY <1>2 DEF Claim, FactsChange, SomeEvent
<1>3. ASSUME RecordTurn \/ WriterStep \/ ConsolidatorStep PROVE FactsChange
  BY <1>3 DEF RecordTurn, WriterStep, ConsolidatorStep, Closing, OpenEpisode, AppendTurn,
              ListIdleEpisodes, NextIdle, CloseEpisode, EnqueueSummarize, ClosersOnly,
              FactsChange, SomeEvent, Happens
<1>4. ASSUME NEW r \in Rememberers, FactStep(r) \/ HandlerRemembers(r) PROVE FactsChange
  BY <1>4 DEF FactStep, HandlerRemembers, FactsChange
<1>5. ASSUME NEW e \in Owners, GoesQuiet(e) PROVE FactsChange
  BY <1>5 DEF GoesQuiet, FactsChange, SomeEvent
<1>6. ASSUME NEW j \in Rows, RetryDue(j) PROVE FactsChange
  BY <1>6 DEF RetryDue, FactsChange, SomeEvent
<1>7. ASSUME CliRetry \/ BrainChanges \/ Crash \/ Restart PROVE FactsChange
  BY <1>7 DEF CliRetry, BrainChanges, Crash, Restart, FactsChange, SomeEvent, Happens
<1>. QED  BY <1>1, <1>2, <1>3, <1>4, <1>5, <1>6, <1>7 DEF Next

-----------------------------------------------------------------------------
(* The invariants.                                                         *)

LEMMA EpisodesInitially == Init => EpisodesInv
<1>. SUFFICES ASSUME Init PROVE EpisodesInv
  OBVIOUS
<1>1. FactsState
  BY FactsInitState DEF Init
<1>2. EpisodeTypes
  BY LenProperties, EmptySeq DEF Init, EpisodeTypes, Episode, OneOpenEpisode, OpenOnes, Open,
                                LinkIsArchived
<1>3. CloserTypes /\ WorkerTypes
  BY DEF Init, CloserTypes, ClosersHold, Closer, CloserIdle, WorkerTypes, WorkersHold, WorkerState,
         Steps, Idle
<1>4. QueueTypes
  BY DEF Init, QueueInit, QueueTypes, QueueTypeOK, Rows, QueuedIsClosed
<1>5. RestTypes
  BY EpisodesAssumption DEF Init, RestTypes
<1>. QED  BY <1>1, <1>2, <1>3, <1>4, <1>5, InvParts

LEMMA CoreStep == Core /\ [Next]_vars => Core'
<1>. SUFFICES ASSUME Core, [Next]_vars PROVE Core'
  OBVIOUS
<1>1. CASE RecordTurn \/ WriterStep \/ ConsolidatorStep
  BY <1>1, RecordTurnCore, OpenEpisodeCore, AppendTurnCore, ConsolidatorPicks, CloseEpisodeCore,
     EnqueueSummarizeCore DEF WriterStep, ConsolidatorStep, Closing, Closers
<1>2. ASSUME NEW w \in Workers, WorkerStep(w) PROVE Core'
  BY <1>2, EpisodeTurnsCore, DistillCore, CloseEmptyCore, IngestSummaryCore, RememberFactsCore,
     LinkSummaryCore, FinishJobCore DEF WorkerStep
<1>3. ASSUME NEW w \in Workers, NEW j \in Rows, Claim(w, j) PROVE Core'
  BY <1>3, ClaimCore
<1>4. ASSUME NEW r \in Rememberers, FactStep(r) \/ HandlerRemembers(r) PROVE Core'
  BY <1>4, FactCore
<1>5. ASSUME NEW e \in Owners, GoesQuiet(e) PROVE Core'
  BY <1>5, GoesQuietCore
<1>6. CASE CliRetry \/ BrainChanges \/ Crash \/ Restart \/ \E j \in Rows : RetryDue(j)
  BY <1>6, EnvironmentCore, CrashCore
<1>7. CASE UNCHANGED vars
  BY <1>7, StutterCore
<1>. QED  BY <1>1, <1>2, <1>3, <1>4, <1>5, <1>6, <1>7 DEF Next

LEMMA FactsOfStep == FactsState /\ [Next]_vars => FactsState'
<1>1. ASSUME FactsState, UNCHANGED vars PROVE FactsState'
  BY <1>1, FactsStateStep DEF vars, FactsChange, SomeEvent
<1>. QED  BY <1>1, FactsStateStep, NextChangesFacts

(* The closing protocol, the queue and the links are right in every         *)
(* reachable state, for any workers, episodes, limits and events: the       *)
(* inductive invariant of conversation memory.                              *)
THEOREM EpisodesInvariant == Spec => []EpisodesInv
<1>1. EpisodesInv /\ [Next]_vars => EpisodesInv'
  <2>. SUFFICES ASSUME EpisodesInv, [Next]_vars PROVE EpisodesInv'
    OBVIOUS
  <2>1. FactsState /\ Core
    BY InvParts DEF Core
  <2>2. FactsState' /\ Core'
    BY <2>1, CoreStep, FactsOfStep
  <2>. QED  BY <2>2 DEF Core, EpisodesInv, TypeOK, FactsState, EpisodeTypes, CloserTypes, WorkerTypes,
                        QueueTypes, RestTypes
<1>. QED  BY <1>1, EpisodesInitially, PTL DEF Spec

(* The tables and the goroutines keep their types: a worker's job and       *)
(* episode exist, and the channel never holds more than its buffer.         *)
THEOREM EpisodesTypeCorrect == Spec => []TypeOK
<1>1. EpisodesInv => TypeOK
  BY DEF EpisodesInv
<1>. QED  BY <1>1, EpisodesInvariant, PTL

(* A chat never has two open episodes, although OpenEpisode reads and       *)
(* inserts in two statements while others close (store.go OpenEpisode).     *)
THEOREM OneEpisodeOpen == Spec => []OneOpenEpisode
<1>1. EpisodesInv => OneOpenEpisode
  BY DEF EpisodesInv
<1>. QED  BY <1>1, EpisodesInvariant, PTL

(* Only closed episodes are queued for a summary, through crashes between   *)
(* closing and queueing, retries and re-queued jobs (closeEpisode).         *)
THEOREM OnlyClosedQueued == Spec => []QueuedIsClosed
<1>1. EpisodesInv => QueuedIsClosed
  BY DEF EpisodesInv
<1>. QED  BY <1>1, EpisodesInvariant, PTL

(* The summary an episode is linked to has been archived, however many      *)
(* workers distil it and whatever is retried (runSummarizeJob).             *)
THEOREM LinksArchived == Spec => []LinkIsArchived
<1>1. EpisodesInv => LinkIsArchived
  BY DEF EpisodesInv
<1>. QED  BY <1>1, EpisodesInvariant, PTL

\* Calls of RememberFact in any interleaving, in the whole system.
LEMMA FactsInvariant == Spec => [](FactsState /\ FactsInv)
<1>1. Init => FactsState /\ FactsInv
  BY FactsInitState DEF Init
<1>2. FactsState /\ FactsInv /\ [Next]_vars => (FactsState /\ FactsInv)'
  <2>. SUFFICES ASSUME FactsState, FactsInv, [Next]_vars PROVE (FactsState /\ FactsInv)'
    OBVIOUS
  <2>1. FactsChange
    BY NextChangesFacts DEF vars, FactsChange, SomeEvent
  <2>2. FactsState'
    BY <2>1, FactsStateStep
  <2>3. FactsInv'
    BY <2>1, <2>2, FactsInvStep
  <2>. QED  BY <2>2, <2>3
<1>. QED  BY <1>1, <1>2, PTL DEF Spec

(* However calls of RememberFact overlap, crash and fail, a key has one     *)
(* current value, and one more at most for every call that began while      *)
(* another about its key was under way (facts.go RememberFact).             *)
THEOREM FewCurrentValues == Spec => []FewCurrent
<1>1. FactsState /\ FactsInv => FewCurrent
  BY FewCurrentFromInv
<1>. QED  BY <1>1, FactsInvariant, PTL

(* ... a fact is only ever replaced by one of its key with another value,   *)
(* and by a later one where no two calls about the key met                  *)
(* (facts.go:57-67); and keys lose their value only by a crash or a failed  *)
(* write, each goroutine one at most (facts.go:101-113).                    *)
THEOREM HistoryRunsForward == Spec => []HistoryRuns
<1>1. FactsInv => HistoryRuns
  BY DEF FactsInv, OrderInv, LossInv, HistoryRuns
<1>. QED  BY <1>1, FactsInvariant, PTL

-----------------------------------------------------------------------------
(* Episodes stay short, and are summarised whole.                          *)

ToBeClosed(e) == closer["writer"].pc = "close" /\ Cur("writer") = e
\* An open episode is a turn short of its bound, unless the writer is about to close it.
GrowthInv ==
  /\ \A e \in Owners :
       /\ episodes[e].status = "absent" => episodes[e].turns = 0
       /\ episodes[e].turns <= MaxTurns + events.faults
       /\ Open(e) /\ ~ToBeClosed(e) => episodes[e].turns < MaxTurns + events.faults
  /\ closer["writer"].pc = "append" =>
       /\ episodes[Cur("writer")].status # "absent"
       /\ closer["writer"].count = episodes[Cur("writer")].turns
       /\ episodes[Cur("writer")].turns < MaxTurns + events.faults
\* A worker's episode is closed, and what it has read is all that was there at the close.
Covers(n, e) == n >= full[e] \/ n = ReadLimit
WholeInv ==
  /\ \A e \in Owners :
       /\ Closed(e) => full[e] <= episodes[e].turns
       /\ ~Closed(e) => digests[e] = << >> /\ full[e] = 0
  /\ \A w \in Workers :
       /\ worker[w].pc # "idle" => Closed(worker[w].cur)
       /\ worker[w].pc \in {"distill", "ingest"} => Covers(worker[w].turns, worker[w].cur)
  /\ DigestIsWhole
SummaryInv == EpisodesInv /\ GrowthInv /\ WholeInv

\* No turn is added, and no row appears or opens.
TurnsStay ==
  \A e \in Owners :
    /\ episodes'[e].turns = episodes[e].turns
    /\ episodes'[e].status \in {"open", "absent"} => episodes'[e].status = episodes[e].status
NoneCloses == \A e \in Owners : Closed(e)' => Closed(e)
\* The writer does not let go of a full episode but by closing it, or with a fault.
WriterStays ==
  \/ closer'["writer"] = closer["writer"]
  \/ /\ closer'["writer"].pc # "append"
     /\ closer["writer"].pc = "close" =>
          events'.faults > events.faults \/ episodes'[Cur("writer")].status # "open"
\* Whatever a worker holds it has from a closed episode.
WorkersStay ==
  \A w \in Workers :
    \/ worker'[w] = worker[w]
    \/ worker'[w].pc = "idle"
    \/ /\ worker'[w].cur \in Owners /\ Closed(worker'[w].cur)
       /\ worker'[w].pc \in {"distill", "ingest"} => Covers(worker'[w].turns, worker'[w].cur)

LEMMA FaultsGrow ==
  ASSUME EpisodesInv, [Next]_vars
  PROVE  events.faults \in Nat /\ events'.faults \in Nat /\ events'.faults >= events.faults
<1>1. events.faults \in Nat
  BY EpisodesAssumption, FactsAssumption DEF EpisodesInv, TypeOK, FactsTypeOK
<1>2. SomeEvent
  <2>1. FactsChange
    BY NextChangesFacts DEF vars, FactsChange, SomeEvent
  <2>2. ASSUME NEW r \in Rememberers, RememberStep(r)
        PROVE  SomeEvent
    BY <2>2 DEF RememberStep, Lookup, Supersede, InsertFact, SomeEvent, Happens
  <2>3. Happens("crash") => SomeEvent
    BY DEF Happens, SomeEvent
  <2>. QED  BY <2>1, <2>2, <2>3 DEF FactsChange, SomeEvent
<1>. QED  BY <1>1, <1>2 DEF SomeEvent, Happens

LEMMA EpisodeValues ==
  ASSUME EpisodesInv, NEW e \in Owners
  PROVE  /\ episodes[e] \in Episode /\ episodes[e].turns \in Nat /\ full[e] \in Nat
         /\ episodes[e].status \in {"absent", "open", "closed", "summarized"}
         /\ Closed(e) <=> episodes[e].status \notin {"absent", "open"}
BY DEF EpisodesInv, TypeOK, Episode, Closed

LEMMA GrowthKept ==
  ASSUME EpisodesInv, EpisodesInv', GrowthInv, [Next]_vars, TurnsStay, WriterStays
  PROVE  GrowthInv'
<1>1. /\ events.faults \in Nat /\ events'.faults \in Nat /\ events'.faults >= events.faults
      /\ MaxTurns \in Nat /\ \A e \in Owners : episodes[e].turns \in Nat
  BY FaultsGrow, EpisodeValues, EpisodesAssumption
<1>2. ASSUME NEW e \in Owners
      PROVE  /\ episodes'[e].status = "absent" => episodes'[e].turns = 0
             /\ episodes'[e].turns <= MaxTurns + events'.faults
             /\ Open(e)' /\ ~ToBeClosed(e)' => episodes'[e].turns < MaxTurns + events'.faults
  <2>1. episodes'[e].turns = episodes[e].turns /\ episodes[e].turns <= MaxTurns + events.faults
    BY DEF TurnsStay, GrowthInv
  <2>2. episodes'[e].status = "absent" => episodes'[e].turns = 0
    BY <2>1 DEF TurnsStay, GrowthInv
  <2>3. ASSUME Open(e)', ~ToBeClosed(e)'
        PROVE  episodes[e].turns < MaxTurns + events'.faults
    <3>1. Open(e)
      BY <2>3 DEF Open, TurnsStay
    <3>2. CASE ToBeClosed(e)
      <4>1. events'.faults > events.faults
        BY <2>3, <3>2 DEF WriterStays, ToBeClosed, Cur, Open
      <4>. QED  BY <1>1, <2>1, <4>1
    <3>3. CASE ~ToBeClosed(e)
      BY <1>1, <3>1, <3>3 DEF GrowthInv
    <3>. QED  BY <3>2, <3>3
  <2>. QED  BY <1>1, <2>1, <2>2, <2>3
<1>3. ASSUME closer'["writer"].pc = "append"
      PROVE  /\ episodes'[Cur("writer")'].status # "absent"
             /\ closer'["writer"].count = episodes'[Cur("writer")'].turns
             /\ episodes'[Cur("writer")'].turns < MaxTurns + events'.faults
  <2>1. closer'["writer"] = closer["writer"] /\ Cur("writer") \in Owners
    BY <1>3 DEF WriterStays, EpisodesInv, ClosersHold, Closers, Cur
  <2>. QED  BY <1>1, <1>3, <2>1 DEF TurnsStay, GrowthInv, Cur
<1>. QED  BY <1>2, <1>3 DEF GrowthInv

LEMMA TurnsStayCloses ==
  ASSUME EpisodesInv, EpisodesInv', TurnsStay
  PROVE  ClosedStays
<1>. SUFFICES ASSUME NEW e \in Owners, Closed(e)
              PROVE  Closed(e)'
  BY DEF ClosedStays
<1>1. episodes'[e].status \in {"absent", "open", "closed", "summarized"}
  BY DEF EpisodesInv, TypeOK, Episode
<1>. QED  BY <1>1 DEF TurnsStay, Closed

\* A step that archives nothing, and closes an episode only with what it has.
LEMMA WholeKept ==
  ASSUME SummaryInv, EpisodesInv', ClosedStays, WorkersStay, UNCHANGED digests,
         \A e \in Owners :
           /\ episodes'[e].turns >= episodes[e].turns
           /\ Closed(e) \/ ~Closed(e)' => full'[e] = full[e]
           /\ Closed(e)' /\ ~Closed(e) => full'[e] <= episodes'[e].turns
  PROVE  WholeInv'
<1>1. EpisodesInv /\ WholeInv
  BY DEF SummaryInv
<1>2. \A e \in Owners : /\ episodes[e].turns \in Nat /\ full[e] \in Nat
                        /\ episodes'[e].turns \in Nat /\ full'[e] \in Nat
  BY <1>1, EpisodeValues DEF EpisodesInv, TypeOK, Episode
<1>3. \A e \in Owners : /\ Closed(e)' => full'[e] <= episodes'[e].turns
                        /\ ~Closed(e)' => digests'[e] = << >> /\ full'[e] = 0
  BY <1>1, <1>2 DEF WholeInv, ClosedStays
<1>4. \A w \in Workers :
        /\ worker'[w].pc # "idle" => Closed(worker[w].cur)'
        /\ worker'[w].pc \in {"distill", "ingest"} => Covers(worker[w].turns, worker[w].cur)'
  <2>. SUFFICES ASSUME NEW w \in Workers, worker'[w].pc # "idle"
                PROVE  /\ Closed(worker[w].cur)'
                       /\ worker'[w].pc \in {"distill", "ingest"} =>
                            Covers(worker[w].turns, worker[w].cur)'
    OBVIOUS
  <2>1. /\ worker'[w].cur \in Owners /\ Closed(worker'[w].cur)
        /\ worker'[w].pc \in {"distill", "ingest"} => Covers(worker'[w].turns, worker'[w].cur)
    BY <1>1 DEF WorkersStay, WholeInv, EpisodesInv, WorkersHold
  <2>2. full'[worker'[w].cur] = full[worker'[w].cur]
    BY <2>1
  <2>. QED  BY <2>1, <2>2 DEF ClosedStays, Closed, Covers
<1>5. DigestIsWhole'
  <2>. SUFFICES ASSUME NEW e \in Owners, NEW i \in DOMAIN digests[e]
                PROVE  digests[e][i] >= full'[e] \/ digests[e][i] = ReadLimit
    BY DEF DigestIsWhole
  <2>1. Closed(e)
    BY <1>1 DEF WholeInv
  <2>. QED  BY <1>1, <2>1 DEF WholeInv, DigestIsWhole
<1>. QED  BY <1>3, <1>4, <1>5 DEF WholeInv

LEMMA SummaryFrame ==
  ASSUME SummaryInv, EpisodesInv', [Next]_vars, TurnsStay, NoneCloses, WriterStays, WorkersStay,
         UNCHANGED <<digests, full>>
  PROVE  SummaryInv'
<1>1. ClosedStays /\ GrowthInv'
  BY TurnsStayCloses, GrowthKept DEF SummaryInv
<1>2. \A e \in Owners : episodes'[e].turns >= episodes[e].turns
  BY EpisodeValues DEF TurnsStay, SummaryInv
<1>3. WholeInv'
  BY <1>1, <1>2, WholeKept DEF NoneCloses
<1>. QED  BY <1>1, <1>3 DEF SummaryInv

LEMMA EpisodesAlone ==
  ASSUME SummaryInv, EpisodesInv', [Next]_vars, UNCHANGED <<episodes, digests, full>>,
         WriterStays, WorkersStay
  PROVE  SummaryInv'
<1>1. TurnsStay /\ NoneCloses
  BY DEF TurnsStay, NoneCloses, Closed
<1>. QED  BY <1>1, SummaryFrame

LEMMA ClosersSummary ==
  ASSUME SummaryInv, EpisodesInv', [Next]_vars, NEW c \in Closers,
         ListIdleEpisodes \/ NextIdle \/ EnqueueSummarize(c)
  PROVE  SummaryInv'
<1>1. UNCHANGED <<episodes, digests, full, worker>> /\ closer \in [Closers -> Closer]
  BY DEF ListIdleEpisodes, NextIdle, EnqueueSummarize, ClosersOnly, History,
         SummaryInv, EpisodesInv, TypeOK
<1>2. WorkersStay
  BY <1>1 DEF WorkersStay
<1>3. WriterStays
  <2>1. CASE ListIdleEpisodes \/ NextIdle
    BY <1>1, <2>1 DEF ListIdleEpisodes, NextIdle, WriterStays, Closers
  <2>2. CASE EnqueueSummarize(c)
    BY <1>1, <2>2 DEF EnqueueSummarize, At, Drop, WriterStays, Closers, CloserIdle
  <2>. QED  BY <2>1, <2>2
<1>. QED  BY <1>1, <1>2, <1>3, EpisodesAlone

LEMMA CloseSummary ==
  ASSUME SummaryInv, EpisodesInv', [Next]_vars, NEW c \in Closers, CloseEpisode(c)
  PROVE  SummaryInv'
<1>. DEFINE e == Cur(c)
<1>1. /\ e \in Owners /\ closer \in [Closers -> Closer] /\ episodes \in [Owners -> Episode]
      /\ full \in [Owners -> Nat] /\ closer[c].pc = "close"
      /\ EpisodesInv /\ UNCHANGED <<worker, digests>>
  BY DEF CloseEpisode, At, Cur, SummaryInv, EpisodesInv, TypeOK, ClosersHold, ClosersOnly
<1>2. WorkersStay
  BY <1>1 DEF WorkersStay
<1>3. CASE Happens("db_failed") /\ Drop(c) /\ UNCHANGED <<episodes, full>>
  <2>1. events'.faults > events.faults
    BY <1>1, <1>3, FaultsGrow DEF Happens
  <2>2. WriterStays
    BY <1>1, <1>3, <2>1 DEF Drop, CloserIdle, WriterStays, Closers
  <2>. QED  BY <1>1, <1>2, <1>3, <2>2, EpisodesAlone
<1>4. CASE /\ episodes' = [episodes EXCEPT ![e].status = "closed", ![e].summary = 0]
           /\ full' = [full EXCEPT ![e] = IF Open(e) THEN episodes[e].turns ELSE @]
           /\ Goto(c, "enqueue")
  <2>1. /\ episodes'[e].status = "closed"
        /\ \A f \in Owners : episodes'[f].turns = episodes[f].turns
        /\ \A f \in Owners : f # e => episodes'[f] = episodes[f] /\ full'[f] = full[f]
        /\ full'[e] = IF Open(e) THEN episodes[e].turns ELSE full[e]
    <3>. HIDE DEF e
    <3>. QED  BY <1>1, <1>4 DEF Episode
  <2>2. TurnsStay
    BY <2>1 DEF TurnsStay
  <2>3. WriterStays
    <3>1. CASE c = "writer"
      BY <1>1, <1>4, <2>1, <3>1 DEF Goto, WriterStays, Closer, Cur
    <3>2. CASE c # "writer"
      BY <1>1, <1>4, <3>2 DEF Goto, WriterStays, Closers
    <3>. QED  BY <3>1, <3>2
  <2>4. GrowthInv' /\ ClosedStays
    BY <1>1, <2>2, <2>3, GrowthKept, TurnsStayCloses DEF SummaryInv
  <2>5. ASSUME NEW f \in Owners
        PROVE  /\ episodes'[f].turns >= episodes[f].turns
               /\ Closed(f) \/ ~Closed(f)' => full'[f] = full[f]
               /\ Closed(f)' /\ ~Closed(f) => full'[f] <= episodes'[f].turns
    <3>1. episodes[f].turns \in Nat /\ episodes'[f].turns = episodes[f].turns
      BY <1>1, <2>1, EpisodeValues
    <3>2. CASE f # e
      BY <2>1, <3>1, <3>2 DEF Closed
    <3>3. CASE f = e
      <4>1. Closed(f) => ~Open(f)
        BY DEF Closed, Open
      <4>2. ~Closed(f) => full'[f] <= episodes[f].turns
        <5>1. ~Closed(f) => full[f] = 0
          BY <1>1 DEF SummaryInv, WholeInv
        <5>. QED  BY <1>1, <2>1, <3>1, <3>3, <5>1, EpisodeValues
      <4>3. Closed(f)'
        BY <2>1, <3>3 DEF Closed
      <4>. QED  BY <2>1, <3>1, <3>3, <4>1, <4>2, <4>3
    <3>. QED  BY <3>2, <3>3
  <2>6. WholeInv'
    BY <1>1, <1>2, <2>4, <2>5, WholeKept
  <2>. QED  BY <2>4, <2>6 DEF SummaryInv
<1>. QED  BY <1>3, <1>4 DEF CloseEpisode

\* A step that moves neither the episodes nor their goroutines.
LEMMA NobodyMoves ==
  ASSUME SummaryInv, EpisodesInv', [Next]_vars,
         UNCHANGED <<episodes, digests, full, closer, worker>>
  PROVE  SummaryInv'
BY EpisodesAlone DEF WriterStays, WorkersStay

\* A full episode that is open waits for the writer to close it; then the writer is not idle.
LEMMA TakeUpGrowth ==
  ASSUME SummaryInv, EpisodesInv', [Next]_vars, NEW e \in Owners, TakeUp(e), Open(e)',
         At("writer", "idle"), \A f \in Owners : episodes'[f].turns = episodes[f].turns,
         \A f \in Owners : f # e => episodes'[f] = episodes[f], ~Closed(e)
  PROVE  GrowthInv'
<1>1. /\ events.faults \in Nat /\ events'.faults \in Nat /\ events'.faults >= events.faults
      /\ MaxTurns \in Nat \ {0} /\ \A f \in Owners : episodes[f].turns \in Nat
  BY FaultsGrow, EpisodeValues, EpisodesAssumption DEF SummaryInv
<1>2. /\ closer'["writer"].pc = "append" /\ closer'["writer"].cur = e
      /\ episodes'[e].status # "absent"
      /\ closer'["writer"].count = episodes[e].turns
  BY DEF TakeUp, CloserIdle, SummaryInv, EpisodesInv, TypeOK, Closers, Open
<1>3. \A f \in Owners : (f # e /\ ~Open(f)) \/ episodes[f].turns < MaxTurns + events'.faults
  <2>. SUFFICES ASSUME NEW f \in Owners, f = e \/ Open(f)
                PROVE  episodes[f].turns < MaxTurns + events'.faults
    OBVIOUS
  <2>1. CASE Open(f)
    BY <1>1, <2>1 DEF SummaryInv, GrowthInv, ToBeClosed, At
  <2>2. CASE ~Open(f)
    <3>1. episodes[f].status = "absent"
      BY <2>2, EpisodeValues DEF Open, SummaryInv
    <3>. QED  BY <1>1, <3>1 DEF SummaryInv, GrowthInv
  <2>. QED  BY <2>1, <2>2
<1>4. ASSUME NEW f \in Owners
      PROVE  /\ episodes'[f].status = "absent" => episodes'[f].turns = 0
             /\ episodes'[f].turns <= MaxTurns + events'.faults
             /\ Open(f)' => episodes'[f].turns < MaxTurns + events'.faults
  <2>1. episodes'[f].status = "absent" => f # e
    BY DEF Open
  <2>2. episodes'[f].status = "absent" => episodes'[f].turns = 0
    BY <2>1 DEF SummaryInv, GrowthInv
  <2>3. episodes'[f].turns <= MaxTurns + events'.faults
    BY <1>1 DEF SummaryInv, GrowthInv
  <2>4. Open(f)' => episodes'[f].turns < MaxTurns + events'.faults
    BY <1>3 DEF Open
  <2>. QED  BY <2>2, <2>3, <2>4
<1>. QED  BY <1>2, <1>3, <1>4 DEF GrowthInv, Cur

LEMMA OpenSummary ==
  ASSUME SummaryInv, EpisodesInv', [Next]_vars, OpenEpisode
  PROVE  SummaryInv'
<1>1. /\ UNCHANGED <<digests, full, worker>> /\ At("writer", "idle")
      /\ EpisodesInv /\ GrowthInv /\ WholeInv
  BY DEF OpenEpisode, ClosersOnly, History, SummaryInv
<1>2. WorkersStay
  BY <1>1 DEF WorkersStay
<1>3. CASE OpenOnes # {} /\ TakeUp(LatestOpen) /\ UNCHANGED episodes
  <2>1. LatestOpen \in Owners /\ Open(LatestOpen)
    BY <1>3, LatestOpenIs
  <2>2. PICK e \in Owners : e = LatestOpen
    BY <2>1
  <2>3. TakeUp(e) /\ Open(e) /\ Open(e)' /\ ~Closed(e)
    BY <1>3, <2>1, <2>2 DEF Open, Closed
  <2>4. GrowthInv'
    BY <1>1, <1>3, <2>3, TakeUpGrowth
  <2>5. ClosedStays /\ \A f \in Owners : /\ episodes'[f].turns >= episodes[f].turns
                                         /\ Closed(f)' <=> Closed(f)
    BY <1>1, <1>3, EpisodeValues DEF ClosedStays, Closed
  <2>6. WholeInv'
    BY <1>1, <1>2, <2>5, WholeKept
  <2>. QED  BY <2>4, <2>6 DEF SummaryInv
<1>4. CASE /\ OpenOnes = {} /\ AbsentOnes # {} /\ TakeUp(NextNew)
           /\ episodes' = [episodes EXCEPT ![NextNew].status = "open"]
  <2>1. NextNew \in Owners /\ episodes[NextNew].status = "absent"
    BY <1>4, NextNewIs
  <2>2. PICK e \in Owners : e = NextNew
    BY <2>1
  <2>3. /\ \A f \in Owners : f # e => episodes'[f] = episodes[f]
        /\ episodes'[e].status = "open" /\ episodes'[e].turns = episodes[e].turns
    BY <1>1, <1>4, <2>2 DEF EpisodesInv, TypeOK, Episode
  <2>4. TakeUp(e) /\ Open(e)' /\ ~Closed(e) /\ ~Closed(e)'
    BY <1>4, <2>1, <2>2, <2>3 DEF Open, Closed
  <2>5. GrowthInv'
    BY <1>1, <2>3, <2>4, TakeUpGrowth
  <2>6. ClosedStays /\ \A f \in Owners : /\ episodes'[f].turns >= episodes[f].turns
                                         /\ Closed(f)' <=> Closed(f)
    BY <1>1, <2>3, <2>4, EpisodeValues DEF ClosedStays, Closed
  <2>7. WholeInv'
    BY <1>1, <1>2, <2>6, WholeKept
  <2>. QED  BY <2>5, <2>7 DEF SummaryInv
<1>5. CASE UNCHANGED <<episodes, closer>>
  BY <1>1, <1>5, NobodyMoves
<1>. QED  BY <1>3, <1>4, <1>5 DEF OpenEpisode

LEMMA AppendSummary ==
  ASSUME SummaryInv, EpisodesInv', [Next]_vars, AppendTurn
  PROVE  SummaryInv'
<1>1. PICK e \in Owners : e = Cur("writer")
  BY DEF AppendTurn, At, Cur, SummaryInv, EpisodesInv, ClosersHold, Closers
<1>2. /\ UNCHANGED <<digests, full, worker>> /\ At("writer", "append")
      /\ EpisodesInv /\ GrowthInv /\ WholeInv
      /\ episodes \in [Owners -> Episode] /\ closer \in [Closers -> Closer]
  BY DEF AppendTurn, ClosersOnly, History, SummaryInv, EpisodesInv, TypeOK
<1>3. WorkersStay
  BY <1>2 DEF WorkersStay
<1>4. CASE Happens("db_failed") /\ Drop("writer") /\ UNCHANGED episodes
  <2>1. WriterStays
    BY <1>2, <1>4 DEF Drop, CloserIdle, WriterStays, Closers, At
  <2>. QED  BY <1>2, <1>3, <1>4, <2>1, EpisodesAlone
<1>5. CASE /\ episodes' = [episodes EXCEPT ![e].turns = @ + 1, ![e].idle = FALSE]
           /\ IF IsFull(closer["writer"].count) THEN Goto("writer", "close") ELSE Drop("writer")
           /\ UNCHANGED events
  <2>1. /\ episodes'[e].turns = episodes[e].turns + 1 /\ episodes'[e].status = episodes[e].status
        /\ \A f \in Owners : f # e => episodes'[f] = episodes[f]
    BY <1>2, <1>5 DEF Episode
  <2>2. \A f \in Owners : episodes[f].turns \in Nat
    BY <1>2, EpisodeValues
  <2>3. /\ MaxTurns \in Nat /\ events.faults \in Nat /\ events' = events
        /\ closer["writer"].count = episodes[e].turns
        /\ episodes[e].turns < MaxTurns + events.faults
    BY <1>1, <1>2, <1>5, FaultsGrow, EpisodesAssumption DEF GrowthInv, At
  <2>4. /\ closer'["writer"].pc # "append"
        /\ ToBeClosed(e)' \/ episodes'[e].turns < MaxTurns + events'.faults
        /\ ~ToBeClosed(e)' => ~IsFull(closer["writer"].count)
    <3>1. CASE IsFull(closer["writer"].count) /\ Goto("writer", "close")
      BY <1>1, <1>2, <3>1 DEF Goto, Closer, Closers, ToBeClosed, Cur
    <3>2. CASE ~IsFull(closer["writer"].count) /\ Drop("writer")
      <4>1. closer'["writer"].pc = "idle"
        BY <1>2, <3>2 DEF Drop, CloserIdle, Closers
      <4>2. episodes'[e].turns < MaxTurns
        BY <2>1, <2>2, <2>3, <3>2 DEF IsFull
      <4>. QED  BY <2>1, <2>2, <2>3, <3>2, <4>1, <4>2
    <3>. QED  BY <1>5, <3>1, <3>2
  <2>5. ASSUME NEW f \in Owners
        PROVE  /\ episodes'[f].status = "absent" => episodes'[f].turns = 0
               /\ episodes'[f].turns <= MaxTurns + events'.faults
               /\ Open(f)' /\ ~ToBeClosed(f)' => episodes'[f].turns < MaxTurns + events'.faults
    <3>1. CASE f = e
      <4>1. episodes[e].status # "absent"
        BY <1>1, <1>2 DEF GrowthInv, At
      <4>. QED  BY <2>1, <2>2, <2>3, <2>4, <3>1, <4>1
    <3>2. CASE f # e
      <4>1. ~ToBeClosed(f)
        BY <1>2 DEF ToBeClosed, At
      <4>. QED  BY <1>2, <2>1, <2>3, <3>2, <4>1 DEF GrowthInv, Open
    <3>. QED  BY <3>1, <3>2
  <2>6. GrowthInv'
    BY <2>4, <2>5 DEF GrowthInv
  <2>7. ClosedStays /\ \A f \in Owners : /\ episodes'[f].turns >= episodes[f].turns
                                         /\ Closed(f)' <=> Closed(f)
    BY <2>1, <2>2 DEF ClosedStays, Closed
  <2>8. WholeInv'
    BY <1>2, <1>3, <2>7, WholeKept
  <2>. QED  BY <2>6, <2>8 DEF SummaryInv
<1>. QED  BY <1>1, <1>4, <1>5 DEF AppendTurn

\* A worker that moves alone, its episode as it was or marked summarized.
LEMMA WorkerSummary ==
  ASSUME SummaryInv, EpisodesInv', [Next]_vars, NEW w \in Workers, WorkersOnly, UNCHANGED digests,
         \A v \in Workers : v # w => worker'[v] = worker[v],
         \/ worker'[w].pc = "idle"
         \/ /\ worker'[w].cur \in Owners /\ Closed(worker'[w].cur)
            /\ worker'[w].pc \in {"distill", "ingest"} => Covers(worker'[w].turns, worker'[w].cur),
         UNCHANGED episodes \/ (worker[w].pc # "idle" /\ \E n \in Nat : Summarized(worker[w].cur, n))
  PROVE  SummaryInv'
<1>1. UNCHANGED <<full, closer>>
  BY DEF WorkersOnly
<1>2. WorkersStay /\ WriterStays
  BY <1>1 DEF WorkersStay, WriterStays
<1>3. CASE UNCHANGED episodes
  BY <1>1, <1>2, <1>3, EpisodesAlone
<1>4. CASE worker[w].pc # "idle" /\ \E n \in Nat : Summarized(worker[w].cur, n)
  <2>1. PICK e \in Owners : e = worker[w].cur
    BY <1>4 DEF SummaryInv, EpisodesInv, WorkersHold
  <2>2. Closed(e)
    BY <1>4, <2>1 DEF SummaryInv, WholeInv
  <2>3. /\ episodes'[e].status = "summarized" /\ episodes'[e].turns = episodes[e].turns
        /\ \A f \in Owners : f # e => episodes'[f] = episodes[f]
    <3>1. episodes \in [Owners -> Episode] /\ episodes[e] \in Episode
      BY <2>1 DEF SummaryInv, EpisodesInv, TypeOK
    <3>2. \E n : episodes' = [episodes EXCEPT ![e].status = "summarized", ![e].summary = n]
      BY <1>4, <2>1 DEF Summarized
    <3>. QED  BY <3>1, <3>2 DEF Episode
  <2>4. TurnsStay /\ NoneCloses
    BY <2>2, <2>3 DEF TurnsStay, NoneCloses, Closed
  <2>. QED  BY <1>1, <1>2, <2>4, SummaryFrame
<1>. QED  BY <1>3, <1>4

LEMMA WorkerHasClosed ==
  ASSUME SummaryInv, NEW w \in Workers, worker[w].pc # "idle"
  PROVE  /\ worker \in [Workers -> WorkerState] /\ worker[w].cur \in Owners /\ Closed(worker[w].cur)
         /\ worker[w].pc \in {"distill", "ingest"} => Covers(worker[w].turns, worker[w].cur)
BY DEF SummaryInv, EpisodesInv, TypeOK, WorkersHold, WholeInv

LEMMA ToKeeps ==
  ASSUME worker \in [Workers -> WorkerState], NEW w \in Workers, NEW pc, NEW r,
         To(w, pc) \/ (Settle(w, r) /\ pc = "settle")
  PROVE  /\ worker'[w].pc = pc /\ worker'[w].cur = worker[w].cur /\ worker'[w].turns = worker[w].turns
         /\ \A v \in Workers : v # w => worker'[v] = worker[v]
BY DEF To, Settle, WorkerState

LEMMA ClaimSummary ==
  ASSUME SummaryInv, EpisodesInv', [Next]_vars, NEW w \in Workers, NEW j \in Rows, Claim(w, j)
  PROVE  SummaryInv'
<1>1. worker \in [Workers -> WorkerState] /\ WorkersOnly /\ UNCHANGED <<episodes, digests>>
  BY DEF Claim, SummaryInv, EpisodesInv, TypeOK
<1>2. jobs[j].source \in Owners /\ Closed(jobs[j].source)
  BY DEF SummaryInv, EpisodesInv, TypeOK, QueueTypeOK, Job, QueuedIsClosed
<1>3. /\ worker'[w].pc = "read" /\ worker'[w].cur = jobs[j].source
      /\ \A v \in Workers : v # w => worker'[v] = worker[v]
  BY <1>1 DEF Claim
<1>. QED  BY <1>1, <1>2, <1>3, WorkerSummary

LEMMA EpisodeTurnsSummary ==
  ASSUME SummaryInv, EpisodesInv', [Next]_vars, NEW w \in Workers, EpisodeTurns(w)
  PROVE  SummaryInv'
<1>. DEFINE n == Read(episodes[worker[w].cur].turns)
<1>1. worker[w].pc # "idle" /\ WorkersOnly /\ UNCHANGED <<episodes, digests>>
  BY DEF EpisodeTurns, Works
<1>2. worker \in [Workers -> WorkerState] /\ worker[w].cur \in Owners /\ Closed(worker[w].cur)
  BY <1>1, WorkerHasClosed
<1>3. Covers(n, worker[w].cur)
  <2>1. full[worker[w].cur] <= episodes[worker[w].cur].turns
    BY <1>2 DEF SummaryInv, WholeInv
  <2>2. full[worker[w].cur] \in Nat /\ episodes[worker[w].cur].turns \in Nat /\ ReadLimit \in Nat
    BY <1>2, EpisodeValues, EpisodesAssumption DEF SummaryInv
  <2>. QED  BY <2>1, <2>2 DEF Covers, Read
<1>4. CASE Settle(w, "error")
  BY <1>1, <1>2, <1>4, ToKeeps, WorkerSummary
<1>5. CASE worker' = [worker EXCEPT ![w].pc = IF n < MinTurns THEN "short" ELSE "distill",
                                    ![w].turns = n]
  <2>. HIDE DEF n
  <2>1. /\ worker'[w].turns = n /\ worker'[w].cur = worker[w].cur
        /\ \A v \in Workers : v # w => worker'[v] = worker[v]
    BY <1>2, <1>5 DEF WorkerState
  <2>. QED  BY <1>1, <1>2, <1>3, <2>1, WorkerSummary
<1>. QED  BY <1>4, <1>5 DEF EpisodeTurns

LEMMA DistillSummary ==
  ASSUME SummaryInv, EpisodesInv', [Next]_vars, NEW w \in Workers, Distill(w)
  PROVE  SummaryInv'
<1>1. worker[w].pc = "distill" /\ WorkersOnly /\ UNCHANGED <<episodes, digests>>
  BY DEF Distill, Works
<1>2. /\ worker \in [Workers -> WorkerState] /\ worker[w].cur \in Owners /\ Closed(worker[w].cur)
      /\ Covers(worker[w].turns, worker[w].cur)
  BY <1>1, WorkerHasClosed
<1>3. PICK pc \in {"ingest", "empty", "settle"}, r \in {"error", "transient"} :
        To(w, pc) \/ (Settle(w, r) /\ pc = "settle")
  BY DEF Distill
<1>4. /\ worker'[w].turns = worker[w].turns /\ worker'[w].cur = worker[w].cur
      /\ \A v \in Workers : v # w => worker'[v] = worker[v]
  BY <1>2, <1>3, ToKeeps
<1>. QED  BY <1>1, <1>2, <1>4, WorkerSummary

\* The steps after which a worker holds no more than its episode.
LEMMA SettlesSummary ==
  ASSUME SummaryInv, EpisodesInv', [Next]_vars, NEW w \in Workers,
         CloseEmpty(w) \/ LinkSummary(w) \/ RememberFacts(w)
  PROVE  SummaryInv'
<1>1. worker[w].pc # "idle" /\ WorkersOnly /\ UNCHANGED digests
  BY DEF CloseEmpty, LinkSummary, RememberFacts, Works
<1>2. worker \in [Workers -> WorkerState] /\ worker[w].cur \in Owners /\ Closed(worker[w].cur)
  BY <1>1, WorkerHasClosed
<1>3. PICK pc \in {"settle", "remembering", "link"}, r \in {"ok", "error"} :
        To(w, pc) \/ (Settle(w, r) /\ pc = "settle")
  BY DEF CloseEmpty, LinkSummary, RememberFacts
<1>4. /\ worker'[w].pc = pc /\ worker'[w].cur = worker[w].cur
      /\ \A v \in Workers : v # w => worker'[v] = worker[v]
  BY <1>2, <1>3, ToKeeps
<1>5. UNCHANGED episodes \/ \E n \in Nat : Summarized(worker[w].cur, n)
  <2>1. Len(digests[worker[w].cur]) \in Nat
    BY <1>2, LenProperties DEF SummaryInv, EpisodesInv, TypeOK
  <2>. QED  BY <2>1 DEF CloseEmpty, LinkSummary, RememberFacts
<1>. QED  BY <1>1, <1>2, <1>4, <1>5, WorkerSummary

LEMMA FinishSummary ==
  ASSUME SummaryInv, EpisodesInv', [Next]_vars, NEW w \in Workers, FinishJob(w)
  PROVE  SummaryInv'
<1>1. WorkersOnly /\ UNCHANGED <<episodes, digests>> /\ worker' = [worker EXCEPT ![w] = Idle]
  BY DEF FinishJob
<1>2. worker'[w].pc = "idle" /\ \A v \in Workers : v # w => worker'[v] = worker[v]
  BY <1>1 DEF Idle, SummaryInv, EpisodesInv, TypeOK
<1>. QED  BY <1>1, <1>2, WorkerSummary

LEMMA IngestSummaryWhole ==
  ASSUME SummaryInv, EpisodesInv', [Next]_vars, NEW w \in Workers, IngestSummary(w)
  PROVE  SummaryInv'
<1>1. worker[w].pc = "ingest" /\ WorkersOnly /\ UNCHANGED episodes
  BY DEF IngestSummary, Works
<1>2. /\ worker \in [Workers -> WorkerState] /\ worker[w].cur \in Owners /\ Closed(worker[w].cur)
      /\ Covers(worker[w].turns, worker[w].cur) /\ WholeInv /\ EpisodesInv
  BY <1>1, WorkerHasClosed DEF SummaryInv
<1>3. /\ worker'[w].pc \in {"facts", "settle"} /\ worker'[w].cur = worker[w].cur
      /\ \A v \in Workers : v # w => worker'[v] = worker[v]
  BY <1>2, ToKeeps DEF IngestSummary
<1>4. CASE UNCHANGED digests
  BY <1>1, <1>2, <1>3, <1>4, WorkerSummary
<1>5. CASE digests' = [digests EXCEPT ![worker[w].cur] = Append(@, worker[w].turns)]
  <2>1. UNCHANGED <<full, closer>> /\ TurnsStay
    BY <1>1 DEF WorkersOnly, TurnsStay
  <2>2. GrowthInv'
    BY <1>2, <2>1, GrowthKept DEF SummaryInv, WriterStays
  <2>3. \A e \in Owners : Closed(e)' = Closed(e) /\ (e # worker[w].cur => digests'[e] = digests[e])
    BY <1>1, <1>2, <1>5 DEF Closed, EpisodesInv, TypeOK
  <2>4. \A e \in Owners : /\ Closed(e)' => full'[e] <= episodes'[e].turns
                          /\ ~Closed(e)' => digests'[e] = << >> /\ full'[e] = 0
    BY <1>1, <1>2, <2>1, <2>3 DEF WholeInv
  <2>5. \A v \in Workers :
          /\ worker'[v].pc # "idle" => Closed(worker[v].cur)'
          /\ worker'[v].pc \in {"distill", "ingest"} => Covers(worker[v].turns, worker[v].cur)'
    BY <1>1, <1>2, <1>3, <2>1 DEF WholeInv, Closed, Covers
  <2>6. ASSUME NEW e \in Owners, NEW i \in DOMAIN digests'[e]
        PROVE  digests'[e][i] >= full'[e] \/ digests'[e][i] = ReadLimit
    <3>1. CASE e # worker[w].cur
      BY <1>2, <2>1, <2>3, <2>6, <3>1 DEF WholeInv, DigestIsWhole
    <3>2. CASE e = worker[w].cur
      <4>1. digests[e] \in Seq(Nat) /\ worker[w].turns \in Nat
        BY <1>2 DEF EpisodesInv, TypeOK, WorkerState
      <4>2. digests'[e] = Append(digests[e], worker[w].turns)
        BY <1>2, <1>5, <3>2 DEF EpisodesInv, TypeOK
      <4>3. CASE i \in DOMAIN digests[e]
        <5>1. digests'[e][i] = digests[e][i]
          BY <4>1, <4>2, <4>3
        <5>. QED  BY <1>2, <2>1, <4>3, <5>1 DEF WholeInv, DigestIsWhole
      <4>4. CASE i \notin DOMAIN digests[e]
        <5>1. digests'[e][i] = worker[w].turns
          BY <2>6, <4>1, <4>2, <4>4
        <5>. QED  BY <1>2, <2>1, <3>2, <5>1 DEF Covers
      <4>. QED  BY <4>3, <4>4
    <3>. QED  BY <3>1, <3>2
  <2>7. WholeInv'
    BY <2>4, <2>5, <2>6 DEF WholeInv, DigestIsWhole
  <2>. QED  BY <2>2, <2>7 DEF SummaryInv
<1>. QED  BY <1>4, <1>5 DEF IngestSummary

LEMMA QuietSummary ==
  ASSUME SummaryInv, EpisodesInv', [Next]_vars, NEW e \in Owners, GoesQuiet(e)
  PROVE  SummaryInv'
<1>1. UNCHANGED <<digests, full, closer, worker>>
  BY DEF GoesQuiet, History
<1>2. \A f \in Owners : /\ episodes'[f].turns = episodes[f].turns
                        /\ episodes'[f].status = episodes[f].status
  <2>1. episodes \in [Owners -> Episode] /\ episodes' = [episodes EXCEPT ![e].idle = TRUE]
    BY DEF GoesQuiet, SummaryInv, EpisodesInv, TypeOK
  <2>. QED  BY <2>1 DEF Episode
<1>3. TurnsStay /\ NoneCloses /\ WriterStays /\ WorkersStay
  BY <1>1, <1>2 DEF TurnsStay, NoneCloses, Closed, WriterStays, WorkersStay
<1>. QED  BY <1>1, <1>3, SummaryFrame

LEMMA CrashSummary ==
  ASSUME SummaryInv, EpisodesInv', [Next]_vars, Crash
  PROVE  SummaryInv'
<1>1. UNCHANGED <<episodes, digests, full>> /\ \A w \in Workers : worker'[w].pc = "idle"
  BY DEF Crash, History, Idle
<1>2. closer'["writer"].pc = "idle"
  BY DEF Crash, CloserIdle, Closers
<1>3. events'.faults > events.faults
  BY FaultsGrow DEF Crash, Happens, SummaryInv
<1>4. WriterStays /\ WorkersStay
  BY <1>1, <1>2, <1>3 DEF WriterStays, WorkersStay
<1>. QED  BY <1>1, <1>4, EpisodesAlone

LEMMA SummaryStep ==
  ASSUME SummaryInv, EpisodesInv', [Next]_vars
  PROVE  SummaryInv'
<1>1. CASE WriterStep \/ ConsolidatorStep
  BY <1>1, OpenSummary, AppendSummary, ClosersSummary, CloseSummary
     DEF WriterStep, ConsolidatorStep, Closing, Closers
<1>2. ASSUME NEW w \in Workers, WorkerStep(w) PROVE SummaryInv'
  BY <1>2, EpisodeTurnsSummary, DistillSummary, SettlesSummary, IngestSummaryWhole, FinishSummary
     DEF WorkerStep
<1>3. ASSUME NEW w \in Workers, NEW j \in Rows, Claim(w, j) PROVE SummaryInv'
  BY <1>3, ClaimSummary
<1>4. ASSUME NEW r \in Rememberers, FactStep(r) \/ HandlerRemembers(r) PROVE SummaryInv'
  BY <1>4, NobodyMoves DEF FactStep, HandlerRemembers, History
<1>5. ASSUME NEW e \in Owners, GoesQuiet(e) PROVE SummaryInv'
  BY <1>5, QuietSummary
<1>6. ASSUME NEW j \in Rows, RetryDue(j) PROVE SummaryInv'
  BY <1>6, NobodyMoves DEF RetryDue, History
<1>7. CASE RecordTurn \/ CliRetry \/ BrainChanges \/ Restart
  BY <1>7, NobodyMoves DEF RecordTurn, CliRetry, BrainChanges, Restart, History
<1>8. CASE Crash
  BY <1>8, CrashSummary
<1>9. CASE UNCHANGED vars
  BY <1>9, NobodyMoves DEF vars
<1>. QED  BY <1>1, <1>2, <1>3, <1>4, <1>5, <1>6, <1>7, <1>8, <1>9 DEF Next

LEMMA SummaryInitially == Init => SummaryInv
<1>. SUFFICES ASSUME Init PROVE SummaryInv
  OBVIOUS
<1>1. GrowthInv
  BY EpisodesAssumption, FactsAssumption
     DEF Init, FactsInit, GrowthInv, ToBeClosed, Cur, Open, CloserIdle, Closers
<1>2. WholeInv
  BY DEF Init, WholeInv, DigestIsWhole, Closed, Idle
<1>. QED  BY <1>1, <1>2, EpisodesInitially DEF SummaryInv

-----------------------------------------------------------------------------
(* Closed episodes are not forgotten but by faults.                        *)

\* A worker's job is its own, running and about its episode until it settles it.
JobsHeld ==
  \A w \in Workers : worker[w].pc # "idle" =>
    /\ worker[w].job \in Rows /\ jobs[worker[w].job].status = "running"
    /\ jobs[worker[w].job].source = worker[w].cur
    /\ worker[w].result = "ok" => worker[w].pc = "settle" /\ worker[w].cur \in distilled
    /\ \A v \in Workers \ {w} : worker[v].pc # "idle" => worker[v].job # worker[w].job
DownIsIdle == agent = "down" => \A w \in Workers : worker[w].pc = "idle"
JobsInv == JobsHeld /\ DownIsIdle
QueuedInv == SummaryInv /\ JobsInv

\* What the statements of the queue do to its rows.
RowsStay == \A j \in Rows : j \in Rows' /\ jobs'[j].source = jobs[j].source
HeldStay == \A j \in Rows : jobs[j].status = "running" => j \in Rows' /\ jobs'[j] = jobs[j]

LEMMA EnqueueStays ==
  ASSUME QueueTypeOK, NEW o, NEW k, EnqueueJob(o, k)
  PROVE  RowsStay /\ HeldStay /\ \E j \in Rows' : jobs'[j].source = o
<1>1. CASE HasActive(o, k) /\ UNCHANGED jobs
  BY <1>1 DEF HasActive, RowsStay, HeldStay, Rows
<1>2. CASE Rows # JobIds /\ ~HasActive(o, k)
  <2>. DEFINE new == [source |-> o, kind |-> k, status |-> "pending", due |-> TRUE,
                      attempts |-> 0, permanent |-> 0]
  <2>1. NewId \notin Rows
    BY <1>2 DEF NewId, QueueTypeOK
  <2>2. jobs' = [j \in Rows \cup {NewId} |-> IF j = NewId THEN new ELSE jobs[j]]
    BY <1>2 DEF EnqueueJob
  <2>3. new.source = o
    OBVIOUS
  <2>. HIDE DEF new
  <2>4. Rows' = Rows \cup {NewId} /\ jobs'[NewId] = new /\ \A j \in Rows : jobs'[j] = jobs[j]
    BY <2>1, <2>2 DEF Rows
  <2>. QED  BY <2>3, <2>4 DEF RowsStay, HeldStay
<1>. QED  BY <1>1, <1>2 DEF EnqueueJob

LEMMA RowStays ==
  ASSUME QueueTypeOK, NEW j \in Rows, NEW row, jobs' = [jobs EXCEPT ![j] = row],
         row.source = jobs[j].source
  PROVE  RowsStay /\ jobs'[j] = row /\ \A i \in Rows : i # j => i \in Rows' /\ jobs'[i] = jobs[i]
BY DEF RowsStay, Rows

LEMMA RetryStays ==
  ASSUME QueueTypeOK, RetryFailedJobs
  PROVE  RowsStay /\ HeldStay
<1>1. CASE UNCHANGED jobs
  BY <1>1 DEF RowsStay, HeldStay, Rows
<1>2. CASE jobs' = Unparked
  <2>1. Rows' = Rows
    BY <1>2 DEF Unparked, Rows
  <2>2. \A j \in Rows : jobs[j].status # "failed" => jobs'[j] = jobs[j]
    BY <1>2 DEF Unparked
  <2>3. ASSUME NEW j \in Rows PROVE jobs'[j].source = jobs[j].source
    <3>1. CASE jobs[j].status = "failed"
      <4>1. jobs'[j] = [jobs[j] EXCEPT !.status = "pending", !.due = TRUE, !.attempts = 0,
                                       !.permanent = 0]
        BY <1>2, <3>1 DEF Unparked
      <4>. QED  BY <4>1 DEF QueueTypeOK, Job
    <3>2. CASE jobs[j].status # "failed"
      BY <2>2, <3>2
    <3>. QED  BY <3>1, <3>2
  <2>. QED  BY <2>1, <2>2, <2>3 DEF RowsStay, HeldStay
<1>. QED  BY <1>1, <1>2 DEF RetryFailedJobs

\* A worker that moves alone keeps its job; one that stands still does too.
LEMMA JobsAlone ==
  ASSUME JobsInv, UNCHANGED worker, HeldStay, distilled \subseteq distilled',
         agent' = "down" => agent = "down"
  PROVE  JobsInv'
<1>1. JobsHeld'
  BY DEF JobsInv, JobsHeld, HeldStay
<1>. QED  BY <1>1 DEF JobsInv, DownIsIdle

LEMMA JobsMove ==
  ASSUME JobsInv, UNCHANGED <<jobs, agent>>, agent = "up", distilled \subseteq distilled',
         NEW w \in Workers, worker[w].pc # "idle",
         \A v \in Workers : v # w => worker'[v] = worker[v],
         worker'[w].job = worker[w].job, worker'[w].cur = worker[w].cur,
         worker'[w].result = "ok" => worker'[w].pc = "settle" /\ worker'[w].cur \in distilled'
  PROVE  JobsInv'
<1>1. JobsHeld'
  BY DEF JobsInv, JobsHeld, Rows
<1>. QED  BY <1>1 DEF JobsInv, DownIsIdle

\* What is closed is queued or being queued, what is queued stays so until it is
\* distilled: but for S.
LEMMA ForgottenWithin ==
  ASSUME NEW S,
         \A e \in Owners : Closed(e)' => Closed(e) \/ BeingQueued(e)',
         distilled \subseteq distilled',
         \A e \in Owners : BeingQueued(e) =>
           BeingQueued(e)' \/ e \in S \/ \E j \in Rows' : jobs'[j].source = e,
         \A j \in Rows : (j \in Rows' /\ jobs'[j].source = jobs[j].source) \/ jobs[j].source \in distilled'
  PROVE  Forgotten' \subseteq Forgotten \cup S
<1>. SUFFICES ASSUME NEW e \in Forgotten', e \notin S PROVE e \in Forgotten
  OBVIOUS
<1>1. e \in Owners /\ e \notin distilled /\ Closed(e) /\ ~BeingQueued(e)
  BY DEF Forgotten
<1>2. \A j \in Rows : jobs[j].source # e
  BY DEF Forgotten
<1>. QED  BY <1>1, <1>2 DEF Forgotten

\* Nothing moves that a closed episode depends on.
LEMMA StandStill ==
  ASSUME JobsInv, UNCHANGED <<closer, worker, distilled>>, RowsStay, HeldStay,
         \A e \in Owners : Closed(e)' => Closed(e), agent' = "down" => agent = "down"
  PROVE  JobsInv' /\ Forgotten' \subseteq Forgotten
<1>1. JobsInv'
  BY JobsAlone
<1>2. Forgotten' \subseteq Forgotten \cup {}
  BY ForgottenWithin DEF RowsStay, BeingQueued
<1>. QED  BY <1>1, <1>2

LEMMA AloneForgets ==
  ASSUME QueuedInv, \/ RecordTurn \/ CliRetry \/ BrainChanges \/ UNCHANGED vars
                    \/ \E j \in Rows : RetryDue(j)
                    \/ \E r \in Rememberers : FactStep(r) \/ HandlerRemembers(r)
                    \/ \E e \in Owners : GoesQuiet(e)
  PROVE  JobsInv' /\ Forgotten' \subseteq Forgotten
<1>1. QueueTypeOK /\ episodes \in [Owners -> Episode] /\ JobsInv
  BY DEF QueuedInv, SummaryInv, EpisodesInv, TypeOK
<1>2. UNCHANGED <<closer, worker, distilled>> /\ (agent' = "down" => agent = "down")
  BY DEF RecordTurn, CliRetry, BrainChanges, RetryDue, FactStep, HandlerRemembers, GoesQuiet, vars,
         History
<1>3. \A e \in Owners : Closed(e)' => Closed(e)
  <2>1. CASE UNCHANGED episodes
    BY <2>1 DEF Closed
  <2>2. CASE \E e \in Owners : GoesQuiet(e)
    BY <1>1, <2>2 DEF GoesQuiet, Closed, Episode
  <2>. QED  BY <2>1, <2>2 DEF RecordTurn, CliRetry, BrainChanges, RetryDue, FactStep,
                             HandlerRemembers, vars
<1>4. RowsStay /\ HeldStay
  <2>1. CASE UNCHANGED jobs
    BY <2>1 DEF RowsStay, HeldStay, Rows
  <2>2. CASE CliRetry
    BY <1>1, <2>2, RetryStays DEF CliRetry
  <2>3. ASSUME NEW j \in Rows, RetryDue(j) PROVE RowsStay /\ HeldStay
    <3>. DEFINE row == [jobs[j] EXCEPT !.due = TRUE]
    <3>1. /\ jobs[j].status = "pending" /\ jobs' = [jobs EXCEPT ![j] = row]
          /\ row.source = jobs[j].source
      BY <1>1, <2>3 DEF RetryDue, RetryTimeReached, QueueTypeOK, Job
    <3>. HIDE DEF row
    <3>. QED  BY <1>1, <3>1, RowStays DEF HeldStay
  <2>. QED  BY <2>1, <2>2, <2>3 DEF RecordTurn, BrainChanges, FactStep, HandlerRemembers, GoesQuiet,
                                   vars
<1>. QED  BY <1>1, <1>2, <1>3, <1>4, StandStill

\* A closer moves that is not queueing.
LEMMA CloserForgets ==
  ASSUME QueuedInv, NEW c \in Closers, closer[c].pc # "enqueue",
         \A d \in Closers : d # c => closer'[d] = closer[d],
         UNCHANGED <<jobs, worker, distilled, agent>>,
         \A e \in Owners : Closed(e)' => Closed(e) \/ BeingQueued(e)'
  PROVE  JobsInv' /\ Forgotten' \subseteq Forgotten
<1>1. RowsStay /\ HeldStay
  BY DEF RowsStay, HeldStay, Rows
<1>2. JobsInv'
  BY <1>1, JobsAlone DEF QueuedInv
<1>3. Forgotten' \subseteq Forgotten \cup {}
  BY <1>1, ForgottenWithin DEF RowsStay, BeingQueued
<1>. QED  BY <1>2, <1>3

LEMMA ClosersForget ==
  ASSUME QueuedInv, OpenEpisode \/ AppendTurn \/ ListIdleEpisodes \/ NextIdle
  PROVE  JobsInv' /\ Forgotten' \subseteq Forgotten
<1>1. /\ closer \in [Closers -> Closer] /\ episodes \in [Owners -> Episode]
      /\ UNCHANGED <<jobs, worker, distilled, agent>>
  BY DEF QueuedInv, SummaryInv, EpisodesInv, TypeOK, OpenEpisode, AppendTurn, ListIdleEpisodes,
         NextIdle, ClosersOnly, History
<1>2. \E c \in Closers : closer[c].pc # "enqueue" /\ \A d \in Closers : d # c => closer'[d] = closer[d]
  <2>1. CASE OpenEpisode \/ AppendTurn
    <3>1. /\ "writer" \in Closers /\ closer["writer"].pc # "enqueue"
          /\ \A d \in Closers : d # "writer" => closer'[d] = closer[d]
      BY <1>1, <2>1 DEF OpenEpisode, AppendTurn, At, TakeUp, Goto, Drop, Closers
    <3>. QED  BY <3>1
  <2>2. CASE ListIdleEpisodes \/ NextIdle
    <3>1. /\ "consolidator" \in Closers /\ closer["consolidator"].pc # "enqueue"
          /\ \A d \in Closers : d # "consolidator" => closer'[d] = closer[d]
      BY <1>1, <2>2 DEF ListIdleEpisodes, NextIdle, At, Closers
    <3>. QED  BY <3>1
  <2>. QED  BY <2>1, <2>2
<1>3. \A e \in Owners : Closed(e)' => Closed(e)
  <2>1. CASE UNCHANGED episodes
    BY <2>1 DEF Closed
  <2>2. CASE AbsentOnes # {} /\ episodes' = [episodes EXCEPT ![NextNew].status = "open"]
    BY <1>1, <2>2 DEF Closed, Episode
  <2>3. CASE episodes' = [episodes EXCEPT ![Cur("writer")].turns = @ + 1, ![Cur("writer")].idle = FALSE]
    <3>1. \A e \in Owners : episodes'[e].status = episodes[e].status
      BY <1>1, <2>3 DEF Episode
    <3>. QED  BY <3>1 DEF Closed
  <2>. QED  BY <2>1, <2>2, <2>3 DEF OpenEpisode, AppendTurn, ListIdleEpisodes, NextIdle
<1>. QED  BY <1>1, <1>2, <1>3, CloserForgets

LEMMA CloseForgets ==
  ASSUME QueuedInv, NEW c \in Closers, CloseEpisode(c)
  PROVE  JobsInv' /\ Forgotten' \subseteq Forgotten
<1>1. /\ closer \in [Closers -> Closer] /\ episodes \in [Owners -> Episode]
      /\ UNCHANGED <<jobs, worker, distilled, agent>> /\ closer[c].pc # "enqueue"
      /\ \A d \in Closers : d # c => closer'[d] = closer[d]
  BY DEF QueuedInv, SummaryInv, EpisodesInv, TypeOK, CloseEpisode, ClosersOnly, At, Goto, Drop
<1>2. ASSUME NEW e \in Owners, Closed(e)' PROVE Closed(e) \/ BeingQueued(e)'
  <2>1. CASE UNCHANGED episodes
    BY <1>2, <2>1 DEF Closed
  <2>2. CASE episodes' = [episodes EXCEPT ![Cur(c)].status = "closed", ![Cur(c)].summary = 0]
               /\ Goto(c, "enqueue")
    <3>1. CASE e # Cur(c)
      BY <1>1, <1>2, <2>2, <3>1 DEF Closed
    <3>2. CASE e = Cur(c)
      BY <1>1, <2>2, <3>2 DEF BeingQueued, Goto, Cur, Closer
    <3>. QED  BY <3>1, <3>2
  <2>. QED  BY <2>1, <2>2 DEF CloseEpisode
<1>. QED  BY <1>1, <1>2, CloserForgets

LEMMA EnqueueForgets ==
  ASSUME QueuedInv, NEW c \in Closers, EnqueueSummarize(c)
  PROVE  /\ JobsInv'
         /\ \/ Forgotten' \subseteq Forgotten
            \/ Forgotten' \subseteq Forgotten \cup {Cur(c)} /\ Happens("db_failed")
<1>1. /\ closer \in [Closers -> Closer] /\ QueueTypeOK /\ JobsInv
      /\ UNCHANGED <<worker, distilled, agent, episodes>>
      /\ \A d \in Closers : d # c => closer'[d] = closer[d]
  BY DEF QueuedInv, SummaryInv, EpisodesInv, TypeOK, EnqueueSummarize, ClosersOnly, History, Drop
<1>2. \A e \in Owners : BeingQueued(e) => BeingQueued(e)' \/ e = Cur(c)
  BY <1>1 DEF BeingQueued, Cur
<1>3. \A e \in Owners : Closed(e)' => Closed(e)
  BY <1>1 DEF Closed
<1>4. CASE EnqueueJob(Cur(c), "summarize")
  <2>1. RowsStay /\ HeldStay /\ \E j \in Rows' : jobs'[j].source = Cur(c)
    BY <1>1, <1>4, EnqueueStays
  <2>2. Forgotten' \subseteq Forgotten \cup {}
    BY <1>1, <1>2, <1>3, <2>1, ForgottenWithin DEF RowsStay
  <2>. QED  BY <1>1, <2>1, <2>2, JobsAlone
<1>5. CASE Happens("db_failed") /\ UNCHANGED jobs
  <2>1. RowsStay /\ HeldStay
    BY <1>5 DEF RowsStay, HeldStay, Rows
  <2>2. Forgotten' \subseteq Forgotten \cup {Cur(c)}
    BY <1>1, <1>2, <1>3, <2>1, ForgottenWithin DEF RowsStay
  <2>. QED  BY <1>1, <1>5, <2>1, <2>2, JobsAlone
<1>. QED  BY <1>4, <1>5 DEF EnqueueSummarize

\* What a worker does between claiming and settling.
LEMMA WorkerForgets ==
  ASSUME QueuedInv, NEW w \in Workers,
         \/ EpisodeTurns(w) \/ Distill(w) \/ CloseEmpty(w) \/ IngestSummary(w) \/ RememberFacts(w)
         \/ LinkSummary(w)
  PROVE  JobsInv' /\ Forgotten' \subseteq Forgotten
<1>1. /\ worker \in [Workers -> WorkerState] /\ episodes \in [Owners -> Episode] /\ JobsInv
      /\ UNCHANGED <<jobs, agent, closer>> /\ agent = "up" /\ worker[w].pc \notin {"idle", "settle"}
  BY DEF QueuedInv, SummaryInv, EpisodesInv, TypeOK, EpisodeTurns, Distill, CloseEmpty, IngestSummary,
         RememberFacts, LinkSummary, WorkersOnly, Works
<1>2. worker[w].cur \in Owners /\ Closed(worker[w].cur) /\ worker[w].result # "ok"
  BY <1>1 DEF QueuedInv, SummaryInv, EpisodesInv, WorkersHold, WholeInv, JobsInv, JobsHeld
<1>3. /\ worker'[w].job = worker[w].job /\ worker'[w].cur = worker[w].cur
      /\ \A v \in Workers : v # w => worker'[v] = worker[v]
  BY <1>1 DEF EpisodeTurns, Distill, CloseEmpty, IngestSummary, RememberFacts, LinkSummary, To, Settle,
              WorkerState
<1>4. distilled \subseteq distilled'
  BY DEF EpisodeTurns, Distill, CloseEmpty, IngestSummary, RememberFacts, LinkSummary
<1>5. worker'[w].result = "ok" => worker'[w].pc = "settle" /\ worker'[w].cur \in distilled'
  <2>1. CASE CloseEmpty(w) \/ LinkSummary(w)
    BY <1>1, <1>3, <2>1 DEF CloseEmpty, LinkSummary, Settle, WorkerState
  <2>2. CASE EpisodeTurns(w) \/ Distill(w) \/ IngestSummary(w) \/ RememberFacts(w)
    <3>1. \/ \E r \in {"error", "transient"} : Settle(w, r)
          \/ worker'[w].result = worker[w].result
      <4>1. CASE EpisodeTurns(w)
        BY <1>1, <4>1 DEF EpisodeTurns, WorkerState
      <4>2. CASE Distill(w)
        BY <1>1, <4>2 DEF Distill, To, WorkerState
      <4>3. CASE IngestSummary(w)
        BY <1>1, <4>3 DEF IngestSummary, To, WorkerState
      <4>4. CASE RememberFacts(w)
        BY <1>1, <4>4 DEF RememberFacts, To, WorkerState
      <4>. QED  BY <2>2, <4>1, <4>2, <4>3, <4>4
    <3>. QED  BY <1>1, <1>2, <3>1 DEF Settle, WorkerState
  <2>. QED  BY <2>1, <2>2
<1>6. JobsInv'
  BY <1>1, <1>3, <1>4, <1>5, JobsMove
<1>7. \A e \in Owners : Closed(e)' => Closed(e)
  <2>1. CASE UNCHANGED episodes
    BY <2>1 DEF Closed
  <2>2. ASSUME NEW n, Summarized(worker[w].cur, n), NEW e \in Owners, Closed(e)' PROVE Closed(e)
    BY <1>1, <1>2, <2>2 DEF Summarized, Closed
  <2>. QED  BY <2>1, <2>2 DEF EpisodeTurns, Distill, CloseEmpty, IngestSummary, RememberFacts, LinkSummary
<1>8. Forgotten' \subseteq Forgotten \cup {}
  BY <1>1, <1>4, <1>7, ForgottenWithin DEF BeingQueued, Rows
<1>. QED  BY <1>6, <1>8

\* A pending row is nobody's.
LEMMA ClaimForgets ==
  ASSUME QueuedInv, NEW w \in Workers, NEW j \in Rows, Claim(w, j)
  PROVE  JobsInv' /\ Forgotten' \subseteq Forgotten
<1>1. /\ worker \in [Workers -> WorkerState] /\ QueueTypeOK /\ JobsInv /\ agent = "up"
      /\ UNCHANGED <<closer, episodes, agent, distilled>> /\ jobs[j].status = "pending"
  BY DEF QueuedInv, SummaryInv, EpisodesInv, TypeOK, Claim, WorkersOnly, Works, ClaimJob, Claimable
<1>. DEFINE row == [jobs[j] EXCEPT !.status = "running"]
<1>2. jobs' = [jobs EXCEPT ![j] = row] /\ row.source = jobs[j].source /\ row.status = "running"
  BY <1>1 DEF Claim, ClaimJob, QueueTypeOK, Job
<1>. HIDE DEF row
<1>3. RowsStay /\ jobs'[j] = row /\ \A i \in Rows : i # j => i \in Rows' /\ jobs'[i] = jobs[i]
  BY <1>1, <1>2, RowStays
<1>4. j \in Rows'
  BY <1>3 DEF RowsStay
<1>5. /\ worker'[w].job = j /\ worker'[w].cur = jobs[j].source /\ worker'[w].result = "none"
      /\ \A v \in Workers : v # w => worker'[v] = worker[v]
  BY <1>1 DEF Claim
<1>6. \A v \in Workers : worker[v].pc # "idle" => worker[v].job # j
  BY <1>1 DEF JobsInv, JobsHeld
<1>7. JobsHeld'
  BY <1>1, <1>2, <1>3, <1>4, <1>5, <1>6 DEF JobsInv, JobsHeld
<1>8. Forgotten' \subseteq Forgotten \cup {}
  BY <1>1, <1>3, ForgottenWithin DEF BeingQueued, RowsStay, Closed
<1>. QED  BY <1>1, <1>7, <1>8 DEF JobsInv, DownIsIdle

\* The only row that goes is one whose episode has been distilled.
LEMMA FinishForgets ==
  ASSUME QueuedInv, NEW w \in Workers, FinishJob(w)
  PROVE  JobsInv' /\ Forgotten' \subseteq Forgotten
<1>1. /\ worker \in [Workers -> WorkerState] /\ QueueTypeOK /\ JobsInv /\ agent = "up"
      /\ UNCHANGED <<closer, episodes, agent, distilled>> /\ worker[w].pc = "settle"
      /\ worker'[w].pc = "idle" /\ \A v \in Workers : v # w => worker'[v] = worker[v]
  BY DEF QueuedInv, SummaryInv, EpisodesInv, TypeOK, FinishJob, WorkersOnly, Works, Idle
<1>2. PICK j \in Rows : j = worker[w].job
  BY <1>1 DEF JobsInv, JobsHeld
<1>3. /\ jobs[j].source = worker[w].cur
      /\ worker[w].result = "ok" => jobs[j].source \in distilled
      /\ \A v \in Workers : v # w /\ worker[v].pc # "idle" => worker[v].job # j
  BY <1>1, <1>2 DEF JobsInv, JobsHeld
<1>4. /\ \A i \in Rows : i # j => i \in Rows' /\ jobs'[i] = jobs[i]
      /\ (j \in Rows' /\ jobs'[j].source = jobs[j].source) \/ jobs[j].source \in distilled
  <2>1. CASE UNCHANGED jobs
    BY <2>1 DEF Rows
  <2>2. CASE worker[w].result = "ok" /\ CompleteJob(j)
    BY <1>3, <2>2 DEF CompleteJob, Rows
  <2>3. ASSUME NEW hard \in BOOLEAN, FailJob(j, hard) \/ RescheduleJob(j, hard)
        PROVE  RowsStay /\ \A i \in Rows : i # j => i \in Rows' /\ jobs'[i] = jobs[i]
    <3>. DEFINE failed == [jobs[j] EXCEPT !.status = "failed",
                             !.permanent = IF hard THEN OneMore(@) ELSE @]
                again  == [jobs[j] EXCEPT !.status = "pending", !.due = FALSE,
                             !.attempts = OneMore(@), !.permanent = IF hard THEN OneMore(@) ELSE @]
    <3>1. failed.source = jobs[j].source /\ again.source = jobs[j].source
      BY <1>1 DEF QueueTypeOK, Job
    <3>2. jobs' = [jobs EXCEPT ![j] = failed] \/ jobs' = [jobs EXCEPT ![j] = again]
      BY <2>3 DEF FailJob, RescheduleJob
    <3>. HIDE DEF failed, again
    <3>. QED  BY <1>1, <3>1, <3>2, RowStays
  <2>4. (worker[w].result = "error") \in BOOLEAN
    OBVIOUS
  <2>. QED  BY <1>2, <2>1, <2>2, <2>3, <2>4 DEF FinishJob, RowsStay
<1>5. JobsHeld'
  BY <1>1, <1>3, <1>4 DEF JobsInv, JobsHeld
<1>6. Forgotten' \subseteq Forgotten \cup {}
  BY <1>1, <1>4, ForgottenWithin DEF BeingQueued, Closed
<1>. QED  BY <1>1, <1>5, <1>6 DEF JobsInv, DownIsIdle

LEMMA RestartForgets ==
  ASSUME QueuedInv, Restart
  PROVE  JobsInv' /\ Forgotten' \subseteq Forgotten
<1>1. /\ QueueTypeOK /\ UNCHANGED <<closer, episodes, worker, distilled>>
      /\ \A w \in Workers : worker[w].pc = "idle"
  BY DEF QueuedInv, SummaryInv, EpisodesInv, TypeOK, Restart, History, JobsInv, DownIsIdle
<1>2. Rows' = Rows /\ \A j \in Rows : jobs'[j].source = jobs[j].source
  BY <1>1 DEF Restart, ReclaimRunningJobs, Rows, QueueTypeOK, Job
<1>3. Forgotten' \subseteq Forgotten \cup {}
  BY <1>1, <1>2, ForgottenWithin DEF BeingQueued, Closed
<1>. QED  BY <1>1, <1>3 DEF JobsInv, JobsHeld, DownIsIdle

\* A crash forgets what the two closers were about to queue.
LEMMA CrashForgets ==
  ASSUME QueuedInv, Crash
  PROVE  JobsInv' /\ Forgotten' \subseteq Forgotten \cup {Cur("writer"), Cur("consolidator")}
<1>1. UNCHANGED <<jobs, episodes, distilled>> /\ \A w \in Workers : worker'[w].pc = "idle"
  BY DEF Crash, History, Idle
<1>2. \A e \in Owners : BeingQueued(e) => e \in {Cur("writer"), Cur("consolidator")}
  BY DEF BeingQueued, Closers, Cur
<1>3. Forgotten' \subseteq Forgotten \cup {Cur("writer"), Cur("consolidator")}
  BY <1>1, <1>2, ForgottenWithin DEF Closed, Rows
<1>. QED  BY <1>1, <1>3 DEF JobsInv, JobsHeld, DownIsIdle

LEMMA ForgottenFinite == IsFiniteSet(Forgotten)
<1>1. IsFiniteSet(Owners)
  BY FS_Interval, EpisodesAssumption
<1>. QED  BY <1>1, FS_Subset DEF Forgotten

\* The bound after a step that forgets nothing, and after a fault.
LEMMA FewKept ==
  ASSUME FewForgotten, events.faults \in Nat, events'.faults \in Nat,
         \/ Forgotten' \subseteq Forgotten /\ events'.faults >= events.faults
         \/ \E a, b : Forgotten' \subseteq Forgotten \cup {a, b} /\ events'.faults = events.faults + 1
  PROVE  FewForgotten'
<1>1. IsFiniteSet(Forgotten) /\ Cardinality(Forgotten) <= 2 * events.faults /\ 2 * events.faults \in Nat
  BY ForgottenFinite DEF FewForgotten
<1>2. CASE Forgotten' \subseteq Forgotten /\ events'.faults >= events.faults
  <2>1. IsFiniteSet(Forgotten') /\ Cardinality(Forgotten') <= 2 * events.faults
    BY <1>1, <1>2, CountOfPart
  <2>2. Cardinality(Forgotten') \in Nat
    BY <2>1, FS_CardinalityType
  <2>. QED  BY <1>2, <2>1, <2>2 DEF FewForgotten
<1>3. CASE \E a, b : Forgotten' \subseteq Forgotten \cup {a, b} /\ events'.faults = events.faults + 1
  <2>1. PICK a, b : Forgotten' \subseteq Forgotten \cup {a, b} /\ events'.faults = events.faults + 1
    BY <1>3
  <2>2. PICK n \in Nat : n = 2 * events.faults
    BY <1>1
  <2>3. PICK one : one = Forgotten \cup {a}
    OBVIOUS
  <2>4. IsFiniteSet(Forgotten) /\ Cardinality(Forgotten) <= n /\ one \subseteq Forgotten \cup {a}
    BY <1>1, <2>2, <2>3
  <2>5. IsFiniteSet(one) /\ Cardinality(one) <= n + 1
    BY <2>4, CountOfOneMore
  <2>6. n + 1 \in Nat /\ Forgotten' \subseteq one \cup {b}
    BY <2>1, <2>3
  <2>7. IsFiniteSet(Forgotten') /\ Cardinality(Forgotten') <= (n + 1) + 1
    BY <2>5, <2>6, CountOfOneMore
  <2>8. (n + 1) + 1 = 2 * events'.faults
    BY <2>1, <2>2
  <2>. QED  BY <2>7, <2>8 DEF FewForgotten
<1>. QED  BY <1>2, <1>3

(* No step of the queue or of the workers forgets a closed episode; a fault *)
(* forgets those that were being queued.                                    *)
LEMMA FewStep ==
  ASSUME QueuedInv, FewForgotten, [Next]_vars
  PROVE  JobsInv' /\ FewForgotten'
<1>1. events.faults \in Nat /\ events'.faults \in Nat /\ events'.faults >= events.faults
  BY FaultsGrow DEF QueuedInv, SummaryInv
<1>2. CASE JobsInv' /\ Forgotten' \subseteq Forgotten
  BY <1>1, <1>2, FewKept
<1>3. ASSUME NEW c \in Closers, EnqueueSummarize(c) PROVE JobsInv' /\ FewForgotten'
  <2>1. CASE Forgotten' \subseteq Forgotten \cup {Cur(c)} /\ Happens("db_failed")
    <3>1. /\ Forgotten' \subseteq Forgotten \cup {Cur(c), Cur(c)}
          /\ events'.faults = events.faults + 1
      BY <2>1 DEF Happens
    <3>2. FewForgotten'
      BY <1>1, <3>1, FewKept
    <3>. QED  BY <1>3, <3>2, EnqueueForgets
  <2>. QED  BY <1>2, <1>3, <2>1, EnqueueForgets
<1>4. CASE Crash
  <2>1. events'.faults = events.faults + 1
    BY <1>4 DEF Crash, Happens
  <2>. QED  BY <1>1, <1>4, <2>1, CrashForgets, FewKept
<1>5. CASE WriterStep \/ ConsolidatorStep
  BY <1>2, <1>3, <1>5, ClosersForget, CloseForgets DEF WriterStep, ConsolidatorStep, Closing, Closers
<1>6. ASSUME NEW w \in Workers, WorkerStep(w) PROVE JobsInv' /\ FewForgotten'
  BY <1>2, <1>6, WorkerForgets, FinishForgets DEF WorkerStep
<1>7. ASSUME NEW w \in Workers, NEW j \in Rows, Claim(w, j) PROVE JobsInv' /\ FewForgotten'
  BY <1>2, <1>7, ClaimForgets
<1>8. CASE Restart
  BY <1>2, <1>8, RestartForgets
<1>. QED  BY <1>2, <1>4, <1>5, <1>6, <1>7, <1>8, AloneForgets DEF Next

LEMMA QueuedInitially == Init => QueuedInv /\ FewForgotten
<1>. SUFFICES ASSUME Init PROVE QueuedInv /\ FewForgotten
  OBVIOUS
<1>1. JobsInv
  BY DEF Init, JobsInv, JobsHeld, DownIsIdle, Idle
<1>2. Forgotten = {} /\ events.faults = 0
  BY DEF Init, FactsInit, Forgotten, Closed
<1>3. FewForgotten
  BY <1>2, FS_EmptySet DEF FewForgotten
<1>. QED  BY <1>1, <1>3, SummaryInitially DEF QueuedInv

(* An episode outgrows MaxTurns only by the turns whose closing a fault     *)
(* prevented; every summary that is archived is made of all the turns its   *)
(* episode had when it was closed or of the ReadLimit that is read; and a   *)
(* closed episode is distilled, queued or being queued, but for two at most *)
(* for every fault: for any limits, workers, jobs and faults (writeTurn,    *)
(* closeEpisode, runSummarizeJob).                                          *)
THEOREM SummariesAreWhole == Spec => []SummariesWhole
<1>1. QueuedInv /\ FewForgotten /\ EpisodesInv' /\ [Next]_vars => QueuedInv' /\ FewForgotten'
  BY SummaryStep, FewStep DEF QueuedInv
<1>2. QueuedInv /\ FewForgotten => SummariesWhole
  BY DEF QueuedInv, SummaryInv, GrowthInv, WholeInv, SummariesWhole, EpisodeBounded
<1>. QED  BY <1>1, <1>2, QueuedInitially, EpisodesInvariant, PTL DEF Spec
===============================================================================
