----------------------------- MODULE MemoryFacts -----------------------------
(***************************************************************************)
(* The structured facts of the long-term memory: the table memory_facts    *)
(* and RememberFact (internal/memory/facts.go), which whoever learns a     *)
(* fact runs: an ingestion worker that distils a conversation, or the      *)
(* handler of a message "remember subject.predicate = value".              *)
(*                                                                         *)
(* RememberFact reads the current row of a key, closes it and inserts the  *)
(* new one: three statements and no transaction, so three steps that       *)
(* others fall between.  A key is a normalised pair of subject and         *)
(* predicate, a value one up to letter case.  An id is drawn together with *)
(* the time valid_from when the call starts, so ids are numbered in the    *)
(* order of valid_from.  ForgetFact is left out: nothing calls it.         *)
(***************************************************************************)
EXTENDS Naturals, FiniteSets

CONSTANTS
  Keys, Values,
  NoKey, NoValue,
  Rememberers,   \* goroutines that run RememberFact
  MaxFacts,      \* bound on its calls
  Events,        \* kinds of environment events a run allows
  MaxEvents      \* how many of them in one behaviour

ASSUME FactsAssumption ==
  /\ NoKey \notin Keys /\ NoValue \notin Values /\ IsFiniteSet(Rememberers)
  /\ MaxFacts \in Nat /\ MaxEvents \in Nat

VARIABLES
  facts,      \* the rows, by id; "current" is valid_to IS NULL
  drawn,      \* ids drawn so far
  remember,   \* a call of RememberFact, by goroutine
  met,        \* history: calls that began while one of the same key was under way, by key
  events      \* environment events so far, and the faults among them

factVars == <<facts, drawn, remember, met>>

FactIds == 1..MaxFacts
Fact == [key : Keys, value : Values, current : BOOLEAN, by : FactIds \cup {0}]
Call == [pc : {"idle", "lookup", "supersede", "insert"}, id : FactIds \cup {0},
         key : Keys \cup {NoKey}, value : Values \cup {NoValue}, old : FactIds \cup {0}]
NoCall == [pc |-> "idle", id |-> 0, key |-> NoKey, value |-> NoValue, old |-> 0]

FactsInit ==
  /\ facts = [i \in {} |-> {}]
  /\ drawn = 0
  /\ remember = [r \in Rememberers |-> NoCall]
  /\ met = [k \in Keys |-> 0]
  /\ events = [used |-> 0, faults |-> 0]

Happens(e) ==
  /\ e \in Events /\ events.used < MaxEvents
  /\ events' = [used |-> events.used + 1,
                faults |-> events.faults + IF e \in {"crash", "db_failed"} THEN 1 ELSE 0]

Calls(r, pc) == remember[r].pc = pc
Return(r) == remember' = [remember EXCEPT ![r] = NoCall]

\* A call starts: newID and time.Now.  Nothing keeps it from one that is under way.
UnderWay(k) == {r \in Rememberers : ~Calls(r, "idle") /\ remember[r].key = k}
Remember(r, k, v) ==
  /\ Calls(r, "idle")
  /\ drawn < MaxFacts /\ drawn' = drawn + 1
  /\ remember' = [remember EXCEPT ![r] =
       [pc |-> "lookup", id |-> drawn + 1, key |-> k, value |-> v, old |-> 0]]
  /\ met' = IF UnderWay(k) = {} THEN met ELSE [met EXCEPT ![k] = @ + 1]
  /\ UNCHANGED facts

CurrentOf(k) == {i \in DOMAIN facts : facts[i].key = k /\ facts[i].current}
CurrentFact(k) == CHOOSE i \in CurrentOf(k) : \A j \in CurrentOf(k) : j <= i

\* Faulty: a value that is restated is taken for a new one.
LookupAlways(r) ==
  LET found == CurrentOf(remember[r].key)
  IN  /\ Calls(r, "lookup")
      /\ remember' = [remember EXCEPT
           ![r].pc = IF found = {} THEN "insert" ELSE "supersede",
           ![r].old = IF found = {} THEN 0 ELSE CurrentFact(remember[r].key)]
      /\ UNCHANGED <<facts, drawn, met, events>>

\* A value that is restated writes nothing.
Lookup(r) ==
  LET found == CurrentOf(remember[r].key)
      old == CurrentFact(remember[r].key)
  IN  /\ Calls(r, "lookup")
      /\ \/ /\ UNCHANGED events
            /\ IF found = {} THEN remember' = [remember EXCEPT ![r].pc = "insert"]
               ELSE IF facts[old].value = remember[r].value THEN Return(r)
               ELSE remember' = [remember EXCEPT ![r].pc = "supersede", ![r].old = old]
         \/ Happens("db_failed") /\ Return(r)
      /\ UNCHANGED <<facts, drawn, met>>

\* Faulty: the row that is replaced stays current.
SupersedeNot(r) ==
  /\ Calls(r, "supersede")
  /\ remember' = [remember EXCEPT ![r].pc = "insert"]
  /\ UNCHANGED <<facts, drawn, met, events>>

\* Faulty: the old row is closed and the new one forgotten.
SupersedeOnly(r) ==
  /\ Calls(r, "supersede")
  /\ facts' = [facts EXCEPT ![remember[r].old].current = FALSE,
                            ![remember[r].old].by = remember[r].id]
  /\ Return(r)
  /\ UNCHANGED <<drawn, met, events>>

\* SupersedeFact: by id, whatever became of the row since it was read.
Supersede(r) ==
  /\ Calls(r, "supersede")
  /\ \/ /\ facts' = [facts EXCEPT ![remember[r].old].current = FALSE,
                                  ![remember[r].old].by = remember[r].id]
        /\ remember' = [remember EXCEPT ![r].pc = "insert"]
        /\ UNCHANGED events
     \/ Happens("db_failed") /\ Return(r) /\ UNCHANGED facts
  /\ UNCHANGED <<drawn, met>>

NewFact(r) ==
  [key |-> remember[r].key, value |-> remember[r].value, current |-> TRUE, by |-> 0]
InsertFact(r) ==
  /\ Calls(r, "insert")
  /\ \/ /\ facts' = [i \in DOMAIN facts \cup {remember[r].id} |->
                       IF i = remember[r].id THEN NewFact(r) ELSE facts[i]]
        /\ UNCHANGED events
     \/ Happens("db_failed") /\ UNCHANGED facts
  /\ Return(r)
  /\ UNCHANGED <<drawn, met>>

RememberStep(r) == Lookup(r) \/ Supersede(r) \/ InsertFact(r)

-----------------------------------------------------------------------------
FactsTypeOK ==
  /\ drawn \in 0..MaxFacts
  /\ DOMAIN facts \subseteq 1..drawn /\ \A i \in DOMAIN facts : facts[i] \in Fact
  /\ remember \in [Rememberers -> Call]
  /\ \A r \in Rememberers : remember[r].id <= drawn
  /\ met \in [Keys -> Nat]
  /\ events \in [used : 0..MaxEvents, faults : 0..MaxEvents] /\ events.faults <= events.used

(* A key has at most one current value: a new one supersedes the old one    *)
(* instead of coexisting with it (types.go:268-270).                        *)
OneCurrent == \A k \in Keys : Cardinality(CurrentOf(k)) <= 1

(* What RememberFact keeps of it: a call that begins while another one      *)
(* about its key is under way may leave a current value more, for good;     *)
(* no other call, crash or failed write does (facts.go:94-111).             *)
FewCurrent == \A k \in Keys : Cardinality(CurrentOf(k)) <= 1 + met[k]

\* A fact is replaced by one of the same key with another value, and where no two
\* calls met by a later one.
ReplacedForward ==
  \A i \in DOMAIN facts : facts[i].by # 0 =>
    /\ ~facts[i].current
    /\ met[facts[i].key] = 0 => facts[i].by > i
    /\ facts[i].by \in DOMAIN facts =>
         facts[facts[i].by].key = facts[i].key /\ facts[facts[i].by].value # facts[i].value

\* Keys that had a value and have none, nor is a call about to insert one.
LostKeys ==
  {k \in Keys :
    /\ \E i \in DOMAIN facts : facts[i].key = k
    /\ CurrentOf(k) = {}
    /\ ~\E r \in Rememberers : Calls(r, "insert") /\ remember[r].key = k}

(* History runs forward, says something and does not break off: a fact is   *)
(* replaced by a later one of its key with another value (facts.go:57-67),  *)
(* and closing the old row before the new one is there (facts.go:101-113)   *)
(* costs keys their value only by a crash or a failed write, at most one    *)
(* for every goroutine that remembers.                                      *)
HistoryRuns == ReplacedForward /\ Cardinality(LostKeys) <= events.faults * Cardinality(Rememberers)

\* A call has its id from the start, and knows the row it replaces.
CallsHold ==
  \A r \in Rememberers :
    /\ ~Calls(r, "idle") =>
         remember[r].id \in 1..drawn /\ remember[r].key \in Keys /\ remember[r].value \in Values
    /\ Calls(r, "supersede") => remember[r].old \in DOMAIN facts

-----------------------------------------------------------------------------
(* The inductive invariant of RememberFact, by key.                         *)

\* The calls of a key may overlap only where the history says so.
MetApart ==
  \A q, r \in Rememberers :
    ~Calls(q, "idle") /\ ~Calls(r, "idle") /\ remember[q].key = remember[r].key
      /\ met[remember[r].key] = 0 => q = r
IdsApart ==
  \A q, r \in Rememberers :
    ~Calls(q, "idle") /\ ~Calls(r, "idle") /\ remember[q].id = remember[r].id => q = r

\* What a call is about to replace has another value than its own, and rows that
\* point to it were replaced by it; where no calls met it is the latest.
Replaced(i, r) ==
  facts[i].key = remember[r].key /\ facts[i].value # remember[r].value
CallHolds ==
  \A r \in Rememberers : ~Calls(r, "idle") =>
    /\ remember[r].id \notin DOMAIN facts
    /\ \A i \in DOMAIN facts : facts[i].by = remember[r].id => Replaced(i, r)
    /\ Calls(r, "supersede") => Replaced(remember[r].old, r)
    /\ met[remember[r].key] = 0 =>
         \A i \in DOMAIN facts : facts[i].key = remember[r].key => i < remember[r].id
ReplacedByDrawn == \A i \in DOMAIN facts : facts[i].by <= drawn

\* Every current value and every call under way counts; before the first closing
\* of calls that overlap there is one more.
Weight(k) == Cardinality(CurrentOf(k)) + Cardinality(UnderWay(k))
NothingClosed(k) ==
  /\ CurrentOf(k) # {} /\ UnderWay(k) # {}
  /\ \A r \in UnderWay(k) : ~Calls(r, "insert") /\ (Calls(r, "supersede") => remember[r].old \in CurrentOf(k))
WeightHolds(k) == Weight(k) <= 1 + met[k] \/ (NothingClosed(k) /\ Weight(k) <= 2 + met[k])

OrderInv == MetApart /\ IdsApart /\ CallHolds /\ ReplacedByDrawn /\ ReplacedForward
LossInv == IsFiniteSet(LostKeys) /\ Cardinality(LostKeys) <= events.faults * Cardinality(Rememberers)
FactsInv == OrderInv /\ LossInv /\ \A k \in Keys : WeightHolds(k)
=============================================================================
