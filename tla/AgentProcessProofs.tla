-------------------------- MODULE AgentProcessProofs --------------------------
(***************************************************************************)
(* What polling keeps to, and what the exit code of the agent says, for    *)
(* every set of updates, of optional parts and of faults. While the bot is *)
(* on, the offset lies behind the update that is handled and before those  *)
(* that wait, so it says which updates this run has been through; what     *)
(* Telegram had before the run is gone or will be handed out again,        *)
(* depending on drop_pending_updates.                                      *)
(***************************************************************************)
EXTENDS AgentProcess, TLAPS, FiniteSetTheorems, WellFoundedInduction

(* ------------------------------- invariants ------------------------------- *)

\* What is in the queue or was handled has arrived, in the order of the ids, and
\* nothing was handled in a run to come.
ArrivedInOrder ==
  /\ \A u \in Updates : u \in queue \/ started[u] > 0 => arrived[u] > 0
  /\ \A u, v \in Updates : arrived[u] > 0 /\ v < u => arrived[v] > 0
  /\ \A u \in Updates : startedIn[u] <= runs

\* A process that does not poll yet has fetched nothing and handles nothing; one
\* that polls never listens.
NothingBegun ==
  /\ bot = "off" \/ (mode = "polling" /\ bot = "starting") =>
       offset = 0 /\ batch = <<>> /\ \A u \in Updates : active[u] = 0
  /\ bot = "listening" => mode = "webhook"

\* What lies before the offset has arrived; the batch lies behind it, in order.
\* A webhook fetches nothing.
BatchAhead ==
  /\ mode = "webhook" => batch = <<>>
  /\ mode = "polling" =>
       /\ \A u \in Updates : u < offset => arrived[u] > 0
       /\ \A i \in 1 .. Len(batch) : batch[i] >= offset /\ arrived[batch[i]] > 0
       /\ \A i, j \in 1 .. Len(batch) : i < j => batch[i] < batch[j]

\* What this run has handled lies before the offset, and what it handles right so.
OffsetBehind ==
  mode = "polling" /\ bot # "off" =>
    /\ runs > 0
    /\ \A u \in Updates : startedIn[u] = runs => u < offset
    /\ \A u \in Updates : active[u] > 0 => startedIn[u] = runs /\ offset = u + 1

\* What Telegram still has of the updates before the offset was handled, or the
\* handler is at it; what lies behind it is in the batch or later than all of it.
KeepsBacklog ==
  mode = "polling" /\ ~drop /\ bot = "on" =>
    /\ \A u \in queue : u < offset => u \in completed \/ active[u] > 0
    /\ batch # <<>> =>
         \A u \in queue : u >= offset =>
           \/ \E i \in 1 .. Len(batch) : batch[i] = u
           \/ \A i \in 1 .. Len(batch) : batch[i] < u

\* After the backlog was dropped there are only updates of this run, and those at
\* the offset and behind it were not handled.
DropsBacklog ==
  mode = "polling" /\ drop /\ bot = "on" =>
    /\ \A u \in queue : arrived[u] = runs + 1 /\ (u >= offset => started[u] = 0)
    /\ \A i \in 1 .. Len(batch) : arrived[batch[i]] = runs + 1 /\ started[batch[i]] = 0

\* What a process is doing says whether its bot and its workers were started.
PhaseFits ==
  /\ phase \in {"running", "draining"} => token
  /\ phase = "brain_only" => ~token
  /\ phase \notin {"running", "draining", "closing"} => bot = "off"
  /\ phase = "building" => \A w \in Workers : worker[w] = "off"
  /\ phase # "down" /\ ~token => worker["watch"] = "off" /\ worker["visual"] = "off"

\* A process that is to end without an error, or did, has ended all its workers.
EndsClean ==
  /\ phase \in {"closing", "down"} /\ exit = "ok" => \A w \in Workers : worker[w] \in {"off", "stopped"}
  /\ phase = "down" /\ exit = "ok" => orphans = {}
  /\ phase \in {"building", "running", "brain_only", "draining"} => exit = "none"

IntakeInv ==
  /\ ArrivedInOrder /\ NothingBegun /\ BatchAhead /\ OffsetBehind
  /\ KeepsBacklog /\ DropsBacklog
  /\ UpdatesKept

ProcessIInv == ProcessTypeOK /\ IntakeInv /\ PhaseFits /\ EndsClean

(* ------------------------- a batch in order exists ------------------------- *)

Increasing(list, n) == \A i, j \in 1 .. n : i < j => list[i] < list[j]

LEMMA SmallestExists ==
  ASSUME NEW S \in SUBSET Nat, S # {}
  PROVE  \E m \in S : \A x \in S : m <= x
<1>1. PICK m \in S : \A x \in S : ~ (<<x, m>> \in OpToRel(<, Nat))
  BY NatLessThanWellFounded, WFMin, Zenon
<1>2. \A x \in S : ~ (x < m)
  BY <1>1 DEF OpToRel
<1>. QED  BY <1>2

\* The smallest number of a set goes before a list of the others.
LEMMA ListsExtend ==
  ASSUME NEW n \in Nat \ {0}, NEW S \in SUBSET Nat, NEW m \in S, \A x \in S : m <= x,
         NEW rest \in [1 .. n - 1 -> S \ {m}], Increasing(rest, n - 1)
  PROVE  \E list \in [1 .. n -> S] : Increasing(list, n)
<1>. DEFINE list == [i \in 1 .. n |-> IF i = 1 THEN m ELSE rest[i - 1]]
<1>1. \A i \in 1 .. n : i # 1 => i - 1 \in 1 .. n - 1
  OBVIOUS
<1>2. list \in [1 .. n -> S]
  BY <1>1
<1>3. ASSUME NEW i \in 1 .. n, NEW j \in 1 .. n, i < j
      PROVE  list[i] < list[j]
  <2>1. j - 1 \in 1 .. n - 1 /\ list[j] = rest[j - 1] /\ rest[j - 1] \in S \ {m}
    BY <1>1, <1>3
  <2>2. CASE i = 1
    <3>1. list[i] = m /\ list[j] \in S /\ list[j] # m /\ m <= list[j] /\ m \in Nat /\ list[j] \in Nat
      BY <1>3, <2>1, <2>2
    <3>. HIDE DEF list
    <3>. QED  BY <3>1
  <2>3. CASE i # 1
    <3>1. i - 1 \in 1 .. n - 1 /\ list[i] = rest[i - 1] /\ i - 1 < j - 1
      BY <1>1, <1>3, <2>3
    <3>. QED  BY <2>1, <3>1 DEF Increasing
  <2>. QED  BY <2>2, <2>3
<1>4. Increasing(list, n)
  BY <1>3 DEF Increasing
<1>. QED  BY <1>2, <1>4

LEMMA ListsExist ==
  ASSUME NEW S \in SUBSET Nat, IsFiniteSet(S)
  PROVE  \E list \in [1 .. Cardinality(S) -> S] : Increasing(list, Cardinality(S))
<1>. DEFINE Listed(T) == \E list \in [1 .. Cardinality(T) -> T] : Increasing(list, Cardinality(T))
            Unlisted == {n \in Nat : \E T \in SUBSET Nat : IsFiniteSet(T) /\ Cardinality(T) = n /\ ~Listed(T)}
<1>1. ASSUME Unlisted # {}
      PROVE  FALSE
  <2>1. PICK n \in Unlisted : \A k \in Unlisted : n <= k
    <3>. HIDE DEF Unlisted
    <3>1. Unlisted \in SUBSET Nat
      BY DEF Unlisted
    <3>. QED  BY <1>1, <3>1, SmallestExists
  <2>2. PICK T \in SUBSET Nat : IsFiniteSet(T) /\ Cardinality(T) = n /\ ~Listed(T)
    OBVIOUS
  <2>3. n # 0
    <3>1. SUFFICES ASSUME n = 0 PROVE FALSE
      OBVIOUS
    <3>2. T = {} /\ 1 .. Cardinality(T) = {}
      BY <2>2, <3>1, FS_EmptySet
    <3>3. [i \in 1 .. Cardinality(T) |-> 0] \in [1 .. Cardinality(T) -> T]
      BY <3>2
    <3>4. Listed(T)
      BY <3>2, <3>3 DEF Increasing
    <3>. QED  BY <2>2, <3>4
  <2>4. n \in Nat \ {0} /\ T # {}
    BY <2>2, <2>3, FS_EmptySet
  <2>5. PICK m \in T : \A x \in T : m <= x
    BY <2>4, SmallestExists
  <2>6. IsFiniteSet(T \ {m}) /\ Cardinality(T \ {m}) = n - 1
    BY <2>2, <2>5, FS_RemoveElement
  <2>7. Listed(T \ {m})
    <3>1. n - 1 \in Nat /\ ~(n <= n - 1)
      BY <2>4
    <3>2. n - 1 \notin Unlisted
      BY <2>1, <3>1
    <3>. QED  BY <2>6, <3>1, <3>2
  <2>8. PICK rest \in [1 .. n - 1 -> T \ {m}] : Increasing(rest, n - 1)
    BY <2>6, <2>7
  <2>9. \E list \in [1 .. n -> T] : Increasing(list, n)
    <3>. HIDE DEF Unlisted, Listed
    <3>. QED  BY <2>4, <2>5, <2>8, ListsExtend
  <2>. QED  BY <2>2, <2>9
<1>2. Cardinality(S) \in Nat
  BY FS_CardinalityType
<1>. QED  BY <1>1, <1>2

\* Telegram hands out every update it has, in order and once.
LEMMA ByIdLists ==
  ASSUME NEW S \in SUBSET Updates
  PROVE  /\ ById(S) \in Seq(Updates) /\ Len(ById(S)) = Cardinality(S)
         /\ Len(ById(S)) <= Cardinality(Updates)
         /\ \A i \in 1 .. Len(ById(S)) : ById(S)[i] \in S
         /\ Increasing(ById(S), Len(ById(S)))
         /\ \A u \in S : \E i \in 1 .. Len(ById(S)) : ById(S)[i] = u
<1>. DEFINE n == Cardinality(S)
            list == ById(S)
<1>1. S \in SUBSET Nat /\ IsFiniteSet(S) /\ n <= Cardinality(Updates) /\ n \in Nat
  BY IntakeAssumption, FS_Subset, FS_CardinalityType
<1>2. \E l \in [1 .. n -> S] : \A i, j \in 1 .. n : i < j => l[i] < l[j]
  BY <1>1, ListsExist DEF Increasing
<1>3. list \in [1 .. n -> S] /\ \A i, j \in 1 .. n : i < j => list[i] < list[j]
  BY <1>2 DEF ById
<1>. HIDE DEF list
<1>4. list \in Seq(Updates) /\ Len(list) = n
  <2>1. list \in [1 .. n -> Updates]
    BY <1>3
  <2>. HIDE DEF n
  <2>. QED  BY <1>1, <2>1
<1>5. ASSUME NEW u \in S, \A i \in 1 .. n : list[i] # u
      PROVE  FALSE
  <2>1. IsFiniteSet(S \ {u}) /\ Cardinality(S \ {u}) = n - 1
    BY <1>1, FS_RemoveElement
  <2>2. list \in [1 .. n -> S \ {u}]
    BY <1>3, <1>5
  <2>3. IsFiniteSet(1 .. n) /\ Cardinality(1 .. n) = n
    BY <1>1, FS_Interval
  <2>4. \E x, y \in 1 .. n : x # y /\ list[x] = list[y]
    BY <1>1, <2>1, <2>2, <2>3, FS_PigeonHole
  <2>5. PICK x \in 1 .. n, y \in 1 .. n : x < y /\ list[x] = list[y]
    BY <1>1, <2>4
  <2>6. list[x] < list[y] /\ list[x] \in Nat
    BY <1>1, <1>3, <2>5
  <2>. QED  BY <2>5, <2>6
<1>. QED  BY <1>1, <1>3, <1>4, <1>5 DEF Increasing, list

(* ------------------------------ intake, by step ------------------------------ *)

IntakeState == IntakeTypeOK /\ IntakeInv

\* Every conjunct of the invariant but what it is for.
Groundwork == ArrivedInOrder /\ NothingBegun /\ BatchAhead /\ OffsetBehind /\ KeepsBacklog /\ DropsBacklog

LEMMA UpdateIds == \A u \in Updates : u \in Nat /\ u > 0
BY IntakeAssumption

\* Nothing handles two updates, or one out of order.
LEMMA OrderFollows == IntakeTypeOK /\ Groundwork => InOrder
<1>. SUFFICES ASSUME IntakeTypeOK, ArrivedInOrder, NothingBegun, OffsetBehind PROVE InOrder
  BY DEF Groundwork
<1>. SUFFICES ASSUME mode = "polling", NEW u \in Updates, NEW v \in Updates, active[u] > 0
              PROVE  /\ active[v] > 0 => u = v
                     /\ u < v => startedIn[v] < startedIn[u]
  BY DEF InOrder
<1>1. active[u] \in Nat /\ active[v] \in Nat /\ startedIn[u] \in Nat /\ startedIn[v] \in Nat /\ runs \in Nat /\ offset \in Nat
  BY DEF IntakeTypeOK
<1>2. bot # "off"
  BY <1>1 DEF NothingBegun
<1>3. startedIn[u] = runs /\ offset = u + 1 /\ (active[v] > 0 => offset = v + 1)
  BY <1>2 DEF OffsetBehind
<1>4. startedIn[v] = runs => v < offset
  BY <1>2 DEF OffsetBehind
<1>5. startedIn[v] <= runs
  BY DEF ArrivedInOrder
<1>. QED  BY <1>1, <1>3, <1>4, <1>5, UpdateIds

LEMMA OrderFollowsNext == IntakeTypeOK' /\ Groundwork' => InOrder'
BY OrderFollows, PTL

LEMMA EmptyBatch == <<>> \in Seq(Updates) /\ Len(<<>>) = 0 /\ Len(<<>>) <= Cardinality(Updates)
<1>1. Cardinality(Updates) \in Nat
  BY IntakeAssumption, FS_CardinalityType
<1>. QED  BY <1>1

\* What an update needs to stay with Telegram or to be done with, by its arrival.
LEMMA ArrivedIs ==
  ASSUME ArrivedInOrder, NEW u \in Updates
  PROVE  Arrived(u) <=> arrived[u] > 0
BY DEF Arrived, ArrivedInOrder

LEMMA IntakeInitState == IntakeInit => IntakeState
<1>. SUFFICES ASSUME IntakeInit PROVE IntakeState
  OBVIOUS
<1>1. IntakeTypeOK
  BY EmptyBatch DEF IntakeInit, IntakeTypeOK
<1>2. Groundwork
  BY DEF IntakeInit, Groundwork, ArrivedInOrder, NothingBegun, BatchAhead, OffsetBehind, KeepsBacklog, DropsBacklog
<1>3. UpdatesKept
  <2>1. InOrder
    BY <1>1, <1>2, OrderFollows
  <2>2. AtMostOnce /\ NothingLost /\ CleanStart
    BY DEF IntakeInit, AtMostOnce, NothingLost, CleanStart, Arrived
  <2>. QED  BY <2>1, <2>2 DEF UpdatesKept
<1>. QED  BY <1>1, <1>2, <1>3 DEF IntakeState, IntakeInv, Groundwork

\* The invariant says nothing of the context.
LEMMA IntakeSame ==
  ASSUME IntakeState, cancelled' \in BOOLEAN,
         UNCHANGED <<mode, drop, bot, queue, webhook, offset, batch, active, intakeHistory>>
  PROVE  IntakeState'
<1>1. IntakeTypeOK'
  BY DEF IntakeState, IntakeTypeOK, intakeHistory
<1>2. ArrivedInOrder' /\ NothingBegun' /\ BatchAhead'
  BY DEF IntakeState, IntakeInv, intakeHistory, ArrivedInOrder, NothingBegun, BatchAhead
<1>3. OffsetBehind' /\ KeepsBacklog' /\ DropsBacklog'
  BY DEF IntakeState, IntakeInv, intakeHistory, OffsetBehind, KeepsBacklog, DropsBacklog
<1>4. AtMostOnce' /\ NothingLost' /\ CleanStart' /\ InOrder'
  BY DEF IntakeState, IntakeInv, UpdatesKept, intakeHistory, AtMostOnce, NothingLost, CleanStart, InOrder, Arrived
<1>. QED  BY <1>1, <1>2, <1>3, <1>4 DEF IntakeState, IntakeInv, UpdatesKept

LEMMA IntakeLostKeeps ==
  ASSUME IntakeState, IntakeLost
  PROVE  IntakeState'
<1>1. IntakeTypeOK'
  BY EmptyBatch DEF IntakeState, IntakeTypeOK, IntakeLost, intakeSettings, intakeHistory
<1>2. Groundwork'
  BY DEF IntakeState, IntakeInv, IntakeLost, intakeSettings, intakeHistory, Groundwork, ArrivedInOrder, NothingBegun,
         BatchAhead, OffsetBehind, KeepsBacklog, DropsBacklog
<1>3. AtMostOnce' /\ NothingLost' /\ CleanStart'
  BY DEF IntakeState, IntakeInv, IntakeLost, intakeSettings, intakeHistory, UpdatesKept, AtMostOnce, NothingLost,
         CleanStart, Arrived
<1>4. InOrder'
  BY DEF IntakeLost, InOrder
<1>. QED  BY <1>1, <1>2, <1>3, <1>4 DEF IntakeState, IntakeInv, UpdatesKept, Groundwork

\* A run begins with nothing in hand.
LEMMA StartPollKeeps ==
  ASSUME IntakeState, StartPoll, bot = "off", UNCHANGED cancelled
  PROVE  IntakeState'
<1>1. IntakeTypeOK'
  BY EmptyBatch DEF IntakeState, IntakeTypeOK, StartPoll, intakeSettings
<1>2. ArrivedInOrder' /\ NothingBegun'
  <2>1. ArrivedInOrder /\ NothingBegun /\ runs \in Nat /\ startedIn \in [Updates -> Nat]
    BY DEF IntakeState, IntakeInv, IntakeTypeOK
  <2>2. \A u \in Updates : active[u] = 0
    BY <2>1 DEF NothingBegun
  <2>3. \A u \in Updates : startedIn[u] <= runs + 1
    BY <2>1 DEF ArrivedInOrder
  <2>. QED  BY <2>1, <2>2, <2>3 DEF ArrivedInOrder, NothingBegun, StartPoll, intakeSettings
<1>3. OffsetBehind'
  <2>1. \A u \in Updates : active[u] = 0 /\ startedIn[u] <= runs /\ startedIn[u] \in Nat
    BY DEF IntakeState, IntakeInv, IntakeTypeOK, NothingBegun, ArrivedInOrder
  <2>2. runs \in Nat
    BY DEF IntakeState, IntakeTypeOK
  <2>. QED  BY <2>1, <2>2 DEF OffsetBehind, StartPoll, intakeSettings
<1>4. BatchAhead' /\ KeepsBacklog' /\ DropsBacklog'
  BY UpdateIds DEF BatchAhead, KeepsBacklog, DropsBacklog, StartPoll, intakeSettings
<1>5. AtMostOnce' /\ NothingLost' /\ CleanStart'
  BY DEF IntakeState, IntakeInv, UpdatesKept, AtMostOnce, NothingLost, CleanStart, Arrived, StartPoll, intakeSettings
<1>6. InOrder'
  BY <1>1, <1>2, <1>3, <1>4, OrderFollowsNext DEF Groundwork
<1>. QED  BY <1>1, <1>2, <1>3, <1>4, <1>5, <1>6 DEF IntakeState, IntakeInv, UpdatesKept

\* An update that arrives is later than all that did.
LEMMA ArriveKeeps ==
  ASSUME IntakeState, Arrive
  PROVE  IntakeState'
<1>. USE DEF intakeSettings
<1>1. PICK u \in Updates :
        /\ ~Arrived(u) /\ \A v \in Updates : v < u => Arrived(v)
        /\ queue' = queue \cup {u}
        /\ arrived' = [arrived EXCEPT ![u] = runs + 1]
  BY DEF Arrive
<1>2. UNCHANGED <<mode, drop, bot, cancelled, webhook, offset, batch, active, completed, started, startedIn, runs>>
  BY DEF Arrive
<1>3. IntakeTypeOK /\ Groundwork /\ UpdatesKept
  BY DEF IntakeState, IntakeInv, Groundwork
<1>4. /\ u \notin queue /\ started[u] = 0 /\ arrived[u] = 0 /\ \A v \in Updates : v < u => arrived[v] > 0
      /\ \A w \in Updates : arrived[w] > 0 => w < u
  <2>1. u \notin queue /\ started[u] = 0 /\ arrived[u] = 0
    BY <1>1, <1>3 DEF Arrived, IntakeTypeOK
  <2>2. \A v \in Updates : v < u => arrived[v] > 0
    BY <1>1, <1>3, ArrivedIs DEF Groundwork
  <2>3. ASSUME NEW w \in Updates, arrived[w] > 0
        PROVE  w < u
    <3>1. w # u /\ ~(u < w)
      BY <1>3, <2>1, <2>3 DEF Groundwork, ArrivedInOrder
    <3>. QED  BY <3>1, UpdateIds
  <2>. QED  BY <2>1, <2>2, <2>3
<1>5. IntakeTypeOK'
  BY <1>1, <1>2, <1>3 DEF IntakeTypeOK
<1>6. runs + 1 > 0 /\ \A v \in Updates : arrived'[v] = IF v = u THEN runs + 1 ELSE arrived[v]
  BY <1>1, <1>3 DEF IntakeTypeOK
<1>7. ArrivedInOrder' /\ NothingBegun'
  <2>1. ArrivedInOrder'
    BY <1>1, <1>2, <1>3, <1>4, <1>6 DEF Groundwork, ArrivedInOrder
  <2>. QED  BY <1>2, <1>3, <2>1 DEF Groundwork, NothingBegun
<1>8. \A i \in 1 .. Len(batch) : batch[i] \in Updates
  BY <1>3 DEF IntakeTypeOK
<1>9. BatchAhead' /\ OffsetBehind'
  <2>1. BatchAhead'
    BY <1>2, <1>3, <1>6, <1>8 DEF Groundwork, BatchAhead
  <2>. QED  BY <1>2, <1>3, <2>1 DEF Groundwork, OffsetBehind
<1>10. KeepsBacklog'
  <2>. SUFFICES ASSUME mode = "polling", ~drop, bot = "on"
                PROVE  /\ u < offset => u \in completed \/ active[u] > 0
                       /\ batch # <<>> /\ u >= offset => \A i \in 1 .. Len(batch) : batch[i] < u
    BY <1>1, <1>2, <1>3 DEF Groundwork, KeepsBacklog
  <2>1. batch # <<>> => \A i \in 1 .. Len(batch) : batch[i] < u
    BY <1>3, <1>4, <1>8 DEF Groundwork, BatchAhead
  <2>2. ~(u < offset)
    BY <1>3, <1>4 DEF Groundwork, BatchAhead
  <2>. QED  BY <2>1, <2>2
<1>11. DropsBacklog'
  BY <1>1, <1>2, <1>3, <1>4, <1>6, <1>8 DEF Groundwork, DropsBacklog, IntakeTypeOK
<1>12. AtMostOnce' /\ NothingLost' /\ CleanStart'
  BY <1>1, <1>2, <1>3, <1>4, <1>6 DEF UpdatesKept, AtMostOnce, NothingLost, CleanStart, Arrived
<1>. QED  BY <1>5, <1>7, <1>9, <1>10, <1>11, <1>12, OrderFollowsNext
          DEF IntakeState, IntakeInv, UpdatesKept, Groundwork

\* Steps of the bot that fetch and handle nothing: from one state to another
\* before it is on, or to its end; Telegram may drop what it has on the way.
LEMMA BotMoves ==
  ASSUME IntakeState,
         UNCHANGED <<mode, drop, cancelled, offset, batch, active, intakeHistory>>,
         webhook' \in BOOLEAN,
         bot' \in {"listening", "on", "failed", "stopped"}, bot # "off",
         mode = "polling" => bot' # "listening" /\ (bot' = "on" => bot = "starting"),
         queue' = queue \/ (drop /\ queue' = {}),
         mode = "polling" /\ drop /\ bot' = "on" => queue' = {}
  PROVE  IntakeState'
<1>. USE DEF intakeHistory
<1>1. IntakeTypeOK /\ Groundwork /\ UpdatesKept
  BY DEF IntakeState, IntakeInv, Groundwork
<1>2. IntakeTypeOK'
  BY <1>1 DEF IntakeTypeOK
<1>3. ArrivedInOrder' /\ BatchAhead'
  BY <1>1 DEF Groundwork, ArrivedInOrder, BatchAhead
<1>4. NothingBegun' /\ OffsetBehind'
  <2>1. mode \in {"polling", "webhook"}
    BY <1>1 DEF IntakeTypeOK
  <2>2. NothingBegun'
    BY <1>1, <2>1 DEF Groundwork, NothingBegun
  <2>. QED  BY <1>1, <2>2 DEF Groundwork, OffsetBehind
<1>5. KeepsBacklog'
  <2>1. mode = "polling" /\ bot' = "on" => offset = 0 /\ batch = <<>>
    BY <1>1 DEF Groundwork, NothingBegun
  <2>2. \A u \in queue' : u \in Updates /\ ~(u < 0)
    BY <1>2, UpdateIds DEF IntakeTypeOK
  <2>. QED  BY <2>1, <2>2 DEF KeepsBacklog
<1>6. DropsBacklog'
  <2>1. mode = "polling" /\ bot' = "on" => batch = <<>>
    BY <1>1 DEF Groundwork, NothingBegun
  <2>. QED  BY <2>1 DEF DropsBacklog
<1>7. AtMostOnce' /\ CleanStart'
  BY <1>1 DEF UpdatesKept, AtMostOnce, CleanStart
<1>8. NothingLost'
  BY <1>1 DEF UpdatesKept, NothingLost, Arrived
<1>. QED  BY <1>2, <1>3, <1>4, <1>5, <1>6, <1>7, <1>8, OrderFollowsNext
          DEF IntakeState, IntakeInv, UpdatesKept, Groundwork

LEMMA DeleteWebhookKeeps ==
  ASSUME IntakeState, DeleteWebhook
  PROVE  IntakeState'
<1>1. bot = "starting" /\ webhook \in BOOLEAN /\ drop \in BOOLEAN
  BY DEF DeleteWebhook, IntakeState, IntakeTypeOK
<1>. QED  BY <1>1, BotMoves DEF DeleteWebhook, intakeSettings

LEMMA ListenKeeps ==
  ASSUME IntakeState, Listen
  PROVE  IntakeState'
<1>1. bot = "starting" /\ mode = "webhook" /\ webhook \in BOOLEAN
  BY DEF Listen, IntakeState, IntakeTypeOK
<1>. QED  BY <1>1, BotMoves DEF Listen, intakeSettings

\* Only a bot in webhook mode listens.
LEMMA SetWebhookKeeps ==
  ASSUME IntakeState, SetWebhook
  PROVE  IntakeState'
<1>1. bot = "listening" /\ mode = "webhook" /\ webhook \in BOOLEAN /\ drop \in BOOLEAN
  BY DEF SetWebhook, IntakeState, IntakeTypeOK, IntakeInv, NothingBegun
<1>. QED  BY <1>1, BotMoves DEF SetWebhook, intakeSettings

LEMMA ServeFailsKeeps ==
  ASSUME IntakeState, ServeFails
  PROVE  IntakeState'
<1>1. bot = "on" /\ mode = "webhook" /\ webhook \in BOOLEAN
  BY DEF ServeFails, IntakeState, IntakeTypeOK
<1>. QED  BY <1>1, BotMoves DEF ServeFails, intakeSettings

LEMMA StopPollKeeps ==
  ASSUME IntakeState, StopPoll
  PROVE  IntakeState'
<1>1. bot \in {"starting", "listening", "on"} /\ webhook \in BOOLEAN
  BY DEF StopPoll, IntakeState, IntakeTypeOK
<1>. QED  BY <1>1, BotMoves DEF StopPoll, intakeSettings

\* What the offset confirms is gone, the rest is the batch.
LEMMA GetUpdatesKeeps ==
  ASSUME IntakeState, GetUpdates
  PROVE  IntakeState'
<1>. USE DEF intakeSettings, intakeHistory
<1>1. IntakeTypeOK /\ Groundwork /\ UpdatesKept
  BY DEF IntakeState, IntakeInv, Groundwork
<1>2. CASE bot' = "failed" /\ UNCHANGED <<queue, batch>>
  <2>1. webhook' \in BOOLEAN /\ UNCHANGED <<mode, drop, cancelled, offset, active, intakeHistory>> /\ bot = "on"
    BY <1>1 DEF GetUpdates, IntakeTypeOK
  <2>. QED  BY <1>2, <2>1, BotMoves
<1>3. CASE /\ queue' = {u \in queue : u >= offset}
           /\ batch' = ById(queue')
           /\ UNCHANGED bot
  <2>1. /\ mode = "polling" /\ bot = "on" /\ \A u \in Updates : active[u] = 0
        /\ UNCHANGED <<mode, drop, bot, cancelled, webhook, offset, active, completed, started, arrived, startedIn, runs>>
    BY <1>1, <1>3 DEF GetUpdates, HandlerBusy, IntakeTypeOK
  <2>2. queue' \in SUBSET Updates /\ queue' \in SUBSET queue
    BY <1>1, <1>3 DEF IntakeTypeOK
  <2>3. /\ batch' \in Seq(Updates) /\ Len(batch') <= Cardinality(Updates)
        /\ \A i \in 1 .. Len(batch') : batch'[i] \in queue'
        /\ \A i, j \in 1 .. Len(batch') : i < j => batch'[i] < batch'[j]
        /\ \A u \in queue' : \E i \in 1 .. Len(batch') : batch'[i] = u
    BY <1>3, <2>2, ByIdLists DEF Increasing
  <2>4. IntakeTypeOK'
    BY <1>1, <2>1, <2>2, <2>3 DEF IntakeTypeOK
  <2>5. ArrivedInOrder' /\ NothingBegun' /\ OffsetBehind'
    BY <1>1, <2>1, <2>2 DEF Groundwork, ArrivedInOrder, NothingBegun, OffsetBehind
  <2>6. BatchAhead'
    <3>1. \A i \in 1 .. Len(batch') : batch'[i] >= offset /\ arrived[batch'[i]] > 0
      <4>1. \A u \in queue' : u >= offset /\ arrived[u] > 0
        BY <1>1, <1>3 DEF Groundwork, ArrivedInOrder, IntakeTypeOK
      <4>. QED  BY <2>3, <4>1
    <3>. QED  BY <1>1, <2>1, <2>3, <3>1 DEF Groundwork, BatchAhead
  <2>7. KeepsBacklog'
    <3>1. \A u \in queue' : ~(u < offset)
      BY <1>1, <1>3, UpdateIds DEF IntakeTypeOK
    <3>. QED  BY <2>1, <2>3, <3>1 DEF KeepsBacklog
  <2>8. DropsBacklog'
    <3>1. drop => \A u \in queue' : arrived[u] = runs + 1 /\ started[u] = 0
      BY <1>1, <1>3, <2>1 DEF Groundwork, DropsBacklog
    <3>. QED  BY <2>1, <2>3, <3>1 DEF DropsBacklog
  <2>9. AtMostOnce' /\ CleanStart'
    BY <1>1, <2>1 DEF UpdatesKept, AtMostOnce, CleanStart
  <2>10. NothingLost'
    <3>. SUFFICES ASSUME ~drop, NEW u \in Updates, Arrived(u)'
                  PROVE  u \in queue' \cup completed
      BY <2>1 DEF NothingLost
    <3>1. arrived[u] > 0
      BY <2>1, <2>5 DEF Arrived, ArrivedInOrder
    <3>2. u \in queue \cup completed
      BY <1>1, <2>1, <3>1 DEF UpdatesKept, NothingLost, Arrived
    <3>3. u \in queue /\ u < offset => u \in completed
      <4>1. ~(active[u] > 0)
        BY <2>1
      <4>. QED  BY <1>1, <2>1, <4>1 DEF Groundwork, KeepsBacklog
    <3>4. u \in queue => u < offset \/ u \in queue'
      BY <1>1, <1>3, UpdateIds DEF IntakeTypeOK
    <3>. QED  BY <3>2, <3>3, <3>4
  <2>. QED  BY <2>4, <2>5, <2>6, <2>7, <2>8, <2>9, <2>10, OrderFollowsNext
            DEF IntakeState, IntakeInv, UpdatesKept, Groundwork
<1>. QED  BY <1>2, <1>3 DEF GetUpdates

LEMMA Counted ==
  ASSUME NEW f \in [Updates -> Nat], NEW u \in Updates, NEW n \in Nat
  PROVE  [f EXCEPT ![u] = @ + 1] \in [Updates -> Nat] /\ [f EXCEPT ![u] = n] \in [Updates -> Nat]
OBVIOUS

\* The first update of the batch is the next that Telegram has.
LEMMA TakeKeeps ==
  ASSUME IntakeState, Take
  PROVE  IntakeState'
<1>. DEFINE h == Head(batch)
<1>. USE DEF intakeSettings
<1>1. IntakeTypeOK /\ Groundwork /\ UpdatesKept
  BY DEF IntakeState, IntakeInv, Groundwork
<1>2. /\ bot = "on" /\ batch # <<>> /\ \A u \in Updates : active[u] = 0
      /\ UNCHANGED <<mode, drop, bot, cancelled, queue, webhook, arrived, runs>>
      /\ batch' = Tail(batch)
  <2>1. active \in [Updates -> Nat] /\ ~HandlerBusy
    BY <1>1 DEF Take, IntakeTypeOK
  <2>2. \A u \in Updates : active[u] = 0
    BY <2>1 DEF HandlerBusy
  <2>. QED  BY <2>2 DEF Take, StartHandler
<1>3. /\ h \in Updates /\ h \in Nat /\ h = batch[1] /\ 1 \in 1 .. Len(batch)
      /\ Tail(batch) \in Seq(Updates) /\ Len(Tail(batch)) = Len(batch) - 1
      /\ \A i \in 1 .. Len(Tail(batch)) : i + 1 \in 1 .. Len(batch) /\ Tail(batch)[i] = batch[i + 1]
  BY <1>1, <1>2, UpdateIds DEF IntakeTypeOK
<1>4. offset' = IF h >= offset THEN h + 1 ELSE offset
  BY DEF Take
<1>. HIDE DEF h
<1>5. \/ /\ completed' = completed \cup {h} /\ UNCHANGED <<active, started, startedIn>>
      \/ /\ active' = [active EXCEPT ![h] = @ + 1]
         /\ started' = [started EXCEPT ![h] = @ + 1]
         /\ startedIn' = [startedIn EXCEPT ![h] = runs]
         /\ UNCHANGED completed
  BY DEF Take, StartHandler, h
<1>6. IntakeTypeOK'
  <2>1. offset' \in Nat /\ Len(batch') <= Cardinality(Updates)
    BY <1>1, <1>2, <1>3, <1>4, FS_CardinalityType, IntakeAssumption DEF IntakeTypeOK
  <2>2. active' \in [Updates -> Nat] /\ started' \in [Updates -> Nat] /\ startedIn' \in [Updates -> Nat]
    <3>1. active \in [Updates -> Nat] /\ started \in [Updates -> Nat] /\ startedIn \in [Updates -> Nat] /\ runs \in Nat
      BY <1>1 DEF IntakeTypeOK
    <3>2. /\ [active EXCEPT ![h] = @ + 1] \in [Updates -> Nat] /\ [started EXCEPT ![h] = @ + 1] \in [Updates -> Nat]
          /\ [startedIn EXCEPT ![h] = runs] \in [Updates -> Nat]
      BY <1>3, <3>1, Counted
    <3>. QED  BY <1>5, <3>1, <3>2
  <2>3. completed' \subseteq Updates
    BY <1>1, <1>3, <1>5 DEF IntakeTypeOK
  <2>. QED  BY <1>1, <1>2, <1>3, <2>1, <2>2, <2>3 DEF IntakeTypeOK
<1>7. mode = "polling" /\ h >= offset /\ offset' = h + 1 /\ arrived[h] > 0
  BY <1>1, <1>2, <1>3, <1>4 DEF Groundwork, BatchAhead, IntakeTypeOK
<1>8. ArrivedInOrder' /\ NothingBegun'
  <2>1. ArrivedInOrder'
    <3>1. \A u \in Updates : started'[u] > 0 => started[u] > 0 \/ u = h
      BY <1>1, <1>5 DEF IntakeTypeOK
    <3>2. \A u \in Updates : startedIn'[u] = startedIn[u] \/ (u = h /\ startedIn'[u] = runs)
      BY <1>1, <1>5 DEF IntakeTypeOK
    <3>3. \A u \in Updates : startedIn'[u] <= runs
      <4>1. runs \in Nat /\ \A u \in Updates : startedIn[u] <= runs
        BY <1>1 DEF Groundwork, ArrivedInOrder, IntakeTypeOK
      <4>. QED  BY <3>2, <4>1
    <3>4. \A u \in Updates : u \in queue \/ started'[u] > 0 => arrived[u] > 0
      BY <1>1, <1>7, <3>1 DEF Groundwork, ArrivedInOrder
    <3>. QED  BY <1>1, <1>2, <3>3, <3>4 DEF Groundwork, ArrivedInOrder
  <2>. QED  BY <1>1, <1>2, <2>1 DEF Groundwork, NothingBegun
<1>9. BatchAhead'
  <2>1. \A u \in Updates : u < offset' => arrived[u] > 0
    <3>. SUFFICES ASSUME NEW u \in Updates, u < h + 1 PROVE arrived[u] > 0
      BY <1>7
    <3>1. u = h \/ u < h
      BY <1>3, UpdateIds
    <3>. QED  BY <1>1, <1>3, <1>7, <3>1 DEF Groundwork, ArrivedInOrder
  <2>2. \A i \in 1 .. Len(batch') : batch'[i] >= offset' /\ arrived[batch'[i]] > 0
    <3>. SUFFICES ASSUME NEW i \in 1 .. Len(Tail(batch)) PROVE batch[i + 1] >= h + 1 /\ arrived[batch[i + 1]] > 0
      BY <1>2, <1>3, <1>7
    <3>1. i + 1 \in 1 .. Len(batch) /\ 1 < i + 1
      BY <1>3
    <3>2. h < batch[i + 1] /\ arrived[batch[i + 1]] > 0
      BY <1>1, <1>3, <1>7, <3>1 DEF Groundwork, BatchAhead
    <3>3. batch[i + 1] \in Nat
      <4>1. batch \in Seq(Updates)
        BY <1>1 DEF IntakeTypeOK
      <4>2. batch[i + 1] \in Updates
        BY <3>1, <4>1
      <4>. QED  BY <4>2, UpdateIds
    <3>. QED  BY <1>3, <3>2, <3>3
  <2>3. \A i, j \in 1 .. Len(batch') : i < j => batch'[i] < batch'[j]
    <3>. SUFFICES ASSUME NEW i \in 1 .. Len(Tail(batch)), NEW j \in 1 .. Len(Tail(batch)), i < j
                  PROVE  batch[i + 1] < batch[j + 1]
      BY <1>2, <1>3
    <3>1. i + 1 \in 1 .. Len(batch) /\ j + 1 \in 1 .. Len(batch) /\ i + 1 < j + 1
      BY <1>3
    <3>. QED  BY <1>1, <1>7, <3>1 DEF Groundwork, BatchAhead
  <2>. QED  BY <1>2, <1>7, <2>1, <2>2, <2>3 DEF BatchAhead
<1>10. OffsetBehind'
  <2>1. runs > 0 /\ \A u \in Updates : startedIn[u] = runs => u < offset
    BY <1>1, <1>2, <1>7 DEF Groundwork, OffsetBehind
  <2>2. \A u \in Updates : startedIn'[u] = runs => u < offset'
    <3>1. \A u \in Updates : startedIn'[u] = startedIn[u] \/ u = h
      BY <1>1, <1>5 DEF IntakeTypeOK
    <3>2. ASSUME NEW u \in Updates, u < offset \/ u = h
          PROVE  u < h + 1
      <4>1. u \in Nat /\ h \in Nat /\ offset \in Nat /\ h >= offset
        BY <1>1, <1>3, <1>7, UpdateIds DEF IntakeTypeOK
      <4>. QED  BY <3>2, <4>1
    <3>. QED  BY <1>7, <2>1, <3>1, <3>2
  <2>3. \A u \in Updates : active'[u] > 0 => u = h /\ startedIn'[u] = runs
    BY <1>1, <1>2, <1>3, <1>5 DEF IntakeTypeOK
  <2>. QED  BY <1>2, <1>7, <2>1, <2>2, <2>3 DEF OffsetBehind
<1>11. \A u \in queue : u < offset' => u < offset \/ u = h \/ (u >= offset /\ u < h)
  BY <1>1, <1>3, <1>7, UpdateIds DEF IntakeTypeOK
<1>12. h \in completed' \/ active'[h] > 0
  BY <1>1, <1>2, <1>3, <1>5 DEF IntakeTypeOK
<1>13. KeepsBacklog'
  <2>. SUFFICES ASSUME ~drop
                PROVE  /\ \A u \in queue : u < offset' => u \in completed' \/ active'[u] > 0
                       /\ Tail(batch) # <<>> =>
                            \A u \in queue : u >= offset' =>
                              \/ \E i \in 1 .. Len(Tail(batch)) : Tail(batch)[i] = u
                              \/ \A i \in 1 .. Len(Tail(batch)) : Tail(batch)[i] < u
    BY <1>2 DEF KeepsBacklog
  <2>1. /\ \A u \in queue : u < offset => u \in completed \/ active[u] > 0
        /\ \A u \in queue : u >= offset =>
             (\E i \in 1 .. Len(batch) : batch[i] = u) \/ (\A i \in 1 .. Len(batch) : batch[i] < u)
    BY <1>1, <1>2, <1>7 DEF Groundwork, KeepsBacklog
  <2>2. ASSUME NEW u \in queue, u < offset'
        PROVE  u \in completed' \/ active'[u] > 0
    <3>1. u \in Updates /\ completed \subseteq completed'
      BY <1>1, <1>5 DEF IntakeTypeOK
    <3>2. CASE u < offset
      <4>1. u \in completed
        BY <1>2, <2>1, <3>1, <3>2
      <4>. QED  BY <3>1, <4>1
    <3>3. CASE u = h
      BY <1>12, <3>3
    <3>4. CASE u >= offset /\ u < h
      <4>1. ~(\A i \in 1 .. Len(batch) : batch[i] < u)
        <5>1. ~(h < u)
          BY <1>3, <3>1, <3>4, UpdateIds
        <5>. QED  BY <1>3, <5>1
      <4>2. PICK i \in 1 .. Len(batch) : batch[i] = u
        BY <2>1, <3>4, <4>1
      <4>3. i = 1 \/ (1 < i /\ h < u)
        BY <1>1, <1>3, <1>7, <4>2 DEF Groundwork, BatchAhead
      <4>. QED  BY <1>3, <3>1, <3>4, <4>2, <4>3, UpdateIds
    <3>. QED  BY <1>11, <2>2, <3>2, <3>3, <3>4
  <2>3. ASSUME NEW u \in queue, u >= offset'
        PROVE  \/ \E i \in 1 .. Len(Tail(batch)) : Tail(batch)[i] = u
               \/ \A i \in 1 .. Len(Tail(batch)) : Tail(batch)[i] < u
    <3>1. u \in Updates /\ u \in Nat /\ h < u /\ u >= offset
      <4>1. u \in Updates /\ u \in Nat /\ offset \in Nat /\ u >= h + 1
        BY <1>1, <1>7, <2>3, UpdateIds DEF IntakeTypeOK
      <4>. QED  BY <1>3, <1>7, <4>1
    <3>2. CASE \E i \in 1 .. Len(batch) : batch[i] = u
      <4>1. PICK i \in 1 .. Len(batch) : batch[i] = u
        BY <3>2
      <4>2. i # 1 /\ i - 1 \in 1 .. Len(Tail(batch)) /\ Tail(batch)[i - 1] = batch[(i - 1) + 1] /\ (i - 1) + 1 = i
        <5>1. i # 1
          BY <1>3, <3>1, <4>1
        <5>2. i - 1 \in 1 .. Len(Tail(batch)) /\ (i - 1) + 1 = i
          BY <1>1, <1>3, <5>1 DEF IntakeTypeOK
        <5>. QED  BY <1>3, <5>1, <5>2
      <4>. QED  BY <4>1, <4>2
    <3>3. CASE \A i \in 1 .. Len(batch) : batch[i] < u
      BY <1>3, <3>3
    <3>. QED  BY <2>1, <3>1, <3>2, <3>3
  <2>. QED  BY <2>2, <2>3
<1>14. drop => /\ \A u \in queue : arrived[u] = runs + 1 /\ (u >= offset => started[u] = 0)
               /\ \A i \in 1 .. Len(batch) : arrived[batch[i]] = runs + 1 /\ started[batch[i]] = 0
  BY <1>1, <1>2, <1>7 DEF Groundwork, DropsBacklog
<1>15. DropsBacklog'
  <2>. SUFFICES ASSUME drop
                PROVE  /\ \A u \in queue : arrived[u] = runs + 1 /\ (u >= offset' => started'[u] = 0)
                       /\ \A i \in 1 .. Len(Tail(batch)) :
                            arrived[Tail(batch)[i]] = runs + 1 /\ started'[Tail(batch)[i]] = 0
    BY <1>2 DEF DropsBacklog
  <2>1. \A u \in Updates : u # h => started'[u] = started[u]
    BY <1>1, <1>5 DEF IntakeTypeOK
  <2>2. ASSUME NEW u \in queue
        PROVE  u \in Updates /\ (u >= offset' => u # h /\ u >= offset)
    <3>1. u \in Updates /\ u \in Nat /\ offset \in Nat
      BY <1>1, UpdateIds DEF IntakeTypeOK
    <3>. QED  BY <1>3, <1>7, <3>1
  <2>3. ASSUME NEW i \in 1 .. Len(Tail(batch))
        PROVE  Tail(batch)[i] = batch[i + 1] /\ i + 1 \in 1 .. Len(batch) /\ batch[i + 1] \in Updates /\ batch[i + 1] # h
    <3>1. Tail(batch)[i] = batch[i + 1] /\ i + 1 \in 1 .. Len(batch) /\ 1 < i + 1 /\ batch[i + 1] \in Updates
      BY <1>1, <1>3 DEF IntakeTypeOK
    <3>2. h < batch[i + 1]
      BY <1>1, <1>3, <1>7, <3>1 DEF Groundwork, BatchAhead
    <3>. QED  BY <1>3, <3>1, <3>2, UpdateIds
  <2>. QED  BY <1>14, <2>1, <2>2, <2>3
<1>16. drop => started[h] = 0 /\ arrived[h] = runs + 1
  BY <1>3, <1>14
<1>17. AtMostOnce' /\ CleanStart'
  <2>1. AtMostOnce'
    BY <1>1, <1>2, <1>3, <1>5, <1>16 DEF UpdatesKept, AtMostOnce, IntakeTypeOK
  <2>2. CleanStart'
    <3>. SUFFICES ASSUME drop, NEW u \in Updates, started'[u] > 0
                  PROVE  startedIn'[u] = arrived[u] - 1
      BY <1>2 DEF CleanStart
    <3>1. CASE started[u] > 0 /\ startedIn'[u] = startedIn[u]
      BY <1>1, <1>7, <3>1 DEF UpdatesKept, CleanStart
    <3>2. CASE u = h /\ startedIn'[u] = runs
      BY <1>1, <1>16, <3>2 DEF IntakeTypeOK
    <3>. QED  BY <1>1, <1>3, <1>5, <1>16, <3>1, <3>2 DEF IntakeTypeOK
  <2>. QED  BY <2>1, <2>2
<1>18. NothingLost'
  <2>1. completed \subseteq completed' /\ \A u \in Updates : Arrived(u)' => Arrived(u)
    BY <1>1, <1>2, <1>5, <1>7, <1>8 DEF Arrived, ArrivedInOrder
  <2>. QED  BY <1>1, <1>2, <2>1 DEF UpdatesKept, NothingLost
<1>. QED  BY <1>6, <1>8, <1>9, <1>10, <1>13, <1>15, <1>17, <1>18, OrderFollowsNext
          DEF IntakeState, IntakeInv, UpdatesKept, Groundwork

\* Handlers of a webhook only have to keep their counts.
LEMMA WebhookKeeps ==
  ASSUME IntakeState, IntakeTypeOK', mode = "webhook", bot # "off", bot' = bot,
         UNCHANGED <<mode, drop, arrived, runs, batch>>, queue' \subseteq queue,
         \A u \in Updates : (started'[u] > 0 => u \in queue \/ started[u] > 0) /\ startedIn'[u] \in {startedIn[u], runs}
  PROVE  IntakeState'
<1>1. IntakeTypeOK /\ Groundwork
  BY DEF IntakeState, IntakeInv, Groundwork
<1>2. ArrivedInOrder'
  <2>1. runs \in Nat /\ startedIn \in [Updates -> Nat] /\ queue \subseteq Updates
    BY <1>1 DEF IntakeTypeOK
  <2>2. \A u \in Updates : startedIn'[u] <= runs
    BY <1>1, <2>1 DEF Groundwork, ArrivedInOrder
  <2>. QED  BY <1>1, <2>2 DEF Groundwork, ArrivedInOrder
<1>3. NothingBegun' /\ BatchAhead' /\ OffsetBehind' /\ KeepsBacklog' /\ DropsBacklog'
  BY <1>1 DEF Groundwork, NothingBegun, BatchAhead, OffsetBehind, KeepsBacklog, DropsBacklog
<1>4. UpdatesKept'
  BY DEF UpdatesKept, AtMostOnce, NothingLost, CleanStart, InOrder
<1>. QED  BY <1>2, <1>3, <1>4 DEF IntakeState, IntakeInv

LEMMA DeliverKeeps ==
  ASSUME IntakeState, Deliver
  PROVE  IntakeState'
<1>. USE DEF intakeSettings
<1>1. IntakeTypeOK /\ mode = "webhook" /\ bot # "off"
      /\ UNCHANGED <<mode, drop, bot, cancelled, webhook, offset, batch, arrived, runs>>
  BY DEF IntakeState, Deliver, StartHandler
<1>2. PICK u \in queue :
        /\ queue' \in {queue, queue \ {u}}
        /\ \/ completed' = completed \cup {u} /\ UNCHANGED <<active, started, startedIn>>
           \/ /\ active' = [active EXCEPT ![u] = @ + 1]
              /\ started' = [started EXCEPT ![u] = @ + 1]
              /\ startedIn' = [startedIn EXCEPT ![u] = runs]
              /\ UNCHANGED completed
  BY DEF Deliver, StartHandler
<1>3. u \in Updates
  BY <1>1 DEF IntakeTypeOK
<1>4. active' \in [Updates -> Nat] /\ started' \in [Updates -> Nat] /\ startedIn' \in [Updates -> Nat]
  <2>1. active \in [Updates -> Nat] /\ started \in [Updates -> Nat] /\ startedIn \in [Updates -> Nat] /\ runs \in Nat
    BY <1>1 DEF IntakeTypeOK
  <2>. QED  BY <1>2, <1>3, <2>1, Counted
<1>5. IntakeTypeOK'
  <2>1. queue' \subseteq Updates /\ completed' \subseteq Updates
    BY <1>1, <1>2, <1>3 DEF IntakeTypeOK
  <2>. QED  BY <1>1, <1>4, <2>1 DEF IntakeTypeOK
<1>6. \A v \in Updates : /\ started'[v] > 0 => v \in queue \/ started[v] > 0
                         /\ startedIn'[v] \in {startedIn[v], runs}
  BY <1>1, <1>2, <1>3 DEF IntakeTypeOK
<1>. QED  BY <1>1, <1>2, <1>5, <1>6, WebhookKeeps

\* A handler of polling that fails ends it; nothing is fetched after that.
LEMMA HandlerReturnsKeeps ==
  ASSUME IntakeState, HandlerReturns
  PROVE  IntakeState'
<1>. USE DEF intakeSettings
<1>1. IntakeTypeOK /\ Groundwork /\ UpdatesKept
  BY DEF IntakeState, IntakeInv, Groundwork
<1>2. UNCHANGED <<mode, drop, cancelled, queue, webhook, offset, batch, started, arrived, startedIn, runs>>
  BY DEF HandlerReturns
<1>3. PICK u \in Updates :
        /\ active[u] > 0
        /\ active' = [active EXCEPT ![u] = @ - 1]
        /\ \/ completed' = completed \cup {u} /\ UNCHANGED bot
           \/ UNCHANGED completed /\ bot' = IF mode = "polling" THEN "failed" ELSE bot
           \/ UNCHANGED completed /\ bot' = IF mode = "polling" THEN "stopped" ELSE bot
  BY DEF HandlerReturns
<1>4. active' \in [Updates -> Nat] /\ \A v \in Updates : active'[v] > 0 => active[v] > 0
  BY <1>1, <1>3 DEF IntakeTypeOK
<1>5. bot' \in {"off", "starting", "listening", "on", "failed", "stopped"} /\ completed' \subseteq Updates
  BY <1>1, <1>3 DEF IntakeTypeOK
<1>6. IntakeTypeOK'
  BY <1>1, <1>2, <1>4, <1>5 DEF IntakeTypeOK
<1>7. bot # "off" /\ (mode = "polling" => bot # "starting")
  BY <1>1, <1>3 DEF Groundwork, NothingBegun, IntakeTypeOK
<1>8. CASE mode = "webhook"
  <2>1. bot' = bot /\ \A v \in Updates : startedIn'[v] \in {startedIn[v], runs} /\ (started'[v] > 0 => started[v] > 0)
    BY <1>2, <1>3, <1>8
  <2>. QED  BY <1>2, <1>6, <1>7, <1>8, <2>1, WebhookKeeps
<1>9. CASE mode = "polling"
  <2>1. bot' \in {bot, "failed", "stopped"}
    BY <1>3, <1>9
  <2>2. ArrivedInOrder' /\ BatchAhead'
    BY <1>1, <1>2 DEF Groundwork, ArrivedInOrder, BatchAhead
  <2>3. NothingBegun' /\ OffsetBehind'
    <3>1. NothingBegun'
      BY <1>1, <1>2, <1>7, <1>9, <2>1 DEF Groundwork, NothingBegun
    <3>. QED  BY <1>1, <1>2, <1>4, <1>7, <1>9, <3>1 DEF Groundwork, OffsetBehind
  <2>4. DropsBacklog'
    BY <1>1, <1>2, <2>1 DEF Groundwork, DropsBacklog
  <2>5. KeepsBacklog'
    <3>. SUFFICES ASSUME bot' = "on" PROVE KeepsBacklog'
      BY DEF KeepsBacklog
    <3>1. bot = "on" /\ completed' = completed \cup {u}
      BY <1>3, <1>9, <2>1
    <3>2. \A v \in Updates : v \in completed \/ active[v] > 0 => v \in completed' \/ active'[v] > 0
      BY <1>1, <1>3, <3>1 DEF IntakeTypeOK
    <3>. QED  BY <1>1, <1>2, <3>1, <3>2 DEF Groundwork, KeepsBacklog, IntakeTypeOK
  <2>6. AtMostOnce' /\ NothingLost' /\ CleanStart'
    <3>1. completed \subseteq completed'
      BY <1>3
    <3>. QED  BY <1>1, <1>2, <3>1 DEF UpdatesKept, AtMostOnce, NothingLost, CleanStart, Arrived
  <2>. QED  BY <1>6, <2>2, <2>3, <2>4, <2>5, <2>6, OrderFollowsNext DEF IntakeState, IntakeInv, UpdatesKept, Groundwork
<1>. QED  BY <1>1, <1>8, <1>9 DEF IntakeTypeOK

LEMMA IntakeNextKeeps ==
  ASSUME IntakeState, IntakeNext
  PROVE  IntakeState'
BY ArriveKeeps, DeleteWebhookKeeps, GetUpdatesKeeps, TakeKeeps, ListenKeeps, SetWebhookKeeps, DeliverKeeps,
   HandlerReturnsKeeps, ServeFailsKeeps, StopPollKeeps DEF IntakeNext

(* ------------------------------ process, by step ------------------------------ *)

ProcessState ==
  /\ token \in BOOLEAN /\ parts \in Configurations
  /\ phase \in {"down", "building", "running", "brain_only", "draining", "closing"}
  /\ step \in 1 .. Len(BuildSteps) + 1
  /\ open \subseteq Resources /\ orphans \subseteq Workers
  /\ worker \in [Workers -> {"off", "running", "stopped", "failed"}]
  /\ exit \in {"none", "ok", "error"}
  /\ phase = "down" => open = {} /\ bot = "off"

LEMMA ProcessTypeSplit == ProcessTypeOK <=> IntakeTypeOK /\ FaultsTypeOK /\ ProcessState
BY DEF ProcessTypeOK, ProcessState

LEMMA FaultsStay ==
  ASSUME FaultsTypeOK, faults' = faults \/ (faults < MaxEvents /\ faults' = faults + 1)
  PROVE  FaultsTypeOK'
BY FaultsAssumption DEF FaultsTypeOK

\* Awaited is "ok" when all it waits for ended.
LEMMA AwaitedOk ==
  ASSUME ProcessState, PhaseFits, phase # "down", Awaited(AwaitOrder) = "ok"
  PROVE  \A w \in Workers : worker[w] \in {"off", "stopped"}
<1>. DEFINE Ended(i) == worker[AwaitOrder[i]] \in {"off", "stopped"}
<1>1. \A i \in 1 .. Len(AwaitOrder) : Ended(i)
  BY DEF Awaited
<1>2. CASE token
  <2>1. AwaitOrder = <<"watch", "visual", "memory">>
    BY <1>2 DEF AwaitOrder
  <2>2. Ended(1) /\ Ended(2) /\ Ended(3)
    BY <1>1, <2>1
  <2>. QED  BY <2>1, <2>2 DEF Workers
<1>3. CASE ~token
  <2>1. AwaitOrder = <<"memory">>
    BY <1>3 DEF AwaitOrder
  <2>2. Ended(1)
    BY <1>1, <2>1
  <2>. QED  BY <1>3, <2>1, <2>2 DEF Workers, PhaseFits
<1>. QED  BY <1>2, <1>3

\* The process without the intake.
ProcessRest == FaultsTypeOK /\ ProcessState /\ PhaseFits /\ EndsClean

LEMMA SplitInv == ProcessIInv <=> IntakeState /\ ProcessRest
BY ProcessTypeSplit DEF ProcessIInv, IntakeState, ProcessRest

LEMMA IntakeUntouched ==
  ASSUME IntakeState, UNCHANGED intake
  PROVE  IntakeState'
<1>1. cancelled' \in BOOLEAN /\ UNCHANGED <<mode, drop, bot, queue, webhook, offset, batch, active, intakeHistory>>
  BY DEF IntakeState, IntakeTypeOK, intake, intakeHistory
<1>. QED  BY <1>1, IntakeSame

LEMMA StartProcessKeeps ==
  ASSUME IntakeState, ProcessRest, StartProcess
  PROVE  IntakeState' /\ ProcessRest'
<1>1. IntakeState' /\ bot' = "off"
  <2>1. UNCHANGED intake
    BY DEF StartProcess, IntakeStays
  <2>. QED  BY <2>1, IntakeUntouched DEF StartProcess, ProcessRest, ProcessState, intake
<1>2. FaultsTypeOK'
  BY FaultsStay DEF StartProcess, ProcessRest
<1>3. ProcessState'
  BY <1>1 DEF StartProcess, ProcessRest, ProcessState, processSettings, BuildSteps, Workers
<1>4. PhaseFits' /\ EndsClean'
  BY <1>1 DEF StartProcess, ProcessRest, PhaseFits, EndsClean, Workers
<1>. QED  BY <1>1, <1>2, <1>3, <1>4 DEF ProcessRest

LEMMA BuildStepKeeps ==
  ASSUME IntakeState, ProcessRest, BuildStep
  PROVE  IntakeState' /\ ProcessRest'
<1>1. /\ phase = "building" /\ step \in 1 .. Len(BuildSteps)
      /\ UNCHANGED <<token, parts, worker, orphans>>
  BY DEF BuildStep, ProcessRest, ProcessState, processSettings, BuildSteps
<1>2. \/ /\ UNCHANGED intake /\ step' = step + 1 /\ UNCHANGED <<phase, exit>>
         /\ open' = open \/ \E s \in Resources : open' = open \cup {s}
      \/ /\ IntakeLost /\ step' = step /\ phase' = "down" /\ exit' = "error" /\ open' = {}
  BY DEF BuildStep, IntakeStays, GiveUp
<1>3. faults' = faults \/ (faults < MaxEvents /\ faults' = faults + 1)
  BY DEF BuildStep, CanFail, Fault, NoFault
<1>4. IntakeState' /\ bot' = "off"
  <2>1. bot = "off"
    BY <1>1 DEF ProcessRest, PhaseFits
  <2>2. CASE UNCHANGED intake
    BY <2>1, <2>2, IntakeUntouched DEF intake
  <2>3. CASE IntakeLost
    BY <2>3, IntakeLostKeeps DEF IntakeLost
  <2>. QED  BY <1>2, <2>2, <2>3
<1>5. FaultsTypeOK'
  BY <1>3, FaultsStay DEF ProcessRest
<1>6. open' \subseteq Resources /\ step' \in 1 .. Len(BuildSteps) + 1
  BY <1>1, <1>2 DEF ProcessRest, ProcessState, BuildSteps
<1>7. ProcessState'
  BY <1>1, <1>2, <1>4, <1>6 DEF ProcessRest, ProcessState
<1>8. PhaseFits' /\ EndsClean'
  BY <1>1, <1>2, <1>4 DEF ProcessRest, PhaseFits, EndsClean
<1>. QED  BY <1>4, <1>5, <1>7, <1>8 DEF ProcessRest

LEMMA StartWorkersKeeps ==
  ASSUME IntakeState, ProcessRest, StartWorkers
  PROVE  IntakeState' /\ ProcessRest'
<1>1. /\ phase = "building" /\ bot = "off" /\ exit = "none" /\ UNCHANGED <<token, parts, step, open, exit, orphans, faults>>
      /\ worker' = [w \in Workers |-> IF Wanted(w) THEN "running" ELSE "off"]
  BY DEF StartWorkers, processSettings, ProcessRest, PhaseFits, EndsClean
<1>2. CASE token
  <2>1. phase' = "running" /\ StartPoll /\ UNCHANGED cancelled
    BY <1>2 DEF StartWorkers
  <2>2. IntakeState'
    BY <1>1, <2>1, StartPollKeeps
  <2>3. FaultsTypeOK' /\ ProcessState'
    BY <1>1, <2>1 DEF ProcessRest, ProcessState, FaultsTypeOK
  <2>4. PhaseFits' /\ EndsClean'
    BY <1>1, <1>2, <2>1 DEF ProcessRest, PhaseFits, EndsClean
  <2>. QED  BY <2>2, <2>3, <2>4 DEF ProcessRest
<1>3. CASE ~token
  <2>1. phase' = "brain_only" /\ UNCHANGED intake
    BY <1>3 DEF StartWorkers, IntakeStays
  <2>2. IntakeState' /\ bot' = "off"
    BY <1>1, <2>1, IntakeUntouched DEF intake
  <2>3. FaultsTypeOK' /\ ProcessState'
    BY <1>1, <2>1 DEF ProcessRest, ProcessState, FaultsTypeOK
  <2>4. worker'["watch"] = "off" /\ worker'["visual"] = "off"
    BY <1>1, <1>3 DEF Wanted, Workers
  <2>5. PhaseFits' /\ EndsClean'
    BY <1>1, <1>3, <2>1, <2>2, <2>4 DEF ProcessRest, PhaseFits, EndsClean
  <2>. QED  BY <2>2, <2>3, <2>5 DEF ProcessRest
<1>. QED  BY <1>2, <1>3

LEMMA SignalKeeps ==
  ASSUME IntakeState, ProcessRest, Signal
  PROVE  IntakeState' /\ ProcessRest'
<1>1. /\ UNCHANGED <<process, mode, drop, bot, queue, webhook, offset, batch, active, intakeHistory>>
      /\ cancelled' \in BOOLEAN
      /\ faults < MaxEvents /\ faults' = faults + 1
  BY DEF Signal, CanFail, Fault
<1>2. IntakeState'
  BY <1>1, IntakeSame
<1>3. FaultsTypeOK'
  BY <1>1, FaultsStay DEF ProcessRest
<1>4. ProcessState' /\ PhaseFits' /\ EndsClean'
  BY <1>1 DEF ProcessRest, ProcessState, PhaseFits, EndsClean, process
<1>. QED  BY <1>2, <1>3, <1>4 DEF ProcessRest

\* A worker that ends was running.
LEMMA WorkerEndsKeeps ==
  ASSUME IntakeState, ProcessRest, NEW w \in Workers, worker[w] = "running", phase # "down",
         NEW how \in {"stopped", "failed"}, worker' = [worker EXCEPT ![w] = how],
         UNCHANGED <<intake, token, parts, phase, step, open, exit, orphans>>,
         faults' = faults \/ (faults < MaxEvents /\ faults' = faults + 1)
  PROVE  IntakeState' /\ ProcessRest'
<1>1. IntakeState' /\ bot' = bot
  BY IntakeUntouched DEF intake
<1>2. FaultsTypeOK'
  BY FaultsStay DEF ProcessRest
<1>3. worker' \in [Workers -> {"off", "running", "stopped", "failed"}]
  BY DEF ProcessRest, ProcessState
<1>4. ProcessState'
  BY <1>1, <1>3 DEF ProcessRest, ProcessState
<1>5. \A v \in Workers : worker[v] = "off" => worker'[v] = "off"
  BY DEF ProcessRest, ProcessState
<1>6. phase # "building" /\ ~(phase = "closing" /\ exit = "ok")
  BY DEF ProcessRest, PhaseFits, EndsClean
<1>7. PhaseFits'
  BY <1>1, <1>5, <1>6 DEF ProcessRest, PhaseFits, Workers
<1>8. EndsClean'
  BY <1>6 DEF ProcessRest, EndsClean
<1>. QED  BY <1>1, <1>2, <1>4, <1>7, <1>8 DEF ProcessRest

LEMMA WorkerStopsKeeps ==
  ASSUME IntakeState, ProcessRest, NEW w \in Workers, WorkerStops(w)
  PROVE  IntakeState' /\ ProcessRest'
<1>1. /\ worker[w] = "running" /\ phase # "down" /\ worker' = [worker EXCEPT ![w] = "stopped"]
      /\ UNCHANGED <<intake, token, parts, phase, step, open, exit, orphans>> /\ faults' = faults
  BY DEF WorkerStops, IntakeStays, processSettings
<1>. QED  BY <1>1, WorkerEndsKeeps

LEMMA WatchFailsKeeps ==
  ASSUME IntakeState, ProcessRest, WatchFails
  PROVE  IntakeState' /\ ProcessRest'
<1>1. /\ worker["watch"] = "running" /\ phase # "down" /\ worker' = [worker EXCEPT !["watch"] = "failed"]
      /\ UNCHANGED <<intake, token, parts, phase, step, open, exit, orphans>>
      /\ faults < MaxEvents /\ faults' = faults + 1
  BY DEF WatchFails, IntakeStays, processSettings, CanFail, Fault
<1>2. "watch" \in Workers
  BY DEF Workers
<1>. QED  BY <1>1, <1>2, WorkerEndsKeeps

LEMMA ForegroundEndsKeeps ==
  ASSUME IntakeState, ProcessRest, ForegroundEnds
  PROVE  IntakeState' /\ ProcessRest'
<1>1. /\ phase = "running" /\ UNCHANGED <<token, parts, step, open, worker, orphans, faults>>
      /\ UNCHANGED <<mode, drop, bot, queue, webhook, offset, batch, active, intakeHistory>>
      /\ cancelled' \in BOOLEAN
      /\ \/ phase' = "closing" /\ exit' = "error"
         \/ phase' = "draining" /\ exit' = exit
  BY DEF ForegroundEnds, processSettings
<1>2. IntakeState'
  BY <1>1, IntakeSame
<1>3. FaultsTypeOK' /\ ProcessState'
  BY <1>1 DEF ProcessRest, ProcessState, FaultsTypeOK
<1>4. PhaseFits' /\ EndsClean'
  BY <1>1 DEF ProcessRest, PhaseFits, EndsClean
<1>. QED  BY <1>2, <1>3, <1>4 DEF ProcessRest

LEMMA DrainKeeps ==
  ASSUME IntakeState, ProcessRest, Drain
  PROVE  IntakeState' /\ ProcessRest'
<1>1. /\ phase \in {"draining", "brain_only"} /\ phase' = "closing" /\ exit' = Awaited(AwaitOrder) /\ exit' # "none"
      /\ UNCHANGED <<intake, token, parts, step, open, worker, orphans, faults>>
  BY DEF Drain, IntakeStays, processSettings
<1>2. IntakeState' /\ bot' = bot
  BY <1>1, IntakeUntouched DEF intake
<1>3. exit' \in {"ok", "error"}
  BY <1>1 DEF Awaited
<1>4. exit' = "ok" => \A w \in Workers : worker[w] \in {"off", "stopped"}
  BY <1>1, AwaitedOk DEF ProcessRest
<1>5. FaultsTypeOK' /\ ProcessState'
  BY <1>1, <1>2, <1>3 DEF ProcessRest, ProcessState, FaultsTypeOK
<1>6. PhaseFits' /\ EndsClean'
  BY <1>1, <1>2, <1>4 DEF ProcessRest, PhaseFits, EndsClean
<1>. QED  BY <1>2, <1>5, <1>6 DEF ProcessRest

LEMMA CloseKeeps ==
  ASSUME IntakeState, ProcessRest, Close
  PROVE  IntakeState' /\ ProcessRest'
<1>1. /\ phase = "closing" /\ phase' = "down" /\ open' = {} /\ IntakeLost
      /\ orphans' = {w \in Workers : worker[w] = "running"}
      /\ UNCHANGED <<token, parts, step, worker, exit, faults>>
  BY DEF Close, processSettings
<1>2. IntakeState' /\ bot' = "off"
  BY <1>1, IntakeLostKeeps DEF IntakeLost
<1>3. FaultsTypeOK' /\ ProcessState'
  BY <1>1, <1>2 DEF ProcessRest, ProcessState, FaultsTypeOK
<1>4. exit = "ok" => orphans' = {} /\ \A w \in Workers : worker[w] \in {"off", "stopped"}
  BY <1>1 DEF ProcessRest, EndsClean
<1>5. PhaseFits' /\ EndsClean'
  BY <1>1, <1>2, <1>4 DEF PhaseFits, EndsClean
<1>. QED  BY <1>2, <1>3, <1>5 DEF ProcessRest

LEMMA KillKeeps ==
  ASSUME IntakeState, ProcessRest, Kill
  PROVE  IntakeState' /\ ProcessRest'
<1>1. /\ phase' = "down" /\ exit' = "error" /\ open' = {} /\ IntakeLost
      /\ UNCHANGED <<token, parts, step, worker, orphans>> /\ faults < MaxEvents /\ faults' = faults + 1
  BY DEF Kill, processSettings, CanFail, Fault
<1>2. IntakeState' /\ bot' = "off"
  BY <1>1, IntakeLostKeeps DEF IntakeLost
<1>3. FaultsTypeOK' /\ ProcessState'
  BY <1>1, <1>2, FaultsStay DEF ProcessRest, ProcessState
<1>4. PhaseFits' /\ EndsClean'
  BY <1>1, <1>2 DEF PhaseFits, EndsClean
<1>. QED  BY <1>2, <1>3, <1>4 DEF ProcessRest

\* Messages arrive and the bot works without the rest of the process noticing.
LEMMA IntakeStepKeeps ==
  ASSUME IntakeState, ProcessRest, UNCHANGED process, IntakeState', bot = "off" => bot' = "off",
         faults' = faults \/ (faults < MaxEvents /\ faults' = faults + 1)
  PROVE  ProcessRest'
<1>1. FaultsTypeOK'
  BY FaultsStay DEF ProcessRest
<1>2. ProcessState' /\ PhaseFits' /\ EndsClean'
  BY DEF ProcessRest, ProcessState, PhaseFits, EndsClean, process
<1>. QED  BY <1>1, <1>2 DEF ProcessRest

LEMMA ForegroundKeeps ==
  ASSUME IntakeState, ProcessRest, Foreground
  PROVE  IntakeState' /\ ProcessRest'
<1>1. phase = "running" /\ IntakeNext /\ UNCHANGED process
  BY DEF Foreground
<1>2. IntakeState'
  BY <1>1, IntakeNextKeeps
<1>3. faults' = faults \/ (faults < MaxEvents /\ faults' = faults + 1)
  BY <1>1 DEF IntakeNext, NoFault, CanFail, Fault, DeleteWebhook, GetUpdates, Take, Listen, SetWebhook, Deliver,
              HandlerReturns, ServeFails, StopPoll
<1>4. bot = "off" => bot' = "off"
  <2>1. bot = "off" => \A u \in Updates : ~(active[u] > 0)
    BY DEF IntakeState, IntakeInv, NothingBegun
  <2>. QED  BY <1>1, <2>1 DEF IntakeNext, Arrive, DeleteWebhook, GetUpdates, Take, Listen, SetWebhook, Deliver,
              HandlerReturns, ServeFails, StopPoll
<1>. QED  BY <1>1, <1>2, <1>3, <1>4, IntakeStepKeeps

(* -------------------------------- theorems -------------------------------- *)

LEMMA ProcessStep == ProcessIInv /\ [ProcessNext]_<<intake, process, faults>> => ProcessIInv'
<1>. SUFFICES ASSUME IntakeState, ProcessRest, [ProcessNext]_<<intake, process, faults>>
              PROVE  IntakeState' /\ ProcessRest'
  <2>1. ProcessIInv' <=> IntakeState' /\ ProcessRest'
    BY ProcessTypeSplit DEF ProcessIInv, IntakeState, ProcessRest, ProcessTypeOK, ProcessState
  <2>. QED  BY <2>1, SplitInv
<1>1. CASE UNCHANGED <<intake, process, faults>>
  BY <1>1, IntakeUntouched, IntakeStepKeeps DEF intake
<1>2. CASE Arrive /\ NoFault /\ UNCHANGED process
  <2>1. IntakeState' /\ bot' = bot
    BY <1>2, ArriveKeeps DEF Arrive
  <2>. QED  BY <1>2, <2>1, IntakeStepKeeps DEF NoFault
<1>3. CASE \E w \in Workers : WorkerStops(w)
  BY <1>3, WorkerStopsKeeps
<1>. QED  BY <1>1, <1>2, <1>3, StartProcessKeeps, BuildStepKeeps, StartWorkersKeeps, SignalKeeps, WatchFailsKeeps,
             ForegroundEndsKeeps, DrainKeeps, CloseKeeps, KillKeeps, ForegroundKeeps DEF ProcessNext

LEMMA ProcessBegins == ProcessInit /\ FaultsInit => ProcessIInv
<1>. SUFFICES ASSUME ProcessInit, FaultsInit PROVE ProcessIInv
  OBVIOUS
<1>1. IntakeState
  BY IntakeInitState DEF ProcessInit
<1>2. FaultsTypeOK /\ ProcessState
  BY FaultsAssumption DEF ProcessInit, FaultsInit, FaultsTypeOK, ProcessState, IntakeInit, BuildSteps
<1>3. PhaseFits /\ EndsClean
  BY DEF ProcessInit, IntakeInit, PhaseFits, EndsClean, Workers
<1>. QED  BY <1>1, <1>2, <1>3, SplitInv DEF ProcessRest

LEMMA ProcessInvariant == ProcessSpec => []ProcessIInv
BY ProcessBegins, ProcessStep, PTL DEF ProcessSpec

\* Polling handles updates one at a time and in order, loses none of a backlog it
\* keeps, and of one it drops handles nothing twice and nothing old, whatever
\* fails and however often the process is started again (pollUpdates,
\* deleteWebhook, getUpdates in internal/telegram/client.go).
THEOREM PollingKeepsUpdates == ProcessSpec => []UpdatesKept
<1>1. ProcessIInv => UpdatesKept
  BY DEF ProcessIInv, IntakeInv
<1>. QED  BY <1>1, ProcessInvariant, PTL

\* The variables have their types, and an exit without an error left no worker
\* running on closed databases and hid no worker's failure (cmd/openlight/agent.go,
\* CloseRuntime).
THEOREM ProcessEndsClean == ProcessSpec => []ProcessInv
<1>1. ProcessIInv => ProcessInv
  BY DEF ProcessIInv, EndsClean, ProcessInv, CleanExit
<1>. QED  BY <1>1, ProcessInvariant, PTL
===============================================================================
