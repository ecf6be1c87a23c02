--------------------------- MODULE ComponentProofs ---------------------------
(***************************************************************************)
(* The components beside the queue and the watches: for every set of       *)
(* calls, services, pages and models.                                      *)
(***************************************************************************)
EXTENDS RemoteCalls, McpClient, VisualWatch, MemoryProvisioning, SkillRegistry, HostServices, Routing, LocalSchedule,
  TLAPS, FiniteSetTheorems

-------------------------------------------------------------------------------
(* An edge and its brain (RemoteCalls): no work is done twice and no file is    *)
(* left behind without a fault.                                                 *)

\* What can be said of one call: work remains as long as it is on its way, and
\* who was told "ok" is not called back.
CallFits(r) ==
  /\ r.ran <= Batches(r.kind)
  /\ r.told = "ok" => r.ran = Batches(r.kind) /\ r.at = "over"
  /\ r.at = "new" => r.ran = 0
  /\ r.at \in {"sent", "brain", "running"} => r.ran < Batches(r.kind)

Holds(r) == r.at = "brain" /\ HasFile(r.kind)
Holding == {c \in CallIds : Holds(call[c])}

CallsIInv ==
  /\ CallsTypeOK /\ FaultsTypeOK
  /\ \A c \in CallIds : CallFits(call[c])
  /\ bfiles >= Cardinality(Holding)
  /\ faults = 0 => bfiles = Cardinality(Holding)

LEMMA BatchesType == \A kind : Batches(kind) \in {1, 2}
BY DEF Batches

\* Only an outcome of "ok" is told as "ok".
LEMMA ToldType ==
  ASSUME NEW kind, NEW outcome
  PROVE  /\ Told(kind, outcome) \subseteq {"ok", "error", "unavailable", "invalid", "offline"}
         /\ outcome # "ok" => "ok" \notin Told(kind, outcome)
         /\ Told(kind, "broken") # {}
<1>1. CASE outcome = "ok"
  BY <1>1, Zenon DEF Told
<1>2. CASE outcome # "ok" /\ kind = "skill"
  BY <1>2 DEF Told
<1>3. CASE outcome # "ok" /\ kind = "generate"
  BY <1>3 DEF Told
<1>4. CASE outcome # "ok" /\ kind \notin {"skill", "generate"}
  BY <1>4 DEF Told
<1>. QED  BY <1>1, <1>2, <1>3, <1>4

\* One call moves.
Moved(c, r) == call' = [d \in CallIds |-> IF d = c THEN r ELSE call[d]]

LEMMA HoldingFinite ==
  CallsTypeOK => IsFiniteSet(Holding) /\ Cardinality(Holding) \in Nat
<1>1. Holding \in SUBSET CallIds
  BY DEF Holding
<1>. QED  BY <1>1, CallsAssumption, FS_Subset, FS_CardinalityType

LEMMA OneMoves ==
  ASSUME CallsIInv, NEW c \in CallIds, NEW r \in CallRecords, Moved(c, r), CallFits(r)
  PROVE  /\ call' \in [CallIds -> CallRecords]
         /\ (\A d \in CallIds : CallFits(call[d]))'
         /\ Cardinality(Holding)' =
              Cardinality(Holding) + (IF Holds(r) THEN 1 ELSE 0) - (IF Holds(call[c]) THEN 1 ELSE 0)
<1>1. call' \in [CallIds -> CallRecords]
  BY DEF Moved, CallsIInv, CallsTypeOK
<1>2. (\A d \in CallIds : CallFits(call[d]))'
  BY DEF Moved, CallsIInv
<1>3. IsFiniteSet(Holding) /\ Cardinality(Holding) \in Nat
  BY HoldingFinite DEF CallsIInv
<1>4. Holding' = IF Holds(r) THEN Holding \cup {c} ELSE Holding \ {c}
  <2>1. \A d \in CallIds : call'[d] = IF d = c THEN r ELSE call[d]
    BY DEF Moved
  <2>. QED  BY <2>1 DEF Holding
<1>5. c \in Holding <=> Holds(call[c])
  BY DEF Holding
<1>6. CASE Holds(r)
  <2>1. Cardinality(Holding') = IF c \in Holding THEN Cardinality(Holding) ELSE Cardinality(Holding) + 1
    BY <1>3, <1>4, <1>6, FS_AddElement
  <2>. QED  BY <1>1, <1>2, <1>3, <1>5, <1>6, <2>1
<1>7. CASE ~Holds(r)
  <2>1. Cardinality(Holding') = IF c \in Holding THEN Cardinality(Holding) - 1 ELSE Cardinality(Holding)
    BY <1>3, <1>4, <1>7, FS_RemoveElement
  <2>. QED  BY <1>1, <1>2, <1>3, <1>5, <1>7, <2>1
<1>. QED  BY <1>6, <1>7

LEMMA MovedBy ==
  ASSUME CallsTypeOK, NEW c \in CallIds, NEW r \in CallRecords, call' = [call EXCEPT ![c] = r]
  PROVE  Moved(c, r)
BY DEF Moved, CallsTypeOK

\* A caller that is told of anything but success: its call stays where it is on
\* the brain, or is over.
LEMMA TellEffect ==
  ASSUME CallsIInv, NEW c \in CallIds, NEW outcome \in {"refused", "broken", "timeout", "unserved", "failed"}, Tell(c, outcome)
  PROVE  /\ \E r \in CallRecords : Moved(c, r) /\ CallFits(r) /\ (Holds(r) <=> Holds(call[c]))
         /\ waiting' \subseteq CallIds
<1>1. PICK t \in Told(call[c].kind, outcome) :
        /\ call' = [call EXCEPT ![c].told = t, ![c].at = IF @ = "sent" THEN "over" ELSE @,
                                ![c].answered = IF outcome \in {"refused", "broken", "timeout"} THEN "no" ELSE outcome]
        /\ waiting' = waiting \ {c}
  BY DEF Tell
<1>. DEFINE r == [call[c] EXCEPT !.told = t, !.at = IF @ = "sent" THEN "over" ELSE @,
                                  !.answered = IF outcome \in {"refused", "broken", "timeout"} THEN "no" ELSE outcome]
<1>2. t \in {"ok", "error", "unavailable", "invalid", "offline"} /\ t # "ok"
  BY <1>1, ToldType
<1>3. call \in [CallIds -> CallRecords] /\ call[c] \in CallRecords
  BY DEF CallsIInv, CallsTypeOK
<1>4. /\ r \in CallRecords
      /\ r.kind = call[c].kind /\ r.ran = call[c].ran /\ r.told = t
      /\ r.at = IF call[c].at = "sent" THEN "over" ELSE call[c].at
  <2>1. \A m \in CallRecords : [m EXCEPT !.told = t] \in CallRecords
    BY <1>2 DEF CallRecords
  <2>2. \A m \in CallRecords : [m EXCEPT !.at = IF @ = "sent" THEN "over" ELSE @] \in CallRecords
    BY DEF CallRecords
  <2>3. \A m \in CallRecords : [m EXCEPT !.answered =
          IF outcome \in {"refused", "broken", "timeout"} THEN "no" ELSE outcome] \in CallRecords
    BY DEF CallRecords
  <2>4. r = [[[call[c] EXCEPT !.told = t] EXCEPT !.at = IF @ = "sent" THEN "over" ELSE @]
               EXCEPT !.answered = IF outcome \in {"refused", "broken", "timeout"} THEN "no" ELSE outcome]
    BY <1>3 DEF CallRecords
  <2>5. r \in CallRecords
    BY <1>3, <2>1, <2>2, <2>3, <2>4
  <2>. QED  BY <1>3, <2>5 DEF CallRecords
<1>5. call' = [call EXCEPT ![c] = r]
  BY <1>1
<1>. HIDE DEF r
<1>6. CallFits(r)
  BY <1>2, <1>4 DEF CallFits, CallsIInv
<1>7. Holds(r) <=> Holds(call[c])
  BY <1>4 DEF Holds
<1>8. CallsTypeOK
  BY DEF CallsIInv
<1>9. Moved(c, r)
  BY <1>4, <1>5, <1>8, MovedBy
<1>. QED  BY <1>1, <1>4, <1>6, <1>7, <1>8, <1>9 DEF CallsTypeOK

\* What remains of the invariant once one call has moved.
LEMMA CallKeeps ==
  ASSUME CallsIInv, NEW c \in CallIds, NEW r \in CallRecords, Moved(c, r), CallFits(r),
         bstage' \in 1 .. Len(BrainStages), UNCHANGED stubs, waiting' \subseteq CallIds,
         \/ NoFault /\ bfiles' = bfiles + (IF Holds(r) THEN 1 ELSE 0) - (IF Holds(call[c]) THEN 1 ELSE 0)
         \/ /\ Fault /\ faults < MaxEvents /\ bfiles' \in Nat
            /\ bfiles' >= bfiles + (IF Holds(r) THEN 1 ELSE 0) - (IF Holds(call[c]) THEN 1 ELSE 0)
  PROVE  CallsIInv'
<1>1. /\ call' \in [CallIds -> CallRecords]
      /\ (\A d \in CallIds : CallFits(call[d]))'
      /\ Cardinality(Holding)' =
           Cardinality(Holding) + (IF Holds(r) THEN 1 ELSE 0) - (IF Holds(call[c]) THEN 1 ELSE 0)
  BY OneMoves
<1>2. Cardinality(Holding) \in Nat /\ bfiles \in Nat /\ faults \in Nat /\ MaxEvents \in Nat
  BY HoldingFinite, FaultsAssumption DEF CallsIInv, CallsTypeOK, FaultsTypeOK
<1>3. bfiles >= Cardinality(Holding) /\ (faults = 0 => bfiles = Cardinality(Holding)) /\ faults <= MaxEvents
  BY FaultsAssumption DEF CallsIInv, FaultsTypeOK
<1>4. Holds(call[c]) => Cardinality(Holding) >= 1
  <2>. SUFFICES ASSUME Holds(call[c]), Cardinality(Holding) = 0 PROVE FALSE
    BY <1>2
  <2>1. Holding = {}
    BY HoldingFinite, FS_EmptySet DEF CallsIInv
  <2>. QED  BY <2>1 DEF Holding
<1>5. FaultsTypeOK' /\ (faults' = 0 => NoFault)
  BY <1>2, <1>3 DEF FaultsTypeOK, Fault, NoFault
<1>6. /\ bfiles' \in Nat /\ bfiles' >= Cardinality(Holding)'
      /\ faults' = 0 => bfiles' = Cardinality(Holding)'
  BY <1>1, <1>2, <1>3, <1>4 DEF Fault, NoFault
<1>7. CallsTypeOK'
  BY <1>1, <1>6 DEF CallsIInv, CallsTypeOK
<1>. QED  BY <1>1, <1>5, <1>6, <1>7 DEF CallsIInv

LEMMA TellKeeps ==
  ASSUME CallsIInv, NEW c \in CallIds, NEW outcome \in {"refused", "broken", "timeout", "unserved", "failed"}, Tell(c, outcome),
         \/ faults' = faults
         \/ faults' = faults + 1 /\ faults < MaxEvents,
         UNCHANGED <<bstage, stubs, bfiles>>
  PROVE  CallsIInv'
<1>1. PICK r \in CallRecords : Moved(c, r) /\ CallFits(r) /\ (Holds(r) <=> Holds(call[c]))
  BY TellEffect
<1>2. waiting' \subseteq CallIds
  BY TellEffect
<1>3. bstage' \in 1 .. Len(BrainStages) /\ bfiles \in Nat
  BY DEF CallsIInv, CallsTypeOK
<1>. QED  BY <1>1, <1>2, <1>3, CallKeeps DEF NoFault, Fault

LEMMA AskBrainKeeps ==
  ASSUME CallsIInv, NEW c \in CallIds, NEW kind \in CallKinds, AskBrain(c, kind)
  PROVE  CallsIInv'
<1>. DEFINE r == [call[c] EXCEPT !.at = "sent", !.kind = kind]
<1>1. call[c] \in CallRecords /\ CallFits(call[c]) /\ call[c].at = "new" /\ CallsTypeOK
  BY DEF CallsIInv, CallsTypeOK, AskBrain
<1>2. r \in CallRecords /\ r.at = "sent" /\ r.kind = kind /\ r.ran = 0 /\ r.told # "ok"
  BY <1>1 DEF CallRecords, CallFits
<1>3. call' = [call EXCEPT ![c] = r]
  BY DEF AskBrain
<1>4. ~Holds(r) /\ ~Holds(call[c])
  BY <1>1, <1>2 DEF Holds
<1>. HIDE DEF r
<1>5. Moved(c, r)
  BY <1>1, <1>2, <1>3, MovedBy
<1>6. CallFits(r)
  <2>1. Batches(kind) \in {1, 2}
    BY BatchesType
  <2>. QED  BY <1>2, <2>1 DEF CallFits
<1>7. bstage' \in 1 .. Len(BrainStages) /\ waiting' \subseteq CallIds /\ bfiles' = bfiles /\ bfiles \in Nat
      /\ UNCHANGED stubs /\ NoFault
  BY <1>1 DEF CallsTypeOK, AskBrain
<1>. QED  BY <1>2, <1>4, <1>5, <1>6, <1>7, CallKeeps

LEMMA HandleKeeps ==
  ASSUME CallsIInv, NEW c \in CallIds, Handle(c)
  PROVE  CallsIInv'
<1>1. /\ call[c] \in CallRecords /\ CallFits(call[c]) /\ call[c].at = "sent" /\ CallsTypeOK
      /\ bstage' \in 1 .. Len(BrainStages) /\ UNCHANGED <<bstage, stubs>> /\ bfiles \in Nat /\ ~Holds(call[c])
  BY DEF CallsIInv, CallsTypeOK, Handle, Holds
<1>2. CASE Tell(c, "unserved") /\ NoFault /\ UNCHANGED bfiles
  <2>1. UNCHANGED <<bstage, stubs, bfiles>>
    BY <1>1, <1>2
  <2>. QED  BY <1>2, <2>1, TellKeeps DEF NoFault
<1>3. CASE Tell(c, "failed") /\ CanFail("write_failed") /\ Fault /\ UNCHANGED bfiles
  BY <1>1, <1>3, TellKeeps DEF CanFail, Fault
<1>4. ASSUME NEW there \in {"brain", "running"}, call' = [call EXCEPT ![c].at = there]
      PROVE  \E r \in CallRecords : Moved(c, r) /\ CallFits(r) /\ r.at = there /\ r.kind = call[c].kind
  <2>. DEFINE r == [call[c] EXCEPT !.at = there]
  <2>1. r \in CallRecords /\ r.at = there /\ r.kind = call[c].kind /\ r.ran = call[c].ran /\ r.told = call[c].told
    BY <1>1 DEF CallRecords
  <2>2. call' = [call EXCEPT ![c] = r]
    BY <1>4
  <2>. HIDE DEF r
  <2>3. Moved(c, r) /\ CallFits(r)
    BY <1>1, <2>1, <2>2, MovedBy DEF CallFits
  <2>. QED  BY <2>1, <2>3
<1>5. CASE /\ call' = [call EXCEPT ![c].at = "brain"]
           /\ bfiles' = IF HasFile(call[c].kind) THEN bfiles + 1 ELSE bfiles
           /\ NoFault /\ UNCHANGED waiting
  <2>1. PICK r \in CallRecords : Moved(c, r) /\ CallFits(r) /\ r.at = "brain" /\ r.kind = call[c].kind
    BY <1>4, <1>5
  <2>2. bfiles' = bfiles + (IF Holds(r) THEN 1 ELSE 0) - (IF Holds(call[c]) THEN 1 ELSE 0)
    BY <1>1, <1>5, <2>1 DEF Holds
  <2>3. waiting' \subseteq CallIds
    BY <1>1, <1>5 DEF CallsTypeOK
  <2>. QED  BY <1>1, <1>5, <2>1, <2>2, <2>3, CallKeeps
<1>6. CASE /\ CanFail("write_failed") /\ call' = [call EXCEPT ![c].at = "running"]
           /\ bfiles' \in {bfiles, bfiles + 1}
           /\ Fault /\ UNCHANGED waiting
  <2>1. PICK r \in CallRecords : Moved(c, r) /\ CallFits(r) /\ r.at = "running" /\ r.kind = call[c].kind
    BY <1>4, <1>6
  <2>2. /\ bfiles' \in Nat /\ faults < MaxEvents
        /\ bfiles' >= bfiles + (IF Holds(r) THEN 1 ELSE 0) - (IF Holds(call[c]) THEN 1 ELSE 0)
    BY <1>1, <1>6, <2>1 DEF Holds, CanFail
  <2>3. waiting' \subseteq CallIds
    BY <1>1, <1>6 DEF CallsTypeOK
  <2>. QED  BY <1>1, <1>6, <2>1, <2>2, <2>3, CallKeeps
<1>. QED  BY <1>2, <1>3, <1>5, <1>6 DEF Handle

LEMMA BrainExecutesKeeps ==
  ASSUME CallsIInv, NEW c \in CallIds, BrainExecutes(c)
  PROVE  CallsIInv'
<1>1. /\ call[c] \in CallRecords /\ CallFits(call[c]) /\ call[c].at \in {"brain", "running"} /\ CallsTypeOK
      /\ bstage' \in 1 .. Len(BrainStages) /\ UNCHANGED <<bstage, stubs>> /\ bfiles \in Nat /\ NoFault
      /\ waiting' \subseteq CallIds
  BY DEF CallsIInv, CallsTypeOK, BrainExecutes
<1>2. PICK outcome \in {"ok", "failed", "model_down"}, done \in {0, 1} :
        /\ bfiles' = RemoveFiles(c, outcome)
        /\ call' = [call EXCEPT ![c].at = "done", ![c].ran = @ + done, ![c].answered = outcome]
  BY DEF BrainExecutes
<1>. DEFINE r == [call[c] EXCEPT !.at = "done", !.ran = @ + done, !.answered = outcome]
<1>3. r \in CallRecords /\ call' = [call EXCEPT ![c] = r]
  <2>1. call[c].ran + done \in Nat
    BY <1>1 DEF CallRecords
  <2>2. r \in CallRecords
    BY <1>1, <2>1 DEF CallRecords
  <2>. QED  BY <1>2, <2>2
<1>4. r.at = "done" /\ r.kind = call[c].kind /\ r.ran = call[c].ran + done /\ r.told = call[c].told
  BY <1>1 DEF CallRecords
<1>. HIDE DEF r
<1>5. Moved(c, r)
  BY <1>1, <1>3, MovedBy
<1>6. CallFits(r)
  BY <1>1, <1>4, BatchesType DEF CallFits, CallRecords
<1>7. bfiles' = bfiles + (IF Holds(r) THEN 1 ELSE 0) - (IF Holds(call[c]) THEN 1 ELSE 0)
  BY <1>1, <1>2, <1>4 DEF Holds, RemoveFiles
<1>. QED  BY <1>1, <1>3, <1>5, <1>6, <1>7, CallKeeps

LEMMA AnswerArrivesKeeps ==
  ASSUME CallsIInv, NEW c \in CallIds, AnswerArrives(c)
  PROVE  CallsIInv'
<1>1. /\ call[c] \in CallRecords /\ CallFits(call[c]) /\ call[c].at = "done" /\ CallsTypeOK /\ ~Holds(call[c])
      /\ bstage' \in 1 .. Len(BrainStages) /\ UNCHANGED <<bstage, stubs, bfiles>> /\ bfiles \in Nat /\ NoFault
      /\ waiting' \subseteq CallIds
  BY DEF CallsIInv, CallsTypeOK, AnswerArrives, Holds
<1>2. ASSUME NEW r \in CallRecords, r.at \in {"over", "sent"}, call' = [call EXCEPT ![c] = r], CallFits(r)
      PROVE  CallsIInv'
  <2>1. Moved(c, r) /\ ~Holds(r)
    BY <1>1, <1>2, MovedBy DEF Holds
  <2>. QED  BY <1>1, <1>2, <2>1, CallKeeps
<1>3. ASSUME NEW r, NEW there \in {"over", "sent"}, r = [call[c] EXCEPT !.at = there],
             there = "over" \/ call[c].ran < Batches(call[c].kind)
      PROVE  r \in CallRecords /\ r.at = there /\ CallFits(r)
  <2>1. /\ r \in CallRecords /\ r.at = there /\ r.kind = call[c].kind /\ r.ran = call[c].ran
        /\ r.told = call[c].told
    BY <1>1, <1>3 DEF CallRecords
  <2>. QED  BY <1>1, <1>3, <2>1 DEF CallFits
<1>4. CASE c \notin waiting
  <2>1. call' = [call EXCEPT ![c] = [call[c] EXCEPT !.at = "over"]]
    BY <1>4 DEF AnswerArrives
  <2>. QED  BY <1>2, <1>3, <2>1
<1>5. CASE c \in waiting /\ call[c].answered = "ok" /\ call[c].ran < Batches(call[c].kind)
  <2>1. call' = [call EXCEPT ![c] = [call[c] EXCEPT !.at = "sent"]]
    BY <1>5 DEF AnswerArrives
  <2>. QED  BY <1>2, <1>3, <1>5, <2>1
<1>6. CASE c \in waiting /\ ~(call[c].answered = "ok" /\ call[c].ran < Batches(call[c].kind))
  <2>1. PICK t \in Told(call[c].kind, call[c].answered) :
          call' = [call EXCEPT ![c].at = "over", ![c].told = t]
    BY <1>6 DEF AnswerArrives
  <2>. DEFINE r == [call[c] EXCEPT !.at = "over", !.told = t]
  <2>2. t \in {"ok", "error", "unavailable", "invalid", "offline"} /\ (t = "ok" => call[c].answered = "ok")
    BY <2>1, ToldType
  <2>3. /\ r \in CallRecords /\ r.at = "over" /\ r.kind = call[c].kind /\ r.ran = call[c].ran /\ r.told = t
    BY <1>1, <2>2 DEF CallRecords
  <2>4. call' = [call EXCEPT ![c] = r]
    BY <2>1
  <2>. HIDE DEF r
  <2>5. CallFits(r)
    BY <1>1, <1>6, <2>2, <2>3, BatchesType DEF CallFits, CallRecords
  <2>. QED  BY <1>2, <2>3, <2>4, <2>5
<1>. QED  BY <1>4, <1>5, <1>6

\* A crash of either side ends the calls it reaches, and is a fault.
LEMMA CrashKeeps ==
  ASSUME CallsIInv, Fault, faults < MaxEvents, UNCHANGED bfiles,
         bstage' \in 1 .. Len(BrainStages), stubs' \in {"unasked", "none", "known"}, waiting' \subseteq CallIds,
         call' \in [CallIds -> CallRecords],
         \A c \in CallIds :
           \/ call'[c] = call[c]
           \/ call'[c].at = "over" /\ call'[c].kind = call[c].kind /\ call'[c].ran = call[c].ran
              /\ (call'[c].told = "ok" => call[c].told = "ok")
  PROVE  CallsIInv'
<1>1. bfiles \in Nat /\ faults \in Nat /\ MaxEvents \in Nat /\ bfiles >= Cardinality(Holding)
  BY FaultsAssumption DEF CallsIInv, CallsTypeOK, FaultsTypeOK
<1>2. ASSUME NEW c \in CallIds
      PROVE  CallFits(call'[c]) /\ (Holds(call'[c]) => Holds(call[c]))
  BY DEF CallsIInv, CallFits, Holds
<1>3. IsFiniteSet(Holding) /\ Cardinality(Holding) \in Nat
  BY HoldingFinite DEF CallsIInv
<1>4. Holding' \in SUBSET Holding
  BY <1>2 DEF Holding
<1>5. Cardinality(Holding') \in Nat /\ Cardinality(Holding') <= Cardinality(Holding)
  BY <1>3, <1>4, FS_Subset, FS_CardinalityType
<1>6. bfiles' >= Cardinality(Holding') /\ faults' # 0 /\ faults' \in 0 .. MaxEvents /\ bfiles' \in Nat
  BY <1>1, <1>3, <1>5 DEF Fault
<1>. QED  BY <1>2, <1>6 DEF CallsIInv, CallsTypeOK, FaultsTypeOK

LEMMA BrainCrashKeeps == CallsIInv /\ BrainCrash => CallsIInv'
<1>. SUFFICES ASSUME CallsIInv, BrainCrash PROVE CallsIInv'
  OBVIOUS
<1>. DEFINE there == {c \in CallIds : call[c].at \in {"brain", "running", "done"}}
            Tale(c) == IF c \in waiting THEN CHOOSE t \in Told(call[c].kind, "broken") : TRUE ELSE call[c].told
<1>1. call \in [CallIds -> CallRecords] /\ CallsTypeOK
  BY DEF CallsIInv, CallsTypeOK
<1>2. call' = [c \in CallIds |->
                 IF c \notin there THEN call[c]
                 ELSE [call[c] EXCEPT !.at = "over", !.answered = "no", !.told = Tale(c)]]
  BY DEF BrainCrash
<1>3. ASSUME NEW c \in CallIds
      PROVE  /\ Tale(c) \in {"nothing", "ok", "error", "unavailable", "invalid", "offline"}
             /\ Tale(c) = "ok" => call[c].told = "ok"
  <2>1. CASE c \in waiting
    <3>1. Tale(c) \in Told(call[c].kind, "broken")
      BY <2>1, ToldType
    <3>. HIDE DEF Tale
    <3>. QED  BY <3>1, ToldType
  <2>2. CASE c \notin waiting
    <3>1. call[c] \in CallRecords
      BY <1>1
    <3>. QED  BY <2>2, <3>1 DEF CallRecords
  <2>. QED  BY <2>1, <2>2
<1>. HIDE DEF Tale
<1>4. ASSUME NEW c \in CallIds
      PROVE  /\ call'[c] \in CallRecords
             /\ \/ call'[c] = call[c]
                \/ call'[c].at = "over" /\ call'[c].kind = call[c].kind /\ call'[c].ran = call[c].ran
                   /\ (call'[c].told = "ok" => call[c].told = "ok")
  <2>. DEFINE r == [call[c] EXCEPT !.at = "over", !.answered = "no", !.told = Tale(c)]
  <2>1. call[c] \in CallRecords
    BY <1>1
  <2>2. /\ r \in CallRecords
        /\ r.at = "over" /\ r.kind = call[c].kind /\ r.ran = call[c].ran /\ r.told = Tale(c)
    BY <1>3, <2>1 DEF CallRecords
  <2>3. call'[c] = IF c \notin there THEN call[c] ELSE r
    BY <1>2
  <2>. HIDE DEF r, there
  <2>. QED  BY <1>3, <2>1, <2>2, <2>3
<1>5. call' \in [CallIds -> CallRecords]
  BY <1>2, <1>4
<1>6. /\ Fault /\ faults < MaxEvents /\ UNCHANGED bfiles /\ bstage' \in 1 .. Len(BrainStages)
      /\ stubs' \in {"unasked", "none", "known"} /\ waiting' \subseteq CallIds
  <2>1. CanFail("brain_crash") /\ Fault /\ bstage' = 1 /\ waiting' = waiting \ there /\ UNCHANGED <<stubs, bfiles>>
    BY DEF BrainCrash
  <2>. HIDE DEF there
  <2>. QED  BY <1>1, <2>1 DEF CallsTypeOK, CanFail, BrainStages
<1>. QED  BY <1>4, <1>5, <1>6, CrashKeeps

LEMMA EdgeCrashKeeps == CallsIInv /\ EdgeCrash => CallsIInv'
<1>. SUFFICES ASSUME CallsIInv, EdgeCrash PROVE CallsIInv'
  OBVIOUS
<1>1. call \in [CallIds -> CallRecords] /\ CallsTypeOK
  BY DEF CallsIInv, CallsTypeOK
<1>2. call' = [c \in CallIds |-> IF call[c].at = "sent" THEN [call[c] EXCEPT !.at = "over"] ELSE call[c]]
  BY DEF EdgeCrash
<1>3. ASSUME NEW c \in CallIds
      PROVE  /\ call'[c] \in CallRecords
             /\ \/ call'[c] = call[c]
                \/ call'[c].at = "over" /\ call'[c].kind = call[c].kind /\ call'[c].ran = call[c].ran
                   /\ (call'[c].told = "ok" => call[c].told = "ok")
  <2>. DEFINE r == [call[c] EXCEPT !.at = "over"]
  <2>1. call[c] \in CallRecords
    BY <1>1
  <2>2. /\ r \in CallRecords
        /\ r.at = "over" /\ r.kind = call[c].kind /\ r.ran = call[c].ran /\ r.told = call[c].told
    BY <2>1 DEF CallRecords
  <2>3. call'[c] = IF call[c].at = "sent" THEN r ELSE call[c]
    BY <1>2
  <2>. HIDE DEF r
  <2>. QED  BY <2>1, <2>2, <2>3
<1>4. call' \in [CallIds -> CallRecords]
  BY <1>2, <1>3
<1>5. /\ Fault /\ faults < MaxEvents /\ UNCHANGED bfiles /\ bstage' \in 1 .. Len(BrainStages)
      /\ stubs' \in {"unasked", "none", "known"} /\ waiting' \subseteq CallIds
  BY <1>1 DEF CallsTypeOK, EdgeCrash, CanFail
<1>. QED  BY <1>3, <1>4, <1>5, CrashKeeps

LEMMA CallsStep == CallsIInv /\ [CallsNext]_<<callVars, faults>> => CallsIInv'
<1>. SUFFICES ASSUME CallsIInv, [CallsNext]_<<callVars, faults>> PROVE CallsIInv'
  OBVIOUS
<1>1. CallsTypeOK
  BY DEF CallsIInv
<1>2. CASE BrainBoots \/ EdgeBoots \/ UNCHANGED <<callVars, faults>>
  <2>1. UNCHANGED <<call, waiting, bfiles, faults>>
    BY <1>2 DEF BrainBoots, EdgeBoots, NoFault, callVars
  <2>2. bstage' \in 1 .. Len(BrainStages) /\ stubs' \in {"unasked", "none", "known"}
    BY <1>1, <1>2 DEF CallsTypeOK, BrainBoots, EdgeBoots, callVars, BrainStages
  <2>3. Holding' = Holding
    BY <2>1 DEF Holding
  <2>. QED  BY <2>1, <2>2, <2>3 DEF CallsIInv, CallsTypeOK, FaultsTypeOK
<1>3. ASSUME NEW c \in CallIds, TimesOut(c) \/ ConnectionRefused(c) \/ AnswerLost(c)
      PROVE  CallsIInv'
  <2>1. CASE TimesOut(c)
    BY <2>1, TellKeeps DEF TimesOut, NoFault
  <2>2. CASE ConnectionRefused(c)
    BY <2>2, TellKeeps DEF ConnectionRefused, NoFault
  <2>3. CASE AnswerLost(c)
    BY <2>3, TellKeeps DEF AnswerLost, Breaks, CanFail, Fault
  <2>. QED  BY <1>3, <2>1, <2>2, <2>3
<1>4. ASSUME NEW c \in CallIds, Carry(c)
      PROVE  CallsIInv'
  BY <1>3, <1>4, HandleKeeps, BrainExecutesKeeps, AnswerArrivesKeeps DEF Carry
<1>. QED  BY <1>2, <1>3, <1>4, AskBrainKeeps, BrainCrashKeeps, EdgeCrashKeeps DEF CallsNext

LEMMA CallsInitially == CallsInit /\ FaultsInit => CallsIInv
<1>. SUFFICES ASSUME CallsInit, FaultsInit PROVE CallsIInv
  OBVIOUS
<1>1. NoCall \in CallRecords /\ NoCall.ran = 0 /\ NoCall.at = "new" /\ NoCall.told = "nothing"
  BY DEF NoCall, CallRecords
<1>2. \A c \in CallIds : call[c] = NoCall
  BY DEF CallsInit
<1>3. CallFits(NoCall)
  BY <1>1, BatchesType DEF CallFits
<1>4. Holding = {}
  BY <1>1, <1>2 DEF Holding, Holds
<1>5. Cardinality(Holding) = 0
  BY <1>4, FS_EmptySet
<1>. QED  BY <1>1, <1>2, <1>3, <1>5, FaultsAssumption DEF CallsIInv, CallsTypeOK, FaultsTypeOK, CallsInit, FaultsInit, BrainStages

\* Work done for an edge is done once, whatever breaks in between, and what is
\* reported as done was done in full (internal/skills/remote.go,
\* internal/memory/embed_remote.go).
LEMMA CallsRunOnce == CallsSpec => []DoneOnce
<1>1. CallsIInv => DoneOnce
  BY DEF CallsIInv, CallFits, DoneOnce
<1>. QED  BY CallsInitially, CallsStep, <1>1, PTL DEF CallsSpec

\* A file on the brain belongs to a call under way, unless a write failed or the
\* brain crashed (internal/brain/server.go).
LEMMA CallsCleanUp == CallsSpec => []FilesGoWithCalls
<1>1. CallsIInv => FilesGoWithCalls
  BY DEF CallsIInv, Holding, Holds, FilesGoWithCalls
<1>. QED  BY CallsInitially, CallsStep, <1>1, PTL DEF CallsSpec

\* What an edge asks of its brain is done once and leaves no file behind.
THEOREM EdgeCallsKept == CallsSpec => []EdgeCallsHold
<1>1. DoneOnce /\ FilesGoWithCalls => EdgeCallsHold
  BY DEF EdgeCallsHold
<1>. QED  BY CallsRunOnce, CallsCleanUp, <1>1, PTL

-------------------------------------------------------------------------------
(* The client of an MCP server (McpClient): whatever times out, a call gets its *)
(* own answer, and while nothing fails it is never confused with another's.     *)

\* The handshake comes first, one step after the other.
InSequence ==
  /\ mcall["list"].state # "new" => mcall["initialize"].state = "ok"
  /\ \A c \in ToolCalls : mcall[c].state # "new" => mcall["list"].state = "ok"

\* Without a fault the one goroutine that reads belongs to the one call that
\* waits, and the only request or line there is, is that call's.
OneAtATime ==
  /\ server # "dead"
  /\ readers = {c \in Callers : Waits(c)}
  /\ \A c, d \in readers : c = d
  /\ readers = {} => pending = {} /\ unread = <<>>
  /\ \A c \in readers :
       /\ server = "up"
       /\ \/ pending = {mcall[c].id} /\ unread = <<>>
          \/ pending = {} /\ \E e \in BOOLEAN : unread = <<[id |-> mcall[c].id, error |-> e]>>
  /\ \A c \in Callers : mcall[c].state # "mismatch"

McpIInv ==
  /\ McpTypeOK /\ FaultsTypeOK /\ InSequence /\ OwnAnswers
  /\ faults = 0 => OneAtATime

LEMMA CallersAre ==
  /\ Callers = ToolCalls \cup {"initialize", "list"}
  /\ "initialize" \notin ToolCalls /\ "list" \notin ToolCalls
<1>1. ToSet(Handshake) = {"initialize", "list"}
  BY DEF ToSet, Handshake
<1>. QED  BY <1>1, McpAssumption DEF Callers

LEMMA DueMeans ==
  /\ Due("list") => mcall["initialize"].state = "ok"
  /\ \A c \in ToolCalls : Due(c) => mcall["list"].state = "ok"
<1>1. ASSUME NEW c \in ToolCalls, Due(c) PROVE mcall["list"].state = "ok"
  <2>1. c # "initialize" /\ c # "list"
    BY CallersAre
  <2>. QED  BY <1>1, <2>1 DEF Due, ListOk
<1>. QED  BY <1>1 DEF Due

LEMMA McpInitially == McpInit /\ FaultsInit => McpIInv
<1>. SUFFICES ASSUME McpInit, FaultsInit PROVE McpIInv
  OBVIOUS
<1>1. mcall = [c \in Callers |-> [state |-> "new", id |-> 0, got |-> 0]]
  BY DEF McpInit
<1>2. McpTypeOK /\ FaultsTypeOK
  BY <1>1, FaultsAssumption DEF McpInit, FaultsInit, McpTypeOK, FaultsTypeOK, CallStates, Lines
<1>3. \A c \in Callers : mcall[c].state = "new"
  BY <1>1
<1>. QED  BY <1>2, <1>3, CallersAre DEF McpIInv, McpInit, InSequence, OwnAnswers, OneAtATime, Waits

\* A call that is waiting ends: in any state that is right about whose answer it
\* got.
LEMMA EndKeeps ==
  ASSUME McpIInv, NEW c \in Callers, Waits(c), NEW r \in CallStates, r.state # "new", r.id = mcall[c].id,
         r.state = "ok" => r.got = r.id, mcall' = [mcall EXCEPT ![c] = r]
  PROVE  mcall' \in [Callers -> CallStates] /\ InSequence' /\ OwnAnswers'
<1>1. mcall \in [Callers -> CallStates]
  BY DEF McpIInv, McpTypeOK
<1>2. \A d \in Callers : mcall'[d] = IF d = c THEN r ELSE mcall[d]
  BY <1>1
<1>3. OwnAnswers'
  BY <1>2 DEF McpIInv, OwnAnswers
<1>4. InSequence'
  BY <1>2, CallersAre DEF McpIInv, InSequence, Waits
<1>. QED  BY <1>1, <1>3, <1>4

LEMMA CallKeepsMcp ==
  ASSUME McpIInv, NEW c \in Callers, Call(c)
  PROVE  McpIInv'
<1>1. /\ mcall \in [Callers -> CallStates] /\ lastId \in Nat /\ lastId' = lastId + 1 /\ mcall[c].state = "new"
      /\ Due(c) /\ Free /\ UNCHANGED <<server, unread, faults>> /\ server \in {"up", "dead"}
      /\ readers \subseteq Callers /\ pending \subseteq 1 .. lastId
  BY DEF McpIInv, McpTypeOK, Call, NoFault
<1>. DEFINE r == [mcall[c] EXCEPT !.state = IF server = "dead" THEN "failed" ELSE "waiting", !.id = lastId']
<1>2. mcall' = [mcall EXCEPT ![c] = r]
  BY DEF Call
<1>3. r \in CallStates /\ r.id = lastId + 1 /\ r.state = IF server = "dead" THEN "failed" ELSE "waiting"
  <2>1. mcall[c] \in CallStates /\ lastId' = lastId + 1 /\ lastId + 1 \in Nat
    BY <1>1
  <2>. QED  BY <2>1 DEF CallStates
<1>. HIDE DEF r
<1>4. \A d \in Callers : mcall'[d] = IF d = c THEN r ELSE mcall[d]
  BY <1>1, <1>2
<1>5. mcall' \in [Callers -> CallStates] /\ OwnAnswers'
  BY <1>1, <1>2, <1>3, <1>4 DEF McpIInv, OwnAnswers
<1>6. InSequence'
  <2>1. \A d \in Callers \ {c} : mcall'[d] = mcall[d]
    BY <1>4
  <2>2. c = "list" => mcall["initialize"].state = "ok"
    BY <1>1, DueMeans
  <2>3. c \in ToolCalls => mcall["list"].state = "ok"
    BY <1>1, DueMeans
  <2>. QED  BY <1>1, <2>1, <2>2, <2>3, CallersAre DEF McpIInv, InSequence
<1>7. McpTypeOK' /\ FaultsTypeOK'
  <2>1. pending' \in {pending, pending \cup {lastId + 1}} /\ readers' \in {readers, readers \cup {c}}
    BY <1>1 DEF Call
  <2>2. pending' \subseteq 1 .. lastId' /\ readers' \subseteq Callers
    BY <1>1, <2>1
  <2>. QED  BY <1>1, <1>5, <2>2 DEF McpIInv, McpTypeOK, FaultsTypeOK
<1>8. ASSUME faults' = 0 PROVE OneAtATime'
  <2>1. OneAtATime /\ server = "up"
    BY <1>1, <1>8 DEF McpIInv, OneAtATime
  <2>2. readers = {} /\ pending = {} /\ unread = <<>>
    BY <1>1, <2>1 DEF OneAtATime, Free
  <2>3. readers' = {c} /\ pending' = {lastId + 1} /\ unread' = <<>> /\ server' = "up"
    BY <1>1, <2>1, <2>2 DEF Call
  <2>4. \A d \in Callers : Waits(d)' <=> d = c
    BY <1>1, <1>3, <1>4, <2>1 DEF Waits, Free
  <2>5. mcall'[c].id = lastId + 1
    BY <1>3, <1>4
  <2>6. readers' = {d \in Callers : Waits(d)'}
    BY <2>3, <2>4
  <2>7. \A d \in Callers : mcall'[d].state # "mismatch"
    BY <1>3, <1>4, <2>1 DEF OneAtATime
  <2>. QED  BY <2>3, <2>5, <2>6, <2>7 DEF OneAtATime
<1>. QED  BY <1>5, <1>6, <1>7, <1>8 DEF McpIInv

LEMMA ReturnKeeps ==
  ASSUME McpIInv, NEW c \in Callers, NEW st \in {"ok", "failed", "mismatch"}, NEW line \in Lines,
         st = "ok" => line.id = mcall[c].id, Returns(c, st, line)
  PROVE  mcall' \in [Callers -> CallStates] /\ InSequence' /\ OwnAnswers'
<1>1. mcall[c] \in CallStates /\ mcall \in [Callers -> CallStates]
  BY DEF McpIInv, McpTypeOK
<1>2. CASE ~Waits(c)
  <2>1. mcall' = mcall
    BY <1>2 DEF Returns
  <2>. QED  BY <1>1, <2>1 DEF McpIInv, InSequence, OwnAnswers
<1>3. CASE Waits(c)
  <2>. DEFINE r == [mcall[c] EXCEPT !.state = st, !.got = line.id]
  <2>1. r \in CallStates /\ r.state = st /\ r.got = line.id /\ r.id = mcall[c].id
    BY <1>1 DEF CallStates, Lines
  <2>2. mcall' = [mcall EXCEPT ![c] = r]
    BY <1>3 DEF Returns
  <2>. HIDE DEF r
  <2>. QED  BY <1>3, <2>1, <2>2, EndKeeps
<1>. QED  BY <1>2, <1>3

LEMMA ReadLineKeeps == McpIInv /\ ReadLine => McpIInv'
<1>. SUFFICES ASSUME McpIInv, ReadLine PROVE McpIInv'
  OBVIOUS
<1>. DEFINE line == Head(unread)
<1>1. /\ mcall \in [Callers -> CallStates] /\ unread \in Seq(Lines) /\ unread # <<>> /\ readers \subseteq Callers
      /\ line \in Lines /\ unread' = Tail(unread) /\ unread' \in Seq(Lines)
      /\ UNCHANGED <<server, lastId, pending, faults>>
  BY DEF McpIInv, McpTypeOK, ReadLine, NoFault
<1>2. NoLine \in Lines
  BY DEF NoLine, Lines
<1>3. PICK c \in readers :
        \/ Returns(c, Outcome(line, mcall[c].id), line) /\ readers' = readers \ {c}
        \/ readers # {c} /\ Returns(c, "failed", NoLine) /\ readers' = readers \ {c}
        \/ readers # {c} /\ UNCHANGED <<mcall, readers>>
  BY DEF ReadLine
<1>4. /\ Outcome(line, mcall[c].id) \in {"ok", "failed", "mismatch"}
      /\ Outcome(line, mcall[c].id) = "ok" => line.id = mcall[c].id
      /\ line.id = mcall[c].id => Outcome(line, mcall[c].id) # "mismatch"
  BY DEF Outcome
<1>. HIDE DEF line
<1>5. mcall' \in [Callers -> CallStates] /\ InSequence' /\ OwnAnswers'
  <2>1. CASE Returns(c, Outcome(line, mcall[c].id), line)
    BY <1>1, <1>4, <2>1, ReturnKeeps
  <2>2. CASE Returns(c, "failed", NoLine)
    BY <1>1, <1>2, <2>2, ReturnKeeps
  <2>3. CASE UNCHANGED mcall
    BY <2>3, <1>1 DEF McpIInv, InSequence, OwnAnswers
  <2>. QED  BY <1>3, <2>1, <2>2, <2>3
<1>6. readers' \subseteq Callers
  BY <1>1, <1>3
<1>7. ASSUME faults' = 0 PROVE OneAtATime'
  <2>1. OneAtATime
    BY <1>1, <1>7 DEF McpIInv
  <2>2. readers = {c}
    BY <1>3, <2>1 DEF OneAtATime
  <2>3. Returns(c, Outcome(line, mcall[c].id), line) /\ readers' = {} /\ Waits(c)
    BY <1>1, <1>3, <2>1, <2>2 DEF OneAtATime
  <2>4. PICK e \in BOOLEAN : unread = <<[id |-> mcall[c].id, error |-> e]>>
    BY <1>1, <2>1, <2>2 DEF OneAtATime
  <2>5. pending = {} /\ server = "up" /\ line.id = mcall[c].id /\ unread' = <<>>
    <3>1. pending = {} /\ server = "up"
      BY <1>1, <2>1, <2>2 DEF OneAtATime
    <3>2. line = [id |-> mcall[c].id, error |-> e]
      BY <2>4 DEF line
    <3>3. Tail(unread) = <<>>
      BY <2>4
    <3>. QED  BY <1>1, <3>1, <3>2, <3>3
  <2>6. /\ \A d \in Callers \ {c} : mcall'[d] = mcall[d]
        /\ mcall'[c].state \in {"ok", "failed"}
    BY <1>1, <1>4, <2>3, <2>5 DEF Returns, CallStates
  <2>7. \A d \in Callers : ~Waits(d)' /\ mcall'[d].state # "mismatch"
    BY <2>1, <2>2, <2>6 DEF OneAtATime, Waits
  <2>. QED  BY <1>1, <2>3, <2>5, <2>7 DEF OneAtATime
<1>8. McpTypeOK' /\ FaultsTypeOK'
  BY <1>1, <1>5, <1>6 DEF McpIInv, McpTypeOK, FaultsTypeOK
<1>. QED  BY <1>5, <1>7, <1>8 DEF McpIInv

LEMMA EndOfOutputKeeps == McpIInv /\ EndOfOutput => McpIInv'
<1>. SUFFICES ASSUME McpIInv, EndOfOutput PROVE McpIInv'
  OBVIOUS
<1>1. readers \subseteq Callers /\ UNCHANGED <<server, lastId, pending, unread, faults>> /\ server \in {"dead", "skipped"}
  BY DEF McpIInv, McpTypeOK, EndOfOutput, NoFault
<1>2. PICK c \in readers : Returns(c, "failed", NoLine) /\ readers' = readers \ {c}
  BY DEF EndOfOutput
<1>3. mcall' \in [Callers -> CallStates] /\ InSequence' /\ OwnAnswers'
  <2>1. NoLine \in Lines
    BY DEF NoLine, Lines
  <2>. QED  BY <1>1, <1>2, <2>1, ReturnKeeps
<1>4. faults' # 0
  BY <1>1, <1>2 DEF McpIInv, OneAtATime
<1>5. McpTypeOK' /\ FaultsTypeOK'
  BY <1>1, <1>2, <1>3 DEF McpIInv, McpTypeOK, FaultsTypeOK
<1>. QED  BY <1>3, <1>4, <1>5 DEF McpIInv

LEMMA CallTimesOutKeeps ==
  ASSUME McpIInv, NEW c \in Callers, CallTimesOut(c)
  PROVE  McpIInv'
<1>1. /\ mcall[c] \in CallStates /\ Waits(c) /\ UNCHANGED <<server, lastId, pending, unread, readers>>
      /\ faults \in Nat /\ faults' = faults + 1 /\ faults < MaxEvents /\ MaxEvents \in Nat
  BY FaultsAssumption DEF McpIInv, McpTypeOK, FaultsTypeOK, CallTimesOut, Fault, CanFail
<1>. DEFINE r == [mcall[c] EXCEPT !.state = "timeout"]
<1>2. r \in CallStates /\ r.state = "timeout" /\ r.id = mcall[c].id
  BY <1>1 DEF CallStates
<1>3. mcall' = [mcall EXCEPT ![c] = r]
  BY DEF CallTimesOut
<1>. HIDE DEF r
<1>4. mcall' \in [Callers -> CallStates] /\ InSequence' /\ OwnAnswers'
  BY <1>1, <1>2, <1>3, EndKeeps
<1>. QED  BY <1>1, <1>4 DEF McpIInv, McpTypeOK, FaultsTypeOK

\* What the server does, and what is done with it.
LEMMA ServerKeeps ==
  ASSUME McpIInv, StartServer \/ ServerAnswers \/ ServerNotifies \/ ServerDies \/ SkipServer
  PROVE  McpIInv'
<1>1. mcall' = mcall /\ lastId' = lastId /\ readers' = readers
  BY DEF StartServer, ServerAnswers, ServerNotifies, ServerDies, SkipServer
<1>2. InSequence' /\ OwnAnswers'
  BY <1>1 DEF McpIInv, InSequence, OwnAnswers
<1>3. FaultsTypeOK' /\ (faults' = 0 => faults = 0 /\ NoFault)
  BY FaultsAssumption DEF McpIInv, FaultsTypeOK, StartServer, ServerAnswers, ServerNotifies, ServerDies, SkipServer,
                          Fault, NoFault, CanFail
<1>4. \A d \in Callers : Waits(d)' <=> Waits(d)
  BY <1>1 DEF Waits
<1>5. McpTypeOK
  BY DEF McpIInv
<1>6. CASE StartServer
  <2>1. McpTypeOK'
    BY <1>5, <1>6 DEF StartServer, McpTypeOK
  <2>2. ASSUME faults' = 0 PROVE OneAtATime'
    <3>1. OneAtATime /\ server' = "up"
      BY <1>3, <1>6, <2>2, FaultsAssumption DEF McpIInv, StartServer, Fault, FaultsTypeOK
    <3>. QED  BY <1>4, <1>6, <3>1 DEF OneAtATime, StartServer
  <2>. QED  BY <1>2, <1>3, <2>1, <2>2 DEF McpIInv
<1>7. CASE ServerAnswers
  <2>1. PICK i \in pending, e \in BOOLEAN : pending' = pending \ {i} /\ unread' = Append(unread, [id |-> i, error |-> e])
    BY <1>7 DEF ServerAnswers
  <2>2. UNCHANGED <<server, mcall, lastId, readers, faults>>
    BY <1>7 DEF ServerAnswers, NoFault
  <2>3. McpTypeOK'
    <3>1. i \in Nat /\ [id |-> i, error |-> e] \in Lines /\ unread \in Seq(Lines)
      BY <1>5 DEF McpTypeOK, Lines
    <3>2. unread' \in Seq(Lines)
      BY <2>1, <3>1
    <3>. QED  BY <1>5, <2>1, <2>2, <3>2 DEF McpTypeOK
  <2>4. ASSUME faults' = 0 PROVE OneAtATime'
    <3>1. OneAtATime
      BY <1>3, <2>4 DEF McpIInv
    <3>2. PICK c \in readers : pending = {mcall[c].id} /\ unread = <<>>
      BY <2>1, <3>1 DEF OneAtATime
    <3>3. pending' = {} /\ unread' = <<[id |-> mcall[c].id, error |-> e]>>
      BY <2>1, <3>2
    <3>4. readers = {c}
      BY <3>1, <3>2 DEF OneAtATime
    <3>. QED  BY <1>4, <2>2, <3>1, <3>3, <3>4 DEF OneAtATime
  <2>. QED  BY <1>2, <1>3, <2>3, <2>4 DEF McpIInv
<1>8. CASE ServerNotifies
  <2>1. unread' = Append(unread, NoLine) /\ NoLine \in Lines /\ unread \in Seq(Lines)
    BY <1>5, <1>8 DEF ServerNotifies, McpTypeOK, NoLine, Lines
  <2>2. unread' \in Seq(Lines)
    BY <2>1
  <2>3. McpTypeOK'
    BY <1>5, <1>8, <2>2 DEF ServerNotifies, McpTypeOK
  <2>4. faults' # 0
    BY <1>3, <1>8, FaultsAssumption DEF ServerNotifies, Fault, NoFault, McpIInv, FaultsTypeOK
  <2>. QED  BY <1>2, <1>3, <2>3, <2>4 DEF McpIInv
<1>9. CASE ServerDies
  <2>1. McpTypeOK'
    BY <1>5, <1>9 DEF ServerDies, McpTypeOK
  <2>2. faults' # 0
    BY <1>3, <1>9, FaultsAssumption DEF ServerDies, Fault, NoFault, McpIInv, FaultsTypeOK
  <2>. QED  BY <1>2, <1>3, <2>1, <2>2 DEF McpIInv
<1>10. CASE SkipServer
  <2>1. McpTypeOK'
    BY <1>5, <1>10 DEF SkipServer, McpTypeOK
  <2>2. ASSUME faults' = 0 PROVE OneAtATime'
    <3>1. OneAtATime /\ UNCHANGED <<mcall, unread, readers>> /\ pending' = {} /\ server' = "skipped"
      BY <1>3, <1>10, <2>2 DEF McpIInv, SkipServer
    <3>2. \/ mcall["initialize"].state \in {"failed", "mismatch"}
          \/ mcall["list"].state \in {"failed", "mismatch"}
          \/ mcall["list"].state = "ok" /\ \A c \in ToolCalls : mcall[c].state = "new"
      BY <1>10 DEF SkipServer, Handshake, ListOk
    <3>3. \A c \in Callers : ~Waits(c)
      BY <3>2, CallersAre DEF McpIInv, InSequence, Waits
    <3>4. readers = {} /\ unread = <<>>
      BY <3>1, <3>3 DEF OneAtATime
    <3>. QED  BY <1>4, <3>1, <3>3, <3>4 DEF OneAtATime
  <2>. QED  BY <1>2, <1>3, <2>1, <2>2 DEF McpIInv
<1>. QED  BY <1>6, <1>7, <1>8, <1>9, <1>10

LEMMA McpStep == McpIInv /\ [McpNext]_<<mcpVars, faults>> => McpIInv'
<1>1. ASSUME McpIInv, UNCHANGED <<mcpVars, faults>> PROVE McpIInv'
  BY <1>1 DEF McpIInv, McpTypeOK, FaultsTypeOK, InSequence, OwnAnswers, OneAtATime, Waits, mcpVars
<1>. QED  BY <1>1, CallKeepsMcp, ReadLineKeeps, EndOfOutputKeeps, CallTimesOutKeeps, ServerKeeps DEF McpNext

\* A result that is handed out answers the very call it is handed to
\* (internal/mcp/client.go, Client.call).
LEMMA AnswersAreOwn == McpSpec => []OwnAnswers
<1>1. McpIInv => OwnAnswers
  BY DEF McpIInv
<1>. QED  BY McpInitially, McpStep, <1>1, PTL DEF McpSpec

\* One call is under way and one goroutine reads, until something fails
\* (internal/mcp/client.go, Client.mu).
LEMMA CallsStayInStep == McpSpec => []InStep
<1>1. McpIInv => InStep
  <2>. SUFFICES ASSUME McpIInv, faults = 0
                PROVE  /\ Cardinality(readers) <= 1 /\ Cardinality(pending) <= 1
                       /\ \A c \in Callers : mcall[c].state # "mismatch"
    BY DEF InStep
  <2>1. OneAtATime
    BY DEF McpIInv
  <2>2. readers = {} \/ \E x : readers = {x}
    <3>1. \A c, d \in readers : c = d
      BY <2>1 DEF OneAtATime
    <3>2. ASSUME NEW c \in readers PROVE readers = {c}
      BY <3>1
    <3>. QED  BY <3>2
  <2>3. pending = {} \/ \E x : pending = {x}
    BY <2>1 DEF OneAtATime
  <2>4. ASSUME NEW S, S = {} \/ \E x : S = {x}
        PROVE  Cardinality(S) <= 1
    <3>1. Cardinality(S) \in {0, 1}
      BY <2>4, FS_EmptySet, FS_Singleton
    <3>. QED  BY <3>1
  <2>. QED  BY <2>1, <2>2, <2>3, <2>4 DEF OneAtATime
<1>. QED  BY McpInitially, McpStep, <1>1, PTL DEF McpSpec

\* Both, of any number of calls and whatever the server does.
THEOREM ToolCallsKept == McpSpec => []ToolCallsHold
<1>1. OwnAnswers /\ InStep => ToolCallsHold
  BY DEF ToolCallsHold
<1>. QED  BY AnswersAreOwn, CallsStayInStep, <1>1, PTL

-------------------------------------------------------------------------------
AllIdle == \A p \in Evaluators : IsIdle(p)
AsShown == ~swallowed /\ baseline \in Looks => ~Differs(baseline, told)
Dated == vrow.status # "removed" => vrow.alerted = sinceAlert

Fits(e) ==
  /\ e.stage # "idle" => e.row.alerted = sinceAlert
  /\ e.stage \in {"capture", "compare", "copy", "notify"} => Dated
  /\ e.stage \in {"compare", "copy", "notify"} => e.since <= sinceAlert
  /\ e.stage \in {"capture", "compare", "update"} => AsShown
  /\ e.stage = "copy" => (e.changed <=> e.row.hasBaseline)
  /\ e.stage = "notify" =>
       /\ baseline \in Looks => ~Differs(baseline, e.shot)
       /\ ~e.changed => AsShown

Alone == \A p, q \in Evaluators : ~IsIdle(p) /\ ~IsIdle(q) => p = q
Untroubled == Alone /\ (\A p \in Evaluators : Fits(eval[p])) /\ (AllIdle => AsShown /\ Dated)

Unadded == vrow.status = "none" => AllIdle /\ vrow.alerted = Never /\ sinceAlert = Never /\ baseline = NoFile
Present == \A p \in Evaluators : ~IsIdle(p) => eval[p].row.status = "present"

VisualIInv ==
  /\ VisualTypeOK /\ FaultsTypeOK /\ ~tooSoon
  /\ Unadded /\ Present
  /\ troubled => sinceAlert = Never
  /\ ~troubled => Untroubled

LEMMA DiffersNot == ASSUME NEW look \in Looks PROVE ~Differs(look, look)
BY VisualAssumption DEF Differs

\* Time does not bring an age past another.
LEMMA OlderMeans ==
  ASSUME NEW a \in Ages, NEW b \in Ages
  PROVE  Older(a) \in Ages /\ (a <= b => Older(a) <= Older(b)) /\ (a = Never => Older(a) = Never)
BY VisualAssumption DEF Older, Ages, Never

LEMMA AgesAre == 0 \in Ages /\ Never \in Ages /\ Never \in Nat /\ Cooldown \in Nat
BY VisualAssumption DEF Ages, Never

LEMMA NewRowType ==
  ASSUME NEW notify \in WaysToNotify
  PROVE  /\ NewRow(notify) \in Rows /\ NewRow(notify).status = "present" /\ NewRow(notify).alerted = Never
         /\ [NewRow(notify) EXCEPT !.status = "none"] \in Rows
         /\ [NewRow(notify) EXCEPT !.status = "none"].status = "none"
         /\ [NewRow(notify) EXCEPT !.status = "none"].alerted = Never
<1>1. NewRow(notify) \in Rows /\ NewRow(notify).status = "present" /\ NewRow(notify).alerted = Never
  BY AgesAre DEF NewRow, Rows
<1>. QED  BY <1>1 DEF Rows

LEMMA NoEvaluationType == NoEvaluation \in Evaluations /\ NoEvaluation.stage = "idle"
<1>. DEFINE row == [NewRow("change") EXCEPT !.status = "none"]
<1>1. row \in Rows
  BY NewRowType DEF WaysToNotify
<1>. HIDE DEF row
<1>2. [stage |-> "idle", row |-> row, shot |-> 0, age |-> 0, since |-> Never,
       words |-> FALSE, changed |-> FALSE, newBaseline |-> FALSE] \in Evaluations
  BY <1>1, AgesAre, VisualAssumption DEF Evaluations
<1>. QED  BY <1>2 DEF NoEvaluation, row

LEMMA VisualInitially == VisualInit /\ FaultsInit => VisualIInv
<1>. SUFFICES ASSUME VisualInit, FaultsInit PROVE VisualIInv
  OBVIOUS
<1>1. /\ vrow \in Rows /\ vrow.status = "none" /\ vrow.alerted = Never
      /\ Never \in Ages
  BY NewRowType, AgesAre, VisualAssumption DEF VisualInit
<1>2. \A p \in Evaluators : eval[p] = NoEvaluation
  BY DEF VisualInit
<1>3. VisualTypeOK
  <2>1. eval \in [Evaluators -> Evaluations]
    BY NoEvaluationType DEF VisualInit
  <2>2. page \in [look : Looks, words : BOOLEAN] /\ pageChanges \in 0 .. MaxPageChanges
    BY VisualAssumption DEF VisualInit
  <2>. QED  BY <1>1, <2>1, <2>2 DEF VisualInit, VisualTypeOK
<1>4. AllIdle /\ Alone /\ Present
  BY <1>2, NoEvaluationType DEF AllIdle, IsIdle, Alone, Present
<1>5. baseline = NoFile /\ baseline \notin Looks /\ sinceAlert = Never /\ ~tooSoon
  BY VisualAssumption DEF VisualInit, NoFile
<1>6. AsShown /\ Dated
  BY <1>1, <1>5 DEF AsShown, Dated
<1>7. \A p \in Evaluators : Fits(eval[p])
  BY <1>2, NoEvaluationType DEF Fits
<1>8. FaultsTypeOK
  BY FaultsAssumption DEF FaultsTypeOK, FaultsInit
<1>. QED  BY <1>1, <1>3, <1>4, <1>5, <1>6, <1>7, <1>8 DEF VisualIInv, Unadded, Untroubled

\* One evaluator moves: what has to be said of its new state.
LEMMA EvaluatorMoves ==
  ASSUME VisualIInv, NEW p \in Evaluators, NEW r \in Evaluations, eval' = [eval EXCEPT ![p] = r],
         r.stage # "idle" => r.row.status = "present",
         vrow' \in Rows, vrow'.status # "none",
         baseline' \in Looks \cup {NoFile, Torn},
         UNCHANGED <<page, pageChanges>>,
         told' \in Looks \cup {NoFile}, sinceAlert' \in Ages, swallowed' \in BOOLEAN, troubled' \in BOOLEAN,
         ~tooSoon', tooSoon' \in BOOLEAN,
         faults' = faults \/ (faults' = faults + 1 /\ faults < MaxEvents),
         troubled' => sinceAlert' = Never,
         ~troubled' => /\ ~troubled /\ \A q \in Evaluators : q # p => IsIdle(q)
                       /\ Fits(r)'
                       /\ r.stage = "idle" => AsShown' /\ Dated'
  PROVE  VisualIInv'
<1>1. VisualTypeOK /\ FaultsTypeOK /\ Present
  BY DEF VisualIInv
<1>2. FaultsTypeOK'
  BY <1>1, FaultsAssumption DEF FaultsTypeOK
<1>3. /\ eval' \in [Evaluators -> Evaluations]
      /\ \A q \in Evaluators : eval'[q] = IF q = p THEN r ELSE eval[q]
  BY <1>1 DEF VisualTypeOK
<1>4. VisualTypeOK'
  BY <1>1, <1>3 DEF VisualTypeOK
<1>5. Present'
  BY <1>1, <1>3 DEF Present, IsIdle
<1>6. Unadded'
  BY DEF Unadded
<1>7. ASSUME ~troubled' PROVE Untroubled'
  <2>1. \A q \in Evaluators : q # p => eval'[q].stage = "idle"
    BY <1>3, <1>7 DEF IsIdle
  <2>2. Alone'
    BY <2>1 DEF Alone, IsIdle
  <2>3. \A q \in Evaluators : Fits(eval[q])'
    <3>1. ASSUME NEW q \in Evaluators, q # p PROVE Fits(eval[q])'
      BY <2>1, <3>1 DEF Fits
    <3>2. Fits(eval[p])'
      BY <1>3, <1>7 DEF Fits
    <3>. QED  BY <3>1, <3>2
  <2>4. AllIdle' => AsShown' /\ Dated'
    BY <1>3, <1>7 DEF AllIdle, IsIdle
  <2>. QED  BY <2>2, <2>3, <2>4 DEF Untroubled
<1>. QED  BY <1>2, <1>4, <1>5, <1>6, <1>7 DEF VisualIInv

\* What is known of an evaluator at work.
LEMMA AtWork ==
  ASSUME VisualIInv, NEW p \in Evaluators, ~IsIdle(p)
  PROVE  /\ eval[p] \in Evaluations /\ eval[p].row \in Rows /\ eval[p].row.status = "present"
         /\ eval \in [Evaluators -> Evaluations]
         /\ vrow \in Rows /\ vrow.status # "none"
         /\ baseline \in Looks \cup {NoFile, Torn} /\ page \in [look : Looks, words : BOOLEAN]
         /\ told \in Looks \cup {NoFile} /\ sinceAlert \in Ages
         /\ swallowed \in BOOLEAN /\ troubled \in BOOLEAN /\ tooSoon \in BOOLEAN /\ ~tooSoon
         /\ troubled => sinceAlert = Never
         /\ ~troubled => (\A q \in Evaluators : q # p => IsIdle(q)) /\ Fits(eval[p])
<1>1. VisualTypeOK /\ Present /\ Unadded
  BY DEF VisualIInv
<1>2. eval[p] \in Evaluations /\ eval[p].row \in Rows
  BY <1>1 DEF VisualTypeOK, Evaluations
<1>3. vrow.status # "none"
  BY <1>1 DEF Unadded, AllIdle
<1>. QED  BY <1>1, <1>2, <1>3 DEF VisualIInv, VisualTypeOK, Present, Untroubled, Alone

LEMMA TroubleMeans ==
  ASSUME VisualTypeOK, NEW happened \in BOOLEAN, Trouble(happened), troubled => sinceAlert = Never
  PROVE  /\ told' \in Looks \cup {NoFile} /\ sinceAlert' \in Ages /\ swallowed' \in BOOLEAN /\ troubled' \in BOOLEAN
         /\ troubled' => sinceAlert' = Never
         /\ ~troubled' => ~happened /\ ~troubled /\ UNCHANGED <<told, sinceAlert, swallowed, troubled>>
<1>1. Never \in Ages
  BY AgesAre
<1>2. CASE happened \/ troubled
  BY <1>1, <1>2 DEF Trouble
<1>3. CASE ~(happened \/ troubled)
  BY <1>3 DEF VisualTypeOK, Trouble
<1>. QED  BY <1>2, <1>3

LEMMA StartKeeps ==
  ASSUME VisualIInv, NEW p \in Evaluators, StartEvaluation(p)
  PROVE  VisualIInv'
<1>. DEFINE r == [NoEvaluation EXCEPT !.stage = "capture", !.row = vrow]
<1>1. VisualTypeOK /\ vrow \in Rows /\ vrow.status = "present" /\ (troubled => sinceAlert = Never)
  BY DEF VisualIInv, VisualTypeOK, StartEvaluation
<1>2. r \in Evaluations /\ r.stage = "capture" /\ r.row = vrow
  BY <1>1, NoEvaluationType DEF Evaluations
<1>3. PICK e \in Evaluations : e = r
  BY <1>2
<1>. HIDE DEF r
<1>4. /\ told' \in Looks \cup {NoFile} /\ sinceAlert' \in Ages /\ swallowed' \in BOOLEAN /\ troubled' \in BOOLEAN
      /\ troubled' => sinceAlert' = Never
      /\ ~troubled' => /\ AllIdle /\ ~troubled
                       /\ UNCHANGED <<told, sinceAlert, swallowed, troubled>>
  BY <1>1, TroubleMeans DEF StartEvaluation, AllIdle
<1>5. ASSUME ~troubled' PROVE Fits(e)'
  <2>1. AllIdle /\ ~troubled /\ AsShown /\ Dated
    BY <1>4, <1>5 DEF VisualIInv, Untroubled
  <2>2. vrow.alerted = sinceAlert
    BY <1>1, <2>1 DEF Dated
  <2>3. AsShown' /\ Dated' /\ e.row.alerted = sinceAlert'
    BY <1>2, <1>3, <1>4, <1>5, <2>1, <2>2 DEF StartEvaluation, AsShown, Dated
  <2>. QED  BY <1>2, <1>3, <2>3 DEF Fits
<1>6. eval' = [eval EXCEPT ![p] = e]
  BY <1>3 DEF StartEvaluation, r
<1>. QED  BY <1>1, <1>2, <1>3, <1>4, <1>5, <1>6, EvaluatorMoves DEF StartEvaluation, VisualTypeOK, AllIdle, VisualIInv

\* An evaluation that is given up while the watch and its history stand.
LEMMA IdleFits == ASSUME NEW e \in Evaluations, e.stage = "idle" PROVE Fits(e)'
BY DEF Fits

LEMMA CaptureKeeps ==
  ASSUME VisualIInv, NEW p \in Evaluators, Capture(p)
  PROVE  VisualIInv'
<1>1. ~IsIdle(p) /\ eval[p].stage = "capture" /\ UNCHANGED <<vrow, baseline, page, pageChanges, visualHistory>>
  BY DEF Capture, IsIdle
<1>2. CASE /\ eval' = [eval EXCEPT ![p] =
                [eval[p] EXCEPT !.stage = "compare", !.shot = page.look, !.words = page.words,
                                !.age = 0, !.since = eval[p].row.alerted]]
           /\ NoFault
  <2>. DEFINE r == [eval[p] EXCEPT !.stage = "compare", !.shot = page.look, !.words = page.words,
                                   !.age = 0, !.since = eval[p].row.alerted]
  <2>1. 0 \in Ages /\ eval[p].row.alerted \in Ages
    BY <1>1, AtWork, VisualAssumption DEF Rows, Ages, Never
  <2>2. /\ r \in Evaluations /\ r.stage = "compare" /\ r.row = eval[p].row /\ r.since = eval[p].row.alerted
    BY <1>1, <2>1, AtWork DEF Evaluations
  <2>3. PICK e \in Evaluations : e = r
    BY <2>2
  <2>4. eval' = [eval EXCEPT ![p] = e]
    BY <1>2, <2>3
  <2>. HIDE DEF r
  <2>5. ASSUME ~troubled PROVE Fits(e)'
    <3>1. AsShown /\ Dated /\ eval[p].row.alerted = sinceAlert
      BY <1>1, <2>5, AtWork DEF Fits
    <3>2. AsShown' /\ Dated' /\ e.row.alerted = sinceAlert' /\ e.since <= sinceAlert'
      BY <1>1, <2>2, <2>3, <3>1, AtWork, VisualAssumption DEF AsShown, Dated, visualHistory, Ages, Never
    <3>. QED  BY <2>2, <2>3, <3>2 DEF Fits
  <2>6. e.stage # "idle" /\ e.row.status = "present"
    BY <1>1, <2>2, <2>3, AtWork
  <2>. QED  BY <1>1, <1>2, <2>3, <2>4, <2>5, <2>6, AtWork, EvaluatorMoves DEF NoFault, visualHistory
<1>3. CASE CanFail("capture_failed") /\ Fault /\ eval' = [eval EXCEPT ![p] = NoEvaluation]
  <2>1. PICK e \in Evaluations : e = NoEvaluation /\ e.stage = "idle"
    BY NoEvaluationType
  <2>2. ~troubled => AsShown' /\ Dated'
    <3>1. ~troubled => AsShown /\ Dated
      BY <1>1, AtWork DEF Fits
    <3>. QED  BY <1>1, <3>1 DEF AsShown, Dated, visualHistory
  <2>3. eval' = [eval EXCEPT ![p] = e] /\ Fits(e)'
    BY <1>3, <2>1, IdleFits
  <2>. QED  BY <1>1, <1>3, <2>1, <2>2, <2>3, AtWork, EvaluatorMoves DEF Fault, CanFail, visualHistory
<1>. QED  BY <1>2, <1>3 DEF Capture

LEMMA CompareKeeps ==
  ASSUME VisualIInv, NEW p \in Evaluators, Compare(p)
  PROVE  VisualIInv'
<1>1. ~IsIdle(p) /\ eval[p].stage = "compare" /\ UNCHANGED <<vrow, page, pageChanges, visualHistory, faults>>
  BY DEF Compare, IsIdle
<1>. DEFINE changed == eval[p].row.hasBaseline /\ baseline \in Looks /\ Differs(baseline, eval[p].shot)
            keep == changed \/ ~eval[p].row.hasBaseline
            r == [eval[p] EXCEPT !.changed = changed, !.stage = IF keep THEN "copy" ELSE "notify"]
<1>2. /\ eval' = [eval EXCEPT ![p] = r]
      /\ baseline' = IF keep THEN Torn ELSE baseline
  BY <1>1, AtWork DEF Compare, BecomesBaseline, Evaluations
<1>3. changed \in BOOLEAN
  BY <1>1, AtWork DEF Rows
<1>4. /\ r \in Evaluations /\ r.stage = (IF keep THEN "copy" ELSE "notify") /\ r.row = eval[p].row
      /\ r.since = eval[p].since /\ r.shot = eval[p].shot /\ (r.changed <=> changed)
  BY <1>1, <1>3, AtWork DEF Evaluations
<1>5. PICK e \in Evaluations : e = r
  BY <1>4
<1>. HIDE DEF r
<1>6. ASSUME ~troubled PROVE Fits(e)'
  <2>1. AsShown /\ Dated /\ eval[p].row.alerted = sinceAlert /\ eval[p].since <= sinceAlert
    BY <1>1, <1>6, AtWork DEF Fits
  <2>2. Dated' /\ e.row.alerted = sinceAlert' /\ e.since <= sinceAlert'
    BY <1>1, <1>4, <1>5, <2>1 DEF Dated, visualHistory
  <2>3. CASE keep
    <3>1. e.stage = "copy" /\ (e.changed <=> e.row.hasBaseline)
      BY <1>4, <1>5, <2>3
    <3>. QED  BY <2>2, <3>1 DEF Fits
  <2>4. CASE ~keep
    <3>1. e.stage = "notify" /\ baseline' = baseline /\ (baseline \in Looks => ~Differs(baseline, e.shot))
      BY <1>2, <1>4, <1>5, <2>4
    <3>2. AsShown'
      BY <1>1, <2>1, <3>1 DEF AsShown, visualHistory
    <3>. QED  BY <2>2, <3>1, <3>2 DEF Fits
  <2>. QED  BY <2>3, <2>4
<1>7. baseline' \in Looks \cup {NoFile, Torn}
  BY <1>1, <1>2, AtWork
<1>8. eval' = [eval EXCEPT ![p] = e]
  BY <1>2, <1>5
<1>9. e.stage # "idle" /\ e.row.status = "present"
  BY <1>1, <1>4, <1>5, AtWork
<1>. QED  BY <1>1, <1>5, <1>6, <1>7, <1>8, <1>9, AtWork, EvaluatorMoves DEF visualHistory

LEMMA CopyKeeps ==
  ASSUME VisualIInv, NEW p \in Evaluators, CopyBaseline(p)
  PROVE  VisualIInv'
<1>1. ~IsIdle(p) /\ eval[p].stage = "copy" /\ UNCHANGED <<vrow, page, pageChanges, tooSoon>>
  BY DEF CopyBaseline, IsIdle
<1>. DEFINE first == ~eval[p].row.hasBaseline
            r == [eval[p] EXCEPT !.stage = "notify", !.row.hasBaseline = TRUE, !.newBaseline = first]
            f == [eval[p] EXCEPT !.stage = "notify"]
<1>2. first \in BOOLEAN
  BY <1>1, AtWork DEF Rows
<1>3. /\ [eval[p].row EXCEPT !.hasBaseline = TRUE] \in Rows
      /\ [eval[p].row EXCEPT !.hasBaseline = TRUE].status = "present"
      /\ [eval[p].row EXCEPT !.hasBaseline = TRUE].alerted = eval[p].row.alerted
  BY <1>1, AtWork DEF Rows
<1>4. /\ r \in Evaluations /\ r.stage = "notify" /\ r.row = [eval[p].row EXCEPT !.hasBaseline = TRUE]
      /\ r.since = eval[p].since /\ r.shot = eval[p].shot /\ r.changed = eval[p].changed
      /\ r.shot \in Looks
  <2>1. eval[p] \in Evaluations
    BY <1>1, AtWork
  <2>. DEFINE row == [eval[p].row EXCEPT !.hasBaseline = TRUE]
  <2>2. row \in Rows
    BY <1>3
  <2>3. r = [eval[p] EXCEPT !.stage = "notify", !.row = row, !.newBaseline = first]
    BY <2>1 DEF Evaluations
  <2>. HIDE DEF row, first, r
  <2>4. /\ r \in Evaluations /\ r.stage = "notify" /\ r.row = row
        /\ r.since = eval[p].since /\ r.shot = eval[p].shot /\ r.changed = eval[p].changed
        /\ r.shot \in Looks
    BY <1>2, <2>1, <2>2, <2>3 DEF Evaluations
  <2>. QED  BY <2>4 DEF row
<1>5. /\ f \in Evaluations /\ f.stage = "notify" /\ f.row = eval[p].row
  BY <1>1, AtWork DEF Evaluations
<1>6. \/ /\ baseline' = eval[p].shot /\ eval' = [eval EXCEPT ![p] = r]
         /\ told' = IF first /\ ~troubled THEN eval[p].shot ELSE told
         /\ NoFault /\ UNCHANGED <<sinceAlert, swallowed, troubled>>
      \/ /\ CanFail("copy_failed") /\ Fault
         /\ eval' = [eval EXCEPT ![p] = f]
         /\ Trouble(TRUE) /\ UNCHANGED baseline
  BY <1>1, AtWork DEF CopyBaseline, Evaluations, Rows
<1>. HIDE DEF r, f
<1>7. CASE /\ baseline' = eval[p].shot /\ eval' = [eval EXCEPT ![p] = r]
           /\ told' = IF first /\ ~troubled THEN eval[p].shot ELSE told
           /\ NoFault /\ UNCHANGED <<sinceAlert, swallowed, troubled>>
  <2>1. PICK e \in Evaluations : e = r
    BY <1>4
  <2>2. told' \in Looks \cup {NoFile} /\ baseline' \in Looks
    BY <1>1, <1>4, <1>7, AtWork
  <2>3. ASSUME ~troubled PROVE Fits(e)'
    <3>1. /\ Dated /\ eval[p].row.alerted = sinceAlert /\ eval[p].since <= sinceAlert
          /\ eval[p].changed <=> eval[p].row.hasBaseline
      BY <1>1, <2>3, AtWork DEF Fits
    <3>2. Dated' /\ e.row.alerted = sinceAlert' /\ e.since <= sinceAlert' /\ e.stage = "notify"
      BY <1>1, <1>3, <1>4, <1>7, <2>1, <3>1 DEF Dated
    <3>3. ~Differs(baseline', e.shot)
      BY <1>4, <1>7, <2>1, DiffersNot
    <3>4. ~e.changed => AsShown'
      <4>1. ~e.changed => told' = baseline'
        BY <1>4, <1>7, <2>1, <2>3, <3>1
      <4>. QED  BY <2>2, <4>1, DiffersNot DEF AsShown
    <3>5. (Differs(baseline, e.shot))' <=> Differs(baseline', e.shot)
      BY DEF Differs
    <3>. QED  BY <3>2, <3>3, <3>4, <3>5 DEF Fits
  <2>4. eval' = [eval EXCEPT ![p] = e] /\ e.stage # "idle" /\ e.row.status = "present"
    BY <1>3, <1>4, <1>7, <2>1
  <2>. QED  BY <1>1, <1>7, <2>1, <2>2, <2>3, <2>4, AtWork, EvaluatorMoves DEF NoFault
<1>8. CASE /\ CanFail("copy_failed") /\ Fault
           /\ eval' = [eval EXCEPT ![p] = f]
           /\ Trouble(TRUE) /\ UNCHANGED baseline
  <2>1. PICK e \in Evaluations : e = f
    BY <1>5
  <2>2. /\ told' \in Looks \cup {NoFile} /\ sinceAlert' \in Ages /\ swallowed' \in BOOLEAN /\ troubled' \in BOOLEAN
        /\ troubled' => sinceAlert' = Never
        /\ troubled'
    <3>1. VisualTypeOK /\ (troubled => sinceAlert = Never)
      BY DEF VisualIInv
    <3>. QED  BY <1>8, <3>1, TroubleMeans
  <2>3. eval' = [eval EXCEPT ![p] = e] /\ e.stage # "idle" /\ e.row.status = "present"
    BY <1>1, <1>5, <1>8, <2>1, AtWork
  <2>. QED  BY <1>1, <1>8, <2>1, <2>2, <2>3, AtWork, EvaluatorMoves DEF Fault, CanFail
<1>. QED  BY <1>6, <1>7, <1>8

LEMMA NotifyKeeps ==
  ASSUME VisualIInv, NEW p \in Evaluators, NotifyVisual(p)
  PROVE  VisualIInv'
<1>1. ~IsIdle(p) /\ eval[p].stage = "notify" /\ UNCHANGED <<vrow, baseline, page, pageChanges, troubled>>
  BY DEF NotifyVisual, IsIdle
<1>2. PICK hit \in {eval[p].words} \cup (IF "ocr_failed" \in Events THEN {page.words, FALSE} ELSE {}) :
        LET e == [eval[p] EXCEPT !.words = hit]
            row == [e.row EXCEPT !.seen = hit]
        IN IF ShouldNotify(e, row) THEN Alert(p, e, row) ELSE NoAlert(p, e, row)
  BY DEF NotifyVisual
<1>. DEFINE d == [eval[p] EXCEPT !.words = hit]
            w == [d.row EXCEPT !.seen = hit]
<1>3. hit \in BOOLEAN
  BY <1>1, AtWork DEF Evaluations
<1>4. /\ d \in Evaluations /\ d.row = eval[p].row /\ d.since = eval[p].since /\ d.age = eval[p].age
      /\ d.shot = eval[p].shot /\ d.changed = eval[p].changed
      /\ d.since \in Ages /\ d.age \in Ages /\ d.shot \in Looks /\ d.changed \in BOOLEAN
  BY <1>1, <1>3, AtWork DEF Evaluations
<1>5. w \in Rows /\ w.status = "present" /\ w.alerted = eval[p].row.alerted
  BY <1>1, <1>3, <1>4, AtWork DEF Rows
<1>6. IF ShouldNotify(d, w) THEN Alert(p, d, w) ELSE NoAlert(p, d, w)
  BY <1>2
<1>. HIDE DEF d, w
<1>7. ASSUME NEW row \in Rows, row.status = "present"
      PROVE  \E e \in Evaluations : e = OnlyRow(row) /\ e.stage = "update" /\ e.row = row
  <2>1. OnlyRow(row) = [NoEvaluation EXCEPT !.stage = "update", !.row = row]
    BY DEF OnlyRow
  <2>2. OnlyRow(row) \in Evaluations /\ OnlyRow(row).stage = "update" /\ OnlyRow(row).row = row
    BY <1>7, <2>1, NoEvaluationType DEF Evaluations
  <2>. QED  BY <2>2
<1>8. ASSUME ~troubled
      PROVE  /\ eval[p].row.alerted = sinceAlert /\ eval[p].since <= sinceAlert
             /\ baseline \in Looks => ~Differs(baseline, d.shot)
             /\ ~d.changed => AsShown
  BY <1>1, <1>4, <1>8, AtWork DEF Fits
<1>9. CASE ShouldNotify(d, w)
  <2>1. Alert(p, d, w) /\ ~CoolingDown(d)
    BY <1>6, <1>9 DEF ShouldNotify
  <2>2. Alerted(w, d.age) \in Rows /\ Alerted(w, d.age).status = "present" /\ Alerted(w, d.age).alerted = d.age
    BY <1>4, <1>5 DEF Alerted, Rows
  <2>3. PICK e \in Evaluations : e = OnlyRow(Alerted(w, d.age)) /\ e.stage = "update" /\ e.row = Alerted(w, d.age)
    BY <1>7, <2>2
  <2>4. tooSoon' \in BOOLEAN /\ ~tooSoon'
    <3>1. ~(sinceAlert < Cooldown)
      <4>1. CASE troubled
        BY <1>1, <4>1, AtWork, VisualAssumption DEF Never
      <4>2. CASE ~troubled
        BY <1>1, <1>4, <1>8, <2>1, <4>2, AtWork, VisualAssumption DEF CoolingDown, Ages, Never
      <4>. QED  BY <4>1, <4>2
    <3>. QED  BY <1>1, <2>1, <3>1, AtWork DEF Alert
  <2>5. /\ told' \in Looks \cup {NoFile} /\ sinceAlert' \in Ages /\ swallowed' \in BOOLEAN
        /\ troubled' => sinceAlert' = Never
    <3>1. Never \in Ages
      BY VisualAssumption DEF Ages, Never
    <3>. QED  BY <1>1, <1>4, <2>1, <3>1, AtWork DEF Alert
  <2>6. ASSUME ~troubled PROVE Fits(e)'
    <3>1. e.row.alerted = sinceAlert'
      BY <2>1, <2>2, <2>3, <2>6 DEF Alert
    <3>2. AsShown'
      <4>1. swallowed' \/ told' = d.shot
        BY <2>1, <2>6 DEF Alert
      <4>. QED  BY <1>1, <1>8, <2>6, <4>1 DEF AsShown, Differs
    <3>. QED  BY <2>3, <3>1, <3>2 DEF Fits
  <2>7. faults' = faults \/ (faults' = faults + 1 /\ faults < MaxEvents)
    BY <2>1 DEF Alert, Fault, NoFault, CanFail
  <2>8. eval' = [eval EXCEPT ![p] = e] /\ e.stage # "idle" /\ e.row.status = "present"
    BY <2>1, <2>2, <2>3 DEF Alert
  <2>. QED  BY <1>1, <2>3, <2>4, <2>5, <2>6, <2>7, <2>8, AtWork, EvaluatorMoves
<1>10. CASE ~ShouldNotify(d, w)
  <2>1. NoAlert(p, d, w)
    BY <1>6, <1>10
  <2>2. PICK e \in Evaluations : e = OnlyRow(w) /\ e.stage = "update" /\ e.row = w
    BY <1>5, <1>7
  <2>3. ASSUME ~troubled PROVE Fits(e)'
    <3>1. e.row.alerted = sinceAlert'
      BY <1>5, <1>8, <2>1, <2>2, <2>3 DEF NoAlert
    <3>2. AsShown'
      BY <1>1, <1>8, <2>1, <2>3 DEF NoAlert, AsShown
    <3>. QED  BY <2>2, <3>1, <3>2 DEF Fits
  <2>4. eval' = [eval EXCEPT ![p] = e] /\ e.stage # "idle" /\ e.row.status = "present"
    BY <1>5, <2>1, <2>2 DEF NoAlert
  <2>5. swallowed' \in BOOLEAN
    BY <2>1 DEF NoAlert
  <2>. QED  BY <1>1, <2>1, <2>2, <2>3, <2>4, <2>5, AtWork, EvaluatorMoves DEF NoAlert
<1>. QED  BY <1>9, <1>10

LEMMA UpdateKeeps ==
  ASSUME VisualIInv, NEW p \in Evaluators, UpdateVisual(p)
  PROVE  VisualIInv'
<1>1. ~IsIdle(p) /\ eval[p].stage = "update" /\ UNCHANGED <<baseline, page, pageChanges, tooSoon>>
      /\ eval' = [eval EXCEPT ![p] = NoEvaluation]
  BY DEF UpdateVisual, IsIdle
<1>2. PICK e \in Evaluations : e = NoEvaluation /\ e.stage = "idle"
  BY NoEvaluationType
<1>3. eval' = [eval EXCEPT ![p] = e] /\ Fits(e)'
  BY <1>1, <1>2, IdleFits
<1>4. CASE /\ vrow' = IF vrow.status = "present" THEN eval[p].row ELSE vrow
           /\ NoFault /\ UNCHANGED <<told, sinceAlert, swallowed, troubled>>
  <2>1. vrow' \in Rows /\ vrow'.status # "none"
    BY <1>1, <1>4, AtWork
  <2>2. ASSUME ~troubled PROVE AsShown' /\ Dated'
    <3>1. AsShown /\ eval[p].row.alerted = sinceAlert
      BY <1>1, <2>2, AtWork DEF Fits
    <3>2. vrow.status # "present" => vrow.status = "removed"
      BY <1>1, AtWork DEF Rows
    <3>. QED  BY <1>1, <1>4, <3>1, <3>2 DEF AsShown, Dated
  <2>. QED  BY <1>1, <1>2, <1>3, <1>4, <2>1, <2>2, AtWork, EvaluatorMoves DEF NoFault
<1>5. CASE CanFail("visual_update_failed") /\ Fault /\ Trouble(TRUE) /\ UNCHANGED vrow
  <2>1. /\ told' \in Looks \cup {NoFile} /\ sinceAlert' \in Ages /\ swallowed' \in BOOLEAN /\ troubled' \in BOOLEAN
        /\ troubled' => sinceAlert' = Never
        /\ troubled'
    <3>1. VisualTypeOK /\ (troubled => sinceAlert = Never)
      BY DEF VisualIInv
    <3>. QED  BY <1>5, <3>1, TroubleMeans
  <2>. QED  BY <1>1, <1>2, <1>3, <1>5, <2>1, AtWork, EvaluatorMoves DEF Fault, CanFail
<1>. QED  BY <1>1, <1>4, <1>5 DEF UpdateVisual

LEMMA VisualCrashKeeps == VisualIInv /\ VisualCrash => VisualIInv'
<1>. SUFFICES ASSUME VisualIInv, VisualCrash PROVE VisualIInv'
  OBVIOUS
<1>1. VisualTypeOK /\ Unadded /\ Present /\ FaultsTypeOK /\ (troubled => sinceAlert = Never) /\ ~tooSoon
  BY DEF VisualIInv
<1>2. /\ told' \in Looks \cup {NoFile} /\ sinceAlert' \in Ages /\ swallowed' \in BOOLEAN /\ troubled' \in BOOLEAN
      /\ troubled' => sinceAlert' = Never
      /\ ~troubled' => AllIdle /\ ~troubled /\ UNCHANGED <<told, sinceAlert, swallowed, troubled>>
  BY <1>1, TroubleMeans DEF VisualCrash, AllIdle
<1>3. eval' \in [Evaluators -> Evaluations] /\ \A p \in Evaluators : eval'[p].stage = "idle"
  BY NoEvaluationType DEF VisualCrash
<1>4. VisualTypeOK'
  BY <1>1, <1>2, <1>3 DEF VisualTypeOK, VisualCrash
<1>5. FaultsTypeOK'
  BY <1>1, FaultsAssumption DEF VisualCrash, FaultsTypeOK, Fault, CanFail
<1>6. AllIdle' /\ Alone' /\ Present' /\ \A p \in Evaluators : Fits(eval[p])'
  BY <1>3 DEF AllIdle, IsIdle, Alone, Present, Fits
<1>7. Unadded'
  <2>1. vrow.status = "none" => sinceAlert' = Never
    BY <1>1, <1>2 DEF Unadded
  <2>. QED  BY <1>1, <1>6, <2>1 DEF Unadded, VisualCrash
<1>8. ASSUME ~troubled' PROVE Untroubled'
  <2>1. AsShown /\ Dated
    BY <1>2, <1>8 DEF VisualIInv, Untroubled
  <2>2. AsShown' /\ Dated'
    BY <1>2, <1>8, <2>1 DEF AsShown, Dated, VisualCrash
  <2>. QED  BY <1>6, <2>2 DEF Untroubled
<1>. QED  BY <1>1, <1>2, <1>4, <1>5, <1>6, <1>7, <1>8 DEF VisualIInv, VisualCrash

LEMMA VisualTimeKeeps == VisualIInv /\ VisualTime => VisualIInv'
<1>. SUFFICES ASSUME VisualIInv, VisualTime PROVE VisualIInv'
  OBVIOUS
<1>1. VisualTypeOK /\ Unadded /\ Present /\ FaultsTypeOK /\ (troubled => sinceAlert = Never) /\ ~tooSoon
  BY DEF VisualIInv
<1>2. /\ vrow' \in Rows /\ vrow'.alerted = Older(vrow.alerted) /\ vrow'.status = vrow.status
      /\ vrow.alerted \in Ages
  BY <1>1, OlderMeans DEF VisualTypeOK, VisualTime, Rows
<1>3. sinceAlert' = Older(sinceAlert) /\ sinceAlert \in Ages /\ sinceAlert' \in Ages
  BY <1>1, OlderMeans DEF VisualTypeOK, VisualTime
<1>4. ASSUME NEW p \in Evaluators
      PROVE  /\ eval[p] \in Evaluations /\ eval'[p] \in Evaluations
             /\ eval'[p].stage = eval[p].stage /\ eval'[p].since = eval[p].since
             /\ eval'[p].shot = eval[p].shot /\ eval'[p].changed = eval[p].changed
             /\ eval'[p].row.status = eval[p].row.status
             /\ eval'[p].row.hasBaseline = eval[p].row.hasBaseline
             /\ ~IsIdle(p) => eval'[p].row.alerted = Older(eval[p].row.alerted)
             /\ eval[p].row.alerted \in Ages /\ eval[p].since \in Ages
  <2>1. eval[p] \in Evaluations /\ eval[p].row \in Rows /\ eval[p].age \in Ages
        /\ eval[p].row.alerted \in Ages /\ eval[p].since \in Ages
    BY <1>1 DEF VisualTypeOK, Evaluations, Rows
  <2>2. Older(eval[p].age) \in Ages /\ Older(eval[p].row.alerted) \in Ages
    BY <2>1, OlderMeans
  <2>3. CASE IsIdle(p)
    BY <2>1, <2>3 DEF VisualTime
  <2>4. CASE ~IsIdle(p)
    <3>. DEFINE w == [eval[p].row EXCEPT !.alerted = Older(@)]
                r == [eval[p] EXCEPT !.age = Older(@), !.row = w]
    <3>1. /\ w \in Rows /\ w.status = eval[p].row.status /\ w.hasBaseline = eval[p].row.hasBaseline
          /\ w.alerted = Older(eval[p].row.alerted)
      BY <2>1, <2>2 DEF Rows
    <3>2. eval'[p] = [eval[p] EXCEPT !.age = Older(@), !.row.alerted = Older(@)]
      BY <2>4 DEF VisualTime
    <3>3. eval'[p] = r
      BY <2>1, <3>2 DEF Evaluations
    <3>. HIDE DEF w
    <3>4. /\ r \in Evaluations /\ r.stage = eval[p].stage /\ r.since = eval[p].since
          /\ r.shot = eval[p].shot /\ r.changed = eval[p].changed /\ r.row = w
      BY <2>1, <2>2, <3>1 DEF Evaluations
    <3>. QED  BY <2>1, <3>1, <3>3, <3>4
  <2>. QED  BY <2>3, <2>4
<1>5. eval' \in [Evaluators -> Evaluations]
  BY <1>4 DEF VisualTime
<1>6. VisualTypeOK' /\ FaultsTypeOK'
  BY <1>1, <1>2, <1>3, <1>5 DEF VisualTypeOK, VisualTime, FaultsTypeOK
<1>7. Present' /\ (AllIdle' <=> AllIdle) /\ (Alone => Alone')
  BY <1>1, <1>4 DEF Present, IsIdle, AllIdle, Alone
<1>8. Unadded'
  BY <1>1, <1>2, <1>3, <1>7, OlderMeans DEF Unadded, VisualTime
<1>9. (AsShown => AsShown') /\ (Dated => Dated')
  BY <1>2, <1>3 DEF AsShown, Dated, VisualTime
<1>10. ASSUME NEW p \in Evaluators, Fits(eval[p]) PROVE Fits(eval[p])'
  <2>1. CASE IsIdle(p)
    BY <1>4, <2>1 DEF Fits, IsIdle
  <2>2. CASE ~IsIdle(p)
    <3>1. eval'[p].row.alerted = sinceAlert'
      BY <1>3, <1>4, <1>10, <2>2 DEF Fits, IsIdle
    <3>2. eval[p].since <= sinceAlert => eval'[p].since <= sinceAlert'
      BY <1>3, <1>4, VisualAssumption DEF Ages, Never, Older
    <3>3. UNCHANGED baseline
      BY DEF VisualTime
    <3>. QED  BY <1>4, <1>9, <1>10, <3>1, <3>2, <3>3 DEF Fits
  <2>. QED  BY <2>1, <2>2
<1>11. troubled' => sinceAlert' = Never
  BY <1>1, <1>3, OlderMeans DEF VisualTime
<1>12. ASSUME ~troubled' PROVE Untroubled'
  <2>1. Untroubled
    BY <1>12 DEF VisualIInv, VisualTime
  <2>. QED  BY <1>7, <1>9, <1>10, <2>1 DEF Untroubled
<1>. QED  BY <1>1, <1>6, <1>7, <1>8, <1>11, <1>12 DEF VisualIInv, VisualTime

LEMMA PageKeeps == VisualIInv /\ PageChanges => VisualIInv'
<1>. SUFFICES ASSUME VisualIInv, PageChanges PROVE VisualIInv'
  OBVIOUS
<1>1. VisualTypeOK'
  <2>1. page' \in [look : Looks, words : BOOLEAN]
    <3>1. NotifiesKeywords(vrow) \in BOOLEAN
      <4>1. NotifiesKeywords(vrow) = (vrow.notify \in {"keywords", "both"})
        BY DEF NotifiesKeywords
      <4>2. (vrow.notify \in {"keywords", "both"}) \in BOOLEAN
        OBVIOUS
      <4>. QED  BY <4>1, <4>2
    <3>2. PICK look \in Looks, hit \in {FALSE, NotifiesKeywords(vrow)} : page' = [look |-> look, words |-> hit]
      BY DEF PageChanges
    <3>3. hit \in BOOLEAN
      BY <3>1, <3>2, Zenon
    <3>. QED  BY <3>2, <3>3
  <2>2. pageChanges' \in 0 .. MaxPageChanges
    BY VisualAssumption DEF VisualIInv, VisualTypeOK, PageChanges
  <2>. QED  BY <2>1, <2>2 DEF VisualIInv, VisualTypeOK, PageChanges, visualHistory
<1>2. UNCHANGED <<vrow, baseline, eval, visualHistory, faults>>
  BY DEF PageChanges
<1>. QED  BY <1>1, <1>2 DEF VisualIInv, FaultsTypeOK, Unadded, AllIdle, IsIdle, Present, Untroubled, Alone, Fits,
                            AsShown, Dated, visualHistory

LEMMA AddKeeps == VisualIInv /\ VisualAdd => VisualIInv'
<1>. SUFFICES ASSUME VisualIInv, VisualAdd PROVE VisualIInv'
  OBVIOUS
<1>1. VisualTypeOK /\ Unadded /\ Present /\ FaultsTypeOK /\ (troubled => sinceAlert = Never) /\ ~tooSoon
  BY DEF VisualIInv
<1>2. AllIdle /\ vrow.alerted = Never /\ sinceAlert = Never /\ baseline = NoFile
  BY <1>1 DEF Unadded, VisualAdd
<1>3. vrow' \in Rows /\ vrow'.status = "present" /\ vrow'.alerted = Never
  BY <1>1, VisualAssumption DEF VisualAdd, VisualTypeOK, NewRow, Rows, Ages, Never
<1>4. UNCHANGED <<baseline, page, pageChanges, eval, visualHistory, faults>>
  BY DEF VisualAdd
<1>5. VisualTypeOK' /\ FaultsTypeOK'
  BY <1>1, <1>3, <1>4 DEF VisualTypeOK, visualHistory, FaultsTypeOK
<1>6. AllIdle' /\ Alone' /\ Present' /\ Unadded' /\ \A p \in Evaluators : Fits(eval[p])'
  BY <1>2, <1>3, <1>4 DEF AllIdle, IsIdle, Alone, Present, Fits, Unadded
<1>7. AsShown' /\ Dated'
  <2>1. NoFile \notin Looks
    BY VisualAssumption DEF NoFile
  <2>. QED  BY <1>2, <1>3, <1>4, <2>1 DEF AsShown, Dated, visualHistory
<1>. QED  BY <1>1, <1>4, <1>5, <1>6, <1>7 DEF VisualIInv, Untroubled, visualHistory

LEMMA RemoveKeeps == VisualIInv /\ VisualRemove => VisualIInv'
<1>. SUFFICES ASSUME VisualIInv, VisualRemove PROVE VisualIInv'
  OBVIOUS
<1>1. VisualTypeOK /\ Unadded /\ Present /\ FaultsTypeOK /\ (troubled => sinceAlert = Never) /\ ~tooSoon
  BY DEF VisualIInv
<1>2. vrow' \in Rows /\ vrow'.status = "removed"
  BY <1>1 DEF VisualRemove, VisualTypeOK, Rows
<1>3. UNCHANGED <<baseline, page, pageChanges, eval, visualHistory>>
  BY DEF VisualRemove
<1>4. VisualTypeOK' /\ FaultsTypeOK'
  BY <1>1, <1>2, <1>3, FaultsAssumption DEF VisualTypeOK, visualHistory, VisualRemove, FaultsTypeOK, Fault, CanFail
<1>5. Unadded' /\ Present' /\ Dated' /\ (AllIdle' <=> AllIdle) /\ (Alone' <=> Alone) /\ (AsShown' <=> AsShown)
  BY <1>1, <1>2, <1>3 DEF Unadded, Present, Dated, AllIdle, Alone, IsIdle, AsShown, visualHistory
<1>6. \A p \in Evaluators : Fits(eval[p]) => Fits(eval[p])'
  BY <1>3, <1>5 DEF Fits, visualHistory, IsIdle
<1>. QED  BY <1>1, <1>3, <1>4, <1>5, <1>6 DEF VisualIInv, Untroubled, visualHistory

LEMMA VisualStep == VisualIInv /\ [VisualNext]_<<visual, faults>> => VisualIInv'
<1>1. ASSUME VisualIInv, UNCHANGED <<visual, faults>> PROVE VisualIInv'
  BY <1>1 DEF VisualIInv, VisualTypeOK, FaultsTypeOK, Unadded, AllIdle, IsIdle, Present, Untroubled, Alone, Fits,
              AsShown, Dated, visual
<1>2. ASSUME VisualIInv, NEW p \in Evaluators, Evaluate(p) PROVE VisualIInv'
  BY <1>2, CaptureKeeps, CompareKeeps, CopyKeeps, NotifyKeeps, UpdateKeeps DEF Evaluate
<1>. QED  BY <1>1, <1>2, VisualTimeKeeps, PageKeeps, AddKeeps, RemoveKeeps, VisualCrashKeeps, StartKeeps DEF VisualNext

\* Alerts of a page are a cooldown apart, as long as its evaluations do not overlap
\* and its row is written (internal/visualwatch/service.go, shouldNotify).
THEOREM VisualAlertsApart == VisualSpec => []VisualCooldownKept
<1>1. VisualIInv => VisualCooldownKept
  BY DEF VisualIInv, VisualCooldownKept
<1>. QED  BY VisualInitially, VisualStep, <1>1, PTL DEF VisualSpec

\* Small changes do not add up unseen: the baseline is what the chat was last
\* shown, but for a difference that does not count (persistBaseline).
THEOREM DriftIsSeen == VisualSpec => []DriftIsTold
<1>1. VisualIInv => DriftIsTold
  BY DEF VisualIInv, Untroubled, AllIdle, AsShown, DriftIsTold
<1>. QED  BY VisualInitially, VisualStep, <1>1, PTL DEF VisualSpec

-------------------------------------------------------------------------------
(* Provisioning (MemoryProvisioning): before anything fails and anybody         *)
(* rebuilds, every width there is is that of the model, and who stores anything *)
(* has found the collection.                                                    *)

Undisturbed == faults = 0 /\ where["rebuild"] = "idle"

Prepares == {"has", "pull", "confirm"}
AfterPull == {"dims", "exists", "create", "ready"}
NeedsWidth == {"exists", "create"}
NeedsCollection == {"embed", "upsert", "ready"}

Sound ==
  /\ brain.up /\ qdrant.up
  /\ config.pulled => Installed /\ \A w \in Actors : where[w] # "wait"
  /\ qdrant.width \in {0, Width}
  /\ cache["agent"].service \in {0, Width} /\ cache["agent"].embedder \in {0, Width}
  /\ \A w \in Actors :
       /\ where[w] \in NeedsWidth => held[w] = Width
       /\ where[w] \in NeedsCollection => qdrant.width = Width
  /\ where["bootstrap"] \in AfterPull => Installed
  /\ where["worker"] \notin Prepares
  /\ where["worker"] = "upsert" => held["worker"] = Width

ProvisioningIInv == ProvisioningTypeOK /\ (Undisturbed => Sound)

LEMMA WidthsAre ==
  ASSUME ProvisioningTypeOK
  PROVE  /\ Width \in Nat \ {0} /\ Width \in Known /\ 0 \in Known
         /\ \A k \in Known : k \in Nat
         /\ ProvisioningTypeOK' /\ brain'.model = brain.model => Width' = Width
<1>1. brain.model \in DOMAIN Widths
  BY DEF ProvisioningTypeOK, Models
<1>2. Width \in Range(Widths) /\ Width \in Nat \ {0}
  BY <1>1, WidthsAssumption DEF Width, Range
<1>3. \A k \in Range(Widths) : k \in Nat
  BY WidthsAssumption DEF Range
<1>. QED  BY <1>2, <1>3 DEF Known, Width

LEMMA ProvisioningInitially == ProvisioningInit => ProvisioningIInv
<1>. SUFFICES ASSUME ProvisioningInit PROVE ProvisioningIInv
  OBVIOUS
<1>1. PICK m \in Models :
        brain = [up |-> TRUE, model |-> m, installed |-> IF config.pulled THEN {m} ELSE {}]
  BY DEF ProvisioningInit
<1>2. /\ config \in [auto : BOOLEAN, pulled : BOOLEAN]
      /\ brain \in [up : BOOLEAN, model : Models, installed : SUBSET Models]
      /\ brain.up /\ (config.pulled => Installed)
  BY <1>1 DEF ProvisioningInit, Installed
<1>3. /\ where \in [Actors -> {"off", "has", "idle"}]
      /\ where["worker"] = "idle" /\ where["bootstrap"] \in {"off", "has"}
  BY DEF ProvisioningInit, FirstStep, Actors
<1>4. FaultsTypeOK
  BY FaultsAssumption DEF ProvisioningInit, FaultsInit, FaultsTypeOK
<1>5. /\ 0 \in Known
      /\ NotKnown \in [service : Known, embedder : Known]
      /\ qdrant \in [up : BOOLEAN, width : Known]
      /\ held \in [Actors -> Known]
      /\ cache \in [{"agent", "cli"} -> [service : Known, embedder : Known]]
      /\ cache["agent"].service = 0 /\ cache["agent"].embedder = 0
      /\ qdrant.up /\ qdrant.width = 0
  BY DEF ProvisioningInit, Known, NotKnown
<1>6. ProvisioningTypeOK
  BY <1>2, <1>3, <1>4, <1>5 DEF ProvisioningTypeOK, ProvisioningInit
<1>. QED  BY <1>2, <1>3, <1>5, <1>6 DEF ProvisioningIInv, Sound, NeedsWidth, NeedsCollection, AfterPull, Prepares

\* Steps that are faults leave nothing to show but the types.
LEMMA FaultKeeps ==
  ASSUME ProvisioningIInv, Fault, faults < MaxEvents, ProvisioningTypeOK' \/ (FaultsTypeOK' => ProvisioningTypeOK')
  PROVE  ProvisioningIInv'
<1>1. faults \in 0 .. MaxEvents
  BY DEF ProvisioningIInv, ProvisioningTypeOK, FaultsTypeOK
<1>2. FaultsTypeOK' /\ faults' # 0
  BY <1>1, FaultsAssumption DEF FaultsTypeOK, Fault
<1>. QED  BY <1>2 DEF ProvisioningIInv, Undisturbed

Steps == {"off", "idle", "has", "pull", "confirm", "dims", "exists", "create",
          "embed", "upsert", "wait", "ready", "drop", "queue", "over"}

LEMMA GoesToMeans ==
  ASSUME ProvisioningTypeOK, NEW who \in Actors, NEW step \in Steps, GoesTo(who, step)
  PROVE  /\ where' \in [Actors -> Steps]
         /\ \A w \in Actors : where'[w] = IF w = who THEN step ELSE where[w]
BY DEF ProvisioningTypeOK, GoesTo, Steps

\* Only one actor moves, and only it may reach a step that needs something.
LEMMA ActorMoves ==
  ASSUME ProvisioningIInv, NEW who \in Actors, NEW step \in Steps, GoesTo(who, step), NoFault,
         step # "idle" \/ who # "rebuild",
         UNCHANGED <<config, brain, qdrant>>,
         cache' \in [{"agent", "cli"} -> [service : Known, embedder : Known]],
         held' \in [Actors -> Known], \A w \in Actors : w # who => held'[w] = held[w],
         job' \in {"pending", "running", "completed"},
         Undisturbed /\ who # "rebuild" /\ Sound =>
           /\ cache'["agent"].service \in {0, Width} /\ cache'["agent"].embedder \in {0, Width}
           /\ step \in NeedsWidth \cup {"upsert"} => held'[who] = Width
           /\ step \in NeedsCollection => qdrant.width = Width
           /\ who = "bootstrap" /\ step \in AfterPull => Installed
           /\ who = "worker" => step \notin Prepares
           /\ step = "wait" => ~config.pulled
  PROVE  ProvisioningIInv'
<1>1. ProvisioningTypeOK
  BY DEF ProvisioningIInv
<1>2. /\ where' \in [Actors -> Steps]
      /\ \A w \in Actors : where'[w] = IF w = who THEN step ELSE where[w]
  BY <1>1, GoesToMeans
<1>3. ProvisioningTypeOK'
  BY <1>1, <1>2 DEF ProvisioningTypeOK, FaultsTypeOK, NoFault, Steps
<1>4. ASSUME Undisturbed' PROVE Sound'
  <2>1. who # "rebuild" /\ Undisturbed
    BY <1>2, <1>4 DEF Undisturbed, NoFault, Actors
  <2>2. Sound
    BY <2>1 DEF ProvisioningIInv
  <2>3. Width' = Width /\ (Installed' <=> Installed)
    BY DEF Width, Installed
  <2>4. {"bootstrap", "worker", "rebuild"} = Actors
    BY DEF Actors
  <2>. QED  BY <1>2, <2>1, <2>2, <2>3, <2>4 DEF Sound
<1>. QED  BY <1>3, <1>4 DEF ProvisioningIInv

LEMMA HasModelKeeps == ProvisioningIInv /\ HasModel => ProvisioningIInv'
<1>. SUFFICES ASSUME ProvisioningIInv, HasModel PROVE ProvisioningIInv'
  OBVIOUS
<1>1. "bootstrap" \in Actors /\ {"wait", "dims", "pull"} \subseteq Steps
  BY DEF Actors, Steps
<1>2. PICK step \in {"wait", "dims", "pull"} :
        /\ GoesTo("bootstrap", step)
        /\ step = "wait" => ~brain.up
        /\ step = "dims" => Installed
  BY DEF HasModel, Unavailable
<1>3. NoFault /\ UNCHANGED <<config, brain, qdrant, cache, held, job>> /\ ProvisioningTypeOK
  BY DEF HasModel, ProvisioningIInv
<1>. QED  BY <1>1, <1>2, <1>3, ActorMoves
          DEF Sound, NeedsWidth, NeedsCollection, AfterPull, ProvisioningTypeOK

LEMMA ConfirmModelKeeps == ProvisioningIInv /\ ConfirmModel => ProvisioningIInv'
<1>. SUFFICES ASSUME ProvisioningIInv, ConfirmModel PROVE ProvisioningIInv'
  OBVIOUS
<1>1. "bootstrap" \in Actors /\ {"wait", "dims"} \subseteq Steps
  BY DEF Actors, Steps
<1>2. PICK step \in {"wait", "dims"} :
        /\ GoesTo("bootstrap", step)
        /\ step = "wait" => ~brain.up \/ ~Installed
        /\ step = "dims" => Installed
  BY DEF ConfirmModel, Unavailable, ModelServed
<1>3. NoFault /\ UNCHANGED <<config, brain, qdrant, cache, held, job>> /\ ProvisioningTypeOK
  BY DEF ConfirmModel, ProvisioningIInv
<1>. QED  BY <1>1, <1>2, <1>3, ActorMoves
          DEF Sound, NeedsWidth, NeedsCollection, AfterPull, ProvisioningTypeOK

\* The model is installed, or the pull did nothing (a fault), or the brain is away.
LEMMA PullKeeps == ProvisioningIInv /\ Pull => ProvisioningIInv'
<1>. SUFFICES ASSUME ProvisioningIInv, Pull PROVE ProvisioningIInv'
  OBVIOUS
<1>1. /\ "bootstrap" \in Actors /\ {"wait", "confirm"} \subseteq Steps /\ ProvisioningTypeOK
      /\ UNCHANGED <<config, qdrant, cache, held, job>>
  BY DEF Actors, Steps, ProvisioningIInv, Pull
<1>2. CASE brain.up /\ GoesTo("bootstrap", "confirm") /\ NoFault
           /\ brain' = [brain EXCEPT !.installed = @ \cup {brain.model}]
  <2>1. /\ where' \in [Actors -> Steps]
        /\ \A w \in Actors : where'[w] = IF w = "bootstrap" THEN "confirm" ELSE where[w]
    BY <1>1, <1>2, GoesToMeans
  <2>2. /\ brain' \in [up : BOOLEAN, model : Models, installed : SUBSET Models]
        /\ brain'.model = brain.model /\ brain'.up = brain.up /\ Installed'
    BY <1>1, <1>2 DEF ProvisioningTypeOK, Installed
  <2>3. ProvisioningTypeOK'
    BY <1>1, <1>2, <2>1, <2>2 DEF ProvisioningTypeOK, NoFault, FaultsTypeOK, Steps
  <2>4. ASSUME Undisturbed' PROVE Sound'
    <3>1. Undisturbed
      BY <1>2, <2>1, <2>4 DEF Undisturbed, NoFault, Actors
    <3>2. Sound /\ Width' = Width
      BY <2>2, <3>1 DEF ProvisioningIInv, Width
    <3>. QED  BY <1>1, <2>1, <2>2, <3>2 DEF Sound, NeedsWidth, NeedsCollection, AfterPull, Prepares, Actors
  <2>. QED  BY <2>3, <2>4 DEF ProvisioningIInv
<1>3. CASE brain.up /\ CanFail("pull_empty") /\ Fault /\ GoesTo("bootstrap", "confirm") /\ UNCHANGED brain
  <2>1. where' \in [Actors -> Steps]
    BY <1>1, <1>3, GoesToMeans
  <2>2. FaultsTypeOK' => ProvisioningTypeOK'
    BY <1>1, <1>3, <2>1 DEF ProvisioningTypeOK, Steps
  <2>. QED  BY <1>3, <2>2, FaultKeeps DEF CanFail
<1>4. CASE ~brain.up /\ Unavailable("bootstrap") /\ NoFault /\ UNCHANGED brain
  <2>1. GoesTo("bootstrap", "wait")
    BY <1>4 DEF Unavailable
  <2>. QED  BY <1>1, <1>4, <2>1, ActorMoves
            DEF Sound, NeedsWidth, NeedsCollection, AfterPull, ProvisioningTypeOK
<1>. QED  BY <1>2, <1>3, <1>4 DEF Pull

LEMMA VectorDimensionsKeeps ==
  ASSUME ProvisioningIInv, NEW who \in Actors, VectorDimensions(who)
  PROVE  ProvisioningIInv'
<1>. DEFINE mine == cache[Process(who)]
            width == IF mine.service > 0 THEN mine.service
                     ELSE IF mine.embedder > 0 THEN mine.embedder
                     ELSE IF ModelServed THEN Width ELSE 0
<1>1. /\ ProvisioningTypeOK /\ Process(who) \in {"agent", "cli"} /\ where[who] = "dims"
      /\ (who # "rebuild" => Process(who) = "agent")
      /\ {"wait", "queue", "exists"} \subseteq Steps /\ NoFault /\ UNCHANGED <<config, brain, qdrant, job>>
  BY DEF ProvisioningIInv, Process, VectorDimensions, Steps
<1>2. /\ mine \in [service : Known, embedder : Known] /\ mine.service \in Known /\ mine.embedder \in Known
      /\ mine.service \in Nat /\ mine.embedder \in Nat /\ Width \in Known /\ Width \in Nat \ {0}
  BY <1>1, WidthsAre DEF ProvisioningTypeOK
<1>3. width \in Known /\ width \in Nat
  BY <1>1, <1>2, WidthsAre
<1>4. ASSUME Sound, who # "rebuild"
      PROVE  width \in {0, Width} /\ (width = 0 => ~Installed)
  <2>1. mine.service \in {0, Width} /\ mine.embedder \in {0, Width} /\ brain.up
    BY <1>1, <1>4 DEF Sound
  <2>. QED  BY <1>2, <2>1 DEF ModelServed
<1>5. /\ width = 0 => Unavailable(who) /\ UNCHANGED <<cache, held>>
      /\ width # 0 => /\ GoesTo(who, "exists")
                      /\ held' = [held EXCEPT ![who] = width]
                      /\ cache' = [cache EXCEPT ![Process(who)] =
                                     [service |-> width, embedder |-> IF @.embedder = 0 THEN width ELSE @.embedder]]
  BY DEF VectorDimensions
<1>. HIDE DEF width
<1>6. CASE width = 0
  <2>1. PICK step \in {"wait", "queue"} : GoesTo(who, step) /\ (step = "queue" => who = "rebuild")
    BY <1>5, <1>6 DEF Unavailable
  <2>2. Undisturbed /\ who # "rebuild" /\ Sound =>
           /\ cache'["agent"].service \in {0, Width} /\ cache'["agent"].embedder \in {0, Width}
           /\ ~Installed
    BY <1>4, <1>5, <1>6 DEF Sound
  <2>. QED  BY <1>1, <1>5, <1>6, <2>1, <2>2, ActorMoves
            DEF Sound, NeedsWidth, NeedsCollection, AfterPull, Prepares, ProvisioningTypeOK
<1>7. CASE width # 0
  <2>1. [service |-> width, embedder |-> IF mine.embedder = 0 THEN width ELSE mine.embedder]
          \in [service : Known, embedder : Known]
    BY <1>2, <1>3
  <2>2. cache' \in [{"agent", "cli"} -> [service : Known, embedder : Known]]
    BY <1>1, <1>5, <1>7, <2>1 DEF ProvisioningTypeOK
  <2>3. /\ held' \in [Actors -> Known] /\ held'[who] = width
        /\ \A w \in Actors : w # who => held'[w] = held[w]
    BY <1>1, <1>3, <1>5, <1>7 DEF ProvisioningTypeOK
  <2>4. Undisturbed /\ who # "rebuild" /\ Sound =>
           /\ cache'["agent"].service \in {0, Width} /\ cache'["agent"].embedder \in {0, Width}
           /\ held'[who] = Width
    <3>. SUFFICES ASSUME who # "rebuild", Sound
                  PROVE  /\ cache'["agent"].service \in {0, Width} /\ cache'["agent"].embedder \in {0, Width}
                         /\ held'[who] = Width
      OBVIOUS
    <3>1. width = Width
      BY <1>4, <1>7
    <3>2. cache'["agent"] = [service |-> width, embedder |-> IF mine.embedder = 0 THEN width ELSE mine.embedder]
      BY <1>1, <1>5, <1>7 DEF ProvisioningTypeOK
    <3>3. mine.embedder \in {0, Width}
      BY <1>1 DEF Sound
    <3>. QED  BY <2>3, <3>1, <3>2, <3>3
  <2>5. Sound /\ who = "bootstrap" => Installed
    BY <1>1 DEF Sound, AfterPull
  <2>. QED  BY <1>1, <1>5, <1>7, <2>2, <2>3, <2>4, <2>5, ActorMoves
            DEF NeedsWidth, NeedsCollection, AfterPull, Prepares, ProvisioningTypeOK
<1>. QED  BY <1>6, <1>7

\* Where an actor goes that width or made the collection.
LEMMA EnsuredMeans ==
  ASSUME NEW who \in Actors, Ensured(who)
  PROVE  \E step \in {"ready", "embed", "queue"} :
           /\ GoesTo(who, step)
           /\ step = "ready" <=> who = "bootstrap"
           /\ step = "queue" <=> who = "rebuild"
BY DEF Ensured, Actors

LEMMA CollectionExistsKeeps ==
  ASSUME ProvisioningIInv, NEW who \in Actors, CollectionExists(who)
  PROVE  ProvisioningIInv'
<1>1. /\ ProvisioningTypeOK /\ where[who] = "exists"
      /\ {"wait", "queue", "create", "ready", "embed"} \subseteq Steps
      /\ NoFault /\ UNCHANGED <<config, brain, qdrant, cache, held, job>>
  BY DEF ProvisioningIInv, CollectionExists, Steps
<1>2. qdrant.width \in Nat
  BY <1>1, WidthsAre DEF ProvisioningTypeOK
<1>3. Sound => /\ held[who] = Width /\ qdrant.up /\ qdrant.width \in {0, Width}
               /\ who = "bootstrap" => Installed
  BY <1>1 DEF Sound, NeedsWidth, AfterPull
<1>4. CASE ~qdrant.up
  <2>1. PICK step \in {"wait", "queue"} : GoesTo(who, step) /\ (step = "queue" => who = "rebuild")
    BY <1>4 DEF CollectionExists, Unavailable
  <2>. QED  BY <1>1, <1>4, <2>1, ActorMoves
            DEF Sound, NeedsWidth, NeedsCollection, AfterPull, Prepares, ProvisioningTypeOK
<1>5. CASE qdrant.up /\ qdrant.width > 0
  <2>1. PICK step \in {"ready", "embed", "queue"} :
           /\ GoesTo(who, step)
           /\ step = "ready" <=> who = "bootstrap"
           /\ step = "queue" <=> who = "rebuild"
    BY <1>5, EnsuredMeans DEF CollectionExists
  <2>2. Sound => qdrant.width = Width
    BY <1>2, <1>3, <1>5
  <2>. QED  BY <1>1, <1>3, <2>1, <2>2, ActorMoves
            DEF Sound, NeedsWidth, NeedsCollection, AfterPull, Prepares, ProvisioningTypeOK
<1>6. CASE qdrant.up /\ ~(qdrant.width > 0)
  <2>1. GoesTo(who, "create")
    BY <1>6 DEF CollectionExists
  <2>. QED  BY <1>1, <1>3, <2>1, ActorMoves
            DEF Sound, NeedsWidth, NeedsCollection, AfterPull, Prepares, ProvisioningTypeOK
<1>. QED  BY <1>4, <1>5, <1>6

\* The second of two creators finds the collection of the first.
LEMMA CreateCollectionKeeps ==
  ASSUME ProvisioningIInv, NEW who \in Actors, CreateCollection(who)
  PROVE  ProvisioningIInv'
<1>1. /\ ProvisioningTypeOK /\ where[who] = "create"
      /\ {"wait", "queue", "ready", "embed"} \subseteq Steps
      /\ NoFault /\ UNCHANGED <<config, brain, cache, held, job>>
  BY DEF ProvisioningIInv, CreateCollection, Steps
<1>2. Sound => /\ held[who] = Width /\ qdrant.up /\ qdrant.width \in {0, Width}
               /\ who = "bootstrap" => Installed
  BY <1>1 DEF Sound, NeedsWidth, AfterPull
<1>3. CASE ~qdrant.up
  <2>1. PICK step \in {"wait", "queue"} : GoesTo(who, step) /\ (step = "queue" => who = "rebuild")
    BY <1>3 DEF CreateCollection, Unavailable
  <2>2. UNCHANGED qdrant
    BY <1>3 DEF CreateCollection
  <2>. QED  BY <1>1, <1>3, <2>1, <2>2, ActorMoves
            DEF Sound, NeedsWidth, NeedsCollection, AfterPull, Prepares, ProvisioningTypeOK
<1>4. CASE qdrant.up
  <2>1. PICK step \in {"ready", "embed", "queue"} :
           /\ GoesTo(who, step)
           /\ step = "ready" <=> who = "bootstrap"
           /\ step = "queue" <=> who = "rebuild"
    BY <1>4, EnsuredMeans DEF CreateCollection
  <2>2. /\ where' \in [Actors -> Steps]
        /\ \A w \in Actors : where'[w] = IF w = who THEN step ELSE where[w]
    BY <1>1, <2>1, GoesToMeans
  <2>3. /\ qdrant' \in [up : BOOLEAN, width : Known] /\ qdrant'.up = qdrant.up
        /\ qdrant'.width = IF qdrant.width = 0 THEN held[who] ELSE qdrant.width
    BY <1>1, <1>4 DEF CreateCollection, ProvisioningTypeOK
  <2>4. ProvisioningTypeOK'
    BY <1>1, <2>2, <2>3 DEF ProvisioningTypeOK, FaultsTypeOK, NoFault, Steps
  <2>5. ASSUME Undisturbed' PROVE Sound'
    <3>1. Undisturbed /\ who # "rebuild"
      BY <1>1, <2>1, <2>2, <2>5 DEF Undisturbed, NoFault, Actors
    <3>2. Sound
      BY <3>1 DEF ProvisioningIInv
    <3>3. Width' = Width /\ (Installed' <=> Installed)
      BY <1>1 DEF Width, Installed
    <3>4. qdrant'.width = Width
      BY <1>2, <2>3, <3>2
    <3>. QED  BY <1>1, <1>2, <2>1, <2>2, <2>3, <3>1, <3>2, <3>3, <3>4
              DEF Sound, NeedsWidth, NeedsCollection, AfterPull, Prepares, Actors
  <2>. QED  BY <2>4, <2>5 DEF ProvisioningIInv
<1>. QED  BY <1>3, <1>4

LEMMA WorksKeeps == ProvisioningIInv /\ (Claim \/ Embed \/ Upsert \/ RetryJob) => ProvisioningIInv'
<1>. SUFFICES ASSUME ProvisioningIInv, Claim \/ Embed \/ Upsert \/ RetryJob PROVE ProvisioningIInv'
  OBVIOUS
<1>1. "worker" \in Actors /\ {"dims", "upsert", "wait", "idle"} \subseteq Steps /\ ProvisioningTypeOK
  BY DEF ProvisioningIInv, Actors, Steps
<1>2. CASE Claim
  BY <1>1, <1>2, ActorMoves DEF Claim, Sound, NeedsWidth, NeedsCollection, AfterPull, Prepares, ProvisioningTypeOK
<1>3. CASE RetryJob
  BY <1>1, <1>3, ActorMoves DEF RetryJob, Sound, NeedsWidth, NeedsCollection, AfterPull, Prepares, ProvisioningTypeOK
<1>4. CASE Upsert
  <2>1. PICK step \in {"wait", "idle"} :
          /\ GoesTo("worker", step)
          /\ step = "wait" => ~(qdrant.up /\ qdrant.width = held["worker"])
    BY <1>4 DEF Upsert, Unavailable
  <2>2. Sound => qdrant.up /\ qdrant.width = held["worker"]
    BY <1>1, <1>4 DEF Sound, NeedsCollection, Upsert
  <2>. QED  BY <1>1, <1>4, <2>1, <2>2, ActorMoves
            DEF Upsert, Sound, NeedsWidth, NeedsCollection, AfterPull, Prepares, ProvisioningTypeOK
<1>5. CASE Embed /\ ModelServed
  <2>1. Width \in Known
    BY <1>1, WidthsAre
  <2>2. /\ GoesTo("worker", "upsert")
        /\ cache' = [cache EXCEPT !["agent"].embedder = Width]
        /\ held' = [held EXCEPT !["worker"] = Width]
        /\ NoFault /\ UNCHANGED <<config, brain, qdrant, job>>
    BY <1>5 DEF Embed
  <2>3. /\ cache' \in [{"agent", "cli"} -> [service : Known, embedder : Known]]
        /\ cache'["agent"].embedder = Width /\ cache'["agent"].service = cache["agent"].service
    BY <1>1, <2>1, <2>2 DEF ProvisioningTypeOK
  <2>4. /\ held' \in [Actors -> Known] /\ held'["worker"] = Width
        /\ \A w \in Actors : w # "worker" => held'[w] = held[w]
    BY <1>1, <2>1, <2>2 DEF ProvisioningTypeOK
  <2>5. Sound => qdrant.width = Width
    BY <1>1, <1>5 DEF Sound, NeedsCollection, Embed
  <2>. QED  BY <1>1, <2>2, <2>3, <2>4, <2>5, ActorMoves
            DEF Sound, NeedsWidth, NeedsCollection, AfterPull, Prepares, ProvisioningTypeOK
<1>6. CASE Embed /\ ~ModelServed
  <2>1. GoesTo("worker", "wait") /\ NoFault /\ UNCHANGED <<config, brain, qdrant, cache, held, job>>
    BY <1>6 DEF Embed, Unavailable
  <2>2. Sound => ~config.pulled
    BY <1>6 DEF Sound, ModelServed
  <2>. QED  BY <1>1, <2>1, <2>2, ActorMoves
            DEF Sound, NeedsWidth, NeedsCollection, AfterPull, Prepares, ProvisioningTypeOK
<1>. QED  BY <1>2, <1>3, <1>4, <1>5, <1>6

LEMMA NextAttemptKeeps == ProvisioningIInv /\ NextAttempt => ProvisioningIInv'
<1>. SUFFICES ASSUME ProvisioningIInv, NextAttempt PROVE ProvisioningIInv'
  OBVIOUS
<1>1. "bootstrap" \in Actors /\ "has" \in Steps /\ ProvisioningTypeOK
  BY DEF ProvisioningIInv, Actors, Steps
<1>. QED  BY <1>1, ActorMoves
          DEF NextAttempt, Sound, NeedsWidth, NeedsCollection, AfterPull, Prepares, ProvisioningTypeOK

\* Once somebody rebuilds, the types are all there is to show.
LEMMA RebuildKeeps == ProvisioningIInv /\ (StartRebuild \/ DropCollection \/ Enqueue) => ProvisioningIInv'
<1>. SUFFICES ASSUME ProvisioningIInv, NEW step \in {"drop", "dims", "over"}, GoesTo("rebuild", step), NoFault,
                     StartRebuild \/ DropCollection \/ Enqueue
              PROVE  ProvisioningIInv'
  BY DEF StartRebuild, DropCollection, Enqueue
<1>1. "rebuild" \in Actors /\ {"drop", "dims", "over"} \subseteq Steps /\ ProvisioningTypeOK
  BY DEF ProvisioningIInv, Actors, Steps
<1>2. /\ where' \in [Actors -> Steps] /\ where'["rebuild"] # "idle"
  BY <1>1, GoesToMeans
<1>3. UNCHANGED <<config, brain, cache, held>> /\ 0 \in Known
  BY DEF StartRebuild, DropCollection, Enqueue, Known
<1>4. qdrant' \in [up : BOOLEAN, width : Known]
  BY <1>1, <1>3 DEF ProvisioningTypeOK, StartRebuild, DropCollection, Enqueue
<1>5. job' \in {"pending", "running", "completed"}
  BY <1>1 DEF ProvisioningTypeOK, StartRebuild, DropCollection, Enqueue
<1>. QED  BY <1>1, <1>2, <1>3, <1>4, <1>5
          DEF ProvisioningIInv, ProvisioningTypeOK, Undisturbed, NoFault, FaultsTypeOK, Steps

LEMMA BackendKeeps ==
  ProvisioningIInv /\ (BrainSleeps \/ BrainWakes \/ ModelChanges \/ QdrantStops \/ QdrantReturns) => ProvisioningIInv'
<1>. SUFFICES ASSUME ProvisioningIInv, BrainSleeps \/ BrainWakes \/ ModelChanges \/ QdrantStops \/ QdrantReturns
              PROVE  ProvisioningIInv'
  OBVIOUS
<1>1. ProvisioningTypeOK /\ 0 \in Known
  BY DEF ProvisioningIInv, Known
<1>2. UNCHANGED <<config, cache, where, held, job>>
  BY DEF BrainSleeps, BrainWakes, ModelChanges, QdrantStops, QdrantReturns
<1>3. /\ brain' \in [up : BOOLEAN, model : Models, installed : SUBSET Models]
      /\ qdrant' \in [up : BOOLEAN, width : Known]
  <2>1. CASE BrainSleeps
    BY <1>1, <2>1 DEF ProvisioningTypeOK, BrainSleeps
  <2>2. CASE BrainWakes
    BY <1>1, <2>2 DEF ProvisioningTypeOK, BrainWakes
  <2>3. CASE ModelChanges
    <3>1. PICK m \in Models : brain' = [brain EXCEPT !.model = m, !.installed = @ \cup {m}]
      BY <2>3 DEF ModelChanges
    <3>. QED  BY <1>1, <2>3, <3>1 DEF ProvisioningTypeOK, ModelChanges
  <2>4. CASE QdrantStops
    BY <1>1, <2>4 DEF ProvisioningTypeOK, QdrantStops
  <2>5. CASE QdrantReturns
    <3>1. qdrant' = [qdrant EXCEPT !.up = TRUE] \/ qdrant' = [up |-> TRUE, width |-> 0]
      BY <2>5 DEF QdrantReturns
    <3>2. qdrant' \in [up : BOOLEAN, width : Known]
      <4>1. qdrant \in [up : BOOLEAN, width : Known]
        BY <1>1 DEF ProvisioningTypeOK
      <4>2. [qdrant EXCEPT !.up = TRUE] \in [up : BOOLEAN, width : Known]
        BY <4>1
      <4>3. [up |-> TRUE, width |-> 0] \in [up : BOOLEAN, width : Known]
        BY <1>1
      <4>. QED  BY <3>1, <4>2, <4>3
    <3>. QED  BY <1>1, <2>5, <3>2 DEF ProvisioningTypeOK, QdrantReturns
  <2>. QED  BY <2>1, <2>2, <2>3, <2>4, <2>5
<1>4. FaultsTypeOK' => ProvisioningTypeOK'
  BY <1>1, <1>2, <1>3 DEF ProvisioningTypeOK
<1>5. \/ Fault /\ faults < MaxEvents
      \/ NoFault /\ (~brain.up \/ ~qdrant.up)
  BY DEF BrainSleeps, BrainWakes, ModelChanges, QdrantStops, QdrantReturns, CanFail
<1>6. CASE Fault /\ faults < MaxEvents
  BY <1>4, <1>6, FaultKeeps
<1>7. CASE NoFault /\ (~brain.up \/ ~qdrant.up)
  <2>1. ~Undisturbed
    BY <1>7 DEF ProvisioningIInv, Sound
  <2>2. ~Undisturbed'
    BY <1>2, <1>7, <2>1 DEF Undisturbed, NoFault
  <2>. QED  BY <1>1, <1>4, <1>7, <2>2 DEF ProvisioningIInv, ProvisioningTypeOK, NoFault, FaultsTypeOK
<1>. QED  BY <1>5, <1>6, <1>7

LEMMA RestartKeeps == ProvisioningIInv /\ AgentRestarts => ProvisioningIInv'
<1>. SUFFICES ASSUME ProvisioningIInv, AgentRestarts PROVE ProvisioningIInv'
  OBVIOUS
<1>1. ProvisioningTypeOK /\ 0 \in Known /\ FirstStep \in Steps /\ "idle" \in Steps
      /\ NotKnown \in [service : Known, embedder : Known]
  BY DEF ProvisioningIInv, Known, FirstStep, NotKnown, Steps
<1>2. /\ cache' \in [{"agent", "cli"} -> [service : Known, embedder : Known]]
      /\ held' \in [Actors -> Known] /\ where' \in [Actors -> Steps]
      /\ job' \in {"pending", "running", "completed"}
  BY <1>1 DEF AgentRestarts, ProvisioningTypeOK, Steps
<1>3. FaultsTypeOK' => ProvisioningTypeOK'
  BY <1>1, <1>2 DEF ProvisioningTypeOK, AgentRestarts, Steps
<1>. QED  BY <1>3, FaultKeeps DEF AgentRestarts, CanFail

LEMMA ProvisioningStep == ProvisioningIInv /\ [ProvisioningNext]_provisioningVars => ProvisioningIInv'
<1>1. ASSUME ProvisioningIInv, UNCHANGED provisioningVars PROVE ProvisioningIInv'
  BY <1>1 DEF ProvisioningIInv, ProvisioningTypeOK, FaultsTypeOK, Undisturbed, Sound, Installed, Width, provisioningVars
<1>2. ASSUME ProvisioningIInv, NEW who \in Actors, Ensures(who) PROVE ProvisioningIInv'
  BY <1>2, VectorDimensionsKeeps, CollectionExistsKeeps, CreateCollectionKeeps DEF Ensures
<1>3. {"bootstrap", "worker", "rebuild"} \subseteq Actors
  BY DEF Actors
<1>. QED  BY <1>1, <1>2, <1>3, HasModelKeeps, ConfirmModelKeeps, PullKeeps, WorksKeeps, NextAttemptKeeps, RebuildKeeps,
             BackendKeeps, RestartKeeps DEF ProvisioningNext, Bootstraps, Works, Rebuilds

\* The creators of the collection never get in each other's way, for any number of
\* models of any width (Service.bootstrap, EnsureCollection).
THEOREM CreatorsAgree == ProvisioningSpec => []ProvisioningHolds
<1>1. ProvisioningIInv => ProvisioningHolds
  <2>1. ASSUME ProvisioningTypeOK, NEW w \in Range(where) PROVE \E a \in Actors : w = where[a]
    BY <2>1 DEF Range, ProvisioningTypeOK
  <2>2. "bootstrap" \in Actors
    BY DEF Actors
  <2>. QED  BY <2>1, <2>2 DEF ProvisioningIInv, Undisturbed, Sound, AfterPull, NeedsCollection, ProvisioningHolds
<1>. QED  BY ProvisioningInitially, ProvisioningStep, <1>1, PTL DEF ProvisioningSpec

-------------------------------------------------------------------------------
(* The skill registry (SkillRegistry): whatever the origins offer, in whatever  *)
(* order each of them offers it.                                                *)

\* What the core module has offered is registered as its own; an error would have
\* ended the start.
CoreSoFar ==
  start # "failed" =>
    /\ turn = 4 => \A d \in offered : byName[d.name] = "core"
    /\ turn > 4 => \A d \in Offers["core"] : byName[d.name] = "core"
RunsLast == start = "running" => turn = Len(Origins) + 1
AliasesFound == \A i \in SkillIdentifiers : byAlias[i] # NoOrigin => byName[byAlias[i]] # NoOrigin

RegistryIInv == RegistryTypeOK /\ AliasesFound /\ CoreSoFar /\ RunsLast

LEMMA OriginsAre ==
  /\ Len(Origins) = 6 /\ Origins[4] = "core"
  /\ \A n \in 1 .. Len(Origins) : Origins[n] \in OriginSet /\ Origins[n] # NoOrigin /\ (Origins[n] = "core" => n = 4)
  /\ "core" \in OriginSet
<1>1. \A n \in 1 .. Len(Origins) : n \in {1, 2, 3, 4, 5, 6}
  BY DEF Origins
<1>. QED  BY <1>1 DEF Origins, OriginSet, ToSet, NoOrigin

\* A name that is taken stays.
LEMMA RegisterKeeps ==
  ASSUME RegistryTypeOK, NEW d \in Definitions, NEW origin \in OriginSet, origin # NoOrigin, Register(d, origin)
  PROVE  /\ byName' \in [SkillIdentifiers -> OriginSet \cup {NoOrigin}]
         /\ byAlias' \in [SkillIdentifiers -> SkillIdentifiers \cup {NoOrigin}]
         /\ NamesKept
         /\ byName[d.name] = NoOrigin => byName'[d.name] = origin
         /\ byName'[d.name] # NoOrigin /\ d.name \in SkillIdentifiers
         /\ \A i \in SkillIdentifiers : byAlias'[i] \in {byAlias[i], d.name}
<1>1. d.name \in SkillIdentifiers
  BY DEF Definitions
<1>2. CASE byName[d.name] # NoOrigin
  BY <1>1, <1>2 DEF Register, RegistryTypeOK, NamesKept
<1>3. CASE byName[d.name] = NoOrigin
  <2>1. PICK stored : /\ byName' = [byName EXCEPT ![d.name] = origin]
                      /\ byAlias' = [i \in SkillIdentifiers |-> IF i \in stored THEN d.name ELSE byAlias[i]]
    BY <1>3 DEF Register
  <2>. QED  BY <1>1, <1>3, <2>1 DEF RegistryTypeOK, NamesKept
<1>. QED  BY <1>2, <1>3

LEMMA OfferedAre ==
  ASSUME NEW origin \in OriginSet
  PROVE  Offered(origin) \subseteq Definitions /\ Offered(origin) \subseteq Offers[origin]
BY RegistryAssumption DEF Offered, Discovered

LEMMA RegistryInitially == RegistryInit => RegistryIInv
<1>. SUFFICES ASSUME RegistryInit PROVE RegistryIInv
  OBVIOUS
<1>1. RegistryTypeOK
  BY OriginsAre DEF RegistryInit, RegistryTypeOK
<1>. QED  BY <1>1 DEF RegistryIInv, RegistryInit, AliasesFound, CoreSoFar, RunsLast

LEMMA OfferKeeps == RegistryIInv /\ Offer => RegistryIInv' /\ NamesKept
<1>. SUFFICES ASSUME RegistryIInv, Offer PROVE RegistryIInv' /\ NamesKept
  OBVIOUS
<1>1. RegistryTypeOK /\ turn \in 1 .. Len(Origins) /\ start = "building" /\ turn' = turn
  BY OriginsAre DEF RegistryIInv, RegistryTypeOK, Offer
<1>2. PICK d \in Offered(Origins[turn]) \ offered :
        /\ Register(d, Origins[turn])
        /\ offered' = offered \cup {d}
        /\ start' = IF Clashes(d) /\ Fatal(Origins[turn]) THEN "failed" ELSE start
  BY DEF Offer
<1>3. Origins[turn] \in OriginSet /\ Origins[turn] # NoOrigin /\ d \in Definitions
  BY <1>1, <1>2, OriginsAre, OfferedAre
<1>4. /\ byName' \in [SkillIdentifiers -> OriginSet \cup {NoOrigin}]
      /\ byAlias' \in [SkillIdentifiers -> SkillIdentifiers \cup {NoOrigin}]
      /\ NamesKept
      /\ byName[d.name] = NoOrigin => byName'[d.name] = Origins[turn]
      /\ byName'[d.name] # NoOrigin /\ d.name \in SkillIdentifiers
      /\ \A i \in SkillIdentifiers : byAlias'[i] \in {byAlias[i], d.name}
  BY <1>1, <1>2, <1>3, RegisterKeeps
<1>5. RegistryTypeOK'
  BY <1>1, <1>2, <1>3, <1>4 DEF RegistryTypeOK
<1>6. AliasesFound'
  BY <1>1, <1>4 DEF RegistryIInv, RegistryTypeOK, AliasesFound, NamesKept
<1>7. RunsLast' /\ start' \in {"building", "failed"}
  BY <1>1, <1>2 DEF RunsLast
<1>8. ASSUME start' # "failed", turn = 4
      PROVE  \A e \in offered' : byName'[e.name] = "core"
  <2>1. Origins[turn] = "core" /\ Fatal(Origins[turn])
    BY <1>8, OriginsAre DEF Fatal
  <2>2. byName[d.name] = NoOrigin
    BY <1>2, <1>8, <2>1 DEF Clashes
  <2>3. \A e \in offered : byName[e.name] = "core" /\ e.name \in SkillIdentifiers
    BY <1>1, <1>8 DEF RegistryIInv, CoreSoFar, RegistryTypeOK, Definitions
  <2>. QED  BY <1>2, <1>4, <2>1, <2>2, <2>3 DEF NamesKept, NoOrigin
<1>9. ASSUME turn > 4
      PROVE  \A e \in Offers["core"] : byName'[e.name] = "core"
  <2>1. \A e \in Offers["core"] : byName[e.name] = "core" /\ e.name \in SkillIdentifiers
    BY <1>1, <1>9, OriginsAre, RegistryAssumption DEF RegistryIInv, CoreSoFar, Definitions
  <2>. QED  BY <1>4, <2>1 DEF NamesKept, NoOrigin
<1>10. CoreSoFar'
  BY <1>1, <1>8, <1>9 DEF CoreSoFar
<1>. QED  BY <1>4, <1>5, <1>6, <1>7, <1>10 DEF RegistryIInv

LEMMA NextOriginKeeps == RegistryIInv /\ NextOrigin => RegistryIInv' /\ NamesKept
<1>. SUFFICES ASSUME RegistryIInv, NextOrigin PROVE RegistryIInv' /\ NamesKept
  OBVIOUS
<1>1. /\ RegistryTypeOK /\ turn \in 1 .. Len(Origins) /\ start = "building" /\ turn' = turn + 1 /\ offered' = {}
      /\ start' = (IF turn = Len(Origins) THEN "running" ELSE start) /\ UNCHANGED <<byName, byAlias>>
  BY OriginsAre DEF RegistryIInv, RegistryTypeOK, NextOrigin
<1>2. RegistryTypeOK'
  BY <1>1, OriginsAre DEF RegistryTypeOK
<1>3. AliasesFound' /\ RunsLast' /\ NamesKept
  BY <1>1, OriginsAre DEF RegistryIInv, AliasesFound, RunsLast, NamesKept
<1>4. turn = 4 => offered = Offers["core"]
  BY OriginsAre DEF NextOrigin
<1>5. CoreSoFar'
  BY <1>1, <1>4, OriginsAre DEF RegistryIInv, CoreSoFar
<1>. QED  BY <1>2, <1>3, <1>5 DEF RegistryIInv

LEMMA RegistryStep == RegistryIInv /\ [RegistryNext]_registry => RegistryIInv' /\ [NamesKept]_registry
<1>1. ASSUME RegistryIInv, UNCHANGED registry PROVE RegistryIInv'
  BY <1>1 DEF RegistryIInv, RegistryTypeOK, AliasesFound, CoreSoFar, RunsLast, registry
<1>. QED  BY <1>1, OfferKeeps, NextOriginKeeps DEF RegistryNext

\* A name stays with the skill that took it first (Registry.Register).
LEMMA NamesStay == RegistrySpec => [][NamesKept]_registry
BY RegistryInitially, RegistryStep, PTL DEF RegistrySpec

\* What is listed leads to a skill, whatever was refused half-way
\* (Registry.Register, ResolveIdentifier).
LEMMA AliasesLeadSomewhere == RegistrySpec => []AliasesLead
<1>1. RegistryIInv => AliasesLead
  BY DEF RegistryIInv, AliasesFound, AliasesLead, ResolveIdentifier, RegistryTypeOK
<1>. QED  BY RegistryInitially, RegistryStep, <1>1, PTL DEF RegistrySpec

\* An agent that starts has every core command (BuildRegistryWithWatch).
LEMMA CoreIsThere == RegistrySpec => []CoreComplete
<1>1. RegistryIInv => CoreComplete
  <2>. SUFFICES ASSUME RegistryIInv, start = "running", NEW i \in CoreNames PROVE ResolveIdentifier(i).origin = "core"
    BY DEF CoreComplete
  <2>1. PICK d \in Offers["core"] : i = d.name
    BY RegistryAssumption
  <2>2. byName[i] = "core"
    BY <2>1, OriginsAre DEF RegistryIInv, CoreSoFar, RunsLast
  <2>. QED  BY <2>2 DEF ResolveIdentifier, NoOrigin
<1>. QED  BY RegistryInitially, RegistryStep, <1>1, PTL DEF RegistrySpec

\* All three, whatever the origins offer and in whatever order.
THEOREM RegistryKept == RegistrySpec => RegistryHolds
BY NamesStay, AliasesLeadSomewhere, CoreIsThere, PTL DEF RegistryHolds

-------------------------------------------------------------------------------
(* Service skills (HostServices): for every list of services, near and far.     *)

\* ServiceCommands that only look.
LookCommands == {"docker-compose ps", "docker-compose ps -q", "docker-compose ps -a -q", "docker inspect"}

WellNamed == \A name \in DOMAIN services : Display(name) = name /\ name # None
Unasked == request = NoRequest => todo = {} /\ attempts = <<>> /\ found = <<>> /\ answer = None
Asking == (command = None <=> asked = None) /\ (asked # None => asked \in todo)
Answered == answer # None => todo = {}
OnlyLooks == command \in LookCommands => Kind = "status"

\* What a request that changes nothing runs has no effect, and as long as another
\* command may follow no command had one, but for those that looked like docker's.
NoEffect == \A i \in DOMAIN attempts : ~attempts[i].effect
Excused == \A i \in DOMAIN attempts : attempts[i].effect => attempts[i].fault = "own_error"
Harmless == (Kind \notin Mutating => NoEffect) /\ (todo # {} => Excused)

\* One service is asked for, and what was found out of it comes from the last
\* command.
Subject == Display(request.service)
EndsWell(name) == attempts # <<>> /\ Last(attempts).ok /\ Last(attempts).name = name
SubjectOnly ==
  request.kind # "list" /\ request.service # "" /\ answer # "refused" =>
    /\ todo \subseteq {Subject}
    /\ todo = {} => Subject \in DOMAIN found /\ (found[Subject] # "unknown" => EndsWell(Subject))
ListsAll == request.kind = "list" => DOMAIN found \cup todo = DOMAIN services

ServicesIInv ==
  /\ ServicesTypeOK /\ FaultsTypeOK /\ WellNamed
  /\ Unasked /\ Asking /\ Answered /\ OnlyLooks /\ Harmless /\ SubjectOnly /\ ListsAll
  /\ RunsOnce /\ ToldOfItself

LEMMA SameServices == UNCHANGED services => Attempts' = Attempts /\ ServiceRequests' = ServiceRequests
BY DEF Attempts, ServiceRequests

LEMMA DisplayTwice == \A name : Display(Display(name)) = Display(name)
BY DEF Display

LEMMA KindsRun == ServicesTypeOK => Kind \in {"status", "restart", "logs", "exec"}
<1>. SUFFICES ASSUME ServicesTypeOK PROVE Kind \in {"status", "restart", "logs", "exec"}
  OBVIOUS
<1>1. CASE Lists(request)
  BY <1>1 DEF Kind
<1>2. CASE ~Lists(request)
  <2>1. NoRequest.service = ""
    BY DEF NoRequest
  <2>2. request # NoRequest /\ request.kind # "list"
    BY <1>2, <2>1 DEF Lists
  <2>3. request.kind \in {"list", "status", "restart", "logs", "exec"}
    BY <2>2 DEF ServicesTypeOK, ServiceRequests
  <2>. QED  BY <1>2, <2>2, <2>3 DEF Kind
<1>. QED  BY <1>1, <1>2

LEMMA FirstMeans ==
  ASSUME NEW kind \in {"status", "restart", "logs", "exec"}, NEW backend \in Backends
  PROVE  /\ First(kind, backend) \in ServiceCommands /\ First(kind, backend) # None
         /\ First(kind, backend) \in LookCommands => kind = "status"
<1>1. CASE backend = "compose"
  BY <1>1 DEF First, None, LookCommands, ServiceCommands
<1>2. CASE backend = "systemd"
  <2>1. First(kind, backend) = [status |-> "systemctl show", restart |-> "systemctl restart",
                                logs |-> "journalctl", exec |-> "run"][kind]
    BY <1>2 DEF First
  <2>2. First(kind, backend) \in {"systemctl show", "systemctl restart", "journalctl", "run"}
    <3>1. CASE kind = "status"
      BY <2>1, <3>1
    <3>2. CASE kind = "restart"
      BY <2>1, <3>2
    <3>3. CASE kind = "logs"
      BY <2>1, <3>3
    <3>4. CASE kind = "exec"
      BY <2>1, <3>4
    <3>. QED  BY <3>1, <3>2, <3>3, <3>4
  <2>. QED  BY <2>2 DEF None, LookCommands, ServiceCommands
<1>3. CASE backend = "docker"
  <2>1. First(kind, backend) = [status |-> "docker inspect", restart |-> "docker restart",
                                logs |-> "docker logs", exec |-> "docker exec"][kind]
    BY <1>3 DEF First
  <2>2. /\ First(kind, backend) \in {"docker inspect", "docker restart", "docker logs", "docker exec"}
        /\ First(kind, backend) = "docker inspect" => kind = "status"
    <3>1. CASE kind = "status"
      BY <2>1, <3>1
    <3>2. CASE kind = "restart"
      BY <2>1, <3>2
    <3>3. CASE kind = "logs"
      BY <2>1, <3>3
    <3>4. CASE kind = "exec"
      BY <2>1, <3>4
    <3>. QED  BY <3>1, <3>2, <3>3, <3>4
  <2>. QED  BY <2>2 DEF None, LookCommands, ServiceCommands
<1>. QED  BY <1>1, <1>2, <1>3 DEF Backends

LEMMA LookMeans ==
  ASSUME NEW c, NEW ok, NEW says
  PROVE  /\ Look(c, ok, says) \in LookCommands \cup {None}
         /\ Look(c, ok, says) # None => c \in LookCommands
BY DEF Look, LookCommands, None

\* Another command follows only one that looked, or a failure of a known text.
LEMMA RetryMeans ==
  ASSUME NEW target, NEW c, NEW ok, NEW says
  PROVE  LET more == Retry(target, c, ok, says) IN
         /\ more \in LookCommands \cup {None, "sudo systemctl restart", "docker-compose"}
         /\ more # None => c \in LookCommands \/ says \in {"denied", "no_compose", "no_format"}
         /\ more \in LookCommands => c \in LookCommands \/ Kind = "status"
<1>1. CASE c = "systemctl restart" /\ Denied(target, ok, says)
  BY <1>1 DEF Retry, Denied, LookCommands
<1>2. CASE c = "docker compose" /\ Legacy(ok, says)
  BY <1>2 DEF Retry, Denied, Legacy, Unformatted, LookCommands, None
<1>3. CASE /\ c \in {"docker compose", "docker-compose"} /\ Unformatted(ok, says)
           /\ ~(c = "docker compose" /\ Legacy(ok, says))
  BY <1>3 DEF Retry, Unformatted, Legacy, LookCommands
<1>4. CASE /\ ~(c = "systemctl restart" /\ Denied(target, ok, says))
           /\ ~(c = "docker compose" /\ Legacy(ok, says))
           /\ ~(c \in {"docker compose", "docker-compose"} /\ Unformatted(ok, says))
  <2>1. Retry(target, c, ok, says) = Look(c, ok, says)
    BY <1>4 DEF Retry
  <2>2. /\ Look(c, ok, says) \in LookCommands \cup {None}
        /\ Look(c, ok, says) # None => c \in LookCommands
    BY LookMeans
  <2>3. None \notin LookCommands
    BY DEF LookCommands, None
  <2>. DEFINE more == Retry(target, c, ok, says)
  <2>4. more \in LookCommands \cup {None} /\ (more # None => c \in LookCommands)
    BY <2>1, <2>2
  <2>. HIDE DEF more
  <2>5. more \in LookCommands => c \in LookCommands
    BY <2>3, <2>4
  <2>. QED  BY <2>4, <2>5 DEF more
<1>. QED  BY <1>1, <1>2, <1>3, <1>4

LEMMA AppendMeans ==
  ASSUME NEW S, NEW s \in Seq(S), NEW x \in S
  PROVE  /\ Append(s, x) \in Seq(S) /\ Append(s, x) # <<>> /\ Last(Append(s, x)) = x
         /\ DOMAIN Append(s, x) = DOMAIN s \cup {Len(s) + 1} /\ Len(s) + 1 \notin DOMAIN s
         /\ Append(s, x)[Len(s) + 1] = x
         /\ \A i \in DOMAIN s : Append(s, x)[i] = s[i] /\ i < Len(s) + 1 /\ ~(Len(s) + 1 < i)
BY DEF Last

Says == States \cup {"", "other", "denied", "no_compose", "no_format"}

(* ------------------------------- a command ------------------------------- *)

LEMMA RanKeeps ==
  ASSUME ServicesIInv, NEW ok \in BOOLEAN, NEW effect \in BOOLEAN, NEW says \in Says, NEW fault \in {None, "own_error", "deadline"},
         Ran(ok, effect, says, fault), command # None,
         UNCHANGED <<services, request, answer>>, expired' \in BOOLEAN,
         faults' = faults \/ (faults' = faults + 1 /\ faults < MaxEvents),
         effect => Kind \in Mutating,
         effect /\ says \in {"denied", "no_compose", "no_format"} => fault = "own_error"
  PROVE  ServicesIInv'
<1>. DEFINE target == services[asked]
            more == Retry(target, command, ok, says)
            attempt == [name |-> asked, unit |-> target.unit, host |-> target.host, command |-> command,
                        ok |-> ok, effect |-> effect, says |-> says, fault |-> fault]
            n == Len(attempts) + 1
<1>1. /\ ServicesTypeOK /\ FaultsTypeOK /\ WellNamed /\ Asking /\ Answered /\ OnlyLooks /\ Harmless
      /\ SubjectOnly /\ ListsAll /\ RunsOnce /\ ToldOfItself
  BY DEF ServicesIInv
<1>2. /\ asked # None /\ asked \in todo /\ asked \in DOMAIN services /\ answer = None
      /\ target.host \in RemoteHosts \cup {""} /\ command \in ServiceCommands /\ todo \subseteq DOMAIN services
  BY <1>1 DEF Asking, Answered, ServicesTypeOK
<1>3. /\ more \in LookCommands \cup {None, "sudo systemctl restart", "docker-compose"}
      /\ more # None => command \in LookCommands \/ says \in {"denied", "no_compose", "no_format"}
      /\ more \in LookCommands => command \in LookCommands \/ Kind = "status"
  BY RetryMeans
<1>4. attempt \in Attempts
  BY <1>1, <1>2 DEF ServicesTypeOK, Attempts, Says
<1>5. /\ attempt.name = asked /\ attempt.ok = ok /\ attempt.effect = effect /\ attempt.says = says
      /\ attempt.fault = fault /\ attempt.unit = services[asked].unit /\ attempt.host = services[asked].host
  OBVIOUS
<1>6. /\ attempts' = Append(attempts, attempt)
      /\ command' = more
      /\ more # None => UNCHANGED <<todo, found, asked>>
      /\ more = None => /\ Record(asked, StateFound(ok, says))
                        /\ todo' = todo \ {asked} /\ asked' = None
  BY DEF Ran
<1>. HIDE DEF attempt
<1>7. /\ attempts' \in Seq(Attempts) /\ attempts' # <<>> /\ Last(attempts') = attempt
      /\ DOMAIN attempts' = DOMAIN attempts \cup {n} /\ n \notin DOMAIN attempts
      /\ attempts'[n] = attempt
      /\ \A i \in DOMAIN attempts : attempts'[i] = attempts[i] /\ i < n /\ ~(n < i)
      /\ ~(n < n)
  <2>1. attempts \in Seq(Attempts)
    BY <1>1 DEF ServicesTypeOK
  <2>. HIDE DEF n
  <2>2. /\ Append(attempts, attempt) \in Seq(Attempts) /\ Append(attempts, attempt) # <<>>
        /\ Last(Append(attempts, attempt)) = attempt
        /\ DOMAIN Append(attempts, attempt) = DOMAIN attempts \cup {n} /\ n \notin DOMAIN attempts
        /\ Append(attempts, attempt)[n] = attempt
        /\ \A i \in DOMAIN attempts : Append(attempts, attempt)[i] = attempts[i] /\ i < n /\ ~(n < i)
    BY <1>4, <2>1, AppendMeans DEF n
  <2>3. ~(n < n)
    BY <2>1 DEF n
  <2>. QED  BY <1>6, <2>2, <2>3
<1>8. Kind' = Kind /\ Subject' = Subject
  BY DEF Kind, Lists, Subject
<1>9. StateFound(ok, says) \in {"active", "inactive", "unknown", "done"}
      /\ (StateFound(ok, says) \in {"active", "done"} => ok)
      /\ (StateFound(ok, says) = "active" => says = "running")
      /\ (StateFound(ok, says) # "unknown" => ok)
  BY DEF StateFound, ActiveState
<1>10. /\ found' \in [DOMAIN found' -> {"active", "inactive", "unknown", "done"}]
       /\ DOMAIN found' = IF more = None THEN DOMAIN found \cup {asked} ELSE DOMAIN found
       /\ \A name \in DOMAIN found' :
            found'[name] = IF more = None /\ name = asked THEN StateFound(ok, says) ELSE found[name]
  <2>1. CASE more # None
    BY <1>1, <1>6, <2>1 DEF ServicesTypeOK
  <2>2. CASE more = None
    BY <1>1, <1>6, <1>9, <2>2 DEF ServicesTypeOK, Record
  <2>. QED  BY <2>1, <2>2
<1>. HIDE DEF more, n, target
<1>11. ServicesTypeOK'
  <2>1. command' \in ServiceCommands \cup {None}
    BY <1>3, <1>6 DEF LookCommands, ServiceCommands
  <2>2. asked' \in DOMAIN services \cup {None} /\ todo' \subseteq DOMAIN services
    BY <1>1, <1>2, <1>6 DEF ServicesTypeOK
  <2>3. DOMAIN found' \subseteq DOMAIN services
    BY <1>1, <1>2, <1>10 DEF ServicesTypeOK
  <2>4. Attempts' = Attempts /\ ServiceRequests' = ServiceRequests
    BY SameServices
  <2>. QED  BY <1>1, <1>7, <1>10, <2>1, <2>2, <2>3, <2>4 DEF ServicesTypeOK
<1>12. FaultsTypeOK'
  BY <1>1, FaultsAssumption DEF FaultsTypeOK
<1>13. WellNamed' /\ Unasked'
  <2>1. request # NoRequest
    BY <1>2 DEF ServicesIInv, Unasked
  <2>. QED  BY <1>1, <2>1 DEF WellNamed, Unasked
<1>14. Asking' /\ Answered'
  BY <1>1, <1>2, <1>6 DEF Asking, Answered
<1>15. OnlyLooks'
  BY <1>1, <1>3, <1>6, <1>8 DEF OnlyLooks
<1>16. Excused
  BY <1>1, <1>2 DEF Harmless
<1>17. more # None => Excused'
  <2>. SUFFICES ASSUME more # None PROVE effect => fault = "own_error"
    BY <1>5, <1>7, <1>16 DEF Excused
  <2>1. command \in LookCommands => ~effect
    BY <1>1 DEF OnlyLooks, Mutating
  <2>. QED  BY <1>3, <2>1
<1>18. Kind \in Mutating => todo' = {} \/ more # None
  <2>. SUFFICES ASSUME Kind \in Mutating, more = None PROVE todo' = {}
    OBVIOUS
  <2>1. ~Lists(request) /\ request.kind # "list" /\ request.service # ""
    BY DEF Kind, Lists, Mutating
  <2>2. todo \subseteq {Subject}
    BY <1>1, <1>2, <2>1 DEF SubjectOnly, None
  <2>. QED  BY <1>2, <1>6, <2>2
<1>19. Kind \notin Mutating => NoEffect'
  BY <1>1, <1>5, <1>7 DEF Harmless, NoEffect
<1>20. Harmless'
  <2>1. NoEffect' => Excused'
    BY DEF NoEffect, Excused
  <2>. QED  BY <1>8, <1>17, <1>18, <1>19, <2>1 DEF Harmless
<1>21. RunsOnce'
  BY <1>5, <1>7, <1>16 DEF RunsOnce, Excused
<1>22. SubjectOnly'
  <2>. SUFFICES ASSUME request.kind # "list", request.service # ""
                PROVE  /\ todo' \subseteq {Subject}
                       /\ todo' = {} => Subject \in DOMAIN found' /\ (found'[Subject] # "unknown" => EndsWell(Subject)')
    BY <1>8 DEF SubjectOnly
  <2>1. todo \subseteq {Subject} /\ asked = Subject
    BY <1>1, <1>2 DEF SubjectOnly, None
  <2>2. todo' \subseteq {Subject}
    BY <1>6, <2>1
  <2>3. todo' = {} => more = None
    BY <1>2, <1>6
  <2>4. ok => EndsWell(Subject)'
    BY <1>5, <1>7, <1>8, <2>1 DEF EndsWell
  <2>. QED  BY <1>9, <1>10, <2>1, <2>2, <2>3, <2>4
<1>23. ListsAll'
  <2>. SUFFICES ASSUME request.kind = "list" PROVE DOMAIN found' \cup todo' = DOMAIN services
    BY DEF ListsAll
  <2>1. DOMAIN found \cup todo = DOMAIN services
    BY <1>1 DEF ListsAll
  <2>. QED  BY <1>2, <1>6, <1>10, <2>1
<1>24. ToldOfItself'
  <2>1. ASSUME NEW name \in DOMAIN found', found'[name] \in {"active", "done"}
        PROVE  \E i \in DOMAIN attempts' :
                 /\ attempts'[i].name = name /\ attempts'[i].ok
                 /\ attempts'[i].unit = services[name].unit /\ attempts'[i].host = services[name].host
                 /\ found'[name] = "active" => attempts'[i].says = "running"
    <3>1. CASE more = None /\ name = asked
      BY <1>5, <1>7, <1>9, <1>10, <2>1, <3>1
    <3>2. CASE ~(more = None /\ name = asked)
      <4>1. found'[name] = found[name] /\ name \in DOMAIN found
        BY <1>10, <3>2
      <4>2. PICK i \in DOMAIN attempts :
                 /\ attempts[i].name = name /\ attempts[i].ok
                 /\ attempts[i].unit = services[name].unit /\ attempts[i].host = services[name].host
                 /\ found[name] = "active" => attempts[i].says = "running"
        BY <1>1, <2>1, <4>1 DEF ToldOfItself
      <4>. QED  BY <1>7, <4>1, <4>2
    <3>. QED  BY <3>1, <3>2
  <2>2. answer' = None
    BY <1>2
  <2>. QED  BY <2>1, <2>2 DEF ToldOfItself, None
<1>. QED  BY <1>11, <1>12, <1>13, <1>14, <1>15, <1>20, <1>21, <1>22, <1>23, <1>24 DEF ServicesIInv

LEMMA RunKeeps == ServicesIInv /\ (Run \/ OwnError \/ Expire \/ TooLate) => ServicesIInv'
<1>. SUFFICES ASSUME ServicesIInv, Run \/ OwnError \/ Expire \/ TooLate PROVE ServicesIInv'
  OBVIOUS
<1>1. /\ command # None /\ UNCHANGED <<services, request, answer>> /\ expired' \in BOOLEAN
      /\ faults' = faults \/ (faults' = faults + 1 /\ faults < MaxEvents)
  BY DEF Run, OwnError, Expire, TooLate, CanFail, Fault, NoFault, None, ServicesIInv, ServicesTypeOK
<1>2. Does \in BOOLEAN /\ (Does => Kind \in Mutating)
  BY DEF Does
<1>3. CASE Run
  <2>1. CASE \E says \in IF Kind = "status" THEN States ELSE {""} : Ran(TRUE, Does, says, None)
    <3>1. PICK says \in States \cup {""} : Ran(TRUE, Does, says, None)
      BY <2>1
    <3>2. says \in Says /\ says \notin {"denied", "no_compose", "no_format"}
      BY <3>1 DEF States, Says
    <3>. QED  BY <1>1, <1>2, <3>1, <3>2, RanKeeps
  <2>2. CASE \E effect \in {FALSE, Does} : Ran(FALSE, effect, "other", None)
    <3>1. Ran(FALSE, FALSE, "other", None) \/ Ran(FALSE, Does, "other", None)
      BY <2>2
    <3>. QED  BY <1>1, <1>2, <3>1, RanKeeps DEF Says
  <2>3. CASE \E says \in {"denied", "no_compose", "no_format"} : Ran(FALSE, FALSE, says, None)
    BY <1>1, <2>3, RanKeeps DEF Says
  <2>. QED  BY <1>3, <2>1, <2>2, <2>3 DEF Run
<1>4. CASE OwnError
  <2>1. Ran(FALSE, TRUE, "no_compose", "own_error") /\ Kind \in Mutating
    BY <1>2, <1>4 DEF OwnError
  <2>. QED  BY <1>1, <2>1, RanKeeps DEF Says
<1>5. CASE Expire
  <2>1. Ran(FALSE, FALSE, "other", "deadline") \/ Ran(FALSE, Does, "other", "deadline")
    BY <1>5 DEF Expire
  <2>. QED  BY <1>1, <1>2, <2>1, RanKeeps DEF Says
<1>6. CASE TooLate
  <2>1. Ran(FALSE, FALSE, "other", "deadline")
    BY <1>6 DEF TooLate
  <2>. QED  BY <1>1, <2>1, RanKeeps DEF Says
<1>. QED  BY <1>3, <1>4, <1>5, <1>6

(* ------------------------------- the others ------------------------------- *)

LEMMA ServicesInitially == ServicesInit /\ FaultsInit => ServicesIInv
<1>. SUFFICES ASSUME ServicesInit, FaultsInit PROVE ServicesIInv
  OBVIOUS
<1>1. PICK inventory \in Inventories : Acceptable(inventory) /\ services = NewManager(inventory)
  BY DEF ServicesInit
<1>2. \A e \in inventory : /\ e.backend \in Backends /\ e.host \in RemoteHosts \cup {""}
                           /\ NameOf(e) # None /\ Display(NameOf(e)) = NameOf(e)
  <2>1. \A e \in inventory : e.backend \in Backends /\ NameOf(e) # None
    BY InventoriesAssumption
  <2>2. \A e \in inventory : Display(NameOf(e)) = NameOf(e)
    <3>1. \A e : \E name : NameOf(e) = Display(name)
      BY DEF NameOf
    <3>. QED  BY <3>1, DisplayTwice
  <2>3. \A e \in inventory : e.host \in RemoteHosts \cup {""}
    BY <1>1 DEF Acceptable
  <2>. QED  BY <2>1, <2>2, <2>3
<1>3. DOMAIN services = {NameOf(e) : e \in inventory}
  BY <1>1 DEF NewManager
<1>4. ASSUME NEW name \in DOMAIN services
      PROVE  services[name].host \in RemoteHosts \cup {""} /\ services[name].backend \in Backends
  <2>1. \E e \in inventory : services[name] = [unit |-> Unit(e), host |-> e.host, backend |-> e.backend]
    BY <1>1, <1>3 DEF NewManager
  <2>2. \E e \in inventory : services[name].host = e.host /\ services[name].backend = e.backend
    BY <2>1
  <2>. QED  BY <1>2, <2>2
<1>6. WellNamed
  BY <1>2, <1>3 DEF WellNamed
<1>7. /\ request = NoRequest /\ todo = {} /\ found = <<>> /\ asked = None
      /\ command = None /\ attempts = <<>> /\ expired = FALSE /\ answer = None
  BY DEF ServicesInit
<1>8. DOMAIN found = {} /\ DOMAIN attempts = {}
  BY <1>7
<1>9. ServicesTypeOK
  <2>1. found \in [DOMAIN found -> {"active", "inactive", "unknown", "done"}]
    BY <1>7, <1>8
  <2>2. attempts \in Seq(Attempts)
    BY <1>7
  <2>. QED  BY <1>4, <1>7, <1>8, <2>1, <2>2 DEF ServicesTypeOK
<1>10. FaultsTypeOK
  BY FaultsAssumption DEF FaultsTypeOK, FaultsInit
<1>11. request.kind = None /\ request.service = "" /\ Kind = "status"
  BY <1>7 DEF NoRequest, Kind, Lists
<1>. QED  BY <1>6, <1>7, <1>8, <1>9, <1>10, <1>11
          DEF ServicesIInv, Unasked, Asking, Answered, OnlyLooks, Harmless, NoEffect, Excused, SubjectOnly, ListsAll,
              RunsOnce, ToldOfItself, None, LookCommands

LEMMA AskKeeps ==
  ASSUME ServicesIInv, NEW r \in ServiceRequests, AskService(r)
  PROVE  ServicesIInv'
<1>1. /\ ServicesTypeOK /\ FaultsTypeOK /\ WellNamed /\ Asking /\ request = NoRequest /\ request' = r
      /\ todo = {} /\ attempts = <<>> /\ found = <<>> /\ answer = None
      /\ UNCHANGED <<services, found, asked, command, attempts, expired, faults>>
  BY DEF ServicesIInv, Unasked, AskService, NoFault
<1>2. r # NoRequest
  <2>1. r.kind # None
    BY DEF ServiceRequests, None
  <2>2. NoRequest.kind = None
    BY DEF NoRequest
  <2>. QED  BY <2>1, <2>2
<1>3. asked = None /\ command = None
  BY <1>1 DEF Asking
<1>4. \/ /\ Lists(r) /\ r.kind \notin Mutating
         /\ todo' = DOMAIN services /\ answer' = None
      \/ /\ ~(Lists(r) /\ r.kind \notin Mutating) /\ Display(r.service) \in DOMAIN services
         /\ todo' = {Display(r.service)} /\ answer' = None
      \/ /\ ~(Lists(r) /\ r.kind \notin Mutating)
         /\ answer' = "refused" /\ todo' = {}
  <2>1. CASE Lists(r) /\ r.kind \notin Mutating
    BY <1>1, <2>1 DEF AskService
  <2>2. CASE ~(Lists(r) /\ r.kind \notin Mutating) /\ Display(r.service) \in DOMAIN services
    BY <1>1, <2>2 DEF AskService
  <2>3. CASE ~(Lists(r) /\ r.kind \notin Mutating) /\ Display(r.service) \notin DOMAIN services
    BY <1>1, <2>3 DEF AskService
  <2>. QED  BY <2>1, <2>2, <2>3
<1>5. DOMAIN attempts = {} /\ DOMAIN found = {}
  BY <1>1
<1>6. ServicesTypeOK' /\ FaultsTypeOK'
  BY <1>1, <1>2, <1>4, SameServices DEF ServicesTypeOK, FaultsTypeOK
<1>7. WellNamed' /\ Unasked' /\ Asking' /\ Answered'
  BY <1>1, <1>2, <1>3, <1>4 DEF WellNamed, Unasked, Asking, Answered
<1>8. OnlyLooks' /\ Harmless'
  BY <1>1, <1>3, <1>5 DEF OnlyLooks, Harmless, NoEffect, Excused, LookCommands, None
<1>9. SubjectOnly'
  <2>. SUFFICES ASSUME r.kind # "list", r.service # "", answer' # "refused"
                PROVE  todo' \subseteq {Subject'} /\ todo' # {}
    BY <1>1 DEF SubjectOnly
  <2>1. ~Lists(r) /\ Subject' = Display(r.service)
    BY <1>1 DEF Lists, Subject
  <2>. QED  BY <1>4, <2>1
<1>10. ListsAll'
  BY <1>1, <1>4, <1>5 DEF ListsAll, Lists, Mutating
<1>11. RunsOnce' /\ ToldOfItself'
  BY <1>1, <1>4, <1>5 DEF RunsOnce, ToldOfItself, None
<1>. QED  BY <1>6, <1>7, <1>8, <1>9, <1>10, <1>11 DEF ServicesIInv

LEMMA AskForKeeps ==
  ASSUME ServicesIInv, NEW name \in DOMAIN services, AskFor(name)
  PROVE  ServicesIInv'
<1>1. /\ ServicesTypeOK /\ FaultsTypeOK /\ WellNamed /\ Asking /\ Answered /\ Harmless /\ SubjectOnly /\ ListsAll
      /\ RunsOnce /\ ToldOfItself
      /\ answer = None /\ asked = None /\ command = None /\ name \in todo /\ name # None
      /\ UNCHANGED <<services, request, attempts, expired, answer, faults>> /\ request # NoRequest
  BY DEF ServicesIInv, Asking, AskFor, NoFault, Unasked, WellNamed
<1>2. Kind \in {"status", "restart", "logs", "exec"} /\ services[name].backend \in Backends
      /\ Kind' = Kind /\ Subject' = Subject
  BY <1>1, KindsRun DEF ServicesTypeOK, Kind, Lists, Subject
<1>3. CASE Runnable(services[name])
  <2>1. /\ asked' = name /\ command' = First(Kind, services[name].backend) /\ UNCHANGED <<todo, found>>
    BY <1>3 DEF AskFor
  <2>2. command' \in ServiceCommands /\ command' # None /\ (command' \in LookCommands => Kind = "status")
    BY <1>2, <2>1, FirstMeans
  <2>3. ServicesTypeOK' /\ FaultsTypeOK'
    BY <1>1, <2>1, <2>2, SameServices DEF ServicesTypeOK, FaultsTypeOK
  <2>4. Asking' /\ OnlyLooks' /\ Answered' /\ WellNamed' /\ Unasked'
    BY <1>1, <1>2, <2>1, <2>2 DEF Asking, OnlyLooks, Answered, WellNamed, Unasked
  <2>5. Harmless' /\ SubjectOnly' /\ ListsAll' /\ RunsOnce' /\ ToldOfItself'
    BY <1>1, <1>2, <2>1 DEF Harmless, NoEffect, Excused, SubjectOnly, EndsWell, ListsAll, RunsOnce, ToldOfItself
  <2>. QED  BY <2>3, <2>4, <2>5 DEF ServicesIInv
<1>4. CASE ~Runnable(services[name])
  <2>1. todo' = todo \ {name} /\ Record(name, "unknown") /\ UNCHANGED <<asked, command>>
    BY <1>4 DEF AskFor
  <2>2. /\ found' \in [DOMAIN found' -> {"active", "inactive", "unknown", "done"}]
        /\ DOMAIN found' = DOMAIN found \cup {name}
        /\ \A m \in DOMAIN found' : found'[m] = IF m = name THEN "unknown" ELSE found[m]
    BY <1>1, <2>1 DEF ServicesTypeOK, Record
  <2>3. ServicesTypeOK' /\ FaultsTypeOK'
    BY <1>1, <2>1, <2>2, SameServices DEF ServicesTypeOK, FaultsTypeOK
  <2>4. Asking' /\ OnlyLooks' /\ Answered' /\ WellNamed' /\ Unasked'
    BY <1>1, <1>2, <2>1 DEF Asking, OnlyLooks, Answered, WellNamed, Unasked, LookCommands, None
  <2>5. Harmless' /\ RunsOnce'
    BY <1>1, <1>2, <2>1 DEF Harmless, NoEffect, Excused, RunsOnce
  <2>6. SubjectOnly'
    <3>. SUFFICES ASSUME request.kind # "list", request.service # ""
                  PROVE  /\ todo' \subseteq {Subject}
                         /\ Subject \in DOMAIN found' /\ found'[Subject] = "unknown"
      BY <1>1, <1>2 DEF SubjectOnly
    <3>1. todo \subseteq {Subject}
      BY <1>1 DEF SubjectOnly, None
    <3>. QED  BY <1>1, <2>1, <2>2, <3>1
  <2>7. ListsAll'
    BY <1>1, <2>1, <2>2 DEF ListsAll
  <2>8. ToldOfItself'
    <3>1. \A m \in DOMAIN found' : found'[m] \in {"active", "done"} => m \in DOMAIN found /\ found'[m] = found[m]
      BY <2>2
    <3>. QED  BY <1>1, <3>1 DEF ToldOfItself, None
  <2>. QED  BY <2>3, <2>4, <2>5, <2>6, <2>7, <2>8 DEF ServicesIInv
<1>. QED  BY <1>3, <1>4

LEMMA OnlyKeeps == ServicesIInv /\ Only => ServicesIInv'
<1>. SUFFICES ASSUME ServicesIInv, Only PROVE ServicesIInv'
  OBVIOUS
<1>1. /\ ServicesTypeOK /\ FaultsTypeOK /\ WellNamed /\ Asking /\ Harmless /\ RunsOnce /\ ToldOfItself
      /\ answer = None /\ request # NoRequest /\ todo = {} /\ request.kind # "list" /\ request.service = ""
      /\ UNCHANGED <<services, found, asked, command, attempts, expired, faults>>
  BY DEF ServicesIInv, Only, NoFault
<1>2. Kind = "status" /\ NoEffect /\ asked = None /\ command = None
  BY <1>1 DEF Kind, Lists, Harmless, Mutating, Asking
<1>3. request \in [kind : {"status", "restart", "logs", "exec"},
                   service : DOMAIN services \cup {"", "tailscaled", "unheard-of"}]
  BY <1>1 DEF ServicesTypeOK, ServiceRequests
<1>4. NoEffect' /\ Excused' /\ RunsOnce'
  BY <1>1, <1>2 DEF NoEffect, Excused, RunsOnce
<1>5. Harmless' /\ OnlyLooks' /\ Asking' /\ WellNamed'
  BY <1>1, <1>2, <1>4 DEF Harmless, OnlyLooks, LookCommands, None, Asking, WellNamed
<1>6. CASE UNCHANGED <<request, todo>> /\ answer' = "refused"
  <2>1. ServicesTypeOK' /\ FaultsTypeOK'
    BY <1>1, <1>6, SameServices DEF ServicesTypeOK, FaultsTypeOK
  <2>2. Answered' /\ Unasked' /\ SubjectOnly' /\ ListsAll'
    BY <1>1, <1>6 DEF Answered, Unasked, SubjectOnly, ListsAll
  <2>3. ToldOfItself'
    BY <1>1, <1>6 DEF ToldOfItself
  <2>. QED  BY <1>4, <1>5, <2>1, <2>2, <2>3 DEF ServicesIInv
<1>7. ASSUME NEW name \in DOMAIN services, request' = [request EXCEPT !.service = name], todo' = {name}, UNCHANGED answer
      PROVE  ServicesIInv'
  <2>1. Display(name) = name
    BY <1>1 DEF WellNamed
  <2>2. request' \in ServiceRequests' /\ request'.service = name /\ request'.kind = request.kind
    BY <1>1, <1>3, <1>7 DEF ServiceRequests
  <2>3. request' # NoRequest
    <3>1. request'.kind # None /\ NoRequest.kind = None
      BY <1>3, <2>2 DEF NoRequest, None
    <3>. QED  BY <3>1
  <2>4. ServicesTypeOK' /\ FaultsTypeOK'
    BY <1>1, <1>7, <2>2, SameServices DEF ServicesTypeOK, FaultsTypeOK
  <2>5. Answered' /\ Unasked' /\ ListsAll'
    BY <1>1, <1>7, <2>2, <2>3 DEF Answered, Unasked, ListsAll
  <2>6. SubjectOnly'
    BY <1>7, <2>1, <2>2 DEF SubjectOnly, Subject
  <2>7. ToldOfItself'
    BY <1>1, <1>7 DEF ToldOfItself, None
  <2>. QED  BY <1>4, <1>5, <2>4, <2>5, <2>6, <2>7 DEF ServicesIInv
<1>. QED  BY <1>6, <1>7 DEF Only

LEMMA AnswerKeeps == ServicesIInv /\ AnswerService => ServicesIInv'
<1>. SUFFICES ASSUME ServicesIInv, AnswerService PROVE ServicesIInv'
  OBVIOUS
<1>1. /\ ServicesTypeOK /\ FaultsTypeOK /\ WellNamed /\ Asking /\ OnlyLooks /\ Harmless /\ SubjectOnly /\ ListsAll
      /\ RunsOnce /\ ToldOfItself
      /\ answer = None /\ request # NoRequest /\ todo = {}
      /\ UNCHANGED <<services, request, todo, found, asked, command, attempts, expired, faults>>
      /\ answer' \in {"listed", "failed", "done"}
  BY DEF ServicesIInv, AnswerService, NoFault
<1>2. ServicesTypeOK' /\ FaultsTypeOK'
  BY <1>1, SameServices DEF ServicesTypeOK, FaultsTypeOK
<1>3. WellNamed' /\ Unasked' /\ Asking' /\ Answered' /\ OnlyLooks' /\ Harmless' /\ ListsAll' /\ RunsOnce'
  BY <1>1 DEF WellNamed, Unasked, Asking, Answered, OnlyLooks, Harmless, NoEffect, Excused, ListsAll, RunsOnce, Kind, Lists
<1>4. SubjectOnly'
  BY <1>1 DEF SubjectOnly, Subject, EndsWell, None
<1>5. answer' = "done" => EndsWell(Subject)
  BY <1>1 DEF AnswerService, SubjectOnly, Subject, None
<1>6. answer' = "listed" => DOMAIN found = DOMAIN services
  <2>1. answer' = "listed" => request.kind = "list"
    BY <1>1 DEF AnswerService
  <2>. QED  BY <1>1, <2>1 DEF ListsAll
<1>7. ToldOfItself'
  BY <1>1, <1>5, <1>6 DEF ToldOfItself, EndsWell, Subject
<1>. QED  BY <1>2, <1>3, <1>4, <1>7 DEF ServicesIInv

LEMMA ForgetKeeps == ServicesIInv /\ Forget => ServicesIInv'
<1>. SUFFICES ASSUME ServicesIInv, Forget PROVE ServicesIInv'
  OBVIOUS
<1>1. /\ ServicesTypeOK /\ FaultsTypeOK /\ WellNamed /\ Asking /\ OnlyLooks /\ todo = {}
      /\ request' = NoRequest /\ found' = <<>> /\ attempts' = <<>> /\ expired' = FALSE /\ answer' = None
      /\ UNCHANGED <<services, todo, asked, command, faults>>
  BY DEF ServicesIInv, Answered, Forget, NoFault
<1>2. DOMAIN found' = {} /\ DOMAIN attempts' = {} /\ asked = None /\ command = None
  BY <1>1 DEF Asking
<1>3. ServicesTypeOK' /\ FaultsTypeOK'
  <2>1. found' \in [DOMAIN found' -> {"active", "inactive", "unknown", "done"}] /\ attempts' \in Seq(Attempts)
    BY <1>1, <1>2
  <2>. QED  BY <1>1, <1>2, <2>1, SameServices DEF ServicesTypeOK, FaultsTypeOK
<1>4. request'.kind = None /\ request'.service = "" /\ Kind' = "status"
  BY <1>1 DEF NoRequest, Kind, Lists
<1>. QED  BY <1>1, <1>2, <1>3, <1>4
          DEF ServicesIInv, WellNamed, Unasked, Asking, Answered, OnlyLooks, Harmless, NoEffect, Excused, SubjectOnly, ListsAll,
              RunsOnce, ToldOfItself, None, LookCommands

LEMMA ServicesStep == ServicesIInv /\ [ServicesNext]_<<serviceVars, faults>> => ServicesIInv'
<1>1. ASSUME ServicesIInv, UNCHANGED <<serviceVars, faults>> PROVE ServicesIInv'
  <2>1. UNCHANGED <<services, request, todo, found, asked, command, attempts, expired, answer, faults>>
    BY <1>1 DEF serviceVars
  <2>2. ServicesTypeOK' /\ FaultsTypeOK' /\ WellNamed' /\ Unasked' /\ Asking' /\ Answered'
    BY <1>1, <2>1, SameServices DEF ServicesIInv, ServicesTypeOK, FaultsTypeOK, WellNamed, Unasked, Asking, Answered
  <2>3. OnlyLooks' /\ Harmless' /\ SubjectOnly' /\ ListsAll'
    BY <1>1, <2>1 DEF ServicesIInv, OnlyLooks, Harmless, NoEffect, Excused, SubjectOnly, Subject, EndsWell, ListsAll, Kind, Lists
  <2>4. RunsOnce' /\ ToldOfItself'
    BY <1>1, <2>1 DEF ServicesIInv, RunsOnce, ToldOfItself
  <2>. QED  BY <2>2, <2>3, <2>4 DEF ServicesIInv
<1>. QED  BY <1>1, RunKeeps, AskKeeps, AskForKeeps, OnlyKeeps, AnswerKeeps, ForgetKeeps DEF ServicesNext

\* No request acts on a service twice, and what is told of a service was found out
\* about that service (internal/skills/services/manager.go).
THEOREM ServicesToldRight == ServicesSpec => []ServicesHold
<1>1. ServicesIInv => ServicesHold
  BY DEF ServicesIInv, ServicesHold
<1>. QED  BY ServicesInitially, ServicesStep, <1>1, PTL DEF ServicesSpec

-------------------------------------------------------------------------------
(* Routing (Routing): for every text over any vocabulary, any skills that are   *)
(* registered and any name an external one may have.                            *)

\* A stage that has passed found nothing.
NothingSoFar ==
  /\ rstage \in {"explicit", "shortcut", "registry", "rules", "phrases"} => ~Matched(Deterministic("slash"))
  /\ rstage \in {"shortcut", "registry", "rules", "phrases"} => ~Matched(Deterministic("explicit"))
  /\ rstage \in {"registry", "rules", "phrases"} => ~Matched(Deterministic("shortcut"))
  /\ rstage \in {"rules", "phrases"} => ~Matched(Deterministic("registry"))
AsStarted == rstage # "done" => verdict = Undecided
SureOfGroup == rstage = "skill" => said.sure = "run" /\ ~said.asks
Forgotten == rstage \in {"group", "skill"} => words = NoText /\ ~slash

RoutingIInv == NothingSoFar /\ AsStarted /\ SureOfGroup /\ Forgotten /\ RoutingHolds

LEMMA RowsKnown == \A skill, takes, forms : \A c \in Named(skill, takes, forms) : c.words \in forms
BY DEF Named

\* No command is called "please".
LEMMA PleaseIsNone == \A c \in Commands : c.words # <<"please">>
<1>. SUFFICES ASSUME NEW c \in Commands PROVE c.words # <<"please">>
  OBVIOUS
<1>1. \A a, b : <<a, b>> # <<"please">>
  OBVIOUS
<1>. QED  BY <1>1, RowsKnown DEF Commands

LEMMA CommandBy ==
  ASSUME NEW cmd, NEW rest, NEW by
  PROVE  Matched(Command(cmd, rest, by)) => Command(cmd, rest, by).by = by
<1>1. \A s, args : Runs(by, s, args).by = by
  BY DEF Runs
<1>2. ~Matched(Undecided)
  BY DEF Matched, Undecided
<1>3. /\ <<"status">> # <<"watch">> /\ <<"status">> # <<"run">> /\ <<"watch">> # <<"run">>
      /\ {<<"status">>, <<"watch">>, <<"run">>} \cap {<<"file", "read">>, <<"read", "file">>} = {}
  OBVIOUS
<1>4. CASE cmd = <<"status">>
  BY <1>1, <1>2, <1>3, <1>4 DEF Command
<1>5. CASE cmd = <<"watch">>
  BY <1>1, <1>2, <1>3, <1>5 DEF Command
<1>6. CASE cmd = <<"run">> /\ ~Parses("code", rest)
  BY <1>1, <1>2, <1>3, <1>6 DEF Command
<1>7. CASE rest = <<>> /\ cmd \in {<<"file", "read">>, <<"read", "file">>}
  BY <1>1, <1>2, <1>3, <1>7 DEF Command
<1>8. CASE ~(\/ cmd = <<"status">> \/ cmd = <<"watch">> \/ (cmd = <<"run">> /\ ~Parses("code", rest))
             \/ (rest = <<>> /\ cmd \in {<<"file", "read">>, <<"read", "file">>}))
  <2>. DEFINE rows == {c \in Commands : c.words = cmd}
              row == CHOOSE c \in rows : TRUE
              refused == rows = {} \/ ~Parses(row.takes, rest) \/ (row.takes = "nothing" /\ by # "slash" /\ rest # <<>>)
  <2>1. Command(cmd, rest, by) = IF refused THEN Undecided ELSE Runs(by, row.skill, ArgsOf(row.takes, rest))
    BY <1>8 DEF Command
  <2>. HIDE DEF refused, row
  <2>. QED  BY <1>1, <1>2, <2>1
<1>. QED  BY <1>4, <1>5, <1>6, <1>7, <1>8

LEMMA UndecidedMeans == ~Matched(Undecided) /\ Undecided.by = "none" /\ ~Matched(Question)
BY DEF Matched, Undecided, Question

LEMMA RunsMeans == \A by, s, args : Runs(by, s, args) = [by |-> by, skill |-> s, args |-> args, asks |-> FALSE]
BY DEF Runs

\* What a deterministic stage decides carries its name.
LEMMA DecidedBy ==
  ASSUME NEW s \in {"slash", "explicit", "shortcut", "registry", "rules"}
  PROVE  Matched(Deterministic(s)) => Deterministic(s).by = s
<1>1. \A t, args : Runs(s, t, args).by = s
  BY RunsMeans
<1>2. CASE s = "slash"
  BY <1>2, CommandBy, UndecidedMeans DEF Deterministic, SlashDecision
<1>3. CASE s = "explicit"
  <2>. DEFINE Lead(n) == Command(Normal(SubSeq(words, 1, n)), SubSeq(words, n + 1, Len(words)), "explicit")
              fits == {n \in 1 .. 3 : n <= Len(words) /\ Matched(Lead(n))}
              longest == CHOOSE n \in fits : \A m \in fits : m <= n
  <2>1. ExplicitDecision(words) = IF fits = {} THEN Undecided ELSE Lead(longest)
    BY DEF ExplicitDecision
  <2>2. Matched(Lead(longest)) => Lead(longest).by = "explicit"
    BY CommandBy
  <2>. HIDE DEF fits, longest, Lead
  <2>. QED  BY <1>3, <2>1, <2>2, UndecidedMeans DEF Deterministic
<1>4. CASE s = "shortcut"
  BY <1>1, <1>4, UndecidedMeans DEF Deterministic, ShortcutDecision
<1>5. CASE s = "registry"
  BY <1>1, <1>5, UndecidedMeans DEF Deterministic, RegistryDecision
<1>6. CASE s = "rules"
  BY <1>1, <1>6, UndecidedMeans DEF Deterministic, RuleDecision
<1>. QED  BY <1>2, <1>3, <1>4, <1>5, <1>6

\* What is left of a text once the model is asked is nobody's command.
LEMMA NoTextMeans == ~Matched(ExplicitDecision(NoText)) /\ ~Matched(ShortcutDecision(NoText))
<1>1. Len(NoText) = 1 /\ SubSeq(NoText, 1, 1) = NoText /\ SubSeq(NoText, 2, 1) = <<>> /\ NoText[1] = "please"
  <2>1. NoText \in Seq({"please"}) /\ Len(NoText) = 1 /\ NoText[1] = "please"
    BY DEF NoText
  <2>2. SubSeq(NoText, 1, 1) \in Seq({"please"}) /\ Len(SubSeq(NoText, 1, 1)) = 1 /\ SubSeq(NoText, 1, 1)[1] = "please"
    BY <2>1
  <2>3. SubSeq(NoText, 2, 1) \in Seq({"please"}) /\ Len(SubSeq(NoText, 2, 1)) = 0
    BY <2>1
  <2>4. SubSeq(NoText, 1, 1) = NoText
    BY <2>1, <2>2
  <2>. QED  BY <2>1, <2>3, <2>4
<1>2. Normal(NoText) = <<"please">>
  <2>. DEFINE parts == [i \in DOMAIN NoText |-> Joined(NoText[i])]
              flat == [i \in 1 .. 1 |-> <<"please">>]
  <2>1. DOMAIN NoText = 1 .. 1 /\ Len(parts) = 1 /\ parts[1] = <<"please">>
    BY <1>1 DEF NoText, Joined
  <2>2. flat = [i \in 1 .. Len(parts) |-> IF i = 1 THEN parts[i] ELSE flat[i - 1] \o parts[i]]
    BY <2>1
  <2>. HIDE DEF flat
  <2>3. \E f : f = [i \in 1 .. Len(parts) |-> IF i = 1 THEN parts[i] ELSE f[i - 1] \o parts[i]]
    BY <2>2
  <2>. DEFINE flatten == CHOOSE f : f = [i \in 1 .. Len(parts) |-> IF i = 1 THEN parts[i] ELSE f[i - 1] \o parts[i]]
  <2>4. flatten = [i \in 1 .. Len(parts) |-> IF i = 1 THEN parts[i] ELSE flatten[i - 1] \o parts[i]]
    BY <2>3
  <2>. HIDE DEF flatten
  <2>5. flatten[1] = <<"please">>
    BY <2>1, <2>4
  <2>. QED  BY <2>1, <2>5 DEF Normal, FlattenSeq, flatten
<1>3. Command(<<"please">>, <<>>, "explicit") = Undecided
  BY PleaseIsNone DEF Command
<1>4. ~Matched(ExplicitDecision(NoText))
  <2>. DEFINE Lead(n) == Command(Normal(SubSeq(NoText, 1, n)), SubSeq(NoText, n + 1, Len(NoText)), "explicit")
              fits == {n \in 1 .. 3 : n <= Len(NoText) /\ Matched(Lead(n))}
  <2>1. Lead(1) = Undecided
    <3>1. 1 + 1 = 2
      OBVIOUS
    <3>2. Lead(1) = Command(Normal(SubSeq(NoText, 1, 1)), SubSeq(NoText, 2, Len(NoText)), "explicit")
      BY <3>1
    <3>. QED  BY <1>1, <1>2, <1>3, <3>2
  <2>2. fits = {}
    BY <1>1, <2>1, UndecidedMeans
  <2>3. ExplicitDecision(NoText) = Undecided
    BY <2>2 DEF ExplicitDecision
  <2>. QED  BY <2>3, UndecidedMeans
<1>. QED  BY <1>1, <1>4, UndecidedMeans DEF ShortcutDecision, Shortcuts

LEMMA SameText ==
  ASSUME UNCHANGED <<words, slash, shadow>>
  PROVE  /\ \A s \in {"slash", "explicit", "shortcut", "registry", "rules"} : Deterministic(s)' = Deterministic(s)
         /\ IsSlashCommand' = IsSlashCommand
         /\ Matched(ExplicitDecision(words))' = Matched(ExplicitDecision(words))
         /\ Matched(ShortcutDecision(words))' = Matched(ShortcutDecision(words))
<1>1. RegistryDecision(words)' = RegistryDecision(words)
  BY DEF RegistryDecision, Identifiers
<1>. QED  BY <1>1 DEF Deterministic, IsSlashCommand, Matched

LEMMA RoutingInitially == RoutingInit => RoutingIInv
BY UndecidedMeans DEF RoutingInit, RoutingIInv, NothingSoFar, AsStarted, SureOfGroup, Forgotten, RoutingHolds,
   ModelIsBounded, BuiltinWordsKept, CommandsAreDecided

\* Whoever decides last, nothing was found before.
LEMMA StageKeeps ==
  ASSUME RoutingIInv, NEW n \in 1 .. Len(RouteStages), Stage(n)
  PROVE  RoutingIInv'
<1>. DEFINE d == Deterministic(rstage)
<1>1. /\ n \in 1 .. 5 /\ UNCHANGED <<words, slash, shadow, said>>
      /\ \/ n = 1 /\ rstage = "slash" /\ RouteStages[n + 1] = "explicit"
         \/ n = 2 /\ rstage = "explicit" /\ RouteStages[n + 1] = "shortcut"
         \/ n = 3 /\ rstage = "shortcut" /\ RouteStages[n + 1] = "registry"
         \/ n = 4 /\ rstage = "registry" /\ RouteStages[n + 1] = "rules"
         \/ n = 5 /\ rstage = "rules" /\ RouteStages[n + 1] = "phrases"
      /\ \/ Matched(d) /\ verdict' = d /\ rstage' = "done"
         \/ ~Matched(d) /\ verdict' = verdict /\ (rstage' = RouteStages[n + 1] \/ (n = 5 /\ rstage' = "done"))
  BY DEF Stage, RouteStages
<1>2. verdict = Undecided /\ d.by = d.by
  BY <1>1 DEF RoutingIInv, AsStarted
<1>3. \A s \in {"slash", "explicit", "shortcut", "registry", "rules"} : Deterministic(s)' = Deterministic(s)
  BY <1>1, SameText
<1>4. Matched(d) => d.by = rstage
  BY <1>1, DecidedBy
<1>5. /\ Deterministic("explicit") = ExplicitDecision(words) /\ Deterministic("shortcut") = ShortcutDecision(words)
      /\ Deterministic("registry") = RegistryDecision(words)
      /\ IsSlashCommand => Matched(Deterministic("slash")) \/ Matched(Deterministic("registry"))
  BY DEF Deterministic, IsSlashCommand
<1>6. NothingSoFar'
  BY <1>1, <1>3 DEF NothingSoFar, RoutingIInv, Matched
<1>7. AsStarted' /\ SureOfGroup' /\ Forgotten'
  BY <1>1, <1>2 DEF AsStarted, SureOfGroup, Forgotten
<1>8. ModelIsBounded'
  BY <1>1, <1>2, <1>4, UndecidedMeans DEF ModelIsBounded
<1>9. BuiltinWordsKept'
  <2>1. CASE Matched(d)
    BY <1>1, <1>4, <1>5, <2>1, SameText DEF BuiltinWordsKept, NothingSoFar, RoutingIInv
  <2>2. CASE ~Matched(d)
    BY <1>1, <1>5, <2>2, SameText DEF BuiltinWordsKept, NothingSoFar, RoutingIInv
  <2>. QED  BY <2>1, <2>2
<1>10. CommandsAreDecided'
  <2>1. CASE Matched(d)
    BY <1>1, <1>4, <1>5, <2>1, SameText DEF CommandsAreDecided, NothingSoFar, RoutingIInv
  <2>2. CASE ~Matched(d)
    <3>1. rstage' \in {"phrases", "done"} => rstage = "rules"
      BY <1>1, <2>2
    <3>2. rstage = "rules" => ~IsSlashCommand
      BY <1>5 DEF NothingSoFar, RoutingIInv
    <3>3. IsSlashCommand' = IsSlashCommand
      BY <1>1, SameText
    <3>. QED  BY <3>1, <3>2, <3>3 DEF CommandsAreDecided
  <2>. QED  BY <2>1, <2>2
<1>. QED  BY <1>6, <1>7, <1>8, <1>9, <1>10 DEF RoutingIInv, RoutingHolds

\* From then on the text is no command and no shortcut, so that only the bounds of
\* the model matter.
OnlyTheModel ==
  /\ words = NoText /\ ~slash /\ rstage \in {"group", "skill", "done"}
  /\ ModelIsBounded /\ AsStarted /\ SureOfGroup

LEMMA ForgottenHolds == OnlyTheModel => RoutingIInv
<1>. SUFFICES ASSUME words = NoText, ~slash, rstage \in {"group", "skill", "done"}, ModelIsBounded, AsStarted, SureOfGroup
              PROVE  RoutingIInv
  BY DEF OnlyTheModel
<1>1. BuiltinWordsKept /\ CommandsAreDecided
  BY NoTextMeans DEF BuiltinWordsKept, CommandsAreDecided, IsSlashCommand
<1>. QED  BY <1>1 DEF RoutingIInv, RoutingHolds, NothingSoFar, Forgotten

LEMMA ForgottenHoldsNext == OnlyTheModel' => RoutingIInv'
BY ForgottenHolds, PTL

\* What phrases suggest is not the model's decision.
LEMMA SuggestedBy ==
  ASSUME NEW allowed
  PROVE  Suggested(allowed).by \in {"phrases", "none"}
BY RunsMeans, UndecidedMeans DEF Suggested

LEMMA BeforeModelKeeps == RoutingIInv /\ BeforeModel => RoutingIInv'
<1>. SUFFICES ASSUME RoutingIInv, BeforeModel PROVE RoutingIInv'
  OBVIOUS
<1>1. /\ words' = NoText /\ ~slash' /\ verdict = Undecided
      /\ \/ rstage' = "done" /\ verdict' = Suggested({})'
         \/ rstage' = "group" /\ verdict' = verdict
  BY DEF BeforeModel, Concludes, RoutingIInv, AsStarted
<1>2. (Suggested({})').by \in {"phrases", "none"}
  BY RunsMeans, UndecidedMeans DEF Suggested
<1>3. ModelIsBounded' /\ AsStarted' /\ SureOfGroup'
  BY <1>1, <1>2, UndecidedMeans DEF ModelIsBounded, AsStarted, SureOfGroup
<1>. QED  BY <1>1, <1>3, ForgottenHoldsNext DEF OnlyTheModel

LEMMA AskGroupKeeps == RoutingIInv /\ AskGroup => RoutingIInv'
<1>. SUFFICES ASSUME RoutingIInv, AskGroup PROVE RoutingIInv'
  OBVIOUS
<1>1. words' = NoText /\ ~slash' /\ verdict = Undecided
  BY DEF AskGroup, RoutingIInv, Forgotten, AsStarted
<1>2. CASE ClassifierFails
  BY <1>1, <1>2, ForgottenHoldsNext DEF OnlyTheModel, ClassifierFails, Undecided, ModelIsBounded, AsStarted, SureOfGroup
<1>3. ASSUME NEW g \in Groups \cup {"chat", "unknown"}, NEW sure \in Sure, NEW asks \in BOOLEAN,
             said' = [group |-> g, sure |-> sure, asks |-> asks],
             \/ \E d \in {Suggested({}), GroupDecision(g, sure, asks)} : Concludes(d)
             \/ Gate(sure) /\ ~asks /\ rstage' = "skill" /\ verdict' = verdict
      PROVE  RoutingIInv'
  <2>1. /\ GroupDecision(g, sure, asks).by = "model" /\ Matched(GroupDecision(g, sure, asks))
           => GroupDecision(g, sure, asks).skill = "chat"
    BY RunsMeans, UndecidedMeans DEF GroupDecision
  <2>2. ASSUME NEW d \in {Suggested({}), GroupDecision(g, sure, asks)}, Concludes(d)
        PROVE  RoutingIInv'
    BY <1>1, <2>1, <2>2, SuggestedBy, ForgottenHoldsNext DEF OnlyTheModel, Concludes, ModelIsBounded, AsStarted, SureOfGroup
  <2>3. CASE Gate(sure) /\ ~asks /\ rstage' = "skill" /\ verdict' = verdict
    BY <1>1, <1>3, <2>3, UndecidedMeans, ForgottenHoldsNext DEF OnlyTheModel, Gate, ModelIsBounded, AsStarted, SureOfGroup, Undecided
  <2>. QED  BY <1>3, <2>2, <2>3
<1>. QED  BY <1>2, <1>3 DEF AskGroup

LEMMA AskSkillKeeps == RoutingIInv /\ AskSkill => RoutingIInv'
<1>. SUFFICES ASSUME RoutingIInv, AskSkill PROVE RoutingIInv'
  OBVIOUS
<1>1. words' = NoText /\ ~slash' /\ verdict = Undecided /\ rstage = "skill" /\ said' = said
      /\ said.sure = "run" /\ ~said.asks
  BY DEF AskSkill, RoutingIInv, Forgotten, AsStarted, SureOfGroup
<1>. DEFINE allowed == InGroup(said.group)
<1>2. CASE ClassifierFails
  BY <1>1, <1>2, ForgottenHoldsNext DEF OnlyTheModel, ClassifierFails, Undecided, ModelIsBounded, AsStarted, SureOfGroup
<1>3. ASSUME NEW s, NEW args, NEW asks, NEW question,
             \E d \in {Suggested(allowed), SkillDecision(s, allowed, args, asks, question)} : Concludes(d)
      PROVE  RoutingIInv'
  <2>. DEFINE chosen == SkillDecision(s, allowed, args, asks, question)
  <2>1. chosen.by = "model" /\ Matched(chosen) =>
          chosen.skill \in InGroup(said.group) /\ Needs(chosen.skill) \subseteq chosen.args
    BY RunsMeans, UndecidedMeans DEF SkillDecision, Accepted, Missing, Carries
  <2>2. ASSUME NEW d \in {Suggested(allowed), chosen}, Concludes(d)
        PROVE  RoutingIInv'
    <3>1. d.by = "model" /\ Matched(d) => d.skill \in InGroup(said.group) /\ Needs(d.skill) \subseteq d.args
      BY <2>1, SuggestedBy
    <3>2. InGroup(said.group)' = InGroup(said.group)
      BY <1>1 DEF InGroup
    <3>3. ModelIsBounded'
      BY <1>1, <2>2, <3>1, <3>2 DEF Concludes, ModelIsBounded
    <3>. QED  BY <1>1, <2>2, <3>3, ForgottenHoldsNext DEF OnlyTheModel, Concludes, AsStarted, SureOfGroup
  <2>. QED  BY <1>3, <2>2
<1>. SUFFICES ASSUME ~ClassifierFails PROVE RoutingIInv'
  BY <1>2
<1>4. PICK named \in allowed \cup {"", "help", "wipe_disk"}, keys \in AnswerKeys, inText \in {{}, ArgumentNames},
           asks \in BOOLEAN, question \in BOOLEAN, better \in BOOLEAN :
        LET s == IF named = "" /\ Cardinality(allowed) = 1 THEN CHOOSE x \in allowed : TRUE ELSE named
            d == SkillDecision(s, allowed, Inferred(s, Meant(keys), inText), asks, question)
        IN Concludes(IF Prefers(d, Suggested(allowed), better) THEN Suggested(allowed) ELSE d)
  BY DEF AskSkill
<1>. DEFINE s == IF named = "" /\ Cardinality(allowed) = 1 THEN CHOOSE x \in allowed : TRUE ELSE named
            args == Inferred(s, Meant(keys), inText)
<1>5. \E d \in {Suggested(allowed), SkillDecision(s, allowed, args, asks, question)} : Concludes(d)
  BY <1>4
<1>. HIDE DEF s, args
<1>. QED  BY <1>3, <1>5

LEMMA RoutingStep == RoutingIInv /\ [RoutingNext]_routingVars => RoutingIInv'
<1>1. ASSUME RoutingIInv, UNCHANGED routingVars PROVE RoutingIInv'
  <2>1. UNCHANGED <<words, slash, shadow, said, verdict, rstage>>
    BY <1>1 DEF routingVars
  <2>2. NothingSoFar' /\ Forgotten' /\ AsStarted' /\ SureOfGroup'
    BY <1>1, <2>1, SameText DEF RoutingIInv, NothingSoFar, AsStarted, SureOfGroup, Forgotten, Matched
  <2>3. ModelIsBounded'
    BY <1>1, <2>1 DEF RoutingIInv, RoutingHolds, ModelIsBounded, InGroup, Matched
  <2>4. BuiltinWordsKept'
    BY <1>1, <2>1, SameText DEF RoutingIInv, RoutingHolds, BuiltinWordsKept
  <2>5. CommandsAreDecided'
    BY <1>1, <2>1, SameText DEF RoutingIInv, RoutingHolds, CommandsAreDecided
  <2>. QED  BY <2>2, <2>3, <2>4, <2>5 DEF RoutingIInv, RoutingHolds
<1>. QED  BY <1>1, StageKeeps, BeforeModelKeeps, AskGroupKeeps, AskSkillKeeps DEF RoutingNext

\* Every skill that is decided for is one there is.
IsSkill(s) == s \in Routable \cup {""}

RoutingTIInv == RoutingTypeOK /\ Forgotten /\ (rstage # "done" => verdict = Undecided)

LEMMA SkillsKnown ==
  /\ {"status", "service_status", "watch_list", "watch_pause", "exec_file", "file_read", "external"} \subseteq Routable
  /\ {"help", "memory", "watch_enable", "chat", "service_list", "service_restart", "service_logs"} \subseteq Routable
  /\ {"note_delete", "note_add", "note_list", "memory_add", "memory_list", "memory_delete"} \subseteq Routable
  /\ {"file_list", "file_stat", "file_search", "file_write", "file_replace", "exec_code"} \subseteq Routable
  /\ {"workspace_clean", "browser_text", "user_providers", "user_list", "user_add", "user_delete"} \subseteq Routable
  /\ "port_check" \in Routable
BY DEF Routable, RoutedSkills

LEMMA RowSkill == \A skill, takes, forms : \A c \in Named(skill, takes, forms) : c.skill = skill
BY DEF Named

LEMMA CommandsKnown == \A c \in Commands : c.skill \in Routable
BY RowSkill, SkillsKnown DEF Commands

LEMMA UndecidedIs == IsSkill(Undecided.skill) /\ IsSkill(Question.skill) /\ IsSkill([Undecided EXCEPT !.by = "error"].skill)
BY DEF IsSkill, Undecided, Question

LEMMA RunsSkill ==
  /\ \A by, args : \A s \in Routable : IsSkill(Runs(by, s, args).skill)
  /\ \A by, s, args : IsSkill(s) => IsSkill(Runs(by, s, args).skill)
BY DEF Runs, IsSkill

LEMMA CommandSkill ==
  ASSUME NEW cmd, NEW rest, NEW by
  PROVE  IsSkill(Command(cmd, rest, by).skill)
<1>1. \A s \in Routable : \A args : IsSkill(Runs(by, s, args).skill)
  BY RunsSkill
<1>3. /\ <<"status">> # <<"watch">> /\ <<"status">> # <<"run">> /\ <<"watch">> # <<"run">>
      /\ {<<"status">>, <<"watch">>, <<"run">>} \cap {<<"file", "read">>, <<"read", "file">>} = {}
  OBVIOUS
<1>4. CASE cmd = <<"status">>
  BY <1>1, <1>3, <1>4, SkillsKnown DEF Command
<1>5. CASE cmd = <<"watch">>
  <2>1. IsSkill(Watch(rest))
    BY SkillsKnown DEF Watch, IsSkill
  <2>2. \/ Command(cmd, rest, by) = Undecided
        \/ \E args : Command(cmd, rest, by) = Runs(by, Watch(rest), args)
    BY <1>3, <1>5 DEF Command
  <2>. QED  BY <2>1, <2>2, RunsSkill, UndecidedIs
<1>6. CASE cmd = <<"run">> /\ ~Parses("code", rest)
  BY <1>1, <1>3, <1>6, SkillsKnown, UndecidedIs DEF Command
<1>7. CASE rest = <<>> /\ cmd \in {<<"file", "read">>, <<"read", "file">>}
  <2>1. Command(cmd, rest, by) = Runs(by, "file_read", {})
    BY <1>3, <1>7 DEF Command
  <2>. QED  BY <1>1, <2>1, SkillsKnown
<1>8. CASE ~(\/ cmd = <<"status">> \/ cmd = <<"watch">> \/ (cmd = <<"run">> /\ ~Parses("code", rest))
             \/ (rest = <<>> /\ cmd \in {<<"file", "read">>, <<"read", "file">>}))
  <2>. DEFINE rows == {c \in Commands : c.words = cmd}
              row == CHOOSE c \in rows : TRUE
              refused == rows = {} \/ ~Parses(row.takes, rest) \/ (row.takes = "nothing" /\ by # "slash" /\ rest # <<>>)
  <2>1. Command(cmd, rest, by) = IF refused THEN Undecided ELSE Runs(by, row.skill, ArgsOf(row.takes, rest))
    BY <1>8 DEF Command
  <2>2. ~refused => row \in Commands
    BY Zenon
  <2>. HIDE DEF refused, row
  <2>. QED  BY <1>1, <2>1, <2>2, CommandsKnown, UndecidedIs
<1>. QED  BY <1>4, <1>5, <1>6, <1>7, <1>8

LEMMA DeterministicSkill ==
  ASSUME NEW s \in {"slash", "explicit", "shortcut", "registry", "rules"}
  PROVE  IsSkill(Deterministic(s).skill)
<1>1. \A by, args : \A t \in Routable : IsSkill(Runs(by, t, args).skill)
  BY RunsSkill
<1>2. CASE s = "slash"
  BY <1>2, CommandSkill, UndecidedIs DEF Deterministic, SlashDecision
<1>3. CASE s = "explicit"
  <2>. DEFINE Lead(n) == Command(Normal(SubSeq(words, 1, n)), SubSeq(words, n + 1, Len(words)), "explicit")
              fits == {n \in 1 .. 3 : n <= Len(words) /\ Matched(Lead(n))}
              longest == CHOOSE n \in fits : \A m \in fits : m <= n
  <2>1. ExplicitDecision(words) = IF fits = {} THEN Undecided ELSE Lead(longest)
    BY DEF ExplicitDecision
  <2>2. IsSkill(Lead(longest).skill)
    BY CommandSkill
  <2>. HIDE DEF fits, longest, Lead
  <2>. QED  BY <1>3, <2>1, <2>2, UndecidedIs DEF Deterministic
<1>4. CASE s = "shortcut"
  BY <1>1, <1>4, UndecidedIs, SkillsKnown DEF Deterministic, ShortcutDecision, Shortcuts
<1>5. CASE s = "registry"
  <2>1. \A w \in DOMAIN Identifiers : Identifiers[w] \in Routable
    BY SkillsKnown DEF Identifiers
  <2>. QED  BY <1>1, <1>5, <2>1, UndecidedIs, SkillsKnown DEF Deterministic, RegistryDecision
<1>6. CASE s = "rules"
  BY <1>1, <1>6, UndecidedIs, SkillsKnown DEF Deterministic, RuleDecision
<1>. QED  BY <1>2, <1>3, <1>4, <1>5, <1>6

\* What phrases suggest is one of them.
LEMMA SuggestedSkill ==
  ASSUME phrases \subseteq Phrased, NEW allowed
  PROVE  IsSkill(Suggested(allowed).skill)
<1>. DEFINE fitting == IF allowed = {} THEN phrases ELSE phrases \cap allowed
            best == {s \in fitting : \A o \in fitting : Score(s) >= Score(o)}
<1>1. best \subseteq Routable
  BY RoutingAssumption DEF Phrased
<1>2. Suggested(allowed) = IF Cardinality(best) = 1 THEN Runs("phrases", CHOOSE s \in best : TRUE, UNION {Needs(s) : s \in best})
                           ELSE Undecided
  BY Zenon DEF Suggested
<1>. HIDE DEF best
<1>3. Cardinality(best) = 1 => (CHOOSE s \in best : TRUE) \in best
  BY FS_EmptySet
<1>. QED  BY <1>1, <1>2, <1>3, RunsSkill, UndecidedIs

LEMMA NoTextIs == NoText \in UNION {[1 .. n -> Vocabulary] : n \in 1 .. MaxWords}
<1>1. NoText \in [1 .. 1 -> Vocabulary] /\ 1 \in 1 .. MaxWords
  BY RoutingAssumption DEF NoText
<1>. QED  BY <1>1

\* A decision carries a skill; a stage that ends without one leaves none.
LEMMA RoutingTypeBegins == RoutingInit => RoutingTIInv
<1>. SUFFICES ASSUME RoutingInit PROVE RoutingTIInv
  OBVIOUS
<1>1. rstage = "slash" /\ rstage \in ToSet(RouteStages)
  BY DEF RoutingInit, RouteStages, ToSet
<1>. QED  BY <1>1 DEF RoutingInit, RoutingTIInv, RoutingTypeOK, Forgotten, Undecided, NothingSaid, Sure

LEMMA StagesAre == \A n \in 1 .. 8 : RouteStages[n] \in ToSet(RouteStages)
BY DEF ToSet, RouteStages

LEMMA StageTypes ==
  ASSUME RoutingTIInv, NEW n \in 1 .. Len(RouteStages), Stage(n)
  PROVE  RoutingTIInv'
<1>. DEFINE d == Deterministic(rstage)
<1>1. /\ n \in 1 .. 5 /\ rstage \in {"slash", "explicit", "shortcut", "registry", "rules"}
      /\ RouteStages[n + 1] \notin {"group", "skill"} /\ UNCHANGED <<words, phrases, said>>
  BY DEF Stage, RouteStages
<1>2. IsSkill(d.skill)
  BY <1>1, DeterministicSkill
<1>3. /\ rstage' \in ToSet(RouteStages) \cup {"done"} /\ rstage' \notin {"group", "skill"}
      /\ \/ verdict' = d /\ rstage' = "done"
         \/ verdict' = verdict
  <2>1. n + 1 \in 1 .. 8
    BY <1>1
  <2>. QED  BY <1>1, <2>1, StagesAre DEF Stage
<1>4. RoutingTypeOK'
  BY <1>1, <1>2, <1>3 DEF RoutingTIInv, RoutingTypeOK, IsSkill
<1>5. Forgotten'
  BY <1>3 DEF Forgotten
<1>6. rstage' # "done" => verdict' = Undecided
  BY <1>1, <1>3 DEF RoutingTIInv
<1>. QED  BY <1>4, <1>5, <1>6 DEF RoutingTIInv

\* Once the model is asked.
LEMMA ModelTypes ==
  ASSUME words' = NoText, ~slash', phrases' \subseteq Phrased, said'.sure \in Sure,
         \/ rstage' \in {"group", "skill"} /\ verdict' = Undecided
         \/ rstage' = "done" /\ IsSkill(verdict'.skill)
  PROVE  RoutingTIInv'
<1>1. {"group", "skill"} \subseteq ToSet(RouteStages)
  <2>1. RouteStages[7] = "group" /\ RouteStages[8] = "skill"
    BY DEF RouteStages
  <2>. QED  BY <2>1, StagesAre
<1>2. IsSkill(verdict'.skill)
  BY UndecidedIs
<1>. QED  BY <1>1, <1>2, NoTextIs DEF RoutingTIInv, RoutingTypeOK, Forgotten, IsSkill

LEMMA SuggestedFits == phrases \subseteq Phrased => IsSkill(Suggested({}).skill)
BY SuggestedSkill

LEMMA SuggestedFitsNext == (phrases \subseteq Phrased)' => IsSkill(Suggested({}).skill)'
BY SuggestedFits, PTL

LEMMA BeforeModelTypes == RoutingTIInv /\ BeforeModel => RoutingTIInv'
<1>. SUFFICES ASSUME RoutingTIInv, BeforeModel PROVE RoutingTIInv'
  OBVIOUS
<1>1. /\ words' = NoText /\ ~slash' /\ phrases' \subseteq Phrased /\ said' = said /\ verdict = Undecided
      /\ said.sure \in Sure
      /\ \/ rstage' = "done" /\ verdict' = Suggested({})'
         \/ rstage' = "group" /\ verdict' = verdict
  BY DEF BeforeModel, Concludes, RoutingTIInv, RoutingTypeOK
<1>2. IsSkill(Suggested({}).skill)'
  BY <1>1, SuggestedFitsNext
<1>. QED  BY <1>1, <1>2, ModelTypes

LEMMA AskGroupTypes == RoutingTIInv /\ AskGroup => RoutingTIInv'
<1>. SUFFICES ASSUME RoutingTIInv, AskGroup PROVE RoutingTIInv'
  OBVIOUS
<1>1. /\ words' = NoText /\ ~slash' /\ phrases' = phrases /\ phrases \subseteq Phrased /\ verdict = Undecided
      /\ said.sure \in Sure
  BY DEF AskGroup, RoutingTIInv, RoutingTypeOK, Forgotten
<1>2. CASE ClassifierFails /\ UNCHANGED said
  BY <1>1, <1>2, UndecidedIs, ModelTypes DEF ClassifierFails
<1>3. ASSUME NEW g, NEW sure \in Sure, NEW asks, said' = [group |-> g, sure |-> sure, asks |-> asks],
             \/ \E d \in {Suggested({}), GroupDecision(g, sure, asks)} : Concludes(d)
             \/ rstage' = "skill" /\ verdict' = verdict
      PROVE  RoutingTIInv'
  <2>1. IsSkill(GroupDecision(g, sure, asks).skill) /\ IsSkill(Suggested({}).skill)
    BY <1>1, SuggestedSkill, RunsSkill, UndecidedIs, SkillsKnown DEF GroupDecision
  <2>2. \/ rstage' \in {"group", "skill"} /\ verdict' = Undecided
        \/ rstage' = "done" /\ IsSkill(verdict'.skill)
    BY <1>1, <1>3, <2>1 DEF Concludes
  <2>3. said'.sure \in Sure
    BY <1>3
  <2>. QED  BY <1>1, <2>2, <2>3, ModelTypes
<1>. QED  BY <1>2, <1>3 DEF AskGroup

LEMMA AskSkillTypes == RoutingTIInv /\ AskSkill => RoutingTIInv'
<1>. SUFFICES ASSUME RoutingTIInv, AskSkill PROVE RoutingTIInv'
  OBVIOUS
<1>. DEFINE allowed == InGroup(said.group)
<1>1. /\ words' = NoText /\ ~slash' /\ phrases' = phrases /\ phrases \subseteq Phrased /\ said' = said
      /\ said.sure \in Sure
  BY DEF AskSkill, RoutingTIInv, RoutingTypeOK, Forgotten
<1>2. CASE ClassifierFails
  BY <1>1, <1>2, UndecidedIs, ModelTypes DEF ClassifierFails
<1>3. ASSUME NEW s, NEW args, NEW asks, NEW question,
             \E d \in {Suggested(allowed), SkillDecision(s, allowed, args, asks, question)} : Concludes(d)
      PROVE  RoutingTIInv'
  <2>1. allowed \subseteq Routable
    BY RoutingAssumption DEF InGroup
  <2>2. IsSkill(SkillDecision(s, allowed, args, asks, question).skill)
    <3>. HIDE DEF allowed
    <3>. QED  BY <2>1, RunsSkill, UndecidedIs DEF SkillDecision, Accepted
  <2>3. IsSkill(Suggested(allowed).skill)
    BY <1>1, SuggestedSkill
  <2>4. rstage' = "done" /\ IsSkill(verdict'.skill)
    BY <1>3, <2>2, <2>3 DEF Concludes
  <2>. QED  BY <1>1, <2>4, ModelTypes
<1>. SUFFICES ASSUME ~ClassifierFails PROVE RoutingTIInv'
  BY <1>2
<1>4. PICK named \in allowed \cup {"", "help", "wipe_disk"}, keys \in AnswerKeys, inText \in {{}, ArgumentNames},
           asks \in BOOLEAN, question \in BOOLEAN, better \in BOOLEAN :
        LET s == IF named = "" /\ Cardinality(allowed) = 1 THEN CHOOSE x \in allowed : TRUE ELSE named
            d == SkillDecision(s, allowed, Inferred(s, Meant(keys), inText), asks, question)
        IN Concludes(IF Prefers(d, Suggested(allowed), better) THEN Suggested(allowed) ELSE d)
  BY DEF AskSkill
<1>. DEFINE s == IF named = "" /\ Cardinality(allowed) = 1 THEN CHOOSE x \in allowed : TRUE ELSE named
            args == Inferred(s, Meant(keys), inText)
<1>5. \E d \in {Suggested(allowed), SkillDecision(s, allowed, args, asks, question)} : Concludes(d)
  BY <1>4
<1>. HIDE DEF s, args
<1>. QED  BY <1>3, <1>5

LEMMA RoutingTypeStep == RoutingTIInv /\ [RoutingNext]_routingVars => RoutingTIInv'
<1>1. ASSUME RoutingTIInv, UNCHANGED routingVars PROVE RoutingTIInv'
  BY <1>1 DEF routingVars, RoutingTIInv, RoutingTypeOK, Forgotten
<1>. QED  BY <1>1, StageTypes, BeforeModelTypes, AskGroupTypes, AskSkillTypes DEF RoutingNext

\* Whatever a text says, whichever stage decides and whatever the model names, the decision is
\* for a skill the router knows, or for none (internal/router/router.go Route).
THEOREM RoutesToSkills == RoutingSpec => []RoutingTypeOK
<1>1. RoutingTIInv => RoutingTypeOK
  BY DEF RoutingTIInv
<1>. QED  BY RoutingTypeBegins, RoutingTypeStep, <1>1, PTL DEF RoutingSpec

\* What the model decides is within its bounds, and it decides nothing that is a command
\* or a built-in word (internal/router/router.go, internal/router/llm/classifier.go).
THEOREM RoutingKept == RoutingSpec => []RoutingHolds
<1>1. RoutingIInv => RoutingHolds
  BY DEF RoutingIInv
<1>. QED  BY RoutingInitially, RoutingStep, <1>1, PTL DEF RoutingSpec

-------------------------------------------------------------------------------
(* The daily job of a module (LocalSchedule): for every length of the day,      *)
(* whenever the clock is changed.                                               *)

ClockTypes ==
  /\ hour \in 0 .. DayHours - 1 /\ shift \in {-1, 0, 1} /\ slow \in BOOLEAN
  /\ now \in Nat /\ now <= Horizon
  /\ daily \in {"planning", "waiting", "running"}
  /\ plan.at \in Int /\ plan.next \in Int
  /\ runs \in [0 .. Days + 1 -> Nat]

\* The hour is not next to midnight when the clock is changed.
Ordinary == shift # 0 => hour \in 1 .. DayHours - 2

\* A run is planned for later, and begins when its time has come.
PlannedAhead == Ordinary => plan.at < plan.next /\ (daily = "waiting" => now <= plan.next)

\* Without a change, the days that have had their run lie before what is planned.
RanBefore ==
  shift = 0 =>
    IF daily = "waiting"
    THEN /\ plan.next = Day(plan.next) * DayHours + hour
         /\ \A d \in DOMAIN runs : runs[d] > 0 => d * DayHours + hour < plan.next
    ELSE \A d \in DOMAIN runs : runs[d] > 0 => d * DayHours + hour <= now

\* No day lies between what has run and what is planned.
CoveredTo(last) == \A d \in 0 .. last : Expected(d) => runs[d] > 0
Covered ==
  Ordinary /\ ~slow =>
    IF daily = "waiting" THEN CoveredTo(Day(plan.next) - 1) ELSE now = 0 \/ CoveredTo(Day(now))

ScheduleIInv == ClockTypes /\ PlannedAhead /\ RanBefore /\ Covered /\ OncePerDay

\* A time lies on its day, and days are in the order of their times.
LEMMA DayOf ==
  ASSUME NEW x \in Int
  PROVE  /\ x \div DayHours \in Int
         /\ (x \div DayHours) * DayHours \in Int
         /\ (x \div DayHours) * DayHours <= x
         /\ x < (x \div DayHours) * DayHours + DayHours
BY ScheduleAssumption

LEMMA Product == \A a, b \in Int : a * b \in Int
OBVIOUS

LEMMA NextDayBegins == \A d \in Int : (d + 1) * DayHours = d * DayHours + DayHours
BY ScheduleAssumption

LEMMA LaterDay ==
  ASSUME NEW d \in Int, NEW e \in Int, d <= e
  PROVE  d * DayHours <= e * DayHours
<1>. DEFINE n == e - d
<1>1. n \in Nat /\ e = d + n
  OBVIOUS
<1>2. n * DayHours \in Nat
  BY <1>1, ScheduleAssumption
<1>3. e * DayHours = d * DayHours + n * DayHours
  BY <1>1, ScheduleAssumption
<1>. QED  BY <1>2, <1>3, Product, ScheduleAssumption

\* A time before the end of a day is not on a later one.
LEMMA NotLater ==
  ASSUME NEW x \in Int, NEW d \in Int, x < d * DayHours + DayHours
  PROVE  x \div DayHours <= d
<1>. SUFFICES ASSUME d + 1 <= x \div DayHours PROVE FALSE
  BY DayOf
<1>1. (d + 1) * DayHours <= (x \div DayHours) * DayHours
  BY LaterDay, DayOf
<1>. QED  BY <1>1, DayOf, NextDayBegins, Product, ScheduleAssumption

LEMMA LocalIs ==
  ASSUME shift \in {-1, 0, 1}, NEW t \in Int
  PROVE  /\ Local(t) \in Int /\ Day(t) \in Int
         /\ Local(t) = t \/ Local(t) = t + shift
         /\ Day(t) * DayHours \in Int
         /\ Day(t) * DayHours <= Local(t) /\ Local(t) < Day(t) * DayHours + DayHours
<1>1. Local(t) \in Int /\ (Local(t) = t \/ Local(t) = t + shift)
  BY ScheduleAssumption DEF Local
<1>. QED  BY <1>1, DayOf DEF Day

LEMMA DaysInOrder ==
  ASSUME shift \in {-1, 0, 1}, NEW t \in Int, NEW u \in Int, t <= u
  PROVE  Day(t) <= Day(u)
<1>1. Local(t) <= Local(u)
  BY ScheduleAssumption DEF Local
<1>2. Local(t) < Day(u) * DayHours + DayHours
  BY <1>1, LocalIs, ScheduleAssumption
<1>. QED  BY <1>2, LocalIs, NotLater DEF Day

LEMMA DaysInHorizon == ClockTypes => Day(now) <= Days + 1
<1>. SUFFICES ASSUME ClockTypes PROVE Day(now) <= Days + 1
  OBVIOUS
<1>. DEFINE horizon == Days * DayHours
<1>1. now \in Int /\ horizon \in Int /\ now <= horizon /\ shift \in {-1, 0, 1}
  BY Product, ScheduleAssumption DEF ClockTypes, Horizon
<1>2. Local(now) \in Int /\ (Local(now) = now \/ Local(now) = now + shift)
  BY <1>1, LocalIs
<1>3. Days \in Int /\ Days + 1 \in Int /\ (Days + 1) * DayHours = horizon + DayHours /\ DayHours >= 1
  BY NextDayBegins, ScheduleAssumption
<1>. HIDE DEF horizon
<1>4. Local(now) < (Days + 1) * DayHours + DayHours
  BY <1>1, <1>2, <1>3, ScheduleAssumption
<1>. QED  BY <1>2, <1>3, <1>4, NotLater DEF Day

\* The program starts on day 0, or on the last hour of the one before.
LEMMA FirstDay ==
  ASSUME ClockTypes, Ordinary
  PROVE  Day(0) <= 0
<1>1. shift \in {-1, 0, 1} /\ DayHours \in Int /\ DayHours >= 1 /\ (shift # 0 => DayHours >= 3)
  BY ScheduleAssumption DEF ClockTypes, Ordinary
<1>2. Local(0) \in Int /\ (Local(0) = 0 \/ Local(0) = 0 + shift)
  BY <1>1, LocalIs
<1>3. 0 * DayHours = 0
  BY <1>1
<1>4. Local(0) < 0 * DayHours + DayHours
  BY <1>1, <1>2, <1>3
<1>. QED  BY <1>2, <1>4, NotLater DEF Day

LEMMA TimesNear == \A d, h : TimesAt(d, h) \subseteq {d * DayHours + h, (d * DayHours + h) - shift}
<1>. SUFFICES ASSUME NEW d, NEW h, NEW c \in TimesAt(d, h)
              PROVE  c \in {d * DayHours + h, (d * DayHours + h) - shift}
  OBVIOUS
<1>. DEFINE local == d * DayHours + h
            either == {local, local - shift}
            exact == {t \in either : Local(t) = local}
<1>1. TimesAt(d, h) = IF exact # {} THEN exact ELSE either
  BY DEF TimesAt
<1>2. exact \subseteq either
  OBVIOUS
<1>. HIDE DEF exact, either
<1>3. c \in either
  BY <1>1, <1>2
<1>. QED  BY <1>3 DEF either

\* What is planned lies ahead, on this day or the next.
LEMMA PlanIsNear ==
  ASSUME ClockTypes, Ordinary, NEW t \in Int, NEW next \in NextDaily(t)
  PROVE  next \in Int /\ t < next /\ Day(next) <= Day(t) + 1
<1>. DEFINE midnight == Day(t) * DayHours
<1>1. PICK c \in TimesAt(Day(t), hour) : next = IF c > t THEN c ELSE c + DayHours
  BY DEF NextDaily
<1>2. /\ midnight \in Int /\ Day(t) \in Int /\ Local(t) \in Int /\ (Local(t) = t \/ Local(t) = t + shift)
      /\ midnight <= Local(t) /\ Local(t) < midnight + DayHours
  BY LocalIs DEF ClockTypes
<1>3. c \in {midnight + hour, (midnight + hour) - shift}
  BY <1>1, TimesNear
<1>4. /\ DayHours \in Int /\ hour \in Int /\ shift \in {-1, 0, 1} /\ 0 <= hour /\ hour < DayHours
      /\ shift # 0 => 1 <= hour /\ hour <= DayHours - 2
  BY ScheduleAssumption DEF ClockTypes, Ordinary
<1>. HIDE DEF midnight
<1>5. next \in Int /\ t < next
  BY <1>1, <1>2, <1>3, <1>4
<1>6. Local(next) \in Int /\ (Local(next) = next \/ Local(next) = next + shift)
  BY <1>4, <1>5, LocalIs
<1>7. Local(next) < midnight + DayHours + DayHours
  BY <1>1, <1>2, <1>3, <1>4, <1>5, <1>6
<1>8. (Day(t) + 1) * DayHours = midnight + DayHours
  BY <1>2, NextDayBegins DEF midnight
<1>9. Day(next) <= Day(t) + 1
  BY <1>2, <1>6, <1>7, <1>8, NotLater DEF Day
<1>. QED  BY <1>5, <1>9

\* A time that day 0 still has is not passed over.
LEMMA FirstPlan ==
  ASSUME ClockTypes, Ordinary, now = 0, NEW next \in NextDaily(0)
  PROVE  \A d \in 0 .. Day(next) - 1 : ~Expected(d)
<1>. SUFFICES ASSUME NEW d \in 0 .. Day(next) - 1, Expected(d) PROVE FALSE
  OBVIOUS
<1>1. /\ DayHours \in Int /\ hour \in Int /\ shift \in {-1, 0, 1} /\ 0 <= hour /\ hour < DayHours
      /\ shift # 0 => 1 <= hour /\ hour <= DayHours - 2
  BY ScheduleAssumption DEF ClockTypes, Ordinary
<1>2. next \in Int /\ 0 < next /\ Day(next) <= Day(0) + 1 /\ Day(0) <= 0
  BY PlanIsNear, FirstDay
<1>3. Day(0) \in Int /\ Day(next) \in Int
  BY <1>1, <1>2, LocalIs
<1>4. d = 0 /\ Day(next) = 1
  BY <1>2, <1>3
<1>5. hour > 0 /\ (shift = 0 \/ ClockChange > 1)
  BY <1>4 DEF Expected
<1>6. Local(0) = 0 /\ Day(0) = 0
  <2>1. Local(0) = 0
    BY <1>1, <1>5, ScheduleAssumption DEF Local
  <2>. QED  BY <1>2, <1>3, <1>4, <2>1
<1>7. PICK c \in TimesAt(0, hour) : next = IF c > 0 THEN c ELSE c + DayHours
  BY <1>6 DEF NextDaily
<1>8. 0 * DayHours + hour = hour
  BY <1>1
<1>9. c \in {hour, hour - shift}
  BY <1>7, <1>8 DEF TimesAt
<1>10. c > 0
  <2>1. CASE hour = 1 /\ shift = 1
    <3>1. Local(1) = 1
      BY <1>5, <2>1, ScheduleAssumption DEF Local
    <3>2. c # 0
      BY <1>6, <1>7, <1>8, <2>1, <3>1 DEF TimesAt
    <3>. QED  BY <1>9, <2>1, <3>2
  <2>. QED  BY <1>1, <1>5, <1>9, <2>1
<1>11. Local(next) < 0 * DayHours + DayHours
  <2>1. Local(next) = next \/ Local(next) = next + shift
    BY <1>1, <1>2, LocalIs
  <2>2. 0 * DayHours = 0
    BY <1>1
  <2>3. next = c
    BY <1>7, <1>10
  <2>. QED  BY <1>1, <1>5, <1>9, <2>1, <2>2, <2>3
<1>12. Day(next) <= 0
  BY <1>1, <1>2, <1>11, LocalIs, NotLater DEF Day
<1>. QED  BY <1>4, <1>12

LEMMA ClockInitially == ScheduleInit => ScheduleIInv
<1>. SUFFICES ASSUME ScheduleInit PROVE ScheduleIInv
  OBVIOUS
<1>1. Horizon \in Nat
  BY ScheduleAssumption DEF Horizon
<1>2. ClockTypes
  BY <1>1 DEF ScheduleInit, ClockTypes
<1>. QED  BY <1>2 DEF ScheduleInit, ScheduleIInv, PlannedAhead, RanBefore, Covered, OncePerDay

LEMMA DailyPlanKeeps == ScheduleIInv /\ Plan => ScheduleIInv'
<1>. SUFFICES ASSUME ScheduleIInv, Plan PROVE ScheduleIInv'
  OBVIOUS
<1>1. PICK next \in NextDaily(now) : plan' = [at |-> now, next |-> next]
  BY DEF Plan
<1>2. /\ daily = "planning" /\ daily' = "waiting" /\ UNCHANGED <<hour, shift, slow, now, runs, tick>>
      /\ plan'.at = now /\ plan'.next = next
  BY <1>1 DEF Plan
<1>3. ClockTypes /\ now \in Int /\ shift \in {-1, 0, 1}
  BY DEF ScheduleIInv, ClockTypes
<1>4. Ordinary => next \in Int /\ now < next /\ Day(next) <= Day(now) + 1
  BY <1>1, <1>3, PlanIsNear
<1>5. next \in Int
  <2>1. PICK c \in TimesAt(Day(now), hour) : next = IF c > now THEN c ELSE c + DayHours
    BY <1>1 DEF NextDaily
  <2>2. c \in {Day(now) * DayHours + hour, (Day(now) * DayHours + hour) - shift}
    BY <2>1, TimesNear
  <2>3. Day(now) * DayHours \in Int /\ hour \in Int /\ DayHours \in Int
    BY <1>3, LocalIs, ScheduleAssumption DEF ClockTypes
  <2>. QED  BY <1>3, <2>1, <2>2, <2>3
<1>6. /\ ClockTypes' /\ OncePerDay' /\ Ordinary' = Ordinary
      /\ Day(plan.next)' = Day(next) /\ \A d : Expected(d)' = Expected(d)
  BY <1>2, <1>3, <1>5 DEF ClockTypes, Horizon, ScheduleIInv, OncePerDay, Ordinary, Day, Local, Expected
<1>7. PlannedAhead'
  BY <1>2, <1>3, <1>4, <1>6 DEF PlannedAhead
<1>8. RanBefore'
  <2>. SUFFICES ASSUME shift = 0
                PROVE  /\ next = Day(next) * DayHours + hour
                       /\ \A d \in DOMAIN runs : runs[d] > 0 => d * DayHours + hour < next
    BY <1>2, <1>6 DEF RanBefore
  <2>1. next = Day(next) * DayHours + hour
    <3>. DEFINE today == Day(now)
                midnight == today * DayHours
    <3>1. PICK c \in TimesAt(today, hour) : next = IF c > now THEN c ELSE c + DayHours
      BY <1>1 DEF NextDaily
    <3>2. /\ c = midnight + hour /\ today \in Int /\ midnight \in Int
          /\ hour \in Int /\ 0 <= hour /\ hour < DayHours /\ DayHours \in Int
      <4>1. c \in {midnight + hour, (midnight + hour) - 0}
        BY <3>1, TimesNear
      <4>2. today \in Int /\ midnight \in Int /\ hour \in Int /\ 0 <= hour /\ hour < DayHours /\ DayHours \in Int
        BY <1>3, LocalIs, ScheduleAssumption DEF ClockTypes
      <4>. QED  BY <4>1, <4>2
    <3>3. (today + 1) * DayHours = midnight + DayHours
      BY <3>2, NextDayBegins
    <3>4. \E e \in Int : e * DayHours \in Int /\ next = e * DayHours + hour
      <4>1. CASE c > now
        BY <3>1, <3>2, <4>1
      <4>2. CASE ~(c > now)
        <5>1. today + 1 \in Int /\ next = (today + 1) * DayHours + hour
          BY <3>1, <3>2, <3>3, <4>2
        <5>2. (today + 1) * DayHours \in Int
          BY <3>2, <3>3
        <5>. QED  BY <5>1, <5>2, Zenon
      <4>. QED  BY <4>1, <4>2
    <3>. HIDE DEF today, midnight
    <3>5. PICK e \in Int : e * DayHours \in Int /\ next = e * DayHours + hour
      BY <3>4
    <3>6. Local(next) = next
      BY <1>5, ScheduleAssumption DEF Local
    <3>7. Day(next) <= e
      BY <1>5, <3>2, <3>5, <3>6, NotLater DEF Day
    <3>8. e <= Day(next)
      <4>. SUFFICES ASSUME Day(next) < e PROVE FALSE
        BY <1>3, <1>5, <3>5, LocalIs
      <4>1. Day(next) \in Int /\ next < Day(next) * DayHours + DayHours /\ Day(next) * DayHours \in Int
        BY <1>3, <1>5, <3>6, LocalIs
      <4>2. (Day(next) + 1) * DayHours <= e * DayHours
        BY <3>5, <4>1, LaterDay
      <4>. QED  BY <3>2, <3>5, <4>1, <4>2, NextDayBegins
    <3>9. Day(next) = e
      BY <1>3, <1>5, <3>5, <3>7, <3>8, LocalIs
    <3>. QED  BY <3>5, <3>9
  <2>2. ASSUME NEW d \in DOMAIN runs, runs[d] > 0
        PROVE  d * DayHours + hour < next
    <3>1. d * DayHours + hour <= now
      BY <1>2, <2>2 DEF ScheduleIInv, RanBefore
    <3>2. d * DayHours + hour \in Int
      BY <1>3, <2>2, Product, ScheduleAssumption DEF ClockTypes
    <3>. QED  BY <1>3, <1>4, <3>1, <3>2 DEF Ordinary
  <2>. QED  BY <2>1, <2>2
<1>9. Covered'
  <2>. SUFFICES ASSUME Ordinary, ~slow PROVE CoveredTo(Day(next) - 1)
    BY <1>2, <1>6 DEF Covered, CoveredTo
  <2>1. CASE now = 0
    BY <1>1, <1>3, <2>1, FirstPlan DEF CoveredTo
  <2>2. CASE now # 0
    <3>1. CoveredTo(Day(now))
      BY <1>2, <2>2 DEF ScheduleIInv, Covered
    <3>2. Day(next) \in Int /\ Day(now) \in Int
      BY <1>3, <1>5, LocalIs
    <3>. QED  BY <1>4, <3>1, <3>2 DEF CoveredTo
  <2>. QED  BY <2>1, <2>2
<1>. QED  BY <1>6, <1>7, <1>8, <1>9 DEF ScheduleIInv

LEMMA DailyRunKeeps == ScheduleIInv /\ RunDaily => ScheduleIInv'
<1>. SUFFICES ASSUME ScheduleIInv, RunDaily PROVE ScheduleIInv'
  OBVIOUS
<1>. DEFINE today == Day(now)
            Counted(n) == IF n < 2 THEN n + 1 ELSE n
<1>1. /\ daily = "waiting" /\ plan.next <= now /\ daily' = "running"
      /\ UNCHANGED <<hour, shift, slow, now, plan, tick>>
      /\ runs' = [runs EXCEPT ![today] = Counted(@)]
  BY DEF RunDaily, DailyDue
<1>2. ClockTypes /\ now \in Int /\ plan.next \in Int /\ shift \in {-1, 0, 1}
  BY DEF ScheduleIInv, ClockTypes
<1>3. today \in Int
  BY <1>2, LocalIs
<1>4. Ordinary => plan.next = now
  BY <1>1, <1>2 DEF ScheduleIInv, PlannedAhead
<1>5. /\ runs' \in [0 .. Days + 1 -> Nat]
      /\ \A d \in 0 .. Days + 1 : runs'[d] = IF d = today THEN Counted(runs[d]) ELSE runs[d]
  <2>1. runs \in [0 .. Days + 1 -> Nat]
    BY <1>2 DEF ClockTypes
  <2>2. \A n \in Nat : Counted(n) \in Nat
    OBVIOUS
  <2>. HIDE DEF Counted, today
  <2>3. runs' = [d \in 0 .. Days + 1 |-> IF d = today THEN Counted(runs[d]) ELSE runs[d]]
    BY <1>1, <2>1
  <2>. QED  BY <2>1, <2>2, <2>3
<1>6. /\ ClockTypes' /\ PlannedAhead' /\ Ordinary' = Ordinary /\ Day(now)' = today
      /\ \A d : Expected(d)' = Expected(d)
  BY <1>1, <1>2, <1>5 DEF ClockTypes, Horizon, ScheduleIInv, PlannedAhead, Ordinary, Day, Local, Expected
<1>7. DOMAIN runs = 0 .. Days + 1 /\ DOMAIN runs' = 0 .. Days + 1 /\ \A d \in 0 .. Days + 1 : runs[d] \in Nat
  BY <1>2, <1>5 DEF ClockTypes
<1>. HIDE DEF today
<1>8. ASSUME shift = 0
      PROVE  /\ now = today * DayHours + hour
             /\ today \in 0 .. Days + 1 => ~(runs[today] > 0)
             /\ \A d \in 0 .. Days + 1 : runs[d] > 0 => d * DayHours + hour < now
  <2>1. plan.next = now
    BY <1>4, <1>8 DEF Ordinary
  <2>2. now = today * DayHours + hour /\ \A d \in 0 .. Days + 1 : runs[d] > 0 => d * DayHours + hour < now
    BY <1>1, <1>7, <1>8, <2>1 DEF ScheduleIInv, RanBefore, today
  <2>. QED  BY <1>2, <2>2
<1>9. RanBefore'
  <2>. SUFFICES ASSUME shift = 0, NEW d \in 0 .. Days + 1, runs'[d] > 0 PROVE d * DayHours + hour <= now
    BY <1>1, <1>7 DEF RanBefore
  <2>1. d * DayHours + hour \in Int
    BY <1>2, Product, ScheduleAssumption DEF ClockTypes
  <2>. QED  BY <1>2, <1>5, <1>8, <2>1
<1>10. OncePerDay'
  <2>. SUFFICES ASSUME shift = 0, NEW d \in 0 .. Days + 1 PROVE runs'[d] <= 1
    BY <1>1, <1>7 DEF OncePerDay
  <2>1. runs[d] <= 1
    BY <1>7 DEF ScheduleIInv, OncePerDay
  <2>. QED  BY <1>5, <1>7, <1>8, <2>1
<1>11. Covered'
  <2>. SUFFICES ASSUME Ordinary, ~slow, NEW d \in 0 .. today, Expected(d) PROVE runs'[d] > 0
    BY <1>1, <1>6 DEF Covered, CoveredTo
  <2>1. d \in 0 .. Days + 1
    BY <1>2, <1>3, DaysInHorizon, ScheduleAssumption DEF today
  <2>2. CASE d = today
    BY <1>5, <1>7, <2>1, <2>2
  <2>3. CASE d # today
    <3>1. CoveredTo(today - 1)
      BY <1>1, <1>4 DEF ScheduleIInv, Covered, today
    <3>. QED  BY <1>3, <1>5, <1>7, <2>1, <2>3, <3>1 DEF CoveredTo
  <2>. QED  BY <2>2, <2>3
<1>. QED  BY <1>6, <1>9, <1>10, <1>11 DEF ScheduleIInv

LEMMA DailyEndKeeps == ScheduleIInv /\ DailyEnds => ScheduleIInv'
<1>. SUFFICES ASSUME ScheduleIInv, DailyEnds PROVE ScheduleIInv'
  OBVIOUS
<1>1. daily = "running" /\ daily' = "planning" /\ UNCHANGED <<hour, shift, slow, now, plan, runs, tick>>
  BY DEF DailyEnds
<1>. QED  BY <1>1 DEF ScheduleIInv, ClockTypes, Horizon, PlannedAhead, RanBefore, Covered, CoveredTo, OncePerDay,
                      Ordinary, Day, Local, Expected

LEMMA DailyTimeKeeps == ScheduleIInv /\ TimePassesOn => ScheduleIInv'
<1>. SUFFICES ASSUME ScheduleIInv, TimePassesOn PROVE ScheduleIInv'
  OBVIOUS
<1>1. /\ now < Horizon /\ now' = now + 1 /\ UNCHANGED <<hour, shift, slow, plan, daily, runs>>
      /\ \/ daily = "waiting" /\ ~(plan.next <= now)
         \/ daily = "running" /\ slow
         \/ daily = "planning" /\ plan.next <= plan.at
  BY DEF TimePassesOn, DailyDue, Spinning
<1>2. ClockTypes /\ now \in Int /\ plan.next \in Int /\ plan.at \in Int
  BY DEF ScheduleIInv, ClockTypes
<1>3. ClockTypes'
  <2>1. Horizon \in Int /\ Horizon' = Horizon
    BY Product, ScheduleAssumption DEF Horizon
  <2>. QED  BY <1>1, <1>2, <2>1 DEF ClockTypes
<1>4. Ordinary => daily # "planning"
  BY <1>1, <1>2 DEF ScheduleIInv, PlannedAhead
<1>5. PlannedAhead'
  BY <1>1, <1>2 DEF ScheduleIInv, PlannedAhead, Ordinary
<1>6. RanBefore'
  <2>. SUFFICES ASSUME shift = 0 PROVE RanBefore'
    BY <1>1 DEF RanBefore
  <2>1. CASE daily = "waiting"
    BY <1>1, <2>1 DEF ScheduleIInv, RanBefore, Day, Local
  <2>2. CASE daily # "waiting"
    <3>1. \A d \in DOMAIN runs : runs[d] > 0 => d * DayHours + hour <= now
      BY <2>2 DEF ScheduleIInv, RanBefore
    <3>2. \A d \in DOMAIN runs : d * DayHours + hour \in Int
      BY <1>2, Product, ScheduleAssumption DEF ClockTypes
    <3>3. \A d \in DOMAIN runs : runs[d] > 0 => d * DayHours + hour <= now + 1
      BY <1>2, <3>1, <3>2
    <3>. QED  BY <1>1, <2>2, <3>3 DEF RanBefore
  <2>. QED  BY <2>1, <2>2
<1>7. Covered'
  <2>. SUFFICES ASSUME Ordinary, ~slow PROVE Covered'
    BY <1>1 DEF Covered, Ordinary
  <2>1. daily = "waiting"
    BY <1>1, <1>4
  <2>. QED  BY <1>1, <2>1 DEF ScheduleIInv, Covered, CoveredTo, Day, Local, Expected
<1>8. OncePerDay'
  BY <1>1 DEF ScheduleIInv, OncePerDay
<1>. QED  BY <1>3, <1>5, <1>6, <1>7, <1>8 DEF ScheduleIInv

LEMMA ScheduleStep == ScheduleIInv /\ [ScheduleNext]_scheduleVars => ScheduleIInv'
<1>1. ASSUME ScheduleIInv, RunEvery \/ UNCHANGED scheduleVars PROVE ScheduleIInv'
  <2>1. UNCHANGED <<hour, shift, slow, now, plan, daily, runs>>
    BY <1>1 DEF RunEvery, scheduleVars
  <2>. QED  BY <1>1, <2>1 DEF ScheduleIInv, ClockTypes, Horizon, PlannedAhead, RanBefore, Covered, CoveredTo,
                              OncePerDay, Ordinary, Day, Local, Expected
<1>. QED  BY <1>1, DailyPlanKeeps, DailyRunKeeps, DailyEndKeeps, DailyTimeKeeps DEF ScheduleNext

LEMMA NoneMissed == ScheduleIInv => ScheduleHolds
<1>. SUFFICES ASSUME ScheduleIInv PROVE ScheduleHolds
  OBVIOUS
<1>1. ClockTypes /\ now \in Int /\ plan.next \in Int /\ shift \in {-1, 0, 1} /\ Day(now) \in Int /\ Day(plan.next) \in Int
  <2>1. ClockTypes /\ now \in Int /\ plan.next \in Int /\ shift \in {-1, 0, 1}
    BY DEF ScheduleIInv, ClockTypes
  <2>. QED  BY <2>1, LocalIs
<1>2. ASSUME ~slow, Ordinary, NEW d \in 0 .. Day(now) - 1, Expected(d)
      PROVE  runs[d] > 0
  <2>1. CASE daily = "waiting"
    <3>1. CoveredTo(Day(plan.next) - 1) /\ now <= plan.next
      BY <1>2, <2>1 DEF ScheduleIInv, Covered, PlannedAhead
    <3>2. Day(now) <= Day(plan.next)
      BY <1>1, <3>1, DaysInOrder
    <3>. QED  BY <1>1, <1>2, <3>1, <3>2 DEF CoveredTo
  <2>2. CASE daily # "waiting" /\ now = 0
    BY <1>1, <1>2, <2>2, FirstDay
  <2>3. CASE daily # "waiting" /\ now # 0
    BY <1>1, <1>2, <2>3 DEF ScheduleIInv, Covered, CoveredTo
  <2>. QED  BY <2>1, <2>2, <2>3
<1>. QED  BY <1>2 DEF ScheduleHolds, NoDayMissed, Ordinary, ScheduleIInv

\* Counted to two, and one tick at a time.
LEMMA ScheduleTypeStep == ScheduleTypeOK /\ [ScheduleNext]_scheduleVars => ScheduleTypeOK'
<1>. SUFFICES ASSUME ScheduleTypeOK, [ScheduleNext]_scheduleVars PROVE ScheduleTypeOK'
  OBVIOUS
<1>1. CASE RunDaily
  <2>1. runs' \in [0 .. Days + 1 -> 0 .. 2]
    <3>1. /\ runs \in [0 .. Days + 1 -> 0 .. 2]
          /\ runs' = [runs EXCEPT ![Day(now)] = IF runs[Day(now)] < 2 THEN runs[Day(now)] + 1 ELSE runs[Day(now)]]
      BY <1>1 DEF RunDaily, ScheduleTypeOK
    <3>2. \A c \in 0 .. 2 : (IF c < 2 THEN c + 1 ELSE c) \in 0 .. 2
      OBVIOUS
    <3>. QED  BY <3>1, <3>2, Zenon
  <2>. QED  BY <1>1, <2>1 DEF RunDaily, ScheduleTypeOK
<1>2. CASE TimePassesOn
  <2>1. now' \in 0 .. Horizon
    BY <1>2, ScheduleAssumption DEF TimePassesOn, ScheduleTypeOK, Horizon
  <2>. QED  BY <1>2, <2>1 DEF TimePassesOn, ScheduleTypeOK
<1>3. CASE Plan
  BY <1>3 DEF Plan, ScheduleTypeOK
<1>4. CASE DailyEnds \/ RunEvery \/ UNCHANGED scheduleVars
  BY <1>4 DEF DailyEnds, RunEvery, scheduleVars, ScheduleTypeOK
<1>. QED  BY <1>1, <1>2, <1>3, <1>4 DEF ScheduleNext

LEMMA ScheduleTypeBegins == ScheduleInit => ScheduleTypeOK
<1>. SUFFICES ASSUME ScheduleInit PROVE ScheduleTypeOK
  OBVIOUS
<1>1. 0 \in 0 .. Horizon
  BY ScheduleAssumption DEF Horizon
<1>. QED  BY <1>1 DEF ScheduleInit, ScheduleTypeOK

\* However long a day is and whenever the clock is changed, a daily job misses no day while
\* its runs are short, and has no day twice while the clock stays (internal/localmod/scheduler.go).
THEOREM ScheduleKept == ScheduleSpec => []ScheduleHolds
<1>. QED  BY ClockInitially, ScheduleStep, NoneMissed, PTL DEF ScheduleSpec

\* Every part keeps its types: what MCComponents checks of each on small values (PartsTypeOK),
\* for remote calls, MCP, visual watches, provisioning, the registry, services and the schedule.
THEOREM TypesKept ==
  /\ CallsSpec => []CallsTypeOK
  /\ McpSpec => []McpTypeOK
  /\ VisualSpec => []VisualTypeOK
  /\ ProvisioningSpec => []ProvisioningTypeOK
  /\ RegistrySpec => []RegistryTypeOK
  /\ ServicesSpec => []ServicesTypeOK
  /\ ScheduleSpec => []ScheduleTypeOK
<1>1. CallsSpec => []CallsTypeOK
  <2>1. CallsIInv => CallsTypeOK
    BY DEF CallsIInv
  <2>. QED  BY CallsInitially, CallsStep, <2>1, PTL DEF CallsSpec
<1>2. McpSpec => []McpTypeOK
  <2>1. McpIInv => McpTypeOK
    BY DEF McpIInv
  <2>. QED  BY McpInitially, McpStep, <2>1, PTL DEF McpSpec
<1>3. VisualSpec => []VisualTypeOK
  <2>1. VisualIInv => VisualTypeOK
    BY DEF VisualIInv
  <2>. QED  BY VisualInitially, VisualStep, <2>1, PTL DEF VisualSpec
<1>4. ProvisioningSpec => []ProvisioningTypeOK
  <2>1. ProvisioningIInv => ProvisioningTypeOK
    BY DEF ProvisioningIInv
  <2>. QED  BY ProvisioningInitially, ProvisioningStep, <2>1, PTL DEF ProvisioningSpec
<1>5. RegistrySpec => []RegistryTypeOK
  <2>1. RegistryIInv => RegistryTypeOK
    BY DEF RegistryIInv
  <2>. QED  BY RegistryInitially, RegistryStep, <2>1, PTL DEF RegistrySpec
<1>6. ServicesSpec => []ServicesTypeOK
  <2>1. ServicesIInv => ServicesTypeOK
    BY DEF ServicesIInv
  <2>. QED  BY ServicesInitially, ServicesStep, <2>1, PTL DEF ServicesSpec
<1>7. ScheduleSpec => []ScheduleTypeOK
  BY ScheduleTypeBegins, ScheduleTypeStep, PTL DEF ScheduleSpec
<1>. QED  BY <1>1, <1>2, <1>3, <1>4, <1>5, <1>6, <1>7
===============================================================================
