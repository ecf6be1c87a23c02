----------------------------- MODULE RemoteCalls -----------------------------
(* An edge node using its brain over HTTP: skills, inference, speech,         *)
(* embeddings and the status probe, each a call with a client timeout and no   *)
(* retry. brain.Server listens before everything it serves has been set, and   *)
(* either node may crash.                                                      *)
EXTENDS Faults, FiniteSets, Sequences

CONSTANTS
  CallIds,     \* requests of the edge; a bound
  CallKinds    \* what they ask for

KnownKinds == {"skill", "generate", "voice", "embed", "probe"}
ASSUME CallsAssumption == IsFiniteSet(CallIds) /\ CallKinds \subseteq KnownKinds
\* The stages of a brain's start, and from which of them a kind is served:
\* inference and embeddings before the listener, the rest after it.
BrainStages == <<"down", "listening", "registry", "transcriber">>
ServedFrom(kind) == CASE kind = "skill" -> 3 [] kind = "voice" -> 4 [] OTHER -> 2
\* RemoteEmbedder sends its inputs in batches, one request each.
Batches(kind) == IF kind = "embed" THEN 2 ELSE 1
\* Whether a temporary file is made for it on the brain.
HasFile(kind) == kind \in {"skill", "voice"}

NoCall == [at |-> "new", kind |-> "none", ran |-> 0, answered |-> "no", told |-> "nothing"]

VARIABLES
  bstage,    \* index into BrainStages
  stubs,     \* remote skills of the edge: "unasked", "none" or "known"
  call,      \* call[c]: at is "new", "sent", "brain", "running",
             \* "done" or "over"
  waiting,   \* the calls the edge still waits for
  bfiles     \* temporary files of calls on the brain's disk

callVars == <<bstage, stubs, call, waiting, bfiles>>

CallRecords ==
  [at : {"new", "sent", "brain", "running", "done", "over"}, kind : CallKinds \cup {"none"}, ran : Nat,
   answered : {"no", "ok", "failed", "model_down", "unserved"},
   told : {"nothing", "ok", "error", "unavailable", "invalid", "offline"}]
CallsTypeOK ==
  /\ bstage \in 1 .. Len(BrainStages)
  /\ stubs \in {"unasked", "none", "known"}
  /\ call \in [CallIds -> CallRecords]
  /\ waiting \subseteq CallIds
  /\ bfiles \in Nat

CallsInit ==
  /\ bstage = 1 /\ stubs = "unasked" /\ waiting = {} /\ bfiles = 0
  /\ call = [c \in CallIds |-> NoCall]

BrainUp == bstage > 1
Serves(kind) == bstage >= ServedFrom(kind)

\* One more stage of the brain's start.
BrainBoots ==
  /\ bstage < Len(BrainStages)
  /\ bstage' = bstage + 1
  /\ NoFault /\ UNCHANGED <<stubs, call, waiting, bfiles>>

\* The edge asks for the skills once, while it starts: a brain that cannot be
\* reached and one whose registry is not set yet both leave it without.
EdgeBoots ==
  /\ stubs = "unasked"
  /\ stubs' = IF Serves("skill") THEN "known" ELSE "none"
  /\ NoFault /\ UNCHANGED <<bstage, call, waiting, bfiles>>

AskBrain(c, kind) ==
  /\ stubs # "unasked" /\ (kind = "skill" => stubs = "known")
  /\ call[c].at = "new"
  /\ call' = [call EXCEPT ![c].at = "sent", ![c].kind = kind]
  /\ waiting' = waiting \cup {c}
  /\ NoFault /\ UNCHANGED <<bstage, stubs, bfiles>>

\* What the caller makes of the outcome. A skill's stub reports a lost
\* connection as a result that says offline; inference takes any error whose
\* text speaks of a refused connection for the brain being offline, also the
\* brain's own when its model cannot be reached. A timeout while dialling reads
\* like a lost connection.
Told(kind, outcome) ==
  IF outcome = "ok" THEN {"ok"} ELSE
  CASE kind = "skill" ->
         (CASE outcome \in {"refused", "broken"} -> {"offline"} [] outcome = "timeout" -> {"unavailable", "offline"}
            [] outcome = "unserved" -> {"invalid"} [] OTHER -> {"error"})
    [] kind = "generate" ->
         (CASE outcome \in {"refused", "broken", "model_down"} -> {"offline"} [] outcome = "timeout" -> {"error", "offline"} [] OTHER -> {"error"})
    [] kind = "probe" -> {"offline"}
    [] OTHER -> {"unavailable"}

Tell(c, outcome) == \E t \in Told(call[c].kind, outcome) :
  /\ call' = [call EXCEPT ![c].told = t, ![c].at = IF @ = "sent" THEN "over" ELSE @,
                          ![c].answered = IF outcome \in {"refused", "broken", "timeout"} THEN "no" ELSE outcome]
  /\ waiting' = waiting \ {c}

ConnectionRefused(c) ==
  /\ call[c].at = "sent" /\ ~BrainUp
  /\ Tell(c, "refused")
  /\ NoFault /\ UNCHANGED <<bstage, stubs, bfiles>>

\* The handler begins: what is not set is refused with a status, else the files
\* that came with the request are written for the skill to read. A file that
\* cannot be written ends a transcription; a skill runs without its argument,
\* and what was written of the file stays.
Handle(c) ==
  /\ call[c].at = "sent" /\ BrainUp
  /\ \/ /\ ~Serves(call[c].kind)
        /\ Tell(c, "unserved")
        /\ NoFault /\ UNCHANGED bfiles
     \/ /\ Serves(call[c].kind)
        /\ call' = [call EXCEPT ![c].at = "brain"]
        /\ bfiles' = IF HasFile(call[c].kind) THEN bfiles + 1 ELSE bfiles
        /\ NoFault /\ UNCHANGED waiting
     \/ /\ Serves(call[c].kind) /\ call[c].kind = "voice" /\ CanFail("write_failed")
        /\ Tell(c, "failed")
        /\ Fault /\ UNCHANGED bfiles
     \/ /\ Serves(call[c].kind) /\ call[c].kind = "skill" /\ CanFail("write_failed")
        /\ call' = [call EXCEPT ![c].at = "running"]
        /\ bfiles' \in {bfiles, bfiles + 1}
        /\ Fault /\ UNCHANGED waiting
  /\ UNCHANGED <<bstage, stubs>>

\* Deferred in the handlers: whatever the outcome, its files go. (at tells a
\* skill whose file could not be written: it is not on the list.)
RemoveFiles(c, outcome) == IF HasFile(call[c].kind) /\ call[c].at = "brain" THEN bfiles - 1 ELSE bfiles

\* The work itself. An edge that gave up has closed the connection, which
\* cancels the work at some point or not at all.
BrainExecutes(c) ==
  /\ call[c].at \in {"brain", "running"}
  /\ \E outcome \in {"ok", "failed", "model_down"}, done \in {0, 1} :
       /\ c \in waiting \/ outcome = "ok" => done = 1
       /\ bfiles' = RemoveFiles(c, outcome)
       /\ call' = [call EXCEPT ![c].at = "done", ![c].ran = @ + done, ![c].answered = outcome]
  /\ NoFault /\ UNCHANGED <<bstage, stubs, waiting>>

\* The answer arrives, unless nobody waits for it; the next batch follows.
AnswerArrives(c) ==
  /\ call[c].at = "done"
  /\ IF c \notin waiting
     THEN call' = [call EXCEPT ![c].at = "over"] /\ UNCHANGED waiting
     ELSE IF call[c].answered = "ok" /\ call[c].ran < Batches(call[c].kind)
     THEN call' = [call EXCEPT ![c].at = "sent"] /\ UNCHANGED waiting
     ELSE \E t \in Told(call[c].kind, call[c].answered) :
            /\ call' = [call EXCEPT ![c].at = "over", ![c].told = t]
            /\ waiting' = waiting \ {c}
  /\ NoFault /\ UNCHANGED <<bstage, stubs, bfiles>>

\* The client's timeout, or the request's.
TimesOut(c) ==
  /\ c \in waiting
  /\ Tell(c, "timeout")
  /\ NoFault /\ UNCHANGED <<bstage, stubs, bfiles>>

\* Faulty: a connection that breaks makes the edge send the request again.
AsksAgain(c) ==
  /\ call' = [call EXCEPT ![c].at = "sent"]
  /\ UNCHANGED waiting

\* The connection breaks while the brain works.
Breaks(c) == Tell(c, "broken")

AnswerLost(c) ==
  /\ CanFail("answer_lost") /\ c \in waiting /\ call[c].at \in {"brain", "running", "done"}
  /\ Breaks(c)
  /\ Fault /\ UNCHANGED <<bstage, stubs, bfiles>>

\* All the brain was working on is gone, its files are not; whoever waited sees
\* the connection break.
BrainCrash ==
  /\ CanFail("brain_crash") /\ BrainUp
  /\ bstage' = 1
  /\ LET there == {c \in CallIds : call[c].at \in {"brain", "running", "done"}}
     IN /\ call' = [c \in CallIds |->
                      IF c \notin there THEN call[c]
                      ELSE [call[c] EXCEPT !.at = "over", !.answered = "no",
                              !.told = IF c \in waiting THEN CHOOSE t \in Told(call[c].kind, "broken") : TRUE ELSE @]]
        /\ waiting' = waiting \ there
  /\ Fault /\ UNCHANGED <<stubs, bfiles>>

EdgeCrash ==
  /\ CanFail("edge_crash") /\ stubs # "unasked"
  /\ stubs' = "unasked" /\ waiting' = {}
  /\ call' = [c \in CallIds |-> IF call[c].at = "sent" THEN [call[c] EXCEPT !.at = "over"] ELSE call[c]]
  /\ Fault /\ UNCHANGED <<bstage, bfiles>>

Carry(c) == ConnectionRefused(c) \/ Handle(c) \/ BrainExecutes(c) \/ AnswerArrives(c)
CallsNext ==
  \/ BrainBoots \/ EdgeBoots \/ BrainCrash \/ EdgeCrash
  \/ \E c \in CallIds : Carry(c) \/ TimesOut(c) \/ AnswerLost(c) \/ \E kind \in CallKinds : AskBrain(c, kind)

CallsSpec == CallsInit /\ FaultsInit /\ [][CallsNext]_<<callVars, faults>>

(* -------------------------------- properties -------------------------------- *)

\* Work done for an edge is done once, whatever breaks in between, and a call
\* reported as done was done in full (RemoteSkill.Execute, RemoteEmbedder.Embed).
DoneOnce ==
  \A c \in CallIds :
    /\ call[c].ran <= Batches(call[c].kind)
    /\ call[c].told = "ok" => call[c].ran = Batches(call[c].kind)

\* Files of calls that are over stay on the brain only where a write failed or
\* the brain crashed (handleSkillsInvoke, handleVoiceTranscribe).
FilesGoWithCalls ==
  LET held == Cardinality({c \in CallIds : call[c].at = "brain" /\ HasFile(call[c].kind)})
  IN bfiles >= held /\ (faults = 0 => bfiles = held)

\* What an edge asks of its brain is done once and leaves no file behind
\* (RemoteSkill.Execute, handleSkillsInvoke).
EdgeCallsHold == DoneOnce /\ FilesGoWithCalls
=============================================================================
