------------------------------ MODULE UISessions ------------------------------
(* internal/telegram/ui/sessions: what the button interface remembers of a    *)
(* chat between two messages - an input flow, the calls that wait for a       *)
(* confirmation - and the free-chat switch of internal/telegram/ui. All of it *)
(* is in memory and is lost with the process. Every operator is one call      *)
(* under the store's mutex. Time is the flag stale: the TTL of the entry has  *)
(* passed. A flow belongs to a chat and one chat is modelled.                 *)
EXTENDS Naturals, FiniteSets

CONSTANTS
  Users,    \* who writes in the chat
  Skills,   \* registered skills
  Inputs,   \* Inputs[s]: how many input fields skill s declares
  Tokens,   \* tokens of confirmations, never drawn twice; their number is a bound
  NoFlow,   \* no input flow is pending
  NoUser

ASSUME SessionsAssumption ==
  /\ Inputs \in [Skills -> Nat]
  /\ NoUser \notin Users

VARIABLES
  flow,       \* the pending input flow of the chat
  mutation,   \* mutation[t]: the call waiting for confirmation under token t
  freeChat    \* the chat is in free-chat mode

sessions == <<flow, mutation, freeChat>>

Fields(s) == 0 .. (Inputs[s] - 1)
AllFields == UNION {Fields(s) : s \in Skills}

Flows == [skill : Skills, step : Nat, filled : SUBSET AllFields, stale : BOOLEAN]

\* gone: claimed, cancelled, expired on a claim, or lost with the process.
Mutations == [state : {"free", "stored", "claimed", "cancelled", "gone"},
              skill : Skills, owner : Users \cup {NoUser}, stale : BOOLEAN]

SessionsTypeOK ==
  /\ flow = NoFlow \/ flow \in Flows
  /\ mutation \in [Tokens -> Mutations]
  /\ freeChat \in BOOLEAN

NoMutation(s) == [state |-> "free", skill |-> s, owner |-> NoUser, stale |-> FALSE]

SessionsInit ==
  /\ flow = NoFlow
  /\ mutation = [t \in Tokens |-> NoMutation(CHOOSE s \in Skills : TRUE)]
  /\ freeChat = FALSE

(* ------------------------------ input flows ------------------------------ *)

HasFlow == flow # NoFlow /\ ~flow.stale

StartInput(s) ==
  flow' = [skill |-> s, step |-> 0, filled |-> {}, stale |-> FALSE]

\* A look at an expired flow removes it.
Pending == flow' = IF HasFlow THEN flow ELSE NoFlow

\* Whatever flow the chat has now gets the value: the caller's one may be gone.
\* A field of another skill is no field of this flow, yet the step goes on.
AdvanceInput(s, field) ==
  /\ flow # NoFlow
  /\ flow' = [flow EXCEPT !.step = @ + 1, !.stale = FALSE,
                          !.filled = IF s = flow.skill THEN @ \cup {field} ELSE @]

ClearInput == flow' = NoFlow

(* ----------------------------- confirmations ----------------------------- *)

\* Faulty: the owner and the skill are swapped.
StoreMutationSwapped(t, s, u) ==
  /\ mutation[t].state = "free"
  /\ mutation' = [mutation EXCEPT
       ![t] = [state |-> "stored", skill |-> u, owner |-> s, stale |-> FALSE]]

StoreMutation(t, s, u) ==
  /\ mutation[t].state = "free"
  /\ mutation' = [mutation EXCEPT
       ![t] = [state |-> "stored", skill |-> s, owner |-> u, stale |-> FALSE]]

\* Faulty: anybody in the chat may confirm.
WaitingForAnyone(t, u) == mutation[t].state = "stored"

Waiting(t, u) == mutation[t].state = "stored" /\ mutation[t].owner = u

Claimable(t, u) == Waiting(t, u) /\ ~mutation[t].stale

ClaimMutation(t, u) ==
  mutation' = IF Waiting(t, u)
              THEN [mutation EXCEPT ![t].state = IF mutation[t].stale THEN "gone" ELSE "claimed"]
              ELSE mutation

\* Faulty: a call that was claimed is cancelled all the same.
CancelAnyMutation(t, u) ==
  mutation' = IF mutation[t].owner = u
              THEN [mutation EXCEPT ![t].state = "cancelled"]
              ELSE mutation

CancelMutation(t, u) ==
  mutation' = IF Waiting(t, u)
              THEN [mutation EXCEPT ![t].state = "cancelled"]
              ELSE mutation

(* ------------------------------- environment ------------------------------ *)

FlowExpires ==
  /\ HasFlow
  /\ flow' = [flow EXCEPT !.stale = TRUE]
  /\ UNCHANGED <<mutation, freeChat>>

MutationExpires(t) ==
  /\ mutation[t].state = "stored" /\ ~mutation[t].stale
  /\ mutation' = [mutation EXCEPT ![t].stale = TRUE]
  /\ UNCHANGED <<flow, freeChat>>

\* The process ends: what waited is lost, old buttons find nothing.
SessionsLost ==
  /\ flow' = NoFlow
  /\ mutation' = [t \in Tokens |->
       IF mutation[t].state = "stored" THEN [mutation[t] EXCEPT !.state = "gone"] ELSE mutation[t]]
  /\ freeChat' = FALSE
=============================================================================
