-------------------------------- MODULE Faults --------------------------------
(* What goes wrong around the program - a crash, a lost connection, a failed   *)
(* write - happens in actions of the modules that extend this one, a bounded   *)
(* number of times.                                                            *)
EXTENDS Naturals

CONSTANTS
  Events,      \* the kinds of fault that may happen
  MaxEvents    \* bound: how many faults in a behaviour

ASSUME FaultsAssumption == MaxEvents \in Nat

VARIABLE faults   \* faults so far

FaultsTypeOK == faults \in 0 .. MaxEvents
FaultsInit == faults = 0

CanFail(kind) == kind \in Events /\ faults < MaxEvents
Fault == faults' = faults + 1
NoFault == UNCHANGED faults
=============================================================================
