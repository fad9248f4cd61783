----------------------------- MODULE Incidents -----------------------------
(***************************************************************************)
(* What may go wrong in a component, or happen to it from outside, is      *)
(* counted here, so that one bound covers every combination: an overflow   *)
(* and a failing codec, a write that fails and a connection that is lost.  *)
(***************************************************************************)
EXTENDS Naturals

CONSTANT MaxIncidents   \* bound

ASSUME IncidentsAssumption == MaxIncidents \in Nat

VARIABLE incidents

Incident == incidents < MaxIncidents /\ incidents' = incidents + 1
Smooth == UNCHANGED incidents
=============================================================================
