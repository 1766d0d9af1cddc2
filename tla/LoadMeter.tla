----------------------------- MODULE LoadMeter -----------------------------
(***************************************************************************)
(* What an energy meter promises: the charge drawn from a rail is the      *)
(* integral of its current.  Currents change at an instant, and charge     *)
(* accumulates, at the present current, only while time passes.            *)
(***************************************************************************)
EXTENDS Integers

CONSTANT Rail

VARIABLES
  now,    (* time *)
  amps,   (* [Rail -> current] *)
  drawn   (* [Rail -> charge since power-on] *)

Init ==
  /\ now = 0
  /\ amps \in [Rail -> Nat]
  /\ drawn = [r \in Rail |-> 0]

Elapse ==
  /\ now' = now + 1
  /\ drawn' = [r \in Rail |-> drawn[r] + amps[r]]
  /\ UNCHANGED amps

Change ==
  /\ amps' \in [Rail -> Nat]
  /\ UNCHANGED <<now, drawn>>

Next == Elapse \/ Change
MeterSpec == Init /\ [][Next]_<<now, amps, drawn>>
=============================================================================
