---------------------------- MODULE PowerEngine ----------------------------
(***************************************************************************)
(* The charge accounting of twin/power/engine.py.  Loads hang on rails,    *)
(* and edges (diodes, load switches and LDOs) reflect the current of their *)
(* output rail onto their input rail.  The engine does not sample: it      *)
(* multiplies up the time since the last accrual when it is told of a      *)
(* change, at the operating point it then computes.                        *)
(***************************************************************************)
EXTENDS Integers, Sequences, FiniteSets, Functions

CONSTANTS
  Rail,
  Load,          (* pairs (ref, rail): set_load's key, as a name *)
  LoadRail,      (* [Load -> Rail] *)
  Amps,          (* the currents a load may be set to *)
  Gated, Ldos,   (* edges: diodes and load switches, and LDOs *)
  From, To,      (* [edge -> Rail] *)
  Iq, Ioff,      (* an LDO's own current when regulating and when off *)
  Battery,       (* batteries *)
  BatteryRail,   (* [Battery -> Rail] *)
  MaxTime        (* bound: length of a run *)

Edges == Gated \cup Ldos

ASSUME PowerAssumption ==
  /\ IsFiniteSet(Load) /\ IsFiniteSet(Edges)
  /\ LoadRail \in [Load -> Rail] /\ BatteryRail \in [Battery -> Rail]
  /\ From \in [Edges -> Rail] /\ To \in [Edges -> Rail]
  /\ Amps \subseteq Nat /\ 0 \in Amps
  /\ Iq \in Nat /\ Ioff \in Nat /\ MaxTime \in Nat

VARIABLES
  now,         (* the kernel's clock *)
  loads,       (* _loads; a load never set draws nothing *)
  regulators,  (* the edges registered, in registration order *)
  batteries,   (* the batteries registered *)
  on,          (* what the reflect functions read of their component *)
  lastT,       (* _last_t, which total_time equals *)
  charge,      (* RailStats.charge_c of every rail *)
  peak,        (* RailStats.peak_a *)
  drained      (* Battery.drained_c *)

vars == <<now, loads, regulators, batteries, on, lastT, charge, peak, drained>>
-----------------------------------------------------------------------------
(* The reflect functions: a gated edge passes current on while it conducts *)
(* and an LDO adds its own.                                                *)
Reflect(e, amps) ==
  IF e \in Ldos THEN amps + (IF on[e] THEN Iq ELSE Ioff)
  ELSE IF on[e] THEN amps ELSE 0

(* rail_currents: direct loads first. *)
Direct(ld) ==
  [r \in Rail |-> SumFunctionOnSet(ld, {l \in Load : LoadRail[l] = r})]

(* Seeded faults, used only by the mutation runs of PROJECT.json. *)
AnyOrder(e, left) == TRUE
LaterLoads(l, a) == [loads EXCEPT ![l] = a]
ChargingAmps(b, amps) == 0 - amps[BatteryRail[b]]

(* An edge can be reflected once no other edge draws on its output rail.   *)
Leaf(e, left) == \A f \in left \ {e} : From[f] # To[e]

(* What a pass over the remaining edges reflects: the leaves among them,   *)
(* or all of them once there is only a cycle.                              *)
Pass(left) ==
  LET leaves == {e \in left : Leaf(e, left)}
  IN  IF leaves = {} THEN left ELSE leaves

Reflected(e) == [amps \in [Rail -> Nat] |-> [amps EXCEPT ![From[e]] = @ + Reflect(e, amps[To[e]])]]

(* A pass goes through the edges in the order they registered. *)
ReflectAll(S, amps) ==
  LET after[i \in 0 .. Len(regulators)] ==
        IF i = 0 THEN amps
        ELSE IF regulators[i] \in S THEN Reflected(regulators[i])[after[i - 1]]
        ELSE after[i - 1]
  IN  after[Len(regulators)]

AfterPass ==
  [p \in [left : SUBSET Edges, amps : [Rail -> Nat]] |->
     [left |-> p.left \ Pass(p.left), amps |-> ReflectAll(Pass(p.left), p.amps)]]

(* As many passes as there are edges leave none. *)
RailCurrents(ld) ==
  LET passes[k \in 0 .. Len(regulators)] ==
        IF k = 0 THEN [left |-> Range(regulators), amps |-> Direct(ld)]
        ELSE AfterPass[passes[k - 1]]
  IN  passes[Len(regulators)].amps

OperatingPoint(l, a) == loads
PeakOf(r, amps) == IF amps > peak[r] THEN amps ELSE peak[r]
BatteryAmps(b, amps) == amps[BatteryRail[b]]

(* accrue: the time since the last accrual, at the currents of loads ld.   *)
Accrue(ld) ==
  LET dt   == now - lastT
      amps == RailCurrents(ld)
  IN  IF dt <= 0 THEN UNCHANGED <<lastT, charge, peak, drained>>
      ELSE /\ lastT' = now
           /\ charge' = [r \in Rail |-> charge[r] + amps[r] * dt]
           /\ peak' = [r \in Rail |-> PeakOf(r, amps[r])]
           /\ drained' = [b \in Battery |->
                drained[b] + (IF b \in batteries THEN BatteryAmps(b, amps) * dt ELSE 0)]
-----------------------------------------------------------------------------
Init ==
  /\ now = 0 /\ lastT = 0
  /\ loads = [l \in Load |-> 0]
  /\ regulators = <<>>
  /\ batteries = {}
  /\ on = [e \in Edges |-> FALSE]
  /\ charge = [r \in Rail |-> 0]
  /\ peak = [r \in Rail |-> 0]
  /\ drained = [b \in Battery |-> 0]

(* Components register as they start, before time moves. *)
AddRegulator(e) ==
  /\ now = 0 /\ e \notin Range(regulators)
  /\ Accrue(loads)
  /\ regulators' = Append(regulators, e)
  /\ UNCHANGED <<now, loads, batteries, on>>

AddBattery(b) ==
  /\ now = 0 /\ b \notin batteries
  /\ Accrue(loads)
  /\ batteries' = batteries \cup {b}
  /\ UNCHANGED <<now, loads, regulators, on>>

Started == Len(regulators) = Cardinality(Edges) /\ batteries = Battery

SetLoad(l, a) ==
  /\ loads[l] # a
  /\ Accrue(OperatingPoint(l, a))
  /\ loads' = [loads EXCEPT ![l] = a]
  /\ UNCHANGED <<now, regulators, batteries, on>>

(* A diode, switch or LDO changes over in its _update: the engine reads    *)
(* its flag when it next solves, and is not told.                          *)
Switch(e) ==
  /\ e \in Range(regulators)
  /\ on' = [on EXCEPT ![e] = ~on[e]]
  /\ UNCHANGED <<now, loads, regulators, batteries, lastT, charge, peak, drained>>

Report ==
  /\ Started
  /\ Accrue(loads)
  /\ UNCHANGED <<now, loads, regulators, batteries, on>>

Tick ==
  /\ Started /\ now < MaxTime
  /\ now' = now + 1
  /\ UNCHANGED <<loads, regulators, batteries, on, lastT, charge, peak, drained>>

Next ==
  \/ \E e \in Edges : AddRegulator(e) \/ Switch(e)
  \/ \E b \in Battery : AddBattery(b)
  \/ \E l \in Load, a \in Amps : SetLoad(l, a)
  \/ Report
  \/ Tick

Spec == Init /\ [][Next]_vars
-----------------------------------------------------------------------------
TypeOK ==
  /\ now \in 0 .. MaxTime /\ lastT \in 0 .. now
  /\ loads \in [Load -> Amps]
  /\ regulators \in Seq(Edges)
  /\ batteries \subseteq Battery
  /\ on \in [Edges -> BOOLEAN]
  /\ charge \in [Rail -> Nat] /\ peak \in [Rail -> Nat]
  /\ drained \in [Battery -> Nat]

(* "Rails form a tree" (engine.py line 8): every edge leads down. *)
Tree == \E height \in [Rail -> Nat] : \A e \in Edges : height[To[e]] < height[From[e]]

(* The operating point obeys Kirchhoff's current law: a rail carries its   *)
(* loads and what its edges reflect, in whatever order edges registered.   *)
DrawnBy(r) == {e \in Range(regulators) : From[e] = r}
Kirchhoff ==
  LET amps == RailCurrents(loads)
  IN  \A r \in Rail :
        amps[r] = Direct(loads)[r]
                  + SumFunctionOnSet([e \in Edges |-> Reflect(e, amps[To[e]])], DrawnBy(r))

(* A battery has drained what its rail was charged for.                    *)
BatteryPaysRail == \A b \in Battery : drained[b] = charge[BatteryRail[b]]

Metered ==
  LET amps == RailCurrents(loads)
  IN  [r \in Rail |-> charge[r] + amps[r] * (now - lastT)]

Meter == INSTANCE LoadMeter WITH amps <- RailCurrents(loads), drawn <- Metered

(* "the elapsed interval is accrued at the previous operating point"       *)
(* (engine.py line 4): as long as no edge changes over, the engine is an   *)
(* exact meter of every rail.                                              *)
MetersLoads == [][on' = on => [Meter!Next]_<<now, RailCurrents(loads), Metered>>]_vars
=============================================================================
