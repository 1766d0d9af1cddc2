-------------------------------- MODULE Nets --------------------------------
(***************************************************************************)
(* The wires of a board and the parts that react to them: twin/core/net.py *)
(* with the passive, input and power parts of twin/components.  A net      *)
(* resolves its drives at once and schedules one zero-delay event, which   *)
(* calls the net's listeners; they read the nets as they are by then.      *)
(***************************************************************************)
EXTENDS Integers, Sequences, FiniteSetsExt, Functions

CONSTANTS
  Net,         (* the board's nets *)
  Sources, Diodes, Switches, Regulators, Leds, Resistors, Buttons,
               (* the parts: ground, supplies and batteries are sources *)
  Gpios,       (* pins of other parts that drive a net *)
  Pin,         (* [part -> record of its nets and parameters] *)
  GpioDrives,  (* what a Gpios pin may drive *)
  StartOrder,  (* the parts in the order they start *)
  Listeners,   (* [net -> the parts that listen to it, in start order] *)
  MaxStimuli   (* bound: stimuli from outside in a behaviour *)

Hiz == 0
Pull == 1
Strong == 2
NoVolts == -1

Drive(l, s, v) == [level |-> l, strength |-> s, volts |-> v]
Released == Drive("Z", Hiz, NoVolts)
DriveLow == Drive("0", Strong, 0)
DriveHigh(v) == Drive("1", Strong, v)

Volts == Int

(* What anything drives: nothing, or a level. *)
Drives == {Released} \cup [level : {"0", "1"}, strength : {Pull, Strong}, volts : Volts]

Reactive == Diodes \cup Switches \cup Regulators \cup Leds
Parts == Sources \cup Reactive \cup Resistors \cup Buttons
Drivers == Parts \cup Gpios

(* The nets a part listens to. *)
Reads(p) ==
  CASE p \in Diodes     -> {Pin[p].a}
    [] p \in Switches   -> {Pin[p].g, Pin[p].d}
    [] p \in Regulators -> {Pin[p].vin, Pin[p].en}
    [] p \in Resistors  -> {Pin[p].a, Pin[p].b}
    [] p \in Leds       -> {Pin[p].a, Pin[p].k}
    [] OTHER            -> {}

ASSUME BoardAssumption ==
  /\ MaxStimuli \in Nat
  /\ Sources \cap (Reactive \cup Resistors \cup Buttons \cup Gpios) = {}
  /\ Resistors \cap (Reactive \cup Buttons \cup Gpios) = {}
  /\ (Buttons \cup Gpios) \cap Reactive = {}
  /\ Diodes \cap (Switches \cup Regulators \cup Leds) = {}
  /\ Switches \cap (Regulators \cup Leds) = {}
  /\ Regulators \cap Leds = {}

ASSUME NetlistAssumption ==
  /\ \A p \in Parts : Reads(p) \subseteq Net
  /\ \A p \in Reactive \ Leds : Pin[p].out \in Net
  /\ \A p \in Sources \cup Gpios : Pin[p].net \in Net
  /\ \A p \in Buttons : Pin[p].sig \in Net
  /\ StartOrder \in Seq(Parts)
  /\ Parts \subseteq Range(StartOrder)
  /\ \A n \in Net : /\ Listeners[n] \in Seq(Parts)
                     /\ \A p \in Parts : n \in Reads(p) => p \in Range(Listeners[n])

ASSUME ValueAssumption ==
  /\ IsFiniteSet(Drivers)
  /\ \A p \in Sources \cup Regulators : Pin[p].volts \in Volts
  /\ \A p \in Diodes : Pin[p].vf \in Volts
  /\ \A p \in Gpios : GpioDrives[p] \subseteq Drives

VARIABLES
  drives,    (* Net._drives; a driver never heard of counts as released *)
  state,     (* Net.level and Net.voltage; contention is level X *)
  events,    (* nets whose _notify is scheduled, oldest first *)
  todo,      (* parts whose start() or listener is still to be called *)
  active,    (* conducting, on, regulating, lit or pressed, per part *)
  stimuli    (* stimuli so far *)

vars == <<drives, state, events, todo, active, stimuli>>
wires == [drives |-> drives, state |-> state, events |-> events]
-----------------------------------------------------------------------------
(* Seeded faults, used only by the mutation runs of PROJECT.json. *)
LevelChanged(old, new) == old.level # new.level
EveryDriver(p) == Drivers
ContentionKeepsVolts(v) == [level |-> "X", volts |-> v]
KeepSource(w, n, p) == w
-----------------------------------------------------------------------------
(* What counts as a change for Net._resolve: level or voltage. *)
Changed(old, new) == old # new

(* Resistor._side_strength leaves the resistor's own drive out. *)
Others(p) == Drivers \ {p}

Strongest(d, who) == Max({Hiz} \cup {d[i].strength : i \in who})

Contention(v) == [level |-> "X", volts |-> NoVolts]

(* Net._resolve: the strongest drives win, and contend unless they agree. *)
Resolve(d) ==
  LET best    == Strongest(d, DOMAIN d)
      winners == {d[i] : i \in {j \in DOMAIN d : d[j].strength = best}}
      volts   == Max({x.volts : x \in winners})
  IN  IF best = Hiz THEN [level |-> "Z", volts |-> NoVolts]
      ELSE IF \A x, y \in winners : x.level = y.level
           THEN [level |-> (CHOOSE x \in winners : TRUE).level, volts |-> volts]
           ELSE Contention(volts)

(* Net.drive on wires w: only a change of the resolved state is announced. *)
DriveNet(w, n, p, d) ==
  LET ds  == [w.drives EXCEPT ![n][p] = d]
      new == Resolve(ds[n])
  IN  [drives |-> ds,
       state  |-> [w.state EXCEPT ![n] = new],
       events |-> w.events \o (IF Changed(w.state[n], new) THEN <<n>> ELSE <<>>)]

IsHigh(n) == state[n].level = "1"
IsLow(n) == state[n].level = "0"
-----------------------------------------------------------------------------
(* What a reactive part makes of the nets it reads: is it on, and what     *)
(* does it drive when it is.                                               *)
RegulatorEnabled(p) ==
  /\ IsHigh(Pin[p].vin) /\ 10 * state[Pin[p].vin].volts >= 8 * Pin[p].volts
  /\ state[Pin[p].en].level \in {"1", "Z"}

IsOn(p) ==
  \/ p \in Diodes /\ IsHigh(Pin[p].a)
  \/ p \in Switches /\ ~IsHigh(Pin[p].g) /\ IsHigh(Pin[p].d)
  \/ p \in Regulators /\ RegulatorEnabled(p)
  \/ p \in Leds /\ IsHigh(Pin[p].a) /\ IsLow(Pin[p].k)

DiodeDrive(p) ==
  LET v == state[Pin[p].a].volts
  IN  Drive("1", Pull, IF v > 0 THEN v - Pin[p].vf ELSE NoVolts)

OnDrive(p) ==
  CASE p \in Diodes     -> DiodeDrive(p)
    [] p \in Switches   -> Drive("1", Pull, state[Pin[p].d].volts)
    [] p \in Regulators -> DriveHigh(Pin[p].volts)

ReleaseSource(w, n, p) == DriveNet(w, n, p, Released)

(* A resistor passes the level of its stronger side, side a when equal, to *)
(* the other; its own drive does not count on either side.                 *)
ResistorWires(w, p) ==
  LET Strength(n) == Strongest(w.drives[n], Others(p))
      aWins == Strength(Pin[p].a) >= Strength(Pin[p].b)
      src   == IF aWins THEN Pin[p].a ELSE Pin[p].b
      dst   == IF aWins THEN Pin[p].b ELSE Pin[p].a
      w1    == ReleaseSource(w, src, p)
      s     == w1.state[src]
  IN  DriveNet(w1, dst, p,
               IF Strength(src) > Hiz /\ s.level \in {"0", "1"}
               THEN Drive(s.level, Pull, s.volts) ELSE Released)
-----------------------------------------------------------------------------
Init ==
  /\ drives = [n \in Net |-> [p \in Drivers |-> Released]]
  /\ state = [n \in Net |-> Resolve(drives[n])]
  /\ events = <<>>
  /\ todo = StartOrder
  /\ active = [p \in Parts |-> FALSE]
  /\ stimuli = 0

(* The next zero-delay event: the listeners of its net are called in turn. *)
Notify ==
  /\ todo = <<>>
  /\ events # <<>>
  /\ todo' = Listeners[Head(events)]
  /\ events' = Tail(events)
  /\ UNCHANGED <<drives, state, active, stimuli>>

Becomes(w) == drives' = w.drives /\ state' = w.state /\ events' = w.events

(* The part at the head of todo runs; it leaves wires w and flag on. *)
Runs(p, w, on) ==
  /\ todo # <<>> /\ p = Head(todo)
  /\ todo' = Tail(todo)
  /\ Becomes(w)
  /\ active' = [active EXCEPT ![p] = on]
  /\ UNCHANGED stimuli

(* The start() of what drives one net for good: ground, supply, battery. *)
SourceStart(p) ==
  Runs(p, DriveNet(wires, Pin[p].net, p,
                   IF Pin[p].volts = 0 THEN DriveLow ELSE DriveHigh(Pin[p].volts)),
       TRUE)

(* start() and _update() of diodes, load switches and regulators. *)
OutputUpdate(p) ==
  Runs(p, DriveNet(wires, Pin[p].out, p, IF IsOn(p) THEN OnDrive(p) ELSE Released),
       IsOn(p))

LedUpdate(p) == Runs(p, wires, IsOn(p))

ResistorUpdate(p) == Runs(p, ResistorWires(wires, p), FALSE)

ButtonStart(p) == Runs(p, wires, FALSE)

(* Stimuli come from other events, which run between two notifications. *)
Stimulus(w) ==
  /\ todo = <<>>
  /\ stimuli < MaxStimuli
  /\ stimuli' = stimuli + 1
  /\ Becomes(w)
  /\ UNCHANGED todo

(* A press shorts the signal to the level the other side, if any, has now. *)
Press(p) ==
  /\ Stimulus(DriveNet(wires, Pin[p].sig, p,
                IF Pin[p].other \in Net /\ IsHigh(Pin[p].other)
                THEN DriveHigh(state[Pin[p].other].volts) ELSE DriveLow))
  /\ active' = [active EXCEPT ![p] = TRUE]

Release(p) ==
  /\ Stimulus(DriveNet(wires, Pin[p].sig, p, Released))
  /\ active' = [active EXCEPT ![p] = FALSE]

SetGpio(p, d) ==
  /\ Stimulus(DriveNet(wires, Pin[p].net, p, d))
  /\ UNCHANGED active

Update ==
  \/ \E p \in Sources : SourceStart(p)
  \/ \E p \in Reactive \ Leds : OutputUpdate(p)
  \/ \E p \in Leds : LedUpdate(p)
  \/ \E p \in Resistors : ResistorUpdate(p)
  \/ \E p \in Buttons : ButtonStart(p)

Next ==
  \/ Notify
  \/ Update
  \/ \E p \in Buttons : Press(p) \/ Release(p)
  \/ \E p \in Gpios : \E d \in GpioDrives[p] : SetGpio(p, d)

Spec == Init /\ [][Next]_vars

(* The kernel dispatches a queued event before time moves on, and working  *)
(* off the listeners is a plain loop.                                      *)
WorkOff == todo # <<>> /\ todo' = Tail(todo)
FairSpec == Spec /\ WF_vars(Notify) /\ WF_todo(WorkOff)
-----------------------------------------------------------------------------
(* No volts are known of a net that is undriven or in contention. *)
NetState == [level : {"0", "1"}, volts : Volts] \cup [level : {"Z", "X"}, volts : {NoVolts}]

TypeOK ==
  /\ drives \in [Net -> [Drivers -> Drives]]
  /\ state \in [Net -> NetState]
  /\ events \in Seq(Net)
  /\ todo \in Seq(Parts)
  /\ active \in [Parts -> BOOLEAN]
  /\ stimuli \in 0 .. MaxStimuli

Settled == todo = <<>> /\ events = <<>>

Consistent(p) ==
  /\ active[p] = IsOn(p)
  /\ p \notin Leds =>
       drives[Pin[p].out][p] = IF IsOn(p) THEN OnDrive(p) ELSE Released

(* When the board has settled, every diode, switch, regulator and LED is   *)
(* in the state, and drives what, its present nets call for, although it   *)
(* ran only when notified and several changes of a net may share one call. *)
SettledConsistent == Settled => \A p \in Reactive : Consistent(p)

(* Resistors invent no level: nets joined by resistors only, with nothing  *)
(* else driving any of them, are undriven once the board has settled.      *)
Fed(n) == \E p \in Drivers \ Resistors : drives[n][p].strength > Hiz

NoPhantomLevel ==
  Settled => \A S \in SUBSET Net :
    (/\ \A p \in Resistors : Pin[p].a \in S <=> Pin[p].b \in S
     /\ \A n \in S : ~Fed(n))
      => \A n \in S : state[n].level = "Z"

(* No net can be reached from itself through resistors: of any of them,    *)
(* one has a side that none of the others is joined to.                    *)
Forest ==
  \A S \in SUBSET Resistors :
    S # {} => \E p \in S : \E n \in Reads(p) :
                /\ Pin[p].a # Pin[p].b
                /\ \A q \in S \ {p} : n \notin Reads(q)

(* Pull-ups and series resistors work: once the board has settled, a side  *)
(* that only the resistor may drive has the level and voltage of the other *)
(* side, if that is driven to one.  The resistor goes by strengths, while  *)
(* only changes of level and voltage are announced (net.py line 113), so   *)
(* drivers of either side may come and go without its being called.        *)
Side(n, p) == Strongest(drives[n], Others(p))

WeakSideFollows ==
  Settled => \A p \in Resistors : \A m, n \in Reads(p) :
    m # n /\ Side(n, p) = Hiz =>
      drives[n][p] = IF Side(m, p) > Hiz /\ state[m].level \in {"0", "1"}
                     THEN Drive(state[m].level, Pull, state[m].volts) ELSE Released

(* Cascades end: after any stimulus the board settles (net.py lines 83-84, *)
(* "so that cascaded updates settle iteratively").                         *)
Settles == ~Settled ~> Settled
=============================================================================
