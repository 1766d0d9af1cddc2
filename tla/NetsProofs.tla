----------------------------- MODULE NetsProofs -----------------------------
(***************************************************************************)
(* Every board settles with its parts in step with its nets, for every     *)
(* netlist.  That is not inductive: while a cascade runs, outputs are      *)
(* behind their nets.  The inductive invariants say what makes up for it:  *)
(* a part that is behind has a call coming, because it is on the list      *)
(* being worked off or because one of the nets it listens to is announced. *)
(* IInv says so of diodes, switches, regulators and LEDs, WInv of the      *)
(* resistors, which go by strengths that nobody announces.                 *)
(***************************************************************************)
EXTENDS Nets, TLAPS, SequenceTheorems, WellFoundedInduction, FiniteSetTheorems

Due(p) == p \in Range(todo) \/ \E n \in Reads(p) : n \in Range(events)

NoLostUpdate == \A p \in Reactive : Consistent(p) \/ Due(p)

(* The shape of the state, which the steps need to read EXCEPT. *)
Shape ==
  /\ drives = [n \in Net |-> [p \in Drivers |-> drives[n][p]]]
  /\ state = [n \in Net |-> state[n]]
  /\ active = [p \in Parts |-> active[p]]
  /\ events \in Seq(Net)
  /\ todo \in Seq(Parts)

IInv == Shape /\ NoLostUpdate

(* Two wirings that differ only where p drives n, and on the state of nets *)
(* that the second one announces.                                          *)
Rewired(w, x, p) ==
  /\ x.drives = [m \in Net |-> [q \in Drivers |-> x.drives[m][q]]]
  /\ x.state = [m \in Net |-> x.state[m]]
  /\ x.events \in Seq(Net)
  /\ \A m \in Net : \A q \in Drivers \ {p} : x.drives[m][q] = w.drives[m][q]
  /\ Range(w.events) \subseteq Range(x.events)
  /\ \A m \in Net : x.state[m] = w.state[m] \/ m \in Range(x.events)

(* The elements of a sequence and of its parts. *)
LEMMA RangeOfConcat ==
  ASSUME NEW S, NEW s \in Seq(S), NEW t \in Seq(S)
  PROVE  /\ s \o t \in Seq(S)
         /\ Range(s \o t) = Range(s) \cup Range(t)
<1>1. s \o t \in Seq(S) /\ Len(s \o t) = Len(s) + Len(t)
  OBVIOUS
<1>2. ASSUME NEW i \in DOMAIN s PROVE (s \o t)[i] = s[i] /\ i \in DOMAIN (s \o t)
  BY <1>1
<1>3. ASSUME NEW i \in DOMAIN t
      PROVE  (s \o t)[Len(s) + i] = t[i] /\ Len(s) + i \in DOMAIN (s \o t)
  BY <1>1
<1>4. ASSUME NEW i \in DOMAIN (s \o t) PROVE (s \o t)[i] \in Range(s) \cup Range(t)
  <2>1. CASE i <= Len(s)
    BY <1>1, <1>2, <2>1 DEF Range
  <2>2. CASE i > Len(s)
    <3>1. i - Len(s) \in DOMAIN t /\ (s \o t)[i] = t[i - Len(s)]
      BY <1>1, <2>2
    <3> QED BY <3>1 DEF Range
  <2> QED BY <1>1, <2>1, <2>2
<1>5. Range(s) \subseteq Range(s \o t)
  BY <1>2 DEF Range
<1>6. Range(t) \subseteq Range(s \o t)
  BY <1>3 DEF Range
<1>7. Range(s \o t) \subseteq Range(s) \cup Range(t)
  BY <1>4 DEF Range
<1> QED BY <1>1, <1>5, <1>6, <1>7

LEMMA RangeOfTail ==
  ASSUME NEW S, NEW s \in Seq(S), s # <<>>
  PROVE  /\ Head(s) \in S /\ Tail(s) \in Seq(S)
         /\ Range(s) = {Head(s)} \cup Range(Tail(s))
<1>1. /\ Head(s) \in S /\ Tail(s) \in Seq(S) /\ Head(s) = s[1]
      /\ Len(Tail(s)) = Len(s) - 1 /\ Len(s) > 0
  OBVIOUS
<1>2. \A i \in DOMAIN Tail(s) : Tail(s)[i] = s[i + 1] /\ i + 1 \in DOMAIN s
  BY <1>1
<1>3. ASSUME NEW i \in DOMAIN s PROVE s[i] \in {Head(s)} \cup Range(Tail(s))
  <2>1. CASE i = 1
    BY <1>1, <2>1
  <2>2. CASE i # 1
    <3>1. i - 1 \in DOMAIN Tail(s) /\ Tail(s)[i - 1] = s[i]
      BY <1>1, <1>2, <2>2
    <3> QED BY <3>1 DEF Range
  <2> QED BY <2>1, <2>2
<1>4. Range(Tail(s)) \subseteq Range(s)
  BY <1>2 DEF Range
<1>5. Head(s) \in Range(s)
  BY <1>1 DEF Range
<1> QED BY <1>1, <1>3, <1>4, <1>5 DEF Range

(* Net.drive touches one driver's entry, and announces the net when its    *)
(* resolved state changes.                                                 *)
LEMMA DriveRewires ==
  ASSUME NEW w, NEW n \in Net, NEW p \in Drivers, NEW d, Rewired(w, w, p)
  PROVE  /\ Rewired(w, DriveNet(w, n, p, d), p)
         /\ DriveNet(w, n, p, d).drives[n][p] = d
<1> DEFINE ds  == [w.drives EXCEPT ![n][p] = d]
           new == Resolve(ds[n])
           out == IF Changed(w.state[n], new) THEN <<n>> ELSE <<>>
           x   == DriveNet(w, n, p, d)
<1>1. x.drives = ds /\ x.state = [w.state EXCEPT ![n] = new] /\ x.events = w.events \o out
  BY DEF DriveNet
<1> HIDE DEF x, new
<1> DEFINE D == w.drives
           St == w.state
<1>d. /\ D = [m \in Net |-> [q \in Drivers |-> D[m][q]]]
      /\ St = [m \in Net |-> St[m]]
      /\ w.events \in Seq(Net)
  BY DEF Rewired
<1> HIDE DEF D, St
<1>e. \A m \in Net : ds[m] = IF m = n THEN [D[n] EXCEPT ![p] = d] ELSE D[m]
  BY <1>d DEF D
<1>2. ds = [m \in Net |-> [q \in Drivers |-> ds[m][q]]]
  <2>1. ds = [m \in Net |-> ds[m]]
    BY <1>d DEF D
  <2> HIDE DEF ds
  <2>2. \A m \in Net : ds[m] = [q \in Drivers |-> ds[m][q]]
    BY <1>d, <1>e
  <2> QED BY <2>1, <2>2
<1> HIDE DEF ds
<1>3. x.state = [m \in Net |-> x.state[m]]
  BY <1>1, <1>d DEF St
<1>4. x.events \in Seq(Net) /\ Range(x.events) = Range(w.events) \cup Range(out)
  <2>1. out \in Seq(Net)
    OBVIOUS
  <2> HIDE DEF out
  <2> QED BY <1>1, <1>d, <2>1, RangeOfConcat
<1>5. \A m \in Net : \A q \in Drivers \ {p} : ds[m][q] = D[m][q]
  BY <1>d, <1>e
<1>6. ds[n][p] = d
  BY <1>d, <1>e
<1>7. ASSUME NEW m \in Net, x.state[m] # St[m] PROVE m \in Range(x.events)
  <2>1. m = n /\ St[n] # new
    BY <1>1, <1>7, <1>d DEF St
  <2>2. out = <<n>>
    BY <2>1 DEF Changed, St
  <2>3. n \in Range(out)
    BY <2>2 DEF Range
  <2> QED BY <1>4, <2>1, <2>3
<1> QED BY <1>1, <1>2, <1>3, <1>4, <1>5, <1>6, <1>7 DEF Rewired, D, St, x

LEMMA RewiresCompose ==
  ASSUME NEW w, NEW x, NEW y, NEW p \in Drivers, Rewired(w, x, p), Rewired(x, y, p)
  PROVE  Rewired(w, y, p)
BY DEF Rewired

LEMMA RewiredIsWiring ==
  ASSUME NEW w, NEW x, NEW p \in Drivers, Rewired(w, x, p)
  PROVE  Rewired(x, x, p)
BY DEF Rewired

LEMMA WiresRewired ==
  ASSUME Shape, NEW p \in Drivers
  PROVE  Rewired(wires, wires, p)
BY DEF Shape, Rewired, wires

LEMMA ResistorRewires ==
  ASSUME Shape, NEW p \in Resistors
  PROVE  Rewired(wires, ResistorWires(wires, p), p)
<1>1. \E src \in Net, dst \in Net : \E d :
        ResistorWires(wires, p) = DriveNet(DriveNet(wires, src, p, Released), dst, p, d)
  <2>1. Pin[p].a \in Net /\ Pin[p].b \in Net
    BY NetlistAssumption, BoardAssumption DEF Parts, Reactive, Reads
  <2> QED BY <2>1 DEF ResistorWires, ReleaseSource
<1>2. PICK src \in Net, dst \in Net : \E d :
        ResistorWires(wires, p) = DriveNet(DriveNet(wires, src, p, Released), dst, p, d)
  BY <1>1
<1>3. PICK d :
        ResistorWires(wires, p) = DriveNet(DriveNet(wires, src, p, Released), dst, p, d)
  BY <1>2
<1>4. p \in Drivers
  BY DEF Drivers, Parts
<1> DEFINE x == DriveNet(wires, src, p, Released)
<1>5. Rewired(wires, x, p)
  BY <1>4, WiresRewired, DriveRewires
<1> HIDE DEF x
<1>6. Rewired(x, x, p)
  BY <1>4, <1>5, RewiredIsWiring
<1>7. Rewired(x, DriveNet(x, dst, p, d), p)
  BY <1>4, <1>6, DriveRewires
<1> QED BY <1>3, <1>4, <1>5, <1>7, RewiresCompose DEF x

(* What a reactive part should do depends on the nets it listens to only.  *)
LEMMA ReadsDecide ==
  ASSUME NEW q \in Reactive, \A n \in Reads(q) : state'[n] = state[n]
  PROVE  /\ IsOn(q)' = IsOn(q)
         /\ q \notin Leds => OnDrive(q)' = OnDrive(q)
<1>1. CASE q \in Diodes
  <2>1. state'[Pin[q].a] = state[Pin[q].a]
    BY <1>1, BoardAssumption DEF Reads, Reactive
  <2> QED BY <1>1, <2>1, BoardAssumption
          DEF IsOn, OnDrive, DiodeDrive, IsHigh, Reactive
<1>2. CASE q \in Switches
  <2>1. state'[Pin[q].g] = state[Pin[q].g] /\ state'[Pin[q].d] = state[Pin[q].d]
    BY <1>2, BoardAssumption DEF Reads, Reactive
  <2> QED BY <1>2, <2>1, BoardAssumption
          DEF IsOn, OnDrive, IsHigh, Reactive
<1>3. CASE q \in Regulators
  <2>1. state'[Pin[q].vin] = state[Pin[q].vin] /\ state'[Pin[q].en] = state[Pin[q].en]
    BY <1>3, BoardAssumption DEF Reads, Reactive
  <2> QED BY <1>3, <2>1, BoardAssumption
          DEF IsOn, OnDrive, IsHigh, RegulatorEnabled, Reactive
<1>4. CASE q \in Leds
  <2>1. state'[Pin[q].a] = state[Pin[q].a] /\ state'[Pin[q].k] = state[Pin[q].k]
    BY <1>4, BoardAssumption DEF Reads, Reactive
  <2> QED BY <1>4, <2>1, BoardAssumption
          DEF IsOn, IsHigh, IsLow, Reactive
<1> QED BY <1>1, <1>2, <1>3, <1>4 DEF Reactive

(* A part stays in step, or has a call coming, when its own flag and       *)
(* output are left alone and what is announced stays announced.            *)
LEMMA StaysDue ==
  ASSUME NEW q \in Reactive, Consistent(q) \/ Due(q),
         \A n \in Net : state'[n] = state[n] \/ n \in Range(events'),
         active'[q] = active[q],
         q \notin Leds => drives'[Pin[q].out][q] = drives[Pin[q].out][q],
         Due(q) => Due(q)'
  PROVE  (Consistent(q) \/ Due(q))'
<1>1. CASE Due(q)
  BY <1>1
<1>2. CASE Consistent(q) /\ \E n \in Reads(q) : n \in Range(events')
  BY <1>2 DEF Due, Reads
<1>3. CASE Consistent(q) /\ \A n \in Reads(q) : n \notin Range(events')
  <2>1. \A n \in Reads(q) : state'[n] = state[n]
    BY <1>3, NetlistAssumption DEF Parts
  <2>2. /\ IsOn(q)' = IsOn(q)
        /\ q \notin Leds => OnDrive(q)' = OnDrive(q)
    BY <2>1, ReadsDecide
  <2> QED BY <1>3, <2>2 DEF Consistent, Released
<1> QED BY <1>1, <1>2, <1>3

(* Init: nothing has run yet, and every part is on the list to be started. *)
LEMMA InitIInv == Init => IInv
<1> SUFFICES ASSUME Init PROVE IInv
  OBVIOUS
<1>1. Shape
  BY NetlistAssumption DEF Init, Shape
<1>2. \A q \in Reactive : q \in Range(todo)
  BY NetlistAssumption DEF Init, Parts
<1> QED BY <1>1, <1>2 DEF IInv, NoLostUpdate, Due

(* A part that runs leaves its flag and output in step with the nets as    *)
(* they were, and announces every net that it changed.                     *)
LEMMA RunsKeeps ==
  ASSUME IInv, NEW p \in Parts, NEW w, NEW on, Runs(p, w, on), Rewired(wires, w, p),
         p \in Reactive => (on = IsOn(p)) /\
            (p \notin Leds => w.drives[Pin[p].out][p] = IF IsOn(p) THEN OnDrive(p) ELSE Released)
  PROVE  IInv'
<1>1. /\ todo # <<>> /\ p = Head(todo) /\ todo' = Tail(todo)
      /\ drives' = w.drives /\ state' = w.state /\ events' = w.events
      /\ active' = [active EXCEPT ![p] = on]
  BY DEF Runs, Becomes
<1>2. /\ todo' \in Seq(Parts)
      /\ Range(todo) = {p} \cup Range(todo')
  BY <1>1, RangeOfTail DEF IInv, Shape
<1>3. Shape'
  <2>1. active' = [r \in Parts |-> active'[r]]
    BY <1>1 DEF IInv, Shape
  <2> QED BY <1>1, <1>2, <2>1 DEF Rewired, Shape
<1>4. /\ Range(events) \subseteq Range(events')
      /\ \A n \in Net : state'[n] = state[n] \/ n \in Range(events')
  BY <1>1 DEF Rewired, wires
<1>5. ASSUME NEW q \in Reactive, q # p PROVE (Consistent(q) \/ Due(q))'
  <2>1. Consistent(q) \/ Due(q)
    BY DEF IInv, NoLostUpdate
  <2>2. active'[q] = active[q]
    BY <1>1, <1>5 DEF IInv, Shape, Parts
  <2>3. q \notin Leds => drives'[Pin[q].out][q] = drives[Pin[q].out][q]
    <3>1. wires.drives = drives
      BY DEF wires
    <3>2. q \in Drivers \ {p}
      BY <1>5 DEF Drivers, Parts
    <3> QED BY <1>1, <3>1, <3>2, NetlistAssumption DEF Rewired
  <2>4. Due(q) => Due(q)'
    BY <1>2, <1>4, <1>5 DEF Due, Reads
  <2> QED BY <1>4, <2>1, <2>2, <2>3, <2>4, StaysDue
<1>6. ASSUME p \in Reactive PROVE (Consistent(p) \/ Due(p))'
  <2>1. CASE \E n \in Reads(p) : n \in Range(events')
    BY <2>1 DEF Due, Reads
  <2>2. CASE \A n \in Reads(p) : n \notin Range(events')
    <3>1. \A n \in Reads(p) : state'[n] = state[n]
      BY <1>4, <2>2, NetlistAssumption
    <3>2. /\ IsOn(p)' = IsOn(p)
          /\ p \notin Leds => OnDrive(p)' = OnDrive(p)
      BY <1>6, <3>1, ReadsDecide
    <3>3. active'[p] = IsOn(p)
      BY <1>1, <1>6 DEF IInv, Shape
    <3>4. p \notin Leds =>
            drives'[Pin[p].out][p] = IF IsOn(p) THEN OnDrive(p) ELSE Released
      BY <1>1, <1>6
    <3> QED BY <3>2, <3>3, <3>4 DEF Consistent, Released
  <2> QED BY <2>1, <2>2
<1>7. NoLostUpdate'
  BY <1>5, <1>6 DEF NoLostUpdate
<1> QED BY <1>3, <1>7 DEF IInv

(* A stimulus comes from a driver no part reacts for: outputs stay put.    *)
LEMMA StimulusKeeps ==
  ASSUME IInv, NEW p \in Buttons \cup Gpios, NEW n \in Net, NEW d,
         Stimulus(DriveNet(wires, n, p, d)),
         active' = [r \in Parts |-> active'[r]],
         \A r \in Parts \ {p} : active'[r] = active[r]
  PROVE  IInv'
<1> DEFINE w == DriveNet(wires, n, p, d)
<1>1. Rewired(wires, w, p)
  BY WiresRewired, DriveRewires DEF IInv, Drivers, Parts
<1>2. drives' = w.drives /\ state' = w.state /\ events' = w.events /\ todo' = todo
  BY DEF Stimulus, Becomes
<1> HIDE DEF w
<1>3. Shape'
  BY <1>1, <1>2 DEF Rewired, Shape, IInv
<1>4. /\ Range(events) \subseteq Range(events')
      /\ \A m \in Net : state'[m] = state[m] \/ m \in Range(events')
  BY <1>1, <1>2 DEF Rewired, wires
<1>5. ASSUME NEW q \in Reactive PROVE (Consistent(q) \/ Due(q))'
  <2>1. Consistent(q) \/ Due(q)
    BY DEF IInv, NoLostUpdate
  <2>2. q # p /\ q \in Parts
    BY BoardAssumption DEF Parts
  <2>3. q \notin Leds => drives'[Pin[q].out][q] = drives[Pin[q].out][q]
    BY <1>1, <1>2, <2>2, NetlistAssumption DEF Rewired, wires, Drivers
  <2>4. Due(q) => Due(q)'
    BY <1>2, <1>4 DEF Due, Reads
  <2> QED BY <1>4, <2>1, <2>2, <2>3, <2>4, StaysDue
<1> QED BY <1>3, <1>5 DEF IInv, NoLostUpdate

(* A notification puts every listener of its net on the list.              *)
LEMMA NotifyKeeps == ASSUME IInv, Notify PROVE IInv'
<1>1. /\ Head(events) \in Net /\ events' \in Seq(Net)
      /\ Range(events) = {Head(events)} \cup Range(events')
  BY RangeOfTail DEF Notify, IInv, Shape
<1>2. /\ todo = <<>> /\ todo' = Listeners[Head(events)] /\ todo' \in Seq(Parts)
      /\ drives' = drives /\ state' = state /\ active' = active
  BY <1>1, NetlistAssumption DEF Notify
<1>3. Shape'
  BY <1>1, <1>2 DEF Shape, IInv
<1>4. ASSUME NEW q \in Reactive PROVE (Consistent(q) \/ Due(q))'
  <2>1. CASE Due(q)
    <3>1. Range(todo) = {}
      BY <1>2 DEF Range
    <3>2. PICK n \in Reads(q) : n \in Range(events)
      BY <2>1, <3>1 DEF Due
    <3>3. CASE n = Head(events)
      <4>1. q \in Range(todo')
        BY <1>1, <1>2, <3>2, <3>3, NetlistAssumption DEF Parts
      <4> QED BY <4>1 DEF Due
    <3>4. CASE n \in Range(events')
      BY <3>2, <3>4 DEF Due, Reads
    <3> QED BY <1>1, <3>2, <3>3, <3>4
  <2>2. CASE Consistent(q)
    <3>1. IsOn(q)' = IsOn(q) /\ (q \notin Leds => OnDrive(q)' = OnDrive(q))
      BY <1>2, ReadsDecide
    <3> QED BY <1>2, <2>2, <3>1 DEF Consistent, Released
  <2> QED BY <2>1, <2>2 DEF IInv, NoLostUpdate
<1> QED BY <1>3, <1>4 DEF IInv, NoLostUpdate

LEMMA NextIInv == IInv /\ [Next]_vars => IInv'
<1> SUFFICES ASSUME IInv, [Next]_vars PROVE IInv'
  OBVIOUS
<1> USE DEF Parts, Drivers
<1>1. \A p \in Drivers : Rewired(wires, wires, p)
  BY WiresRewired DEF IInv
<1>2. CASE Notify
  BY <1>2, NotifyKeeps
<1>3. ASSUME NEW p \in Sources, SourceStart(p) PROVE IInv'
  <2>1. p \notin Reactive /\ Pin[p].net \in Net
    BY BoardAssumption, NetlistAssumption
  <2>2. PICK d : Runs(p, DriveNet(wires, Pin[p].net, p, d), TRUE)
    BY <1>3 DEF SourceStart
  <2> DEFINE w == DriveNet(wires, Pin[p].net, p, d)
  <2>3. Rewired(wires, w, p)
    BY <1>1, <2>1, DriveRewires
  <2> HIDE DEF w
  <2> QED BY <2>1, <2>2, <2>3, RunsKeeps DEF w
<1>4. ASSUME NEW p \in Reactive \ Leds, OutputUpdate(p) PROVE IInv'
  <2> DEFINE d == IF IsOn(p) THEN OnDrive(p) ELSE Released
             w == DriveNet(wires, Pin[p].out, p, d)
  <2>1. Pin[p].out \in Net
    BY NetlistAssumption
  <2>2. Rewired(wires, w, p) /\ w.drives[Pin[p].out][p] = d
    BY <1>1, <2>1, DriveRewires
  <2>3. Runs(p, w, IsOn(p))
    BY <1>4 DEF OutputUpdate
  <2> HIDE DEF w
  <2> QED BY <2>2, <2>3, RunsKeeps
<1>5. ASSUME NEW p \in Leds, LedUpdate(p) PROVE IInv'
  BY <1>1, <1>5, RunsKeeps DEF LedUpdate, Reactive
<1>6. ASSUME NEW p \in Resistors, ResistorUpdate(p) PROVE IInv'
  <2>1. Rewired(wires, ResistorWires(wires, p), p)
    BY ResistorRewires DEF IInv
  <2>2. p \notin Reactive
    BY BoardAssumption
  <2> QED BY <1>6, <2>1, <2>2, RunsKeeps DEF ResistorUpdate
<1>7. ASSUME NEW p \in Buttons, ButtonStart(p) PROVE IInv'
  BY <1>1, <1>7, BoardAssumption, RunsKeeps DEF ButtonStart
<1>8. ASSUME NEW p \in Buttons, Press(p) \/ Release(p) PROVE IInv'
  <2>1. PICK d : Stimulus(DriveNet(wires, Pin[p].sig, p, d))
    BY <1>8 DEF Press, Release
  <2>2. PICK on : active' = [active EXCEPT ![p] = on]
    BY <1>8 DEF Press, Release
  <2>3. /\ active' = [r \in Parts |-> active'[r]]
        /\ \A r \in Parts \ {p} : active'[r] = active[r]
    BY <2>2 DEF IInv, Shape
  <2>4. Pin[p].sig \in Net
    BY NetlistAssumption
  <2> QED BY <2>1, <2>3, <2>4, StimulusKeeps
<1>9. ASSUME NEW p \in Gpios, NEW d \in GpioDrives[p], SetGpio(p, d) PROVE IInv'
  <2>1. Pin[p].net \in Net /\ active' = active
    BY <1>9, NetlistAssumption DEF SetGpio
  <2>2. Stimulus(DriveNet(wires, Pin[p].net, p, d))
    BY <1>9 DEF SetGpio
  <2> QED BY <2>1, <2>2, StimulusKeeps DEF IInv, Shape
<1>10. CASE UNCHANGED vars
  BY <1>10 DEF vars, IInv, Shape, NoLostUpdate, Consistent, Due, IsOn, OnDrive, DiodeDrive,
     RegulatorEnabled, IsHigh, IsLow
<1> QED BY <1>2, <1>3, <1>4, <1>5, <1>6, <1>7, <1>8, <1>9, <1>10 DEF Next, Update

LEMMA Invariance == Spec => []IInv
BY InitIInv, NextIInv, PTL DEF Spec

(* Whatever the board and however its stimuli interleave with the cascades *)
(* they set off, a settled board has every diode, switch, regulator and    *)
(* LED in step with its nets.                                              *)
THEOREM SettledBoardIsConsistent == Spec => []SettledConsistent
<1>1. IInv => SettledConsistent
  BY DEF IInv, NoLostUpdate, Due, SettledConsistent, Settled, Range
<1> QED BY <1>1, Invariance, PTL

(* Until then, a part that is behind its nets has a call coming.           *)
THEOREM NoUpdateIsLost == Spec => []NoLostUpdate
<1>1. IInv => NoLostUpdate
  BY DEF IInv
<1> QED BY <1>1, Invariance, PTL
-----------------------------------------------------------------------------
(* Net._resolve gives every net a proper state.  A set of naturals has a   *)
(* least member.                                                           *)
LEMMA LeastNat ==
  ASSUME NEW S \in SUBSET Nat, S # {}
  PROVE  \E x \in S : \A y \in S : x <= y
<1>. DEFINE R == OpToRel(<, Nat)
<1>1. IsWellFoundedOn(R, Nat)
  BY NatLessThanWellFounded
<1>2. \A x, y \in Nat : y < x => <<y, x>> \in R
  BY DEF OpToRel
<1>. HIDE DEF R
<1>3. PICK x \in S : \A y \in S : ~(<<y, x>> \in R)
  BY <1>1, WFMin
<1>4. ASSUME NEW y \in S PROVE x <= y
  <2>1. x \in Nat /\ y \in Nat /\ ~(<<y, x>> \in R)
    BY <1>3
  <2>2. ~(y < x)
    BY <1>2, <2>1
  <2>. QED
    BY <2>1, <2>2
<1>. QED
  BY <1>4

(* Of some subsets of a finite set, one is smallest; taking a member out   *)
(* makes it smaller.                                                       *)
LEMMA Smallest ==
  ASSUME NEW S, IsFiniteSet(S), NEW F, F \subseteq SUBSET S, F # {}
  PROVE  \E s \in F : \A x \in s : s \ {x} \notin F
<1> DEFINE sizes == {Cardinality(s) : s \in F}
<1>1. \A s \in F : IsFiniteSet(s) /\ Cardinality(s) \in Nat
  BY FS_Subset, FS_CardinalityType
<1>2. PICK c \in sizes : \A k \in sizes : c <= k
  <2>1. sizes \in SUBSET Nat /\ sizes # {}
    BY <1>1
  <2> HIDE DEF sizes
  <2> QED BY <2>1, LeastNat
<1>3. PICK s \in F : c = Cardinality(s)
  OBVIOUS
<1>4. ASSUME NEW x \in s, s \ {x} \in F PROVE FALSE
  <2>1. Cardinality(s \ {x}) = Cardinality(s) - 1
    BY <1>1, FS_RemoveElement
  <2>2. Cardinality(s) <= Cardinality(s \ {x})
    BY <1>2, <1>3, <1>4
  <2> QED BY <1>1, <2>1, <2>2
<1> QED BY <1>4

(* Finitely many integers have a greatest one.                             *)
LEMMA Greatest ==
  ASSUME NEW D, IsFiniteSet(D), NEW f, NEW W \in SUBSET D, W # {}, \A i \in W : f[i] \in Int
  PROVE  \E i \in W : \A j \in W : f[i] >= f[j]
<1> DEFINE Bad == {s \in SUBSET W : s # {} /\ \A i \in s : \E j \in s : ~(f[i] >= f[j])}
<1>1. IsFiniteSet(W)
  BY FS_Subset
<1>2. ASSUME Bad # {} PROVE FALSE
  <2>1. PICK s \in Bad : \A x \in s : s \ {x} \notin Bad
    <3>1. Bad \subseteq SUBSET W
      OBVIOUS
    <3> HIDE DEF Bad
    <3> QED BY <1>1, <1>2, <3>1, Smallest
  <2>2. PICK x \in s : TRUE
    OBVIOUS
  <2>3. \A i \in s : f[i] \in Int
    OBVIOUS
  <2>4. CASE s \ {x} = {}
    <3>1. s = {x}
      BY <2>2, <2>4
    <3> QED BY <2>3, <3>1
  <2>5. CASE s \ {x} # {}
    <3>1. PICK y \in s \ {x} : \A j \in s \ {x} : f[y] >= f[j]
      BY <2>1, <2>2, <2>5
    <3>2. \A j \in s : f[x] >= f[j] \/ f[y] >= f[j]
      BY <2>3, <3>1
    <3>3. (\A j \in s : f[x] >= f[j]) \/ (\A j \in s : f[y] >= f[j])
      BY <2>2, <2>3, <3>1, <3>2
    <3> QED BY <2>2, <3>1, <3>3
  <2> QED BY <2>4, <2>5
<1> QED BY <1>2

LEMMA StrongestFacts ==
  ASSUME NEW d \in [Drivers -> Drives], NEW who \in SUBSET Drivers
  PROVE  /\ Strongest(d, who) \in Hiz .. Strong
         /\ \A i \in who : d[i].strength <= Strongest(d, who)
         /\ Strongest(d, who) = Hiz \/ \E i \in who : d[i].strength = Strongest(d, who)
<1> DEFINE S == {Hiz} \cup {d[i].strength : i \in who}
<1>1. \A i \in Drivers : d[i].strength \in {Hiz, Pull, Strong}
  BY DEF Drives, Released, Drive
<1>2. S \subseteq {0, 1, 2} /\ 0 \in S
  BY <1>1 DEF Hiz, Pull, Strong
<1>3. \E x \in S : \A y \in S : x >= y
  <2> HIDE DEF S
  <2>1. CASE 2 \in S
    BY <1>2, <2>1
  <2>2. CASE 2 \notin S /\ 1 \in S
    BY <1>2, <2>2
  <2>3. CASE 2 \notin S /\ 1 \notin S
    BY <1>2, <2>3
  <2> QED BY <2>1, <2>2, <2>3
<1>4. Strongest(d, who) \in S /\ \A y \in S : Strongest(d, who) >= y
  BY <1>3 DEF Strongest, Max
<1>5. ASSUME NEW i \in who PROVE d[i].strength <= Strongest(d, who)
  <2>1. d[i].strength \in S
    OBVIOUS
  <2>2. Strongest(d, who) >= d[i].strength /\ Strongest(d, who) \in {0, 1, 2} /\ d[i].strength \in {0, 1, 2}
    BY <1>2, <1>4, <2>1
  <2> QED BY <2>2
<1>6. Strongest(d, who) \in Hiz .. Strong
  BY <1>2, <1>4 DEF Hiz, Strong
<1> QED BY <1>4, <1>5, <1>6

(* Net._resolve leaves a net undriven when nothing drives it, only then.   *)
LEMMA ResolveFacts ==
  ASSUME NEW d \in [Drivers -> Drives]
  PROVE  /\ Resolve(d) \in NetState
         /\ Resolve(d).level = "Z" <=> \A i \in Drivers : d[i].strength = Hiz
<1> DEFINE best    == Strongest(d, DOMAIN d)
           who     == {j \in DOMAIN d : d[j].strength = best}
           winners == {d[i] : i \in who}
           volts   == Max({x.volts : x \in winners})
<1>1. DOMAIN d = Drivers
  OBVIOUS
<1>2. /\ best \in Hiz .. Strong
      /\ \A i \in Drivers : d[i].strength <= best
      /\ best = Hiz \/ \E i \in Drivers : d[i].strength = best
  BY <1>1, StrongestFacts
<1>3. \A i \in Drivers : d[i].strength \in {Hiz, Pull, Strong}
  BY DEF Drives, Released, Drive
<1> HIDE DEF best
<1>4. CASE best = Hiz
  <2>1. Resolve(d) = [level |-> "Z", volts |-> NoVolts]
    BY <1>4 DEF Resolve, best
  <2>2. ASSUME NEW i \in Drivers PROVE d[i].strength = Hiz
    <3>1. d[i].strength <= best /\ d[i].strength \in {Hiz, Pull, Strong}
      BY <1>2, <1>3
    <3> QED BY <1>4, <3>1 DEF Hiz, Pull, Strong
  <2> QED BY <2>1, <2>2 DEF NetState
<1>5. CASE best # Hiz
  <2>1. who # {} /\ who \subseteq Drivers
    BY <1>1, <1>2, <1>5
  <2>2. ASSUME NEW x \in winners PROVE x.level \in {"0", "1"} /\ x.volts \in Int
    <3>1. PICK i \in who : x = d[i]
      OBVIOUS
    <3>2. d[i] \in Drives /\ d[i].strength # Hiz
      BY <1>1, <1>5
    <3>3. d[i] # Released
      BY <3>2 DEF Released, Drive
    <3> QED BY <3>1, <3>2, <3>3 DEF Drives, Volts
  <2>3. winners # {}
    BY <2>1
  <2>4. volts \in Int
    <3> DEFINE f == [i \in who |-> d[i].volts]
    <3>1. \A i \in who : f[i] \in Int
      BY <2>2
    <3>2. PICK i \in who : \A j \in who : f[i] >= f[j]
      <4>1. IsFiniteSet(Drivers)
        BY ValueAssumption
      <4> HIDE DEF f, who
      <4>2. who \in SUBSET Drivers
        BY <2>1
      <4> QED BY <2>1, <3>1, <4>1, <4>2, Greatest
    <3>3. \E x \in {y.volts : y \in winners} : \A y \in {z.volts : z \in winners} : x >= y
      <4>1. \A j \in who : d[i].volts >= d[j].volts
        BY <3>2
      <4>2. {y.volts : y \in winners} = {d[j].volts : j \in who}
        OBVIOUS
      <4> HIDE DEF winners, who
      <4> QED BY <4>1, <4>2
    <3>4. volts \in {x.volts : x \in winners}
      BY <3>3 DEF Max
    <3> QED BY <2>2, <3>4
  <2>5. Resolve(d) = IF \A x, y \in winners : x.level = y.level
                     THEN [level |-> (CHOOSE x \in winners : TRUE).level, volts |-> volts]
                     ELSE Contention(volts)
    BY <1>5 DEF Resolve, best
  <2>6. (CHOOSE x \in winners : TRUE) \in winners
    BY <2>3
  <2>7. ~ \A i \in Drivers : d[i].strength = Hiz
    BY <1>1, <1>5, <2>1
  <2> HIDE DEF winners, volts
  <2>8. (CHOOSE x \in winners : TRUE).level \in {"0", "1"}
    BY <2>2, <2>6
  <2>9. CASE \A x, y \in winners : x.level = y.level
    BY <2>4, <2>5, <2>7, <2>8, <2>9 DEF NetState, Volts
  <2>10. CASE ~ \A x, y \in winners : x.level = y.level
    BY <2>5, <2>7, <2>10 DEF NetState, Contention
  <2> QED BY <2>9, <2>10
<1> QED BY <1>4, <1>5
-----------------------------------------------------------------------------
(* What resistors do.  A resistor without a call coming drives at most one *)
(* side, with what the other side has and because something else drives    *)
(* that one; and it drives a side that nothing else does.                  *)
Ferried(s) == Drive(s.level, Pull, s.volts)

Feeds(w, m, p) == \E q \in Others(p) : w.drives[m][q] # Released

InStep(w, p) ==
  \A m, n \in Reads(p) : m # n =>
    /\ w.drives[n][p] # Released =>
         /\ w.drives[m][p] = Released /\ Feeds(w, m, p)
         /\ w.drives[n][p] = Ferried(w.state[m]) /\ w.state[m].level \in {"0", "1"}
    /\ Feeds(w, m, p) /\ ~Feeds(w, n, p) /\ w.state[m].level \in {"0", "1"} =>
         w.drives[n][p] # Released

OwnSides(w, p) == \A n \in Net \ Reads(p) : w.drives[n][p] = Released

Wired(w) ==
  /\ w.drives \in [Net -> [Drivers -> Drives]]
  /\ w.state \in [Net -> NetState]
  /\ w.events \in Seq(Net)
  /\ \A n \in Net : w.state[n] = Resolve(w.drives[n])

WInv ==
  /\ Wired(wires)
  /\ todo \in Seq(Parts) /\ active \in [Parts -> BOOLEAN] /\ stimuli \in 0 .. MaxStimuli
  /\ \A p \in Resistors : OwnSides(wires, p) /\ (InStep(wires, p) \/ Due(p))

LEMMA Ends ==
  ASSUME NEW p \in Resistors
  PROVE  /\ Reads(p) = {Pin[p].a, Pin[p].b} /\ Reads(p) \subseteq Net
         /\ p \in Drivers /\ p \in Parts
<1>1. p \notin Reactive
  BY BoardAssumption
<1>2. Reads(p) = {Pin[p].a, Pin[p].b}
  BY <1>1 DEF Reads, Reactive
<1>3. p \in Parts
  BY DEF Parts
<1>4. Reads(p) \subseteq Net
  BY <1>3, NetlistAssumption
<1> QED BY <1>2, <1>3, <1>4 DEF Drivers

LEMMA ReleasedDrives ==
  /\ Released \in Drives /\ Released.strength = Hiz
  /\ \A d \in Drives : d.strength = Hiz <=> d = Released
  /\ \A d \in Drives : d.strength \in {Hiz, Pull, Strong}
BY DEF Drives, Released, Drive, Hiz, Pull, Strong

LEMMA FeedsFacts ==
  ASSUME NEW w, Wired(w), NEW m \in Net, NEW p \in Resistors
  PROVE  /\ Strongest(w.drives[m], Others(p)) \in Hiz .. Strong
         /\ Feeds(w, m, p) <=> Strongest(w.drives[m], Others(p)) > Hiz
<1> DEFINE d == w.drives[m]
           top == Strongest(d, Others(p))
<1>1. d \in [Drivers -> Drives] /\ Others(p) \in SUBSET Drivers
  BY DEF Wired, Others
<1>2. /\ top \in Hiz .. Strong
      /\ \A i \in Others(p) : d[i].strength <= top
      /\ top = Hiz \/ \E i \in Others(p) : d[i].strength = top
  BY <1>1, StrongestFacts
<1>3. \A i \in Others(p) : d[i] \in Drives
  BY <1>1
<1> HIDE DEF d, top
<1>4. ASSUME top > Hiz PROVE \E q \in Others(p) : d[q] # Released
  <2>1. PICK i \in Others(p) : d[i].strength = top
    BY <1>2, <1>4 DEF Hiz
  <2>2. d[i].strength # Hiz
    BY <1>2, <1>4, <2>1 DEF Hiz
  <2> QED BY <1>3, <2>2, ReleasedDrives
<1>5. ASSUME NEW q \in Others(p), d[q] # Released PROVE top > Hiz
  <2>1. d[q].strength \in {Pull, Strong} /\ d[q].strength <= top
    BY <1>2, <1>3, <1>5, ReleasedDrives
  <2> QED BY <1>2, <2>1 DEF Hiz, Pull, Strong
<1> QED BY <1>2, <1>4, <1>5 DEF Feeds, d, top

(* A net is undriven just when nobody drives it.                           *)
LEMMA UndrivenNet ==
  ASSUME NEW w, Wired(w), NEW n \in Net
  PROVE  w.state[n].level = "Z" <=> \A q \in Drivers : w.drives[n][q] = Released
<1>1. w.drives[n] \in [Drivers -> Drives] /\ w.state[n] = Resolve(w.drives[n])
  BY DEF Wired
<1>2. w.state[n].level = "Z" <=> \A q \in Drivers : w.drives[n][q].strength = Hiz
  BY <1>1, ResolveFacts
<1>3. \A q \in Drivers : w.drives[n][q] \in Drives
  BY <1>1
<1> QED BY <1>2, <1>3, ReleasedDrives

LEMMA DriveWired ==
  ASSUME NEW w, Wired(w), NEW n \in Net, NEW p \in Drivers, NEW d \in Drives
  PROVE  /\ Wired(DriveNet(w, n, p, d))
         /\ Rewired(w, DriveNet(w, n, p, d), p)
         /\ DriveNet(w, n, p, d).drives[n][p] = d
         /\ \A m \in Net \ {n} : /\ DriveNet(w, n, p, d).drives[m] = w.drives[m]
                                  /\ DriveNet(w, n, p, d).state[m] = w.state[m]
<1> DEFINE x == DriveNet(w, n, p, d)
           D == w.drives
           ds == [D EXCEPT ![n][p] = d]
<1>1. Rewired(w, w, p)
  BY DEF Wired, Rewired
<1>2. Rewired(w, x, p) /\ x.drives[n][p] = d
  BY <1>1, DriveRewires
<1>3. x.drives = ds /\ x.state = [w.state EXCEPT ![n] = Resolve(ds[n])]
  BY DEF DriveNet
<1>4. D \in [Net -> [Drivers -> Drives]] /\ w.state \in [Net -> NetState]
  BY DEF Wired
<1> HIDE DEF x, D
<1>5. /\ ds \in [Net -> [Drivers -> Drives]]
      /\ \A m \in Net \ {n} : ds[m] = D[m]
  BY <1>4
<1> HIDE DEF ds
<1>6. Resolve(ds[n]) \in NetState
  BY <1>5, ResolveFacts
<1>7. /\ x.state \in [Net -> NetState]
      /\ \A m \in Net \ {n} : x.state[m] = w.state[m]
      /\ x.state[n] = Resolve(ds[n])
  BY <1>3, <1>4, <1>6
<1>8. \A m \in Net : w.state[m] = Resolve(D[m])
  BY DEF Wired, D
<1>9. \A m \in Net : x.state[m] = Resolve(x.drives[m])
  BY <1>3, <1>5, <1>7, <1>8
<1>10. x.events \in Seq(Net)
  BY <1>2 DEF Rewired
<1>11. Wired(x)
  BY <1>3, <1>5, <1>7, <1>9, <1>10 DEF Wired
<1> QED BY <1>2, <1>3, <1>5, <1>7, <1>11 DEF x, D

(* Resistor._update brings its resistor in step with the wires.            *)
LEMMA ResistorInStep ==
  ASSUME NEW w, Wired(w), NEW p \in Resistors, OwnSides(w, p)
  PROVE  LET x == ResistorWires(w, p)
         IN  Wired(x) /\ Rewired(w, x, p) /\ OwnSides(x, p) /\ InStep(x, p)
<1> DEFINE Strength(n) == Strongest(w.drives[n], Others(p))
           aWins == Strength(Pin[p].a) >= Strength(Pin[p].b)
           src == IF aWins THEN Pin[p].a ELSE Pin[p].b
           dst == IF aWins THEN Pin[p].b ELSE Pin[p].a
           w1  == ReleaseSource(w, src, p)
           s   == w1.state[src]
           d   == IF Strength(src) > Hiz /\ s.level \in {"0", "1"} THEN Ferried(s) ELSE Released
           x   == DriveNet(w1, dst, p, d)
<1>1. x = ResistorWires(w, p)
  BY DEF ResistorWires, Ferried
<1>2. /\ Reads(p) = {src, dst} /\ src \in Net /\ dst \in Net
      /\ p \in Drivers
  BY Ends
<1>3. Strength(src) >= Strength(dst)
  <2>1. Strength(Pin[p].a) \in Int /\ Strength(Pin[p].b) \in Int
    BY Ends, FeedsFacts DEF Hiz, Strong
  <2> QED BY <2>1
<1> HIDE DEF Strength, src, dst, x
<1>4. /\ Wired(w1) /\ Rewired(w, w1, p) /\ w1.drives[src][p] = Released
      /\ \A m \in Net \ {src} : w1.drives[m] = w.drives[m] /\ w1.state[m] = w.state[m]
  BY <1>2, ReleasedDrives, DriveWired DEF ReleaseSource
<1> HIDE DEF w1
<1>5. d \in Drives
  <2>1. s \in NetState
    BY <1>2, <1>4 DEF Wired
  <2>2. s.level \in {"0", "1"} => s.volts \in Volts
    BY <2>1 DEF NetState
  <2> QED BY <2>2, ReleasedDrives DEF Ferried, Drive, Drives
<1> HIDE DEF d
<1>6. /\ Wired(x) /\ Rewired(w1, x, p) /\ x.drives[dst][p] = d
      /\ \A m \in Net \ {dst} : x.drives[m] = w1.drives[m] /\ x.state[m] = w1.state[m]
  BY <1>2, <1>4, <1>5, DriveWired DEF x
<1>7. Rewired(w, x, p)
  BY <1>2, <1>4, <1>6, RewiresCompose
<1>8. OwnSides(x, p)
  BY <1>2, <1>4, <1>6 DEF OwnSides
<1>9. ASSUME NEW m \in Net PROVE Feeds(x, m, p) <=> Strength(m) > Hiz
  <2>1. \A q \in Others(p) : x.drives[m][q] = w.drives[m][q]
    BY <1>7 DEF Rewired, Others
  <2>2. Feeds(w, m, p) <=> Strength(m) > Hiz
    BY FeedsFacts DEF Strength
  <2> QED BY <2>1, <2>2 DEF Feeds
<1>10. CASE src = dst
  BY <1>2, <1>8, <1>6, <1>7, <1>10, <1>1 DEF InStep
<1>11. CASE src # dst
  <2>1. /\ x.drives[src][p] = Released /\ x.drives[dst][p] = d
        /\ x.state[src] = s
    BY <1>2, <1>4, <1>6, <1>11
  <2>2. Strength(src) \in Int /\ Strength(dst) \in Int
    BY <1>2, FeedsFacts DEF Strength, Hiz, Strong
  <2>3. /\ d # Released => Feeds(x, src, p) /\ d = Ferried(s) /\ s.level \in {"0", "1"}
        /\ Feeds(x, src, p) /\ s.level \in {"0", "1"} => d # Released
    <3>1. s.level \in {"0", "1"} => Ferried(s) # Released
      BY DEF Ferried, Released, Drive
    <3> QED BY <1>2, <1>9, <3>1 DEF d
  <2>4. Feeds(x, dst, p) => Feeds(x, src, p)
    BY <1>2, <1>3, <1>9, <2>2 DEF Hiz
  <2>5. InStep(x, p)
    BY <1>2, <1>11, <2>1, <2>3, <2>4 DEF InStep
  <2> QED BY <1>1, <1>6, <1>7, <1>8, <2>5
<1> QED BY <1>10, <1>11

(* A resistor stays in step as long as its nets keep their states, whoever *)
(* else comes to drive them or lets go.                                    *)
LEMMA StaysInStep ==
  ASSUME NEW w, NEW x, Wired(w), Wired(x), NEW p \in Drivers, Rewired(w, x, p),
         NEW q \in Resistors \ {p}, OwnSides(w, q), InStep(w, q),
         \A n \in Reads(q) : x.state[n] = w.state[n]
  PROVE  InStep(x, q)
<1>1. /\ Reads(q) \subseteq Net /\ q \in Drivers
      /\ \A n \in Net : x.drives[n][q] = w.drives[n][q]
  BY Ends DEF Rewired
<1>2. ASSUME NEW v, Wired(v), NEW n \in Reads(q)
      PROVE  v.state[n].level = "Z" <=> v.drives[n][q] = Released /\ ~Feeds(v, n, q)
  BY <1>1, <1>2, UndrivenNet DEF Feeds, Others
<1>3. ASSUME NEW m \in Reads(q), NEW n \in Reads(q), m # n
      PROVE  /\ x.drives[n][q] # Released =>
                  /\ x.drives[m][q] = Released /\ Feeds(x, m, q)
                  /\ x.drives[n][q] = Ferried(x.state[m]) /\ x.state[m].level \in {"0", "1"}
             /\ Feeds(x, m, q) /\ ~Feeds(x, n, q) /\ x.state[m].level \in {"0", "1"} =>
                  x.drives[n][q] # Released
  <2>1. /\ w.drives[n][q] # Released =>
             /\ w.drives[m][q] = Released /\ Feeds(w, m, q)
             /\ w.drives[n][q] = Ferried(w.state[m]) /\ w.state[m].level \in {"0", "1"}
        /\ Feeds(w, m, q) /\ ~Feeds(w, n, q) /\ w.state[m].level \in {"0", "1"} =>
             w.drives[n][q] # Released
        /\ w.drives[m][q] # Released => Feeds(w, n, q)
    BY <1>3 DEF InStep
  <2>2. /\ x.state[m] = w.state[m] /\ x.state[n] = w.state[n]
        /\ x.drives[m][q] = w.drives[m][q] /\ x.drives[n][q] = w.drives[n][q]
    BY <1>1
  <2>3. /\ w.state[m].level = "Z" <=> w.drives[m][q] = Released /\ ~Feeds(w, m, q)
        /\ w.state[n].level = "Z" <=> w.drives[n][q] = Released /\ ~Feeds(w, n, q)
        /\ x.state[m].level = "Z" <=> x.drives[m][q] = Released /\ ~Feeds(x, m, q)
        /\ x.state[n].level = "Z" <=> x.drives[n][q] = Released /\ ~Feeds(x, n, q)
    BY <1>2
  <2> QED BY <2>1, <2>2, <2>3
<1> QED BY <1>3 DEF InStep

(* What a step makes of the wires, seen as the next state's.               *)
LEMMA BecomesWires ==
  ASSUME NEW w, Becomes(w), Wired(w)
  PROVE  /\ Wired(wires)'
         /\ \A q : OwnSides(w, q) => OwnSides(wires, q)'
         /\ \A q : InStep(w, q) => InStep(wires, q)'
<1>1. wires'.drives = w.drives /\ wires'.state = w.state /\ wires'.events = w.events
  BY DEF Becomes, wires
<1>2. Wired(wires')
  BY <1>1 DEF Wired
<1>3. ASSUME NEW q, OwnSides(w, q) PROVE OwnSides(wires', q)
  BY <1>1, <1>3 DEF OwnSides
<1>4. ASSUME NEW q, InStep(w, q) PROVE InStep(wires', q)
  BY <1>1, <1>4 DEF InStep, Feeds
<1> QED BY <1>2, <1>3, <1>4 DEF Wired, OwnSides, InStep, Feeds

(* Everybody's resistors but that of the driver, if it is one.             *)
LEMMA OthersKeep ==
  ASSUME WInv, NEW p \in Drivers, NEW w, Becomes(w), Wired(w), Rewired(wires, w, p),
         NEW q \in Resistors \ {p}, Due(q) => Due(q)'
  PROVE  OwnSides(wires, q)' /\ (InStep(wires, q) \/ Due(q))'
<1>1. Wired(wires) /\ OwnSides(wires, q) /\ (InStep(wires, q) \/ Due(q))
  BY DEF WInv
<1>2. q \in Drivers \ {p} /\ Reads(q) \subseteq Net
  BY Ends
<1>3. OwnSides(w, q)
  BY <1>1, <1>2 DEF OwnSides, Rewired
<1>4. CASE InStep(wires, q) /\ \A n \in Reads(q) : w.state[n] = wires.state[n]
  <2>1. InStep(w, q)
    BY <1>1, <1>4, StaysInStep
  <2> QED BY <1>3, <2>1, BecomesWires
<1>5. CASE \E n \in Reads(q) : w.state[n] # wires.state[n]
  <2>1. PICK n \in Reads(q) : w.state[n] # wires.state[n]
    BY <1>5
  <2>2. n \in Range(w.events)
    BY <1>2, <2>1 DEF Rewired
  <2>3. n \in Range(events')
    BY <2>2 DEF Becomes
  <2> QED BY <1>3, <2>1, <2>3, BecomesWires DEF Due, Reads
<1> QED BY <1>1, <1>3, <1>4, <1>5, BecomesWires

LEMMA WRuns ==
  ASSUME WInv, NEW p \in Parts, NEW w, NEW on \in BOOLEAN, Runs(p, w, on),
         Wired(w), Rewired(wires, w, p), p \in Resistors => OwnSides(w, p) /\ InStep(w, p)
  PROVE  WInv'
<1>1. /\ todo # <<>> /\ p = Head(todo) /\ todo' = Tail(todo) /\ Becomes(w)
      /\ active' = [active EXCEPT ![p] = on] /\ stimuli' = stimuli
  BY DEF Runs
<1>2. todo' \in Seq(Parts) /\ Range(todo) = {p} \cup Range(todo')
  BY <1>1, RangeOfTail DEF WInv
<1>3. active' \in [Parts -> BOOLEAN] /\ stimuli' \in 0 .. MaxStimuli
  BY <1>1 DEF WInv
<1>4. Range(events) \subseteq Range(events')
  BY <1>1 DEF Rewired, wires, Becomes
<1>5. ASSUME NEW q \in Resistors, q # p
      PROVE  OwnSides(wires, q)' /\ (InStep(wires, q) \/ Due(q))'
  <2>1. Due(q) => Due(q)'
    BY <1>2, <1>4, <1>5 DEF Due, Reads
  <2>2. p \in Drivers
    BY DEF Drivers
  <2> QED BY <1>1, <1>5, <2>1, <2>2, OthersKeep
<1>6. ASSUME p \in Resistors PROVE OwnSides(wires, p)' /\ (InStep(wires, p) \/ Due(p))'
  BY <1>1, <1>6, BecomesWires
<1>7. Wired(wires)'
  BY <1>1, BecomesWires
<1>8. \A q \in Resistors : OwnSides(wires, q)' /\ (InStep(wires, q) \/ Due(q))'
  BY <1>5, <1>6
<1> QED BY <1>2, <1>3, <1>7, <1>8 DEF WInv

LEMMA WStimulus ==
  ASSUME WInv, NEW p \in Buttons \cup Gpios, NEW n \in Net, NEW d \in Drives,
         Stimulus(DriveNet(wires, n, p, d)), active' \in [Parts -> BOOLEAN]
  PROVE  WInv'
<1> DEFINE w == DriveNet(wires, n, p, d)
<1>1. /\ Becomes(w) /\ todo' = todo /\ stimuli < MaxStimuli /\ stimuli' = stimuli + 1
      /\ p \in Drivers
  BY DEF Stimulus, Drivers, Parts
<1>2. Wired(w) /\ Rewired(wires, w, p)
  BY <1>1, DriveWired DEF WInv
<1> HIDE DEF w
<1>3. Range(events) \subseteq Range(events')
  BY <1>1, <1>2 DEF Rewired, wires, Becomes
<1>4. ASSUME NEW q \in Resistors
      PROVE  OwnSides(wires, q)' /\ (InStep(wires, q) \/ Due(q))'
  <2>1. q # p
    BY BoardAssumption
  <2>2. Due(q) => Due(q)'
    BY <1>1, <1>3 DEF Due, Reads
  <2> QED BY <1>1, <1>2, <2>1, <2>2, OthersKeep
<1>5. Wired(wires)'
  BY <1>1, <1>2, BecomesWires
<1>6. stimuli' \in 0 .. MaxStimuli
  BY <1>1, BoardAssumption DEF WInv
<1>7. todo' \in Seq(Parts)
  BY <1>1 DEF WInv
<1> QED BY <1>4, <1>5, <1>6, <1>7 DEF WInv

LEMMA WNotify == ASSUME WInv, Notify PROVE WInv'
<1>1. events \in Seq(Net)
  BY DEF WInv, Wired, wires
<1>2. /\ Head(events) \in Net /\ events' \in Seq(Net)
      /\ Range(events) = {Head(events)} \cup Range(events')
  BY <1>1, RangeOfTail DEF Notify
<1>3. /\ todo = <<>> /\ todo' = Listeners[Head(events)] /\ todo' \in Seq(Parts)
      /\ drives' = drives /\ state' = state /\ active' = active /\ stimuli' = stimuli
  BY <1>2, NetlistAssumption DEF Notify
<1>4. Wired(wires)'
  BY <1>2, <1>3 DEF WInv, Wired, wires
<1>5. ASSUME NEW q \in Resistors PROVE OwnSides(wires, q)' /\ (InStep(wires, q) \/ Due(q))'
  <2>1. /\ OwnSides(wires, q) => OwnSides(wires, q)'
        /\ InStep(wires, q) => InStep(wires, q)'
    BY <1>3 DEF OwnSides, InStep, Feeds, wires
  <2>2. CASE Due(q)
    <3>1. Range(todo) = {}
      BY <1>3 DEF Range
    <3>2. PICK n \in Reads(q) : n \in Range(events)
      BY <2>2, <3>1 DEF Due
    <3>3. CASE n = Head(events)
      <4>1. q \in Range(todo')
        BY <1>2, <1>3, <3>2, <3>3, NetlistAssumption, Ends
      <4> QED BY <2>1, <4>1 DEF Due, WInv
    <3>4. CASE n \in Range(events')
      BY <2>1, <3>2, <3>4 DEF Due, Reads, WInv
    <3> QED BY <1>2, <3>2, <3>3, <3>4
  <2> QED BY <2>1, <2>2 DEF WInv
<1>6. active' \in [Parts -> BOOLEAN] /\ stimuli' \in 0 .. MaxStimuli
  BY <1>3 DEF WInv
<1> QED BY <1>3, <1>4, <1>5, <1>6 DEF WInv

LEMMA InitWInv == Init => WInv
<1> SUFFICES ASSUME Init PROVE WInv
  OBVIOUS
<1>1. drives \in [Net -> [Drivers -> Drives]]
  BY ReleasedDrives DEF Init
<1>2. state \in [Net -> NetState]
  <2>1. \A n \in Net : Resolve(drives[n]) \in NetState
    BY <1>1, ResolveFacts
  <2> QED BY <2>1 DEF Init
<1>3. Wired(wires)
  <2>1. \A n \in Net : state[n] = Resolve(drives[n])
    BY DEF Init
  <2>2. events \in Seq(Net)
    BY DEF Init
  <2> QED BY <1>1, <1>2, <2>1, <2>2 DEF Wired, wires
<1>4. todo \in Seq(Parts) /\ active \in [Parts -> BOOLEAN] /\ stimuli \in 0 .. MaxStimuli
  BY NetlistAssumption, BoardAssumption DEF Init
<1>5. ASSUME NEW q \in Resistors PROVE OwnSides(wires, q) /\ Due(q)
  <2>1. OwnSides(wires, q)
    BY Ends DEF Init, wires, OwnSides
  <2>2. q \in Range(todo)
    BY Ends, NetlistAssumption DEF Init
  <2> QED BY <2>1, <2>2 DEF Due
<1> QED BY <1>3, <1>4, <1>5 DEF WInv

(* What a reactive part drives is a proper drive.                          *)
LEMMA OnDriveTyped ==
  ASSUME WInv, NEW p \in Reactive \ Leds, IsOn(p)
  PROVE  OnDrive(p) \in Drives
<1>1. \A n \in Net : IsHigh(n) => state[n].volts \in Int
  BY DEF WInv, Wired, wires, NetState, IsHigh, Volts
<1>2. CASE p \in Diodes
  <2>1. Pin[p].a \in Net /\ Pin[p].vf \in Int
    <3>1. Pin[p].vf \in Int
      BY <1>2, ValueAssumption DEF Volts
    <3>2. p \in Parts /\ Reads(p) = {Pin[p].a}
      BY <1>2, BoardAssumption DEF Reads, Parts, Reactive
    <3> QED BY <3>1, <3>2, NetlistAssumption
  <2>2. IsHigh(Pin[p].a)
    BY <1>2, BoardAssumption DEF IsOn, Reactive
  <2>3. (IF state[Pin[p].a].volts > 0 THEN state[Pin[p].a].volts - Pin[p].vf ELSE NoVolts) \in Int
    BY <1>1, <2>1, <2>2 DEF NoVolts
  <2> DEFINE v == IF state[Pin[p].a].volts > 0 THEN state[Pin[p].a].volts - Pin[p].vf ELSE NoVolts
  <2>4. OnDrive(p) = Drive("1", Pull, v)
    BY <1>2, BoardAssumption DEF OnDrive, DiodeDrive
  <2> HIDE DEF v
  <2>5. v \in Volts
    BY <2>3 DEF v, Volts
  <2> QED BY <2>4, <2>5 DEF Drive, Drives
<1>3. CASE p \in Switches
  <2>1. Pin[p].d \in Net
    BY <1>3, NetlistAssumption, BoardAssumption DEF Reads, Parts, Reactive
  <2>2. p \notin Diodes /\ IsHigh(Pin[p].d)
    BY <1>3, BoardAssumption DEF IsOn
  <2>3. OnDrive(p) = Drive("1", Pull, state[Pin[p].d].volts)
    BY <1>3, <2>2, BoardAssumption DEF OnDrive
  <2>4. state[Pin[p].d].volts \in Volts
    BY <1>1, <2>1, <2>2 DEF Volts
  <2> QED BY <2>3, <2>4 DEF Drive, Drives
<1>4. CASE p \in Regulators
  <2>1. p \notin Diodes /\ p \notin Switches /\ Pin[p].volts \in Int
    BY <1>4, BoardAssumption, ValueAssumption DEF Volts
  <2> QED BY <1>4, <2>1 DEF OnDrive, DriveHigh, Drive, Drives, Volts
<1> QED BY <1>2, <1>3, <1>4 DEF Reactive

LEMMA NextWInv == WInv /\ [Next]_vars => WInv'
<1> SUFFICES ASSUME WInv, [Next]_vars PROVE WInv'
  OBVIOUS
<1>1. /\ Wired(wires)
      /\ \A p \in Drivers : Rewired(wires, wires, p)
  BY DEF WInv, Wired, Rewired
<1>2. \A p : IsOn(p) \in BOOLEAN
  BY DEF IsOn
<1>3. Parts \subseteq Drivers
  BY DEF Drivers
<1>4. CASE Notify
  BY <1>4, WNotify
<1>5. ASSUME NEW p \in Sources, SourceStart(p) PROVE WInv'
  <2> DEFINE d == IF Pin[p].volts = 0 THEN DriveLow ELSE DriveHigh(Pin[p].volts)
  <2>1. p \notin Resistors /\ p \in Parts /\ Pin[p].net \in Net /\ Pin[p].volts \in Int
    BY BoardAssumption, NetlistAssumption, ValueAssumption DEF Parts, Volts
  <2>2. d \in Drives
    BY <2>1 DEF DriveLow, DriveHigh, Drive, Drives, Volts
  <2>3. Runs(p, DriveNet(wires, Pin[p].net, p, d), TRUE)
    BY <1>5 DEF SourceStart
  <2> HIDE DEF d
  <2>4. /\ Wired(DriveNet(wires, Pin[p].net, p, d))
        /\ Rewired(wires, DriveNet(wires, Pin[p].net, p, d), p)
    BY <1>1, <1>3, <2>1, <2>2, DriveWired
  <2> QED BY <2>1, <2>3, <2>4, WRuns
<1>6. ASSUME NEW p \in Reactive \ Leds, OutputUpdate(p) PROVE WInv'
  <2> DEFINE d == IF IsOn(p) THEN OnDrive(p) ELSE Released
  <2>1. p \notin Resistors /\ p \in Parts /\ Pin[p].out \in Net
    BY BoardAssumption, NetlistAssumption DEF Parts
  <2>2. d \in Drives
    BY OnDriveTyped, ReleasedDrives
  <2>3. Runs(p, DriveNet(wires, Pin[p].out, p, d), IsOn(p))
    BY <1>6 DEF OutputUpdate
  <2> HIDE DEF d
  <2>4. /\ Wired(DriveNet(wires, Pin[p].out, p, d))
        /\ Rewired(wires, DriveNet(wires, Pin[p].out, p, d), p)
    BY <1>1, <1>3, <2>1, <2>2, DriveWired
  <2> QED BY <1>2, <2>1, <2>3, <2>4, WRuns
<1>7. ASSUME NEW p \in Leds, LedUpdate(p) PROVE WInv'
  <2>1. p \notin Resistors /\ p \in Parts
    BY BoardAssumption DEF Parts, Reactive
  <2> QED BY <1>1, <1>2, <1>3, <1>7, <2>1, WRuns DEF LedUpdate
<1>8. ASSUME NEW p \in Resistors, ResistorUpdate(p) PROVE WInv'
  <2> DEFINE w == ResistorWires(wires, p)
  <2>1. OwnSides(wires, p)
    BY DEF WInv
  <2>2. Wired(w) /\ Rewired(wires, w, p) /\ OwnSides(w, p) /\ InStep(w, p)
    BY <1>1, <2>1, ResistorInStep
  <2>3. Runs(p, w, FALSE) /\ p \in Parts
    BY <1>8, Ends DEF ResistorUpdate
  <2> HIDE DEF w
  <2> QED BY <2>2, <2>3, WRuns
<1>9. ASSUME NEW p \in Buttons, ButtonStart(p) PROVE WInv'
  <2>1. p \notin Resistors /\ p \in Parts
    BY BoardAssumption DEF Parts
  <2> QED BY <1>1, <1>3, <1>9, <2>1, WRuns DEF ButtonStart
<1>10. ASSUME NEW p \in Buttons, Press(p) PROVE WInv'
  <2> DEFINE d == IF Pin[p].other \in Net /\ IsHigh(Pin[p].other)
                  THEN DriveHigh(state[Pin[p].other].volts) ELSE DriveLow
  <2>1. Pin[p].sig \in Net
    BY NetlistAssumption
  <2>2. d \in Drives
    <3>1. \A n \in Net : IsHigh(n) => state[n].volts \in Int
      BY DEF WInv, Wired, wires, NetState, IsHigh, Volts
    <3> QED BY <3>1 DEF DriveLow, DriveHigh, Drive, Drives, Volts
  <2>3. Stimulus(DriveNet(wires, Pin[p].sig, p, d)) /\ active' = [active EXCEPT ![p] = TRUE]
    BY <1>10 DEF Press
  <2>4. active' \in [Parts -> BOOLEAN]
    BY <2>3 DEF WInv
  <2> HIDE DEF d
  <2> QED BY <2>1, <2>2, <2>3, <2>4, WStimulus
<1>11. ASSUME NEW p \in Buttons, Release(p) PROVE WInv'
  <2>1. Pin[p].sig \in Net
    BY NetlistAssumption
  <2>2. Stimulus(DriveNet(wires, Pin[p].sig, p, Released)) /\ active' = [active EXCEPT ![p] = FALSE]
    BY <1>11 DEF Release
  <2>3. active' \in [Parts -> BOOLEAN]
    BY <2>2 DEF WInv
  <2> QED BY <2>1, <2>2, <2>3, ReleasedDrives, WStimulus
<1>12. ASSUME NEW p \in Gpios, NEW d \in GpioDrives[p], SetGpio(p, d) PROVE WInv'
  <2>1. Pin[p].net \in Net /\ d \in Drives
    BY NetlistAssumption, ValueAssumption
  <2>2. Stimulus(DriveNet(wires, Pin[p].net, p, d)) /\ active' = active
    BY <1>12 DEF SetGpio
  <2> QED BY <2>1, <2>2, WStimulus DEF WInv
<1>13. CASE UNCHANGED vars
  BY <1>13 DEF vars, WInv, Wired, OwnSides, InStep, Feeds, Due, wires
<1> QED BY <1>4, <1>5, <1>6, <1>7, <1>8, <1>9, <1>10, <1>11, <1>12, <1>13 DEF Next, Update

LEMMA WInvariance == Spec => []WInv
BY InitWInv, NextWInv, PTL DEF Spec

(* Every drive is a proper one and every net has a state of its drives.    *)
THEOREM NetsAreTyped == Spec => []TypeOK
<1>1. WInv => TypeOK
  BY DEF WInv, Wired, wires, TypeOK
<1> QED BY <1>1, WInvariance, PTL

LEMMA SettledInStep ==
  ASSUME WInv, Settled, NEW p \in Resistors
  PROVE  /\ InStep(wires, p) /\ OwnSides(wires, p)
         /\ \A n \in Net : Side(n, p) = Hiz <=> ~Feeds(wires, n, p)
<1>1. ~Due(p)
  BY DEF Settled, Due, Range
<1>2. ASSUME NEW n \in Net PROVE Side(n, p) = Hiz <=> ~Feeds(wires, n, p)
  <2>1. Side(n, p) \in Hiz .. Strong /\ (Feeds(wires, n, p) <=> Side(n, p) > Hiz)
    BY FeedsFacts DEF Side, wires, WInv
  <2> QED BY <2>1 DEF Hiz, Strong
<1> QED BY <1>1, <1>2 DEF WInv

(* On any board, pull-ups and series resistors give a side that nothing    *)
(* else drives what the other side has, whatever the order in which drives *)
(* of equal level came and went on either.                                 *)
THEOREM ResistorsFerry == Spec => []WeakSideFollows
<1>1. ASSUME WInv PROVE WeakSideFollows
  <2> SUFFICES ASSUME Settled, NEW p \in Resistors, NEW m \in Reads(p), NEW n \in Reads(p),
                      m # n, Side(n, p) = Hiz
               PROVE  drives[n][p] = IF Side(m, p) > Hiz /\ state[m].level \in {"0", "1"}
                                     THEN Drive(state[m].level, Pull, state[m].volts) ELSE Released
    BY DEF WeakSideFollows
  <2>1. m \in Net /\ n \in Net
    BY Ends
  <2>2. ~Feeds(wires, n, p)
    BY <1>1, <2>1, SettledInStep
  <2>3. Feeds(wires, m, p) <=> Side(m, p) > Hiz
    BY <1>1, <2>1, FeedsFacts DEF Side, wires, WInv
  <2>4. InStep(wires, p)
    BY <1>1, SettledInStep
  <2> QED BY <2>2, <2>3, <2>4 DEF InStep, Ferried, wires
<1> QED BY <1>1, WInvariance, PTL

(* Resistors that drive each other need a cycle to do it: in a forest, one *)
(* of any such set could not.  p drives one of its sides, because another  *)
(* of the set drives its other side.                                       *)
Driven(P, p) ==
  \E m, n \in Reads(p) :
    /\ m # n /\ drives[n][p] # Released /\ drives[m][p] = Released
    /\ \E q \in P \ {p} : drives[m][q] # Released

LEMMA NoDrivenCycle ==
  ASSUME WInv, Forest, NEW P \in SUBSET Resistors, \A p \in P : Driven(P, p)
  PROVE  P = {}
<1> DEFINE F == {S \in SUBSET P : S # {} /\ \A p \in S : Driven(S, p)}
<1> SUFFICES ASSUME P # {} PROVE FALSE
  OBVIOUS
<1>1. IsFiniteSet(P)
  <2>1. P \subseteq Drivers
    BY DEF Drivers, Parts
  <2> QED BY <2>1, ValueAssumption, FS_Subset
<1>2. PICK S \in F : \A x \in S : S \ {x} \notin F
  <2>1. F \subseteq SUBSET P /\ P \in F
    OBVIOUS
  <2> HIDE DEF F
  <2>2. F # {}
    BY <2>1
  <2> QED BY <1>1, <2>1, <2>2, Smallest
<1>3. S \subseteq Resistors /\ S # {} /\ \A p \in S : Driven(S, p)
  BY <1>2
<1>4. PICK p \in S : \E l \in Reads(p) : Pin[p].a # Pin[p].b /\ \A q \in S \ {p} : l \notin Reads(q)
  BY <1>3 DEF Forest
<1>5. PICK l \in Reads(p) : \A q \in S \ {p} : l \notin Reads(q)
  BY <1>4
<1>6. PICK m \in Reads(p), n \in Reads(p) :
        /\ m # n /\ drives[n][p] # Released /\ drives[m][p] = Released
        /\ \E q \in S \ {p} : drives[m][q] # Released
  BY <1>3 DEF Driven
<1>7. \A q \in S : \A k \in Net : drives[k][q] # Released => k \in Reads(q)
  BY <1>3 DEF WInv, OwnSides, wires
<1>8. Reads(p) = {m, n} /\ m \in Net
  BY <1>3, <1>6, Ends
<1>9. l # m
  BY <1>5, <1>6, <1>7, <1>8
<1>10. l = n
  BY <1>8, <1>9
<1>11. ASSUME NEW r \in S \ {p} PROVE Driven(S \ {p}, r)
  <2>1. PICK k \in Reads(r), j \in Reads(r) :
          /\ k # j /\ drives[j][r] # Released /\ drives[k][r] = Released
          /\ \E q \in S \ {r} : drives[k][q] # Released
    BY <1>3 DEF Driven
  <2>2. PICK q \in S \ {r} : drives[k][q] # Released
    BY <2>1
  <2>3. q # p
    <3>1. ASSUME q = p PROVE FALSE
      <4>1. k \in Net
        BY <1>3, Ends
      <4>2. k = n
        BY <1>6, <1>7, <1>8, <2>2, <3>1, <4>1
      <4> QED BY <1>5, <1>10, <4>2
    <3> QED BY <3>1
  <2> QED BY <2>1, <2>2, <2>3 DEF Driven
<1>12. S \ {p} # {}
  BY <1>6
<1>13. S \ {p} \in F
  BY <1>11, <1>12
<1> QED BY <1>2, <1>13

(* On a board whose resistors form no cycle they hold no level among       *)
(* themselves: what nothing drives is undriven once the board has settled. *)
(* With a cycle, were it but two resistors in parallel, they may: run      *)
(* nets_ring.                                                              *)
THEOREM ResistorsInventNoLevel == ASSUME Forest PROVE Spec => []NoPhantomLevel
<1>1. ASSUME WInv PROVE NoPhantomLevel
  <2> SUFFICES ASSUME Settled, NEW S \in SUBSET Net,
                      \A p \in Resistors : Pin[p].a \in S <=> Pin[p].b \in S,
                      \A n \in S : ~Fed(n), NEW n \in S
               PROVE  state[n].level = "Z"
    BY DEF NoPhantomLevel
  <2> DEFINE P == {p \in Resistors : \E k \in S : drives[k][p] # Released}
  <2>1. Wired(wires)
    BY <1>1 DEF WInv
  <2>2. ASSUME NEW k \in S, NEW q \in Drivers, drives[k][q] # Released PROVE q \in P
    <3>1. drives[k][q] \in Drives
      BY <2>1 DEF Wired, wires
    <3>2. drives[k][q].strength > Hiz
      BY <2>2, <3>1, ReleasedDrives DEF Hiz, Pull, Strong
    <3>3. q \in Resistors
      BY <3>2 DEF Fed
    <3> QED BY <2>2, <3>3
  <2>3. ASSUME NEW p \in P PROVE Driven(P, p)
    <3>1. PICK j \in S : drives[j][p] # Released
      OBVIOUS
    <3>2. InStep(wires, p) /\ OwnSides(wires, p)
      BY <1>1, SettledInStep
    <3>3. j \in Reads(p)
      BY <3>1, <3>2 DEF OwnSides, wires
    <3>4. Pin[p].a # Pin[p].b
      <4>1. {p} \in SUBSET Resistors /\ {p} # {}
        OBVIOUS
      <4>2. \E r \in {p} : Pin[r].a # Pin[r].b
        BY <4>1 DEF Forest
      <4> QED BY <4>2
    <3>5. PICK k \in Reads(p) : k # j
      BY <3>4, Ends
    <3>6. k \in S
      BY <3>3, Ends
    <3>7. drives[k][p] = Released /\ Feeds(wires, k, p)
      BY <3>1, <3>2, <3>3, <3>5 DEF InStep, wires
    <3>8. PICK q \in Drivers \ {p} : drives[k][q] # Released
      BY <3>7 DEF Feeds, Others, wires
    <3>9. q \in P
      BY <2>2, <3>6, <3>8
    <3> HIDE DEF P
    <3> QED BY <3>1, <3>3, <3>5, <3>7, <3>8, <3>9 DEF Driven
  <2>4. P = {}
    <3>1. P \in SUBSET Resistors
      OBVIOUS
    <3> HIDE DEF P
    <3> QED BY <1>1, <2>3, <3>1, NoDrivenCycle
  <2>5. \A q \in Drivers : drives[n][q] = Released
    BY <2>2, <2>4
  <2> QED BY <2>1, <2>5, UndrivenNet DEF wires
<1> QED BY <1>1, WInvariance, PTL
=============================================================================
