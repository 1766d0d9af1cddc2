-------------------------- MODULE CellModemProofs --------------------------
(***************************************************************************)
(* Whatever the supply, the towers and the host do, and whatever stale     *)
(* timers fire: the modem of CellModem is off without supply, never stalls *)
(* on its way to the network and ends its transmit bursts.                 *)
(***************************************************************************)
EXTENDS CellModem, TLAPS

(* Between a drop of the supply and the call that notices it, a timer may  *)
(* already have been swallowed.                                            *)
Dropping == notify /\ ~vcc

Supplied == ~notify => (vcc <=> state # "off")

OffIsSilent == state = "off" => ~registered /\ current = "none"

NeverStalls ==
  /\ state = "booting" => Dropping \/ Pending("start")
  /\ state = "searching" => Dropping \/ Pending("try")

Bursting == current = "transmit" => Dropping \/ (registered /\ Pending("done"))

IInv == TypeOK /\ Supplied /\ OffIsSilent /\ NeverStalls /\ Bursting
-----------------------------------------------------------------------------
Counts == [Timer -> [Horizon -> Nat]]
Held(ts, k) == \E d \in Horizon : ts[k][d] > 0

(* The delays are places of the timer table, and so is what lies below.    *)
LEMMA HorizonFacts ==
  /\ 0 \in Horizon /\ Delays \subseteq Horizon /\ Horizon \subseteq Nat
  /\ \A d \in Horizon : d > 0 => d - 1 \in Horizon
<1>1. Delays \subseteq Nat /\ Delays # {}
  BY ModemAssumption DEF Delays
<1>2. \A d \in Delays : 0 \in 0 .. d /\ d \in 0 .. d /\ 0 .. d \subseteq Nat
  BY <1>1
<1>3. 0 \in Horizon /\ Delays \subseteq Horizon /\ Horizon \subseteq Nat
  BY <1>1, <1>2 DEF Horizon
<1>4. ASSUME NEW d \in Horizon, d > 0 PROVE d - 1 \in Horizon
  <2>1. PICK e \in Delays : d \in 0 .. e
    BY DEF Horizon
  <2>2. d - 1 \in 0 .. e
    BY <2>1, <1>1, <1>4
  <2>. QED
    BY <2>1, <2>2 DEF Horizon
<1>. QED
  BY <1>3, <1>4

(* Starting a timer makes it held and releases no other. *)
LEMMA LaterFacts ==
  ASSUME NEW ts \in Counts, NEW k \in Timer, NEW d \in Horizon
  PROVE  /\ Later(ts, k, d) \in Counts
         /\ Held(Later(ts, k, d), k)
         /\ \A j \in Timer : Held(ts, j) => Held(Later(ts, k, d), j)
<1>. DEFINE after == Later(ts, k, d)
<1>1. after \in Counts
  BY DEF Later, Counts
<1>2. \A j \in Timer, e \in Horizon :
        after[j][e] = IF j = k /\ e = d THEN ts[j][e] + 1 ELSE ts[j][e]
  BY DEF Later, Counts
<1>3. \A j \in Timer, e \in Horizon : ts[j][e] \in Nat
  BY DEF Counts
<1>4. after[k][d] > 0
  BY <1>2, <1>3
<1>5. \A j \in Timer, e \in Horizon : ts[j][e] > 0 => after[j][e] > 0
  BY <1>2, <1>3
<1>. QED
  BY <1>1, <1>4, <1>5 DEF Held

(* A timer that fires leaves the others as they are. *)
LEMMA FiredFacts ==
  ASSUME TypeOK, NEW k \in Timer, Due(k)
  PROVE  /\ Fired(k) \in Counts
         /\ \A j \in Timer \ {k} : Held(timers, j) => Held(Fired(k), j)
<1>. timers \in Counts /\ 0 \in Horizon
  BY HorizonFacts DEF TypeOK, Counts
<1>1. timers[k][0] > 0 /\ timers[k][0] \in Nat
  BY DEF Due, Counts
<1>2. Fired(k) \in Counts
  BY <1>1 DEF Fired, Counts
<1>3. \A j \in Timer \ {k}, e \in Horizon : Fired(k)[j][e] = timers[j][e]
  BY DEF Fired, Counts
<1>. QED
  BY <1>2, <1>3 DEF Held

(* Time passes only when nothing is due, and then loses no timer.          *)
LEMMA ElapseFacts ==
  ASSUME TypeOK, Elapse
  PROVE  /\ timers' \in Counts
         /\ \A k \in Timer : Held(timers, k) => Held(timers', k)
<1>. timers \in Counts
  BY DEF TypeOK, Counts
<1>1. timers' = [k \in Timer |-> [d \in Horizon |->
                   IF d + 1 \in Horizon THEN timers[k][d + 1] ELSE 0]]
  BY DEF Elapse
<1>2. timers' \in Counts
  BY <1>1 DEF Counts
<1>3. ASSUME NEW k \in Timer, NEW d \in Horizon, timers[k][d] > 0
      PROVE  Held(timers', k)
  <2>1. d # 0
    BY <1>3 DEF Elapse, Due
  <2>2. d - 1 \in Horizon /\ (d - 1) + 1 = d
    BY <2>1, HorizonFacts
  <2>3. timers'[k][d - 1] = timers[k][d]
    BY <1>1, <2>2
  <2>. QED
    BY <1>3, <2>2, <2>3 DEF Held
<1>. QED
  BY <1>2, <1>3 DEF Held

(* _start_search, from whatever state: with supply the modem searches.     *)
LEMMA StartSearchFacts ==
  ASSUME NEW ts \in Counts, StartSearch(ts)
  PROVE  /\ timers' \in Counts
         /\ \A k \in Timer : Held(ts, k) => Held(timers', k)
         /\ IF vcc THEN state' = "searching" /\ current' = "search" /\ Held(timers', "try")
                   ELSE state' = state /\ current' = current
<1>1. CASE vcc
  <2>1. PICK d \in Searches : timers' = Later(ts, "try", d)
    BY <1>1 DEF StartSearch, MaySearch, Powered
  <2>2. d \in Horizon /\ "try" \in Timer
    BY HorizonFacts DEF Delays, Timer
  <2>. QED
    BY <1>1, <2>1, <2>2, LaterFacts DEF StartSearch, MaySearch, Powered, SearchCurrent
<1>2. CASE ~vcc
  BY <1>2 DEF StartSearch, MaySearch, Powered
<1>. QED
  BY <1>1, <1>2
-----------------------------------------------------------------------------
LEMMA InitIInv == Init => IInv
<1>. SUFFICES ASSUME Init PROVE IInv
  OBVIOUS
<1>1. timers \in [Timer -> [Horizon -> Nat]]
  BY DEF Init
<1>2. moves \in 0 .. MaxMoves
  BY ModemAssumption DEF Init
<1>3. TypeOK
  BY <1>1, <1>2 DEF Init, TypeOK
<1>. QED
  BY <1>3 DEF Init, IInv, Supplied, OffIsSilent, NeverStalls, Bursting

(* Every action preserves the invariant; the table of timers is followed   *)
(* through the lemmas above.                                               *)
LEMMA StepIInv == IInv /\ [Next]_vars => IInv'
<1>. SUFFICES ASSUME IInv, [Next]_vars PROVE IInv'
  OBVIOUS
<1>. USE DEF IInv
<1>0. /\ timers \in Counts
      /\ \A k \in Timer : Pending(k) <=> Held(timers, k)
      /\ \A k \in Timer : Pending(k)' <=> Held(timers', k)
  BY DEF TypeOK, Counts, Pending, Held
<1>n. "start" \in Timer /\ "try" \in Timer /\ "done" \in Timer
  BY DEF Timer
<1>d. Boot \in Horizon /\ Retry \in Horizon /\ Send \in Horizon
  BY HorizonFacts DEF Delays
<1>1. CASE SupplyChanged
  <2>1. /\ timers' \in Counts
        /\ \A k \in Timer : Held(timers, k) => Held(timers', k)
        /\ vcc /\ state = "off" => Held(timers', "start")
    BY <1>1, <1>0, <1>n, <1>d, LaterFacts DEF SupplyChanged, Powered
  <2>. QED
    BY <1>1, <2>1, <1>0, <1>n
    DEF SupplyChanged, Powered, TypeOK, Counts, Supplied, OffIsSilent, NeverStalls,
        Bursting, Dropping
<1>2. CASE Booted
  <2>1. /\ Fired("start") \in Counts
        /\ \A k \in Timer \ {"start"} : Held(timers, k) => Held(Fired("start"), k)
    BY <1>2, <1>n, FiredFacts DEF Booted
  <2>2. /\ timers' \in Counts
        /\ \A k \in Timer \ {"start"} : Held(timers, k) => Held(timers', k)
        /\ IF vcc THEN state' = "searching" /\ current' = "search" /\ Held(timers', "try")
                  ELSE state' = state /\ current' = current
    BY <1>2, <2>1, StartSearchFacts DEF Booted
  <2>. QED
    BY <1>2, <2>2, <1>0, <1>n
    DEF Booted, TypeOK, Counts, Supplied, OffIsSilent, NeverStalls, Bursting, Dropping
<1>3. CASE TryRegister
  <2>1. /\ Fired("try") \in Counts
        /\ \A k \in Timer \ {"try"} : Held(timers, k) => Held(Fired("try"), k)
    BY <1>3, <1>n, FiredFacts DEF TryRegister
  <2>2. /\ timers' \in Counts
        /\ \A k \in Timer \ {"try"} : Held(timers, k) => Held(timers', k)
        /\ vcc /\ state' = "searching" => Held(timers', "try")
    BY <1>3, <2>1, <1>n, <1>d, LaterFacts DEF TryRegister, TryAgain, Powered
  <2>3. Accepts(best) => best \in Tower
    BY DEF Accepts, TypeOK
  <2>. QED
    BY <1>3, <2>2, <2>3, <1>0, <1>n
    DEF TryRegister, Powered, TypeOK, Counts, Supplied, OffIsSilent, NeverStalls, Bursting,
        Dropping
<1>4. CASE SendDone
  <2>1. /\ timers' \in Counts
        /\ \A k \in Timer \ {"done"} : Held(timers, k) => Held(timers', k)
    BY <1>4, <1>n, FiredFacts DEF SendDone
  <2>. QED
    BY <1>4, <2>1, <1>0, <1>n
    DEF SendDone, CurrentAfterSend, TypeOK, Counts, Supplied, OffIsSilent, NeverStalls,
        Bursting, Dropping
<1>5. CASE SocketSend
  <2>1. /\ timers' \in Counts /\ Held(timers', "done")
        /\ \A k \in Timer : Held(timers, k) => Held(timers', k)
    BY <1>5, <1>0, <1>n, <1>d, LaterFacts DEF SocketSend
  <2>. QED
    BY <1>5, <2>1, <1>0, <1>n
    DEF SocketSend, TypeOK, Counts, Supplied, OffIsSilent, NeverStalls, Bursting, Dropping
<1>6. CASE SwitchSupply
  BY <1>6, ModemAssumption
  DEF SwitchSupply, Environment, modem, TypeOK, Supplied, OffIsSilent, NeverStalls, Bursting,
      Dropping, Pending
<1>7. ASSUME NEW t \in Tower, NEW l \in Loads, SetTowerLoad(t, l) PROVE IInv'
  <2>1. CASE registered /\ t = tower /\ l = "overload"
    <3>1. /\ timers' \in Counts
          /\ \A k \in Timer : Held(timers, k) => Held(timers', k)
          /\ IF vcc THEN state' = "searching" /\ current' = "search" /\ Held(timers', "try")
                    ELSE state' = state /\ current' = current
      BY <1>7, <2>1, <1>0, StartSearchFacts DEF SetTowerLoad
    <3>2. vcc \/ Dropping
      BY <2>1 DEF Supplied, OffIsSilent, Dropping
    <3>3. state # "off"
      BY <2>1 DEF OffIsSilent
    <3>4. registered' = FALSE /\ UNCHANGED <<vcc, notify, best, tower>>
      BY <1>7, <2>1 DEF SetTowerLoad
    <3>5. towers' \in [Tower -> Loads] /\ moves' \in 0 .. MaxMoves
      BY <1>7, ModemAssumption DEF SetTowerLoad, Environment, TypeOK
    <3>t. TypeOK'
      BY <3>1, <3>4, <3>5 DEF TypeOK, Counts
    <3>6. Supplied' /\ OffIsSilent' /\ NeverStalls' /\ Bursting'
      BY <3>1, <3>2, <3>3, <3>4, <1>0, <1>n
      DEF Supplied, OffIsSilent, NeverStalls, Bursting, Dropping
    <3>. QED
      BY <3>t, <3>6
  <2>2. CASE ~(registered /\ t = tower /\ l = "overload")
    BY <1>7, <2>2, ModemAssumption
    DEF SetTowerLoad, Environment, TypeOK, Supplied, OffIsSilent, NeverStalls, Bursting,
        Dropping, Pending
  <2>. QED
    BY <2>1, <2>2
<1>8. ASSUME NEW t \in Tower \cup {NoTower}, Move(t) PROVE IInv'
  BY <1>8, ModemAssumption
  DEF Move, Environment, modem, TypeOK, Supplied, OffIsSilent, NeverStalls, Bursting, Dropping,
      Pending
<1>9. CASE Elapse
  BY <1>9, ElapseFacts, <1>0, <1>n
  DEF Elapse, TypeOK, Counts, Supplied, OffIsSilent, NeverStalls, Bursting, Dropping
<1>10. CASE UNCHANGED vars
  BY <1>10
  DEF vars, modem, TypeOK, Supplied, OffIsSilent, NeverStalls, Bursting, Dropping, Pending
<1>. QED
  BY <1>1, <1>2, <1>3, <1>4, <1>5, <1>6, <1>7, <1>8, <1>9, <1>10 DEF Next

LEMMA Invariance == Spec => []IInv
<1>. QED
  BY InitIInv, StepIInv, PTL DEF Spec
-----------------------------------------------------------------------------
(* The modem's variables keep their types, and it is registered only with  *)
(* a tower.                                                                *)
THEOREM ModemTypes == Spec => []TypeOK
<1>1. IInv => TypeOK
  BY DEF IInv
<1>. QED
  BY <1>1, Invariance, PTL

(* "models power off when their supply rail drops" (radio.py line 22).     *)
THEOREM OffWithoutSupply == Spec => []UnpoweredIsOff
<1>1. IInv => UnpoweredIsOff
  BY DEF IInv, Supplied, OffIsSilent, UnpoweredIsOff
<1>. QED
  BY <1>1, Invariance, PTL

(* While the modem boots or searches, the timer that takes it further is   *)
(* there, whichever power cycles its timers are from.                      *)
THEOREM NeverStallsForever == Spec => []SearchGoesOn
<1>1. IInv => SearchGoesOn
  BY DEF IInv, Supplied, NeverStalls, Dropping, SearchGoesOn
<1>. QED
  BY <1>1, Invariance, PTL

(* The transmit current of a send never outlives the send's timer. *)
THEOREM BurstsEnd == Spec => []BurstEnds
<1>1. IInv => BurstEnds
  BY DEF IInv, Bursting, Dropping, BurstEnds
<1>. QED
  BY <1>1, Invariance, PTL
=============================================================================
