----------------------------- MODULE CellModem -----------------------------
(***************************************************************************)
(* The registration of the cellular modem of twin/components/radio.py.  It *)
(* is driven by kernel timers that nothing cancels, by its supply, by the  *)
(* load of the tower it hangs on and by the host's socket commands.        *)
(***************************************************************************)
EXTENDS Integers

CONSTANTS
  Tower,
  NoTower,                     (* no tower heard at -110 dBm or better *)
  Boot, Searches, Retry, Send, (* the delays of the timers, in ticks *)
  MaxMoves,                    (* bound: changes of supply, towers and place *)
  MaxSends                     (* bound: socket sends per tick *)

Delays == {Boot, Retry, Send} \cup Searches

ASSUME ModemAssumption ==
  /\ Delays \subseteq Nat \ {0} /\ Searches # {}
  /\ NoTower \notin Tower
  /\ MaxMoves \in Nat /\ MaxSends \in Nat

Timer == {"start", "try", "done"}
Horizon == UNION {0 .. d : d \in Delays}

(* A tower's load: below its reject threshold, above it, above its kick    *)
(* threshold too.                                                          *)
Loads == {"light", "full", "overload"}

VARIABLES
  vcc,       (* the supply net is high *)
  notify,    (* _supply_changed is to be called for it *)
  towers,    (* Tower.load *)
  best,      (* the strongest tower at the board's place, if it is heard *)
  state,     (* the modem's state *)
  registered, tower,
  current,   (* its load on the rail *)
  timers,    (* [timer -> [ticks to go -> how many the kernel holds]] *)
  moves      (* changes of the environment so far *)

modem == <<state, registered, tower, current, timers>>
vars == <<vcc, notify, towers, best, modem, moves>>
-----------------------------------------------------------------------------
(* Seeded faults, used only by the mutation runs of PROJECT.json. *)
OnlyFromBooting == vcc /\ state = "booting"
SearchQuietly == current
GiveUp(ts) == ts
AnyCoverage(t) == t = NoTower \/ towers[t] = "light"
-----------------------------------------------------------------------------
Powered == vcc

(* _start_search's guard, and what the modem draws from then on. *)
MaySearch == Powered
SearchCurrent == "search"

(* SendDone takes the current down again, on a modem still registered. *)
CurrentAfterSend == IF registered THEN "idle" ELSE current

(* _try_register takes the best tower unless it is too far or too full. *)
Accepts(t) == t # NoTower /\ towers[t] = "light"

Pending(k) == \E d \in Horizon : timers[k][d] > 0
Due(k) == timers[k][0] > 0
Fired(k) == [timers EXCEPT ![k][0] = @ - 1]
Later(ts, k, d) == [ts EXCEPT ![k][d] = @ + 1]
TryAgain(ts) == Later(ts, "try", Retry)

(* _start_search, with the kernel's timers as ts. *)
StartSearch(ts) ==
  IF ~MaySearch
  THEN timers' = ts /\ UNCHANGED <<state, current>>
  ELSE /\ state' = "searching"
       /\ current' = SearchCurrent
       /\ \E d \in Searches : timers' = Later(ts, "try", d)

Init ==
  /\ vcc \in BOOLEAN /\ notify = TRUE
  /\ towers \in [Tower -> Loads] /\ best \in Tower \cup {NoTower}
  /\ state = "off" /\ registered = FALSE /\ tower = NoTower
  /\ current = "none"
  /\ timers = [k \in Timer |-> [d \in Horizon |-> 0]]
  /\ moves = 0

(* _supply_changed *)
SupplyChanged ==
  /\ notify
  /\ notify' = FALSE
  /\ IF Powered /\ state = "off"
     THEN /\ state' = "booting"
          /\ timers' = Later(timers, "start", Boot)
          /\ UNCHANGED <<registered, current>>
     ELSE IF ~Powered /\ state # "off"
     THEN /\ state' = "off" /\ registered' = FALSE /\ current' = "none"
          /\ UNCHANGED timers
     ELSE UNCHANGED <<state, registered, current, timers>>
  /\ UNCHANGED <<vcc, towers, best, tower, moves>>

Booted ==
  /\ Due("start")
  /\ StartSearch(Fired("start"))
  /\ UNCHANGED <<vcc, notify, towers, best, registered, tower, moves>>

TryRegister ==
  /\ Due("try")
  /\ IF ~Powered \/ state # "searching"
     THEN timers' = Fired("try") /\ UNCHANGED <<state, registered, tower, current>>
     ELSE IF Accepts(best)
     THEN /\ registered' = TRUE /\ tower' = best
          /\ state' = "registered" /\ current' = "idle"
          /\ timers' = Fired("try")
     ELSE /\ timers' = TryAgain(Fired("try"))
          /\ UNCHANGED <<state, registered, tower, current>>
  /\ UNCHANGED <<vcc, notify, towers, best, moves>>

(* AT+CSOSEND on a modem that is on. *)
SocketSend ==
  /\ state # "off" /\ registered
  /\ timers["done"][Send] < MaxSends
  /\ current' = "transmit"
  /\ timers' = Later(timers, "done", Send)
  /\ UNCHANGED <<vcc, notify, towers, best, state, registered, tower, moves>>

SendDone ==
  /\ Due("done")
  /\ timers' = Fired("done")
  /\ current' = CurrentAfterSend
  /\ UNCHANGED <<vcc, notify, towers, best, state, registered, tower, moves>>

(* The environment.  The supply does not change twice in one instant.      *)
Environment == moves < MaxMoves /\ moves' = moves + 1

SwitchSupply ==
  /\ Environment
  /\ ~notify /\ notify' = TRUE
  /\ vcc' = ~vcc
  /\ UNCHANGED <<towers, best, modem>>

(* CellularWorld.set_load and the modem's listener _load_changed. *)
SetTowerLoad(t, l) ==
  /\ Environment
  /\ towers' = [towers EXCEPT ![t] = l]
  /\ IF registered /\ t = tower /\ l = "overload"
     THEN registered' = FALSE /\ StartSearch(timers)
     ELSE UNCHANGED <<registered, state, current, timers>>
  /\ UNCHANGED <<vcc, notify, best, tower>>

Move(t) ==
  /\ Environment
  /\ best' = t
  /\ UNCHANGED <<vcc, notify, towers, modem>>

Elapse ==
  /\ ~notify /\ \A k \in Timer : ~Due(k)
  /\ timers' = [k \in Timer |-> [d \in Horizon |->
                  IF d + 1 \in Horizon THEN timers[k][d + 1] ELSE 0]]
  /\ UNCHANGED <<vcc, notify, towers, best, state, registered, tower, current, moves>>

Next ==
  \/ SupplyChanged
  \/ Booted
  \/ TryRegister
  \/ SendDone
  \/ SocketSend
  \/ SwitchSupply
  \/ \E t \in Tower, l \in Loads : SetTowerLoad(t, l)
  \/ \E t \in Tower \cup {NoTower} : Move(t)
  \/ Elapse

Spec == Init /\ [][Next]_vars

(* The kernel goes on dispatching: every due event runs, and time passes.  *)
FairSpec == /\ Spec
            /\ WF_vars(SupplyChanged) /\ WF_vars(Booted) /\ WF_vars(TryRegister)
            /\ WF_vars(SendDone) /\ WF_vars(Elapse)
-----------------------------------------------------------------------------
TypeOK ==
  /\ vcc \in BOOLEAN /\ notify \in BOOLEAN
  /\ towers \in [Tower -> Loads] /\ best \in Tower \cup {NoTower}
  /\ state \in {"off", "booting", "searching", "registered"}
  /\ registered \in BOOLEAN
  /\ tower \in Tower \/ (tower = NoTower /\ ~registered)
  /\ current \in {"none", "search", "idle", "transmit"}
  /\ timers \in [Timer -> [Horizon -> Nat]]
  /\ moves \in 0 .. MaxMoves

(* "models power off when their supply rail drops" (radio.py line 22): a   *)
(* modem without supply is off and draws nothing, whichever of its timers  *)
(* from before still fire.                                                 *)
UnpoweredIsOff ==
  ~vcc /\ ~notify => state = "off" /\ ~registered /\ current = "none"

(* A modem that boots or searches never stalls: the timer that takes it    *)
(* further is there, although timers outlive the power cycle they belong   *)
(* to, do nothing when they fire in the wrong state, and are not cancelled.*)
SearchGoesOn ==
  ~notify => /\ vcc => state # "off"
             /\ state = "booting" => Pending("start")
             /\ state = "searching" => Pending("try")

(* A transmit burst ends: the current of a send is not left on the rail    *)
(* once its timer is gone, also when the modem was kicked off or lost its  *)
(* supply meanwhile.                                                       *)
BurstEnds == current = "transmit" /\ ~notify => Pending("done")

(* Once it has supply, and hears a tower with room, for good, the modem is *)
(* registered for good, whatever went before.                              *)
Registers ==
  <>[](vcc /\ Accepts(best)) => <>[](registered /\ state = "registered")

(* "States: off -> booting -> searching -> registered (URCs on change).    *)
(* Network load above the tower's kick threshold detaches us mid-session." *)
(* (radio.py lines 151-152): the way back from registered to searching,    *)
(* which the host hears of by a URC, is a kick.                            *)
OnlyKicksDetach ==
  [][state = "registered" /\ state' = "searching" => towers'[tower] = "overload"]_vars
=============================================================================
