------------------------------ MODULE Wireless ------------------------------
(***************************************************************************)
(* The GNSS receiver and the BLE module (components/radio.py), on one      *)
(* supply that comes and goes.  The receiver polls its supply, its enable  *)
(* pin and the sky once a second; the module holds a connection by a chain *)
(* of connection events, each of which may lose its packet.                *)
(***************************************************************************)
EXTENDS Integers, Sequences, FiniteSetsExt

CONSTANTS
  Ttff,      (* TTFF_S: [start mode -> seconds of good sky to a fix] *)
  Poll,      (* units in a second, the receiver's tick *)
  Interval,  (* units in conn_interval *)
  Timeout,   (* units in supervision_timeout *)
  Mode       (* start modes the board may configure *)

ASSUME WirelessAssumption ==
  /\ Ttff \in [{"cold", "warm", "hot"} -> Nat \ {0}] /\ Mode \subseteq DOMAIN Ttff
  /\ Poll \in Nat \ {0} /\ Interval \in Nat \ {0} /\ Timeout \in Nat \ {0}

VARIABLES
  supply,  (* the rail is high *)
  enable,  (* the EN pin is high, or none is wired *)
  gnss,    (* [state, fix, lock, mode, load] *)
  wait,    (* units to the next tick *)
  ble,     (* [state, connected, missed, load] *)
  events,  (* units to each scheduled connection event *)
  polls,   (* history: [good, mode], how many polls in a row up to now have *)
           (* found supply and a good sky, and the mode before them *)
  link     (* history: [starved, silent, shortest], whether an event of this *)
           (* connection found no supply, for how long it has received *)
           (* nothing, and the shortest such time that ended a connection *)

gnssVars == <<gnss, wait, polls>>
bleVars == <<ble, events, link>>
wirelessVars == <<supply, enable, gnssVars, bleVars>>

LockCap == Max({Ttff[m] : m \in DOMAIN Ttff})   (* bound: beyond it lock_s says nothing *)
Capped(n) == Min({n, LockCap})
SilentCap == Timeout + Interval                 (* bound of link.silent *)
-----------------------------------------------------------------------------
(* Seeded faults, used only by the mutation runs of PROJECT.json. *)
KeepLock == [gnss EXCEPT !.state = "off", !.fix = FALSE, !.load = "none"]
KeepMissed(lost) == IF lost THEN ble.missed + Interval ELSE ble.missed
-----------------------------------------------------------------------------
GnssStart(m) == [state |-> "off", fix |-> FALSE, lock |-> 0, mode |-> m, load |-> "none"]
BleStart == [state |-> "advertising", connected |-> FALSE, missed |-> 0, load |-> "adv"]

WirelessInit ==
  /\ supply \in BOOLEAN /\ enable \in BOOLEAN
  /\ \E m \in Mode : gnss = GnssStart(m) /\ polls = [good |-> 0, mode |-> m]
  /\ wait = 0
  /\ ble = BleStart
  /\ events = <<>> /\ link = [starved |-> FALSE, silent |-> 0, shortest |-> Timeout]

(* The tick that finds the receiver off; its mode is battery-backed. *)
Off == [gnss EXCEPT !.state = "off", !.fix = FALSE, !.lock = 0, !.load = "none"]

(* The tick that finds it on, under a sky with four usable satellites or   *)
(* not.                                                                    *)
On(good) ==
  LET lock == IF good THEN Capped(gnss.lock + 1) ELSE 0
      kept == gnss.fix /\ good
      fix == kept \/ lock >= Ttff[gnss.mode]
  IN  [state |-> IF fix THEN "tracking" ELSE "acquiring", fix |-> fix, lock |-> lock,
       mode |-> IF fix /\ ~kept THEN "hot" ELSE gnss.mode, load |-> IF fix THEN "track" ELSE "acq"]

(* GnssReceiver._tick: what the supply did since the last one is not seen. *)
Tick(good) ==
  /\ wait = 0 /\ wait' = Poll
  /\ gnss' = IF supply /\ enable THEN On(good) ELSE IF gnss.state # "off" THEN Off ELSE gnss
  /\ polls' = IF supply /\ enable /\ good THEN [polls EXCEPT !.good = Capped(@ + 1)]
              ELSE [good |-> 0, mode |-> gnss'.mode]
  /\ UNCHANGED <<supply, enable, bleVars>>

SetSupply == supply' = ~supply /\ UNCHANGED <<enable, gnssVars, bleVars>>
SetEnable == enable' = ~enable /\ UNCHANGED <<supply, gnssVars, bleVars>>

CentralConnect ==
  /\ IF ble.state = "advertising" /\ supply
     THEN /\ ble' = [state |-> "connected", connected |-> TRUE, missed |-> 0, load |-> "conn"]
          /\ events' = Append(events, Interval)
          /\ link' = [link EXCEPT !.starved = FALSE, !.silent = 0]
     ELSE UNCHANGED bleVars
  /\ UNCHANGED <<supply, enable, gnssVars>>

Missed(lost) == IF lost THEN ble.missed + Interval ELSE 0

(* _conn_event and _drop.  Without supply the chain of events just ends.   *)
ConnEvent(lost) ==
  /\ events # <<>> /\ events[1] = 0
  /\ IF ~ble.connected \/ ~supply
     THEN /\ events' = Tail(events) /\ UNCHANGED ble
          /\ link' = [link EXCEPT !.starved = @ \/ ble.connected]
     ELSE IF lost /\ Missed(lost) >= Timeout
     THEN /\ ble' = [BleStart EXCEPT !.missed = Missed(lost)]
          /\ events' = Tail(events)
          /\ link' = [link EXCEPT !.shortest = Min({@, link.silent})]
     ELSE /\ ble' = [ble EXCEPT !.missed = Missed(lost)]
          /\ events' = Append(Tail(events), Interval)
          /\ link' = [link EXCEPT !.silent = IF lost THEN @ ELSE 0]
  /\ UNCHANGED <<supply, enable, gnssVars>>

WirelessElapse ==
  /\ wait > 0 /\ \A i \in DOMAIN events : events[i] > 0
  /\ wait' = wait - 1
  /\ events' = [i \in DOMAIN events |-> events[i] - 1]
  /\ link' = [link EXCEPT !.silent = Min({@ + 1, SilentCap})]
  /\ UNCHANGED <<supply, enable, gnss, ble, polls>>

WirelessTypeOK ==
  /\ supply \in BOOLEAN /\ enable \in BOOLEAN
  /\ gnss \in [state : {"off", "acquiring", "tracking"}, fix : BOOLEAN, lock : 0 .. LockCap,
               mode : Mode \cup {"hot"}, load : {"none", "acq", "track"}]
  /\ wait \in 0 .. Poll
  /\ ble \in [state : {"advertising", "connected"}, connected : BOOLEAN,
              missed : 0 .. Timeout + Interval - 1, load : {"adv", "conn"}]
  /\ events \in Seq(0 .. Interval)
  /\ polls \in [good : 0 .. LockCap, mode : Mode \cup {"hot"}]
  /\ link \in [starved : BOOLEAN, silent : 0 .. SilentCap, shortest : 0 .. Timeout]
-----------------------------------------------------------------------------
(* The receiver tracks exactly when the last polls, as many as the time to *)
(* first fix of the mode it had before them, all found it powered, enabled *)
(* and under a good sky: neither a bad sky nor a cut that a poll has seen  *)
(* leaves it any credit, and only an earlier fix shortens the wait.        *)
FixIsEarned ==
  /\ gnss.fix <=> polls.good >= Ttff[polls.mode]
  /\ gnss.state = (IF gnss.fix THEN "tracking" ELSE IF gnss.load = "none" THEN "off" ELSE "acquiring")

(* "A run of lost connection events longer than the supervision timeout    *)
(* drops the link" (env/ble.py), and nothing else does: a connection has   *)
(* one chain of events and no disconnected module has any, whatever        *)
(* reconnections and cuts of the supply there were; it ends only after a   *)
(* whole timeout of silence, and lasts at most one more interval.  A       *)
(* connection of which an event found no supply is excepted: nothing ends  *)
(* it any more.                                                            *)
Supervised ==
  /\ ble.connected <=> ble.state = "connected"
  /\ Len(events) <= (IF ble.connected THEN 1 ELSE 0)
  /\ ble.connected => link.starved \/ (events # <<>> /\ link.silent < Timeout + Interval)
  /\ link.shortest >= Timeout
=============================================================================
