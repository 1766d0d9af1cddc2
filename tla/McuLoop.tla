------------------------------ MODULE McuLoop ------------------------------
(***************************************************************************)
(* How the MCU model runs its emulated CPU on the kernel: the slice loop   *)
(* of twin/components/mcu.py with SysTick of twin/cpu/armv7m.py.  A slice  *)
(* takes no kernel time; the next one is scheduled a slice length later.   *)
(* After WFI none is scheduled: SysTick's expiry or an interrupt wakes it. *)
(* The CPU inside the slice is Exceptions, whose steps these are.          *)
(***************************************************************************)
EXTENDS Exceptions

CONSTANTS
  SliceLen,   (* slice_ns *)
  Rvrs,       (* reload values firmware writes: the period they make, or 0 *)
  Never,      (* next_fire_ns when it is None *)
  MaxTime     (* bound: length of a run *)

ASSUME McuAssumption ==
  /\ SliceLen \in Nat \ {0} /\ Rvrs \subseteq Nat
  /\ Never \notin Int /\ MaxTime \in Nat

VARIABLES
  now,       (* the kernel's clock *)
  runs,      (* [time -> how many _run_slice events the kernel holds] *)
  wakes,     (* the times of its _wake_now events *)
  sleeping,  (* _sleeping *)
  power,     (* power_state *)
  faulted,   (* the state "faulted" *)
  ns,        (* the length of the slice that runs *)
  tick       (* SysTick: ENABLE and TICKINT of csr, rvr, next_fire_ns *)

loopVars == <<now, runs, wakes, sleeping, power, faulted, ns>>
mcuVars == <<vars, loopVars, tick>>
-----------------------------------------------------------------------------
(* Seeded faults, used only by the mutation runs of PROJECT.json. *)
WakeAlways == TRUE
NothingPending == FALSE
AfterPeriod(t) == IF t.enable /\ t.rvr > 0 THEN t.rvr ELSE SliceLen
NoAlarm == {}
-----------------------------------------------------------------------------
TickEnabled(t) == t.enable /\ t.rvr > 0

(* SysTick.advance: past its expiry it moves on to the first one ahead.    *)
Expired == TickEnabled(tick) /\ tick.next # Never /\ now >= tick.next
Advanced ==
  IF Expired
  THEN [tick EXCEPT !.next = @ + tick.rvr * ((now - @) \div tick.rvr + 1)]
  ELSE tick

(* Slices are no longer than SysTick's period. *)
SliceLength(t) == IF TickEnabled(t) /\ t.rvr < SliceLen THEN t.rvr ELSE SliceLen

(* can_wake *)
CanWake == \E e \in pending : Injectable(cpu, e)

(* next_wake_ns, as the set of the wake-ups to schedule. *)
Alarm ==
  IF TickEnabled(tick) /\ tick.int /\ tick.next # Never
  THEN {IF tick.next < now THEN now ELSE tick.next} ELSE {}

PowerState(state) == state

Schedule(rs, t) == [rs EXCEPT ![t] = @ + 1]

LoopInit ==
  /\ Init
  /\ now = 0
  /\ runs = [t \in 0 .. MaxTime + SliceLen |-> IF t = 0 THEN 1 ELSE 0]
  /\ wakes = {} /\ sleeping = FALSE /\ power = "run" /\ faulted = FALSE
  /\ ns = 0
  /\ tick = [enable |-> FALSE, int |-> FALSE, rvr |-> 0, next |-> Never]

(* _run_slice up to the emulator: SysTick first, which may pend.           *)
RunSlice ==
  /\ runs[now] > 0 /\ ~slicing
  /\ runs' = [runs EXCEPT ![now] = @ - 1]
  /\ tick' = Advanced
  /\ ns' = SliceLength(tick)
  /\ StartSlice(Expired /\ tick.int)
  /\ UNCHANGED <<now, wakes, sleeping, power, faulted>>

(* The same when a reset was requested: the next slice follows at once.    *)
TakeReset ==
  /\ runs[now] > 0 /\ ~slicing
  /\ tick' = Advanced
  /\ Reset
  /\ UNCHANGED <<now, runs, wakes, sleeping, power, faulted, ns>>

(* The slice's instructions are used up. *)
Ran ==
  /\ EndSlice
  /\ runs' = Schedule(runs, now + ns)
  /\ UNCHANGED <<now, wakes, sleeping, power, faulted, ns, tick>>

(* WFI with an exception that may run: no sleep. *)
WfiFallsThrough ==
  /\ EndSlice
  /\ CanWake
  /\ runs' = Schedule(runs, now)
  /\ UNCHANGED <<now, wakes, sleeping, power, faulted, ns, tick>>

WfiSleeps ==
  /\ EndSlice
  /\ ~CanWake
  /\ sleeping' = TRUE
  /\ power' = PowerState("sleep")
  /\ wakes' = wakes \cup Alarm
  /\ UNCHANGED <<now, runs, faulted, ns, tick>>

Fault ==
  /\ EndSlice
  /\ faulted' = TRUE
  /\ power' = PowerState("off")
  /\ UNCHANGED <<now, runs, wakes, sleeping, ns, tick>>

Asleep == sleeping

(* _wake_now, with the kernel's wake-ups as ws. *)
WakeNow(ws) ==
  /\ wakes' = ws
  /\ IF Asleep
     THEN /\ sleeping' = FALSE
          /\ power' = PowerState("run")
          /\ runs' = Schedule(runs, now)
     ELSE UNCHANGED <<sleeping, power, runs>>
  /\ UNCHANGED <<now, faulted, ns, tick>>

WakeEvent ==
  /\ now \in wakes /\ ~slicing
  /\ WakeNow(wakes \ {now})
  /\ UNCHANGED vars

(* pend_irq, from another component's event or from the slice itself.      *)
PendIrq(e) ==
  /\ Pend(e)
  /\ IF e \in enabled /\ sleeping THEN WakeNow(wakes) ELSE UNCHANGED <<loopVars, tick>>

(* A service uses up the slice's budget when the slice ends with it: the   *)
(* status is "ran", and the next slice is scheduled.                       *)
ServicesEnd ==
  /\ runs' = IF slicing' THEN runs ELSE Schedule(runs, now + ns)
  /\ UNCHANGED <<now, wakes, sleeping, power, faulted, ns>>

(* Stores to SysTick. *)
WriteCsr(on, int) ==
  /\ Access
  /\ LET t == [tick EXCEPT !.enable = on, !.int = int]
     IN  tick' = IF ~TickEnabled(t) THEN [t EXCEPT !.next = Never]
                 ELSE IF TickEnabled(tick) THEN t
                 ELSE [t EXCEPT !.next = now + t.rvr]
  /\ ServicesEnd

WriteRvr(v) ==
  /\ Access
  /\ tick' = [tick EXCEPT !.rvr = v]
  /\ ServicesEnd

(* Whatever else the firmware does. *)
Execute ==
  /\ Firmware
  /\ ServicesEnd
  /\ UNCHANGED tick

Elapse ==
  /\ ~slicing /\ runs[now] = 0 /\ now \notin wakes
  /\ now < MaxTime
  /\ now' = now + 1
  /\ UNCHANGED <<vars, runs, wakes, sleeping, power, faulted, ns, tick>>

LoopNext ==
  \/ RunSlice
  \/ TakeReset
  \/ Ran
  \/ WfiFallsThrough
  \/ WfiSleeps
  \/ Fault
  \/ WakeEvent
  \/ \E e \in Irq : PendIrq(e)
  \/ \E on, int \in BOOLEAN : WriteCsr(on, int)
  \/ \E v \in Rvrs : WriteRvr(v)
  \/ Execute
  \/ Elapse

LoopSpec == LoopInit /\ [][LoopNext]_mcuVars
-----------------------------------------------------------------------------
LoopTypeOK ==
  /\ now \in 0 .. MaxTime
  /\ runs \in [0 .. MaxTime + SliceLen -> Nat]
  /\ wakes \subseteq Nat
  /\ sleeping \in BOOLEAN /\ faulted \in BOOLEAN
  /\ power \in {"run", "sleep", "off"}
  /\ ns \in 0 .. SliceLen
  /\ tick \in [enable : BOOLEAN, int : BOOLEAN, rvr : {0} \cup Rvrs, next : Nat \cup {Never}]

(* A running CPU has exactly one slice on or scheduled, and one that       *)
(* sleeps or has faulted has none: wake-ups, stale ones from an earlier    *)
(* sleep included, neither double its speed nor let it stop.               *)
Scheduled == {t \in DOMAIN runs : runs[t] > 0}
OneSlice ==
  /\ \A t \in Scheduled : runs[t] = 1 /\ t >= now
  /\ Cardinality(Scheduled) = IF slicing \/ sleeping \/ faulted THEN 0 ELSE 1

(* It never sleeps on an exception that it could take.                     *)
NoLostWakeup == sleeping => \A e \in pending : ~Injectable(cpu, e)

(* "Interrupt latency is bounded by slice_us" (docs/USAGE.md line 62): as  *)
(* long as the CPU has not faulted, awake or asleep, its SysTick interrupt *)
(* is overdue by less than a slice.                                        *)
TickLatency ==
  TickEnabled(tick) /\ tick.int /\ tick.next # Never /\ ~faulted
    => now < tick.next + SliceLen
=============================================================================
