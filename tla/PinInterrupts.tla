--------------------------- MODULE PinInterrupts ---------------------------
(***************************************************************************)
(* External interrupts and a timer of the STM32 (cpu/periph.py), and the   *)
(* slices and sleeps of its MCU that they depend on (components/mcu.py):   *)
(* a pin's net changes when the board or the scenario drives it and        *)
(* announces that by an event; a timer looks at the clock when a slice     *)
(* starts; an interrupt that pends wakes the MCU.                          *)
(***************************************************************************)
EXTENDS Integers, FiniteSets, FiniteSetsExt

CONSTANTS
  Line,      (* lines of EXTI: bit numbers *)
  Port,      (* ports that SYSCFG.EXTICR can select *)
  Wired,     (* the <<port, line>> pins that have a net on the board *)
  Period,    (* periods of the timer: (PSC + 1) * (ARR + 1) in units *)
  Slice,     (* slice_ns *)
  Horizon    (* bound: the end of the run *)

Unbound == "none"

ASSUME PinAssumption ==
  /\ Line \subseteq Nat /\ Port # {} /\ Unbound \notin Port /\ Wired \subseteq Port \X Line
  /\ Period \subseteq Nat \ {0} /\ \E longest \in Period : \A p \in Period : p <= longest
  /\ Slice \in Nat \ {0} /\ Horizon \in Nat

VARIABLES
  high,    (* the pins whose nets are high *)
  told,    (* the pins that have changed and not yet announced it *)
  exti,    (* [imr, rtsr, ftsr, pr: lines; exticr: line -> port] *)
  bound,   (* _subscribed: [line -> port or Unbound] *)
  seen,    (* _level: the lines whose last seen level is high *)
  tim,     (* [cen, uie, uif, t0, seen, period] *)
  irqs,    (* interrupts that pend in the NVIC: those of lines, and TIM2's *)
  mcu,     (* [asleep, due]: when the next slice starts, if awake *)
  alarms,  (* times at which _wake_now is scheduled *)
  now,
  rewired, (* history: lines, bound or unmasked, whose EXTICR was written *)
           (* since they were bound or, unbound, since IMR was written *)
  last     (* history: [at, longer], the last update or (re)start, and *)
           (* whether the period was lengthened since the timer was started *)

extiVars == <<high, told, exti, bound, seen, rewired>>
timVars == <<tim, last>>
mcuVars == <<irqs, mcu, alarms, now>>
pinVars == <<extiVars, timVars, mcuVars>>

Never == Horizon + 1
IrqOf(l) == IF l < 5 THEN l + 6 ELSE IF l < 10 THEN 23 ELSE 40   (* LINE_IRQ *)
TimIrq == 28
MaxPeriod == Max(Period)
-----------------------------------------------------------------------------
(* Seeded faults, used only by the mutation runs of PROJECT.json. *)
SeenUnmasked(l, level) == IF l \in exti.imr THEN level ELSE l \in seen
FromNow(t) == now + t.period
-----------------------------------------------------------------------------
PinInit ==
  /\ high = {} /\ told = {}
  /\ exti = [imr |-> {}, rtsr |-> {}, ftsr |-> {}, pr |-> {},
             exticr |-> [l \in Line |-> CHOOSE p \in Port : TRUE]]
  /\ bound = [l \in Line |-> Unbound] /\ seen = {}
  /\ tim = [cen |-> FALSE, uie |-> FALSE, uif |-> FALSE, t0 |-> 0, seen |-> 0, period |-> Min(Period)]
  /\ irqs = {} /\ mcu = [asleep |-> FALSE, due |-> 0] /\ alarms = {} /\ now = 0
  /\ rewired = {} /\ last = [at |-> 0, longer |-> FALSE]

(* CortexM.pend_irq and _wake_now: the slice follows at once. *)
Pend(ls) ==
  /\ irqs' = irqs \cup {IrqOf(l) : l \in ls}
  /\ mcu' = IF ls # {} /\ mcu.asleep THEN [asleep |-> FALSE, due |-> now] ELSE mcu

(* The board or a stimulus drives a pin's net. *)
Flip(p) ==
  /\ high' = IF p \in high THEN high \ {p} ELSE high \cup {p}
  /\ told' = told \cup {p}
  /\ UNCHANGED <<exti, bound, seen, rewired, timVars, mcuVars>>

Triggers(l, was, level) ==
  /\ l \in exti.imr /\ was # level
  /\ l \in (IF level THEN exti.rtsr ELSE exti.ftsr)

(* What the line has seen, masked or not. *)
Saw(l, level) == level

(* ExtiStm32._edge, for every line that listens to the pin. *)
Edge(p) ==
  LET ls == {l \in Line : l = p[2] /\ bound[l] = p[1]}
      fired == {l \in ls : Triggers(l, l \in seen, p \in high)}
  IN  /\ p \in told /\ told' = told \ {p}
      /\ seen' = {l \in Line : IF l \in ls THEN Saw(l, p \in high) ELSE l \in seen}
      /\ exti' = [exti EXCEPT !.pr = @ \cup fired]
      /\ Pend(fired)
      /\ UNCHANGED <<high, bound, rewired, timVars, alarms, now>>

(* Writes to IMR, and _resubscribe: a line binds once, to the pin that is  *)
(* selected then.  If that has no net the line stays as it is, and the     *)
(* next write to IMR tries again.                                          *)
SelectedPin(l) == <<exti.exticr[l], l>>
WriteImr(ls) ==
  LET free == {l \in ls : bound[l] = Unbound}
      news == {l \in free : SelectedPin(l) \in Wired}
  IN  /\ exti' = [exti EXCEPT !.imr = ls]
      /\ bound' = [l \in Line |-> IF l \in news THEN exti.exticr[l] ELSE bound[l]]
      /\ seen' = (seen \ news) \cup {l \in news : SelectedPin(l) \in high}
      /\ rewired' = rewired \ free
      /\ UNCHANGED <<high, told, timVars, mcuVars>>

(* RTSR and FTSR. *)
WriteTriggers(rising, falling) ==
  /\ exti' = [exti EXCEPT !.rtsr = rising, !.ftsr = falling]
  /\ UNCHANGED <<high, told, bound, seen, rewired, timVars, mcuVars>>

WriteExticr(l, p) ==
  /\ exti' = [exti EXCEPT !.exticr[l] = p]
  /\ rewired' = IF bound[l] # Unbound \/ l \in exti.imr THEN rewired \cup {l} ELSE rewired
  /\ UNCHANGED <<high, told, bound, seen, timVars, mcuVars>>

(* SWIER; PR, which clears what is written as 1. *)
WriteSwier(ls) ==
  /\ exti' = [exti EXCEPT !.pr = @ \cup ls]
  /\ Pend(ls)
  /\ UNCHANGED <<high, told, bound, seen, rewired, timVars, alarms, now>>
WritePr(ls) ==
  /\ exti' = [exti EXCEPT !.pr = @ \ ls]
  /\ UNCHANGED <<high, told, bound, seen, rewired, timVars, mcuVars>>

(* TimStm32.write: CR1, DIER, SR, and the period registers. *)
WriteCr1(cen) ==
  /\ tim' = IF cen /\ ~tim.cen THEN [tim EXCEPT !.cen = TRUE, !.t0 = now, !.seen = 0]
            ELSE [tim EXCEPT !.cen = cen]
  /\ last' = IF cen /\ ~tim.cen THEN [at |-> now, longer |-> FALSE] ELSE last
  /\ UNCHANGED <<extiVars, mcuVars>>
WriteDier(uie) ==
  /\ tim' = [tim EXCEPT !.uie = uie]
  /\ last' = IF uie /\ ~tim.uie THEN [last EXCEPT !.at = now] ELSE last
  /\ UNCHANGED <<extiVars, mcuVars>>
ClearUif ==
  /\ tim' = [tim EXCEPT !.uif = FALSE]
  /\ UNCHANGED <<last, extiVars, mcuVars>>
WritePeriod(p) ==
  /\ tim' = [tim EXCEPT !.period = p]
  /\ last' = IF tim.cen /\ p > tim.period THEN [last EXCEPT !.longer = TRUE] ELSE last
  /\ UNCHANGED <<extiVars, mcuVars>>

(* The handler of an interrupt is entered, and clears nothing by itself.   *)
Take(i) ==
  /\ i \in irqs /\ irqs' = irqs \ {i}
  /\ UNCHANGED <<extiVars, timVars, mcu, alarms, now>>

(* _run_slice up to the emulator: every timer advances, once. *)
Updates == (now - tim.t0) \div tim.period
StartSlice ==
  LET fires == tim.cen /\ Updates > tim.seen
  IN  /\ ~mcu.asleep /\ mcu.due = now
      /\ tim' = IF fires THEN [tim EXCEPT !.seen = Updates, !.uif = TRUE] ELSE tim
      /\ irqs' = IF fires /\ tim.uie THEN irqs \cup {TimIrq} ELSE irqs
      /\ last' = IF fires /\ tim.uie THEN [last EXCEPT !.at = now] ELSE last
      /\ UNCHANGED <<extiVars, mcu, alarms, now>>

(* TimStm32.next_event_ns *)
NextEvent(t) == t.t0 + (t.seen + 1) * t.period

(* The slice is used up, or ends with WFI: no sleep with a pending         *)
(* interrupt; else the timer, if it interrupts, has the MCU woken.         *)
EndSlice ==
  /\ mcu' = [asleep |-> FALSE, due |-> now + Slice]
  /\ UNCHANGED <<extiVars, timVars, irqs, alarms, now>>
Wfi ==
  /\ IF irqs # {} THEN mcu' = [asleep |-> FALSE, due |-> now] /\ UNCHANGED alarms
     ELSE /\ mcu' = [asleep |-> TRUE, due |-> Never]
          /\ alarms' = IF tim.cen /\ tim.uie
                       THEN alarms \cup {Max({NextEvent(tim), now})} ELSE alarms
  /\ UNCHANGED <<extiVars, timVars, irqs, now>>

(* An alarm, perhaps of an earlier sleep. *)
Alarm ==
  /\ now \in alarms /\ alarms' = alarms \ {now}
  /\ mcu' = IF mcu.asleep THEN [asleep |-> FALSE, due |-> now] ELSE mcu
  /\ UNCHANGED <<extiVars, timVars, irqs, now>>

Quiet == told = {} /\ now \notin alarms /\ (mcu.asleep \/ mcu.due > now)
Elapse ==
  /\ Quiet /\ now < Horizon
  /\ now' = now + 1
  /\ UNCHANGED <<extiVars, timVars, irqs, mcu, alarms>>

PinTypeOK ==
  /\ high \subseteq Wired /\ told \subseteq Wired
  /\ exti \in [imr : SUBSET Line, rtsr : SUBSET Line, ftsr : SUBSET Line, pr : SUBSET Line,
               exticr : [Line -> Port]]
  /\ bound \in [Line -> Port \cup {Unbound}] /\ seen \subseteq Line
  /\ tim \in [cen : BOOLEAN, uie : BOOLEAN, uif : BOOLEAN, t0 : 0 .. Horizon, seen : 0 .. Horizon,
              period : Period]
  /\ irqs \subseteq {IrqOf(l) : l \in Line} \cup {TimIrq} /\ now \in 0 .. Horizon
-----------------------------------------------------------------------------
(* An unmasked line hears the pin that EXTICR selects, if that has a net,  *)
(* and otherwise none.  EXTICR writes after a line was bound, or after the *)
(* IMR write that found no net for it, are excepted: the code looks at     *)
(* EXTICR only when IMR is written, and never again for a bound line.      *)
(* Masked or not, a bound line knows its pin's level whenever nothing is   *)
(* unannounced, so that unmasking it neither invents an edge nor swallows  *)
(* the next one.                                                           *)
LinesHear ==
  \A l \in Line :
    /\ l \in exti.imr \ rewired =>
         bound[l] = IF SelectedPin(l) \in Wired THEN exti.exticr[l] ELSE Unbound
    /\ bound[l] # Unbound /\ <<bound[l], l>> \notin told
         => (l \in seen <=> <<bound[l], l>> \in high)

(* A running timer with its interrupt enabled goes on interrupting, asleep *)
(* or awake, through disables, restarts and a shortened period: never more *)
(* than the longest period and a slice pass without one.  A lengthened     *)
(* period is excepted: the updates counted before keep it silent.          *)
UpdatesKeepComing ==
  tim.cen /\ tim.uie /\ ~last.longer => now - last.at < MaxPeriod + Slice
=============================================================================
