----------------------------- MODULE Exceptions -----------------------------
(***************************************************************************)
(* Exception entry and return of the emulated Cortex-M: the pending and    *)
(* active sets of twin/cpu/armv7m.py and the slice loop of                 *)
(* twin/cpu/unicorn_backend.py, which takes exceptions between two runs of *)
(* the instruction emulator.  The firmware is arbitrary code that leaves   *)
(* its handlers by the link value it was given; an RTOS may start tasks    *)
(* from an SVC handler and switch them in a PendSV handler.                *)
(***************************************************************************)
EXTENDS Integers, Sequences, FiniteSetsExt, SequencesExt

CONSTANTS
  Irq,          (* exception numbers of the external interrupts, from 16 on *)
  Prio,         (* [Exc -> Nat], lower is more urgent *)
  Basepris,     (* values firmware gives BASEPRI, 0 for none *)
  Task,         (* threads with a process stack *)
  Main,         (* the thread that runs after reset *)
  Budget,       (* services in one slice; 64 in the code *)
  MaxServices,  (* bound: services the firmware asks for in a slice *)
  MaxDepth      (* bound: nesting *)

SVC == 11
PENDSV == 14
SYSTICK == 15
Exc == {SVC, PENDSV, SYSTICK} \cup Irq
Pendable == Exc \ {SVC}
Thread == Task \cup {Main}
None == 0

ASSUME ExceptionsAssumption ==
  /\ Irq \subseteq {e \in Nat : e >= 16}
  /\ Prio \in [Exc -> 0 .. 255]
  /\ Basepris \subseteq 0 .. 255
  /\ Main \notin Task /\ Thread \cap Nat = {}
  /\ Budget \in Nat \ {0} /\ MaxServices \in Nat /\ MaxDepth \in Nat

VARIABLES
  enabled,   (* nvic_enabled *)
  primask, basepri,
  pending,   (* Armv7mSystem.pending *)
  active,    (* Armv7mSystem.active: (exception, priority), innermost last *)
  links,     (* the EXC_RETURN value each active handler was entered with *)
  msp,       (* the frames on the main stack: who each of them resumes *)
  frame,     (* the frame on each process stack *)
  psp,       (* the thread whose stack PSP points to *)
  spsel,     (* CONTROL bit 1 *)
  pc,        (* who runs: a thread or a handler, by its exception *)
  slicing,   (* run_slice is on *)
  left,      (* its budget *)
  reset,     (* reset_requested *)
  stale      (* the slice ended with pc at a place already serviced *)

cpuVars == <<enabled, pending, active, links, msp, frame, psp, spsel, pc>>
vars == <<primask, basepri, cpuVars, slicing, left, reset, stale>>

cpu == [enabled |-> enabled, pending |-> pending, active |-> active,
        links |-> links, msp |-> msp, frame |-> frame, psp |-> psp, spsel |-> spsel, pc |-> pc]
-----------------------------------------------------------------------------
(* Seeded faults, used only by the mutation runs of PROJECT.json. *)
TopPriority(c) == IF c.active = <<>> THEN 256 ELSE Last(c.active).pri
LowerNumber(e, f) == e < f
KeepSpsel(on) == on
KeepActive == active
-----------------------------------------------------------------------------
(* active_priority: the most urgent of all that is active. *)
ActivePriority(c) ==
  IF c.active = <<>> THEN 256
  ELSE Min({c.active[i].pri : i \in DOMAIN c.active})

Injectable(c, e) ==
  /\ e \in Irq => e \in c.enabled
  /\ ~primask
  /\ basepri # 0 => Prio[e] < basepri
  /\ Prio[e] < ActivePriority(c)

MoreUrgent(e, f) == Prio[e] < Prio[f] \/ (Prio[e] = Prio[f] /\ e < f)

(* Handlers run on the main stack. *)
SpselInHandler(on) == FALSE

(* _enter_exception: the frame goes to the stack of whoever is interrupted.*)
Enter(c, e) ==
  LET nested == c.active # <<>>
      onPsp  == ~nested /\ c.spsel
  IN  [c EXCEPT !.frame[c.psp] = IF onPsp THEN c.pc ELSE @,
                !.msp = IF onPsp THEN @ ELSE Append(@, c.pc),
                !.links = Append(@, IF nested THEN "F1" ELSE IF onPsp THEN "FD" ELSE "F9"),
                !.spsel = IF onPsp THEN SpselInHandler(@) ELSE @,
                !.pc = e,
                !.active = Append(@, [exc |-> e, pri |-> Prio[e]])]

(* _exception_return: link says which stack holds the frame. *)
Return(c) ==
  LET toPsp == Last(c.links) = "FD"
  IN  [c EXCEPT !.pc = IF toPsp THEN c.frame[c.psp] ELSE Last(c.msp),
                !.frame[c.psp] = IF toPsp THEN None ELSE @,
                !.msp = IF toPsp THEN @ ELSE Front(@),
                !.spsel = IF Last(c.links) = "F1" THEN @ ELSE toPsp,
                !.links = Front(@),
                !.active = Front(@)]

(* _maybe_inject: the best pending exception, if any may run now. *)
Inject(c) ==
  LET able == {e \in c.pending : Injectable(c, e)}
  IN  IF able = {} THEN c
      ELSE LET e == CHOOSE e \in able : \A f \in able \ {e} : MoreUrgent(e, f)
           IN  Enter([c EXCEPT !.pending = @ \ {e}], e)

Becomes(c) ==
  /\ enabled' = c.enabled /\ pending' = c.pending /\ active' = c.active /\ links' = c.links /\ msp' = c.msp
  /\ frame' = c.frame /\ psp' = c.psp /\ spsel' = c.spsel /\ pc' = c.pc
-----------------------------------------------------------------------------
Init ==
  /\ enabled = {} /\ primask = FALSE /\ basepri = 0
  /\ pending = {} /\ active = <<>> /\ links = <<>>
  /\ msp = <<>> /\ frame = [t \in Thread |-> IF t \in Task THEN t ELSE None]
  /\ psp = Main /\ spsel = FALSE /\ pc = Main
  /\ slicing = FALSE /\ left = 0
  /\ reset = FALSE /\ stale = FALSE

(* A slice begins, before which SysTick may have expired: the loop's first *)
(* pass may take an exception.                                             *)
StartSlice(ticked) ==
  /\ ~slicing /\ ~reset /\ ~stale
  /\ slicing' = TRUE
  /\ left' = Budget - 1
  /\ Becomes(Inject([cpu EXCEPT !.pending = @ \cup IF ticked THEN {SYSTICK} ELSE {}]))
  /\ UNCHANGED <<primask, basepri, reset, stale>>

(* What the reset leaves active. *)
ActiveAfterReset == <<>>

(* A requested reset takes the place of a slice: it reloads SP, the one    *)
(* that CONTROL selects, and pc; the mask registers keep their values.     *)
Reset ==
  /\ ~slicing /\ reset /\ ~stale
  /\ reset' = FALSE
  /\ pending' = {} /\ active' = ActiveAfterReset /\ links' = <<>>
  /\ msp' = IF spsel THEN msp ELSE <<>>
  /\ psp' = IF spsel THEN Main ELSE psp
  /\ frame' = [t \in Thread |-> IF t \in Task THEN t ELSE None]
  /\ pc' = Main
  /\ UNCHANGED <<enabled, primask, basepri, spsel, slicing, left, stale>>

(* The slice's instruction count is used up, or the firmware executed WFI. *)
EndSlice ==
  /\ slicing
  /\ slicing' = FALSE
  /\ left' = 0
  /\ UNCHANGED <<primask, basepri, cpuVars, reset, stale>>

(* The emulator faulted and the loop serviced the fault, leaving c.  With  *)
(* budget left the loop goes on and may take an exception; without, the    *)
(* slice ends and pc is read back from the emulator, which never heard of  *)
(* the service.  What such a program does next is not modelled.            *)
Serviced(c) ==
  IF left > 0
  THEN /\ left' = left - 1
       /\ Becomes(Inject(c))
       /\ UNCHANGED <<slicing, stale>>
  ELSE /\ left' = 0
       /\ Becomes(c)
       /\ slicing' = FALSE /\ stale' = TRUE

Services == slicing /\ Budget - left <= MaxServices

(* Stores to the NVIC and the SCB, each a fault that is serviced. *)
Store(c) ==
  /\ Services
  /\ Serviced(c)
  /\ UNCHANGED <<primask, basepri, reset>>

WriteIser(e) == Store([cpu EXCEPT !.enabled = @ \cup {e}])
WriteIcer(e) == Store([cpu EXCEPT !.enabled = @ \ {e}])
SetPending(e) == Store([cpu EXCEPT !.pending = @ \cup {e}])
ClearPending(e) == Store([cpu EXCEPT !.pending = @ \ {e}])

(* Any other access to the SCS: a load, SysTick, VTOR, priorities. *)
Access == Store(cpu)

WriteAircr ==
  /\ Services
  /\ Serviced(cpu)
  /\ reset' = TRUE
  /\ UNCHANGED <<primask, basepri>>

(* svc is taken at once, whatever runs and whatever is masked. *)
Svc ==
  /\ Services /\ Len(active) < MaxDepth
  /\ Serviced(Enter(cpu, SVC))
  /\ UNCHANGED <<primask, basepri, reset>>

LeaveHandler ==
  /\ Services /\ active # <<>>
  /\ Serviced(Return(cpu))
  /\ UNCHANGED <<primask, basepri, reset>>

(* The RTOS: in the outermost handler it moves PSP to a task that waits    *)
(* with a frame, and has the handler return to it.                         *)
Dispatch(t) ==
  /\ slicing /\ Len(active) = 1 /\ frame[t] # None
  /\ \/ pc = PENDSV /\ links = <<"FD">>
     \/ pc = SVC
  /\ psp' = t
  /\ links' = <<"FD">>
  /\ UNCHANGED <<enabled, primask, basepri, pending, active, msp, frame, spsel, pc,
                 slicing, left, reset, stale>>

(* cpsid, cpsie, msr basepri: the emulator executes them by itself. *)
Mask(p, b) ==
  /\ slicing
  /\ primask' = p /\ basepri' = b
  /\ UNCHANGED <<enabled, cpuVars, slicing, left, reset, stale>>

(* pend_irq, SysTick: from a peripheral or another event, at any time. *)
Pend(e) ==
  /\ pending' = pending \cup {e}
  /\ UNCHANGED <<enabled, primask, basepri, active, links, msp, frame, psp, spsel, pc,
                 slicing, left, reset, stale>>

(* What the firmware does in a slice. *)
Firmware ==
  \/ \E e \in Irq : WriteIser(e) \/ WriteIcer(e)
  \/ \E e \in Pendable : SetPending(e) \/ ClearPending(e)
  \/ Access
  \/ WriteAircr
  \/ Svc
  \/ LeaveHandler
  \/ \E t \in Task : Dispatch(t)
  \/ \E p \in BOOLEAN, b \in Basepris : Mask(p, b)

Next ==
  \/ \E ticked \in BOOLEAN : StartSlice(ticked)
  \/ Reset
  \/ EndSlice
  \/ Firmware
  \/ \E e \in Pendable : Pend(e)

Spec == Init /\ [][Next]_vars
-----------------------------------------------------------------------------
TypeOK ==
  /\ enabled \subseteq Irq /\ pending \subseteq Pendable
  /\ primask \in BOOLEAN /\ basepri \in Basepris \cup {0}
  /\ active \in Seq([exc : Exc, pri : 0 .. 255])
  /\ links \in Seq({"F1", "F9", "FD"}) /\ Len(links) = Len(active)
  /\ msp \in Seq(Exc \cup Thread)
  /\ frame \in [Thread -> Thread \cup {None}]
  /\ psp \in Thread /\ spsel \in BOOLEAN /\ pc \in Exc \cup Thread
  /\ slicing \in BOOLEAN /\ left \in 0 .. Budget
  /\ reset \in BOOLEAN /\ stale \in BOOLEAN

(* An exception other than SVC runs only above less urgent ones, through   *)
(* nested SVCs too, so none of them ever preempts itself.                  *)
PriorityNesting ==
  \A i, j \in DOMAIN active :
    i < j /\ active[j].exc # SVC => active[j].pri < active[i].pri

(* Whatever nests, and however tasks are switched, the frames lead back to *)
(* what each handler interrupted: the handler below it, or the thread that *)
(* owns the process stack the outermost handler will return to.            *)
Unwinds ==
  LET n == Len(active)
      Frame(i) == msp[Len(msp) - n + i]
  IN  IF n = 0 THEN pc = IF spsel THEN psp ELSE Main
      ELSE /\ pc = active[n].exc /\ ~spsel
           /\ \A i \in 2 .. n : links[i] = "F1" /\ Frame(i) = active[i - 1].exc
           /\ IF links[1] = "FD" THEN frame[psp] = psp
              ELSE links[1] = "F9" /\ Frame(1) = Main

(* When an exception is taken, nothing that could run instead is left      *)
(* waiting: the choice is the most urgent of all that is pending.          *)
MostUrgentFirst ==
  [][Len(active') > Len(active) /\ Last(active').exc # SVC
       => \A e \in pending' : ~Injectable(cpu, e)']_vars

(* "performing it against the emulated registers, and stepping the PC over *)
(* the instruction" (armv7m.py lines 9-10): a slice leaves pc behind what  *)
(* was serviced.                                                           *)
StepsOver == ~stale
=============================================================================
