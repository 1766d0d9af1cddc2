------------------------------ MODULE McuProofs ------------------------------
(***************************************************************************)
(* The exceptions of Exceptions nest by priority, are taken in the order   *)
(* of their urgency and return to what they interrupted, for every set of  *)
(* interrupts, every priority and every firmware; the slice loop McuLoop   *)
(* takes their steps, keeps one chain of slices, and neither loses a       *)
(* wake-up nor lets SysTick wait.                                          *)
(***************************************************************************)
EXTENDS McuLoop, WellFoundedInduction, SequenceTheorems, FiniteSetTheorems, TLAPS

Entry == [exc : Exc, pri : 0 .. 255]
Fields == {"enabled", "pending", "active", "links", "msp", "frame", "psp", "spsel", "pc"}

Nested(a) == \A i, j \in DOMAIN a : i < j /\ a[j].exc # SVC => a[j].pri < a[i].pri

(* What every service of the slice loop must leave behind. *)
Orderly(c) ==
  /\ DOMAIN c = Fields
  /\ c.active \in Seq(Entry) /\ c.pending \subseteq Exc
  /\ Nested(c.active)

IInv == active \in Seq(Entry) /\ pending \subseteq Exc /\ PriorityNesting
-----------------------------------------------------------------------------
(* Min is the least element of any set of naturals that has one. *)
LEMMA MinFacts ==
  ASSUME NEW S \in SUBSET Nat, S # {}
  PROVE  Min(S) \in S /\ \A y \in S : Min(S) <= y
<1>. DEFINE R == OpToRel(<, Nat)
<1>1. IsWellFoundedOn(R, Nat)
  BY NatLessThanWellFounded
<1>2. \A x, y \in Nat : y < x => <<y, x>> \in R
  BY DEF OpToRel
<1>. HIDE DEF R
<1>3. PICK x \in S : \A y \in S : ~(<<y, x>> \in R)
  BY <1>1, WFMin
<1>4. ASSUME NEW y \in S PROVE x <= y
  <2>1. x \in Nat /\ y \in Nat /\ ~(<<y, x>> \in R)
    BY <1>3
  <2>2. ~(y < x)
    BY <1>2, <2>1
  <2>. QED
    BY <2>1, <2>2
<1>. QED
  BY <1>4 DEF Min

(* Any exceptions have a most urgent one: first by priority, then by       *)
(* number.                                                                 *)
LEMMA MostUrgentExists ==
  ASSUME NEW S \in SUBSET Exc, S # {}
  PROVE  \E e \in S : \A f \in S \ {e} : MoreUrgent(e, f)
<1>1. Exc \subseteq Nat /\ \A e \in Exc : Prio[e] \in Nat
  BY ExceptionsAssumption DEF Exc, SVC, PENDSV, SYSTICK
<1>. DEFINE pris == {Prio[e] : e \in S}
            top  == {e \in S : Prio[e] = Min(pris)}
<1>2. pris \in SUBSET Nat /\ pris # {}
  BY <1>1
<1>3. Min(pris) \in pris /\ \A p \in pris : Min(pris) <= p
  BY <1>2, MinFacts
<1>4. top \in SUBSET Nat /\ top # {}
  BY <1>1, <1>3
<1>. HIDE DEF top
<1>5. Min(top) \in top /\ \A e \in top : Min(top) <= e
  BY <1>4, MinFacts
<1>6. ASSUME NEW f \in S \ {Min(top)} PROVE MoreUrgent(Min(top), f)
  <2>1. Min(top) \in S /\ Prio[Min(top)] = Min(pris) /\ Prio[f] \in pris
    BY <1>5 DEF top
  <2>2. Min(pris) <= Prio[f] /\ Prio[f] \in Nat /\ Min(pris) \in Nat
    BY <1>1, <1>2, <1>3, <2>1
  <2>3. CASE Prio[f] = Min(pris)
    <3>1. f \in top /\ Min(top) <= f /\ f # Min(top) /\ f \in Nat /\ Min(top) \in Nat
      BY <1>1, <1>4, <1>5, <2>3 DEF top
    <3>. QED
      BY <2>1, <2>3, <3>1 DEF MoreUrgent
  <2>4. CASE Prio[f] # Min(pris)
    BY <2>1, <2>2, <2>4 DEF MoreUrgent
  <2>. QED
    BY <2>3, <2>4
<1>. QED
  BY <1>5, <1>6 DEF top

LEMMA PrioritiesAreNat == \A p \in 0 .. 255 : p \in Nat
OBVIOUS

LEMMA LeastPriority ==
  ASSUME NEW a \in Seq(Entry), NEW i \in DOMAIN a
  PROVE  LET least == Min({a[k].pri : k \in DOMAIN a})
         IN  least \in Nat /\ least <= a[i].pri
<1>. DEFINE pris == {a[k].pri : k \in DOMAIN a}
<1>1. ASSUME NEW k \in DOMAIN a PROVE a[k].pri \in Nat
  <2>1. a[k] \in Entry
    OBVIOUS
  <2>2. a[k].pri \in 0 .. 255
    BY <2>1 DEF Entry
  <2>. QED
    BY <2>2, PrioritiesAreNat
<1>2. pris \subseteq Nat
  BY <1>1
<1>3. a[i].pri \in pris
  OBVIOUS
<1>. HIDE DEF pris
<1>4. Min(pris) \in pris /\ \A p \in pris : Min(pris) <= p
  BY <1>2, <1>3, MinFacts
<1>5. Min(pris) \in Nat /\ Min(pris) <= a[i].pri
  BY <1>2, <1>3, <1>4
<1>. QED
  BY <1>5 DEF pris

(* What may run is more urgent than all that is active. *)
LEMMA InjectableFacts ==
  ASSUME NEW c, c.active \in Seq(Entry), NEW e \in Exc, Injectable(c, e)
  PROVE  \A i \in DOMAIN c.active : Prio[e] < c.active[i].pri
<1>. SUFFICES ASSUME NEW i \in DOMAIN c.active PROVE Prio[e] < c.active[i].pri
  OBVIOUS
<1>. DEFINE least == Min({c.active[k].pri : k \in DOMAIN c.active})
<1>1. Prio[e] < least
  BY DEF Injectable, ActivePriority
<1>2. least \in Nat /\ least <= c.active[i].pri
  BY LeastPriority
<1>3. Prio[e] \in Nat /\ c.active[i].pri \in Nat
  <2>1. c.active[i] \in Entry
    OBVIOUS
  <2>2. c.active[i].pri \in 0 .. 255 /\ Prio[e] \in 0 .. 255
    BY <2>1, ExceptionsAssumption DEF Entry
  <2>. QED
    BY <2>2, PrioritiesAreNat
<1>. HIDE DEF least
<1>. QED
  BY <1>1, <1>2, <1>3

LEMMA AppendNests ==
  ASSUME NEW a \in Seq(Entry), Nested(a), NEW x \in Entry,
         x.exc # SVC => \A i \in DOMAIN a : x.pri < a[i].pri
  PROVE  Append(a, x) \in Seq(Entry) /\ Nested(Append(a, x))
<1>. DEFINE b == Append(a, x)
<1>1. b \in Seq(Entry) /\ Len(b) = Len(a) + 1 /\ b[Len(a) + 1] = x
  BY AppendProperties
<1>2. \A i \in 1 .. Len(a) : b[i] = a[i]
  BY AppendProperties
<1>3. ASSUME NEW i \in DOMAIN b, NEW j \in DOMAIN b, i < j, b[j].exc # SVC
      PROVE  b[j].pri < b[i].pri
  <2>1. i \in 1 .. Len(a) /\ (j \in 1 .. Len(a) \/ j = Len(a) + 1)
    BY <1>1, <1>3
  <2>2. CASE j \in 1 .. Len(a)
    BY <2>1, <2>2, <1>2, <1>3 DEF Nested
  <2>3. CASE j = Len(a) + 1
    BY <2>1, <2>3, <1>1, <1>2, <1>3
  <2>. QED
    BY <2>1, <2>2, <2>3
<1>. QED
  BY <1>1, <1>3 DEF Nested

LEMMA FrontNests ==
  ASSUME NEW a \in Seq(Entry), a # <<>>, Nested(a)
  PROVE  Front(a) \in Seq(Entry) /\ Nested(Front(a))
<1>. DEFINE b == Front(a)
<1>1. /\ b \in Seq(Entry) /\ Len(b) = Len(a) - 1
      /\ \A i \in 1 .. Len(b) : b[i] = a[i]
  <2>. DEFINE n == Len(a) - 1
  <2>1. n \in Nat /\ Len(a) \in Nat /\ \A i \in 1 .. n : a[i] \in Entry
    <3>1. Len(a) \in Nat /\ Len(a) # 0
      OBVIOUS
    <3>. QED
      BY <3>1
  <2>2. b = SubSeq(a, 1, n)
    BY DEF Front
  <2>. HIDE DEF b, n
  <2>3. /\ b \in Seq(Entry)
        /\ Len(b) = IF 1 <= n THEN n - 1 + 1 ELSE 0
        /\ \A i \in 1 .. n - 1 + 1 : b[i] = a[1 + i - 1]
    BY <2>1, <2>2, SubSeqProperties
  <2>4. Len(b) = n /\ n - 1 + 1 = n /\ \A i \in 1 .. n : 1 + i - 1 = i
    BY <2>1, <2>3
  <2>. QED
    BY <2>3, <2>4 DEF n
<1>2. DOMAIN b = 1 .. Len(b) /\ DOMAIN b \subseteq DOMAIN a
  BY <1>1
<1>. QED
  BY <1>1, <1>2 DEF Nested
-----------------------------------------------------------------------------
LEMMA EnterOrderly ==
  ASSUME NEW c, Orderly(c), NEW e \in Exc,
         e # SVC => \A i \in DOMAIN c.active : Prio[e] < c.active[i].pri
  PROVE  Orderly(Enter(c, e))
<1>. DEFINE x == [exc |-> e, pri |-> Prio[e]]
            d == Enter(c, e)
<1>1. DOMAIN d = Fields /\ d.active = Append(c.active, x) /\ d.pending = c.pending
  BY DEF Enter, Orderly, Fields
<1>2. x \in Entry
  BY ExceptionsAssumption DEF Entry
<1>3. Append(c.active, x) \in Seq(Entry) /\ Nested(Append(c.active, x))
  BY <1>2, AppendNests DEF Orderly
<1>. QED
  BY <1>1, <1>3 DEF Orderly

LEMMA ReturnOrderly ==
  ASSUME NEW c, Orderly(c), c.active # <<>>
  PROVE  Orderly(Return(c))
<1>1. /\ DOMAIN Return(c) = Fields /\ Return(c).active = Front(c.active)
      /\ Return(c).pending = c.pending
  BY DEF Return, Orderly, Fields
<1>. QED
  BY <1>1, FrontNests DEF Orderly

(* Injecting the most urgent pending exception keeps the order. *)
LEMMA InjectOrderly ==
  ASSUME NEW c, Orderly(c)
  PROVE  Orderly(Inject(c))
<1>. DEFINE able == {e \in c.pending : Injectable(c, e)}
            e == CHOOSE e \in able : \A f \in able \ {e} : MoreUrgent(e, f)
            d == [c EXCEPT !.pending = @ \ {e}]
<1>1. CASE able = {}
  BY <1>1 DEF Inject
<1>2. CASE able # {}
  <2>0. e \in able
    BY <1>2, MostUrgentExists DEF Orderly
  <2>1. e \in Exc /\ Injectable(c, e)
    BY <2>0 DEF Orderly
  <2>. HIDE DEF e
  <2>2. \A i \in DOMAIN c.active : Prio[e] < c.active[i].pri
    BY <2>1, InjectableFacts DEF Orderly
  <2>3. Orderly(d) /\ d.active = c.active
    BY DEF Orderly, Fields
  <2>4. Orderly(Enter(d, e))
    BY <2>1, <2>2, <2>3, EnterOrderly
  <2>. QED
    BY <1>2, <2>4 DEF Inject, e
<1>. QED
  BY <1>1, <1>2
-----------------------------------------------------------------------------
LEMMA CpuOrderly == IInv => Orderly(cpu)
BY DEF IInv, Orderly, PriorityNesting, Nested, cpu, Fields

LEMMA BecomesOrderly ==
  ASSUME NEW c, Orderly(c), Becomes(c)
  PROVE  IInv'
BY DEF Becomes, Orderly, IInv, PriorityNesting, Nested

(* A service leaves order, whether the budget lets the loop go on or not.  *)
LEMMA ServicedOrderly ==
  ASSUME NEW c, Orderly(c), Serviced(c)
  PROVE  IInv'
<1>1. CASE left > 0
  BY <1>1, InjectOrderly, BecomesOrderly DEF Serviced
<1>2. CASE ~(left > 0)
  BY <1>2, BecomesOrderly DEF Serviced
<1>. QED
  BY <1>1, <1>2

(* Setting and clearing enable and pending bits. *)
LEMMA BitsOrderly ==
  ASSUME IInv, NEW S, NEW P \in SUBSET Exc
  PROVE  /\ Orderly([cpu EXCEPT !.enabled = S])
         /\ Orderly([cpu EXCEPT !.pending = P])
BY CpuOrderly DEF Orderly, cpu, Fields

LEMMA InitIInv == Init => IInv
BY DEF Init, IInv, PriorityNesting

LEMMA StepIInv == IInv /\ [Next]_vars => IInv'
<1>. SUFFICES ASSUME IInv, [Next]_vars PROVE IInv'
  OBVIOUS
<1>0. /\ Orderly(cpu) /\ cpu.pending = pending /\ cpu.enabled = enabled
      /\ cpu.active = active /\ pending \subseteq Exc
  BY CpuOrderly DEF cpu, IInv
<1>p. Pendable \subseteq Exc /\ SVC \in Exc /\ SYSTICK \in Exc
  BY DEF Pendable, Exc
<1>1. ASSUME NEW ticked \in BOOLEAN, StartSlice(ticked) PROVE IInv'
  <2>. DEFINE P == pending \cup IF ticked THEN {SYSTICK} ELSE {}
  <2>1. Becomes(Inject([cpu EXCEPT !.pending = P]))
    BY <1>1, <1>0 DEF StartSlice
  <2>2. P \in SUBSET Exc
    BY <1>0, <1>p
  <2>. QED
    BY <2>1, <2>2, BitsOrderly, InjectOrderly, BecomesOrderly
<1>2. CASE Reset
  BY <1>2 DEF Reset, ActiveAfterReset, IInv, PriorityNesting
<1>3. CASE EndSlice
  BY <1>3 DEF EndSlice, cpuVars, IInv, PriorityNesting
<1>4. ASSUME NEW e \in Irq, WriteIser(e) \/ WriteIcer(e) PROVE IInv'
  <2>1. \/ Serviced([cpu EXCEPT !.enabled = enabled \cup {e}])
        \/ Serviced([cpu EXCEPT !.enabled = enabled \ {e}])
    BY <1>4, <1>0 DEF WriteIser, WriteIcer, Store
  <2>. QED
    BY <2>1, BitsOrderly, ServicedOrderly
<1>5. ASSUME NEW e \in Pendable, SetPending(e) \/ ClearPending(e) PROVE IInv'
  <2>1. \/ Serviced([cpu EXCEPT !.pending = pending \cup {e}])
        \/ Serviced([cpu EXCEPT !.pending = pending \ {e}])
    BY <1>5, <1>0 DEF SetPending, ClearPending, Store
  <2>2. pending \cup {e} \in SUBSET Exc /\ pending \ {e} \in SUBSET Exc
    BY <1>0, <1>p
  <2>. QED
    BY <2>1, <2>2, BitsOrderly, ServicedOrderly
<1>6. ASSUME NEW e \in Pendable, Pend(e) PROVE IInv'
  BY <1>6, <1>p DEF Pend, IInv, PriorityNesting
<1>7. CASE Access \/ WriteAircr
  BY <1>7, <1>0, ServicedOrderly DEF Access, Store, WriteAircr
<1>8. CASE Svc
  BY <1>8, <1>0, <1>p, EnterOrderly, ServicedOrderly DEF Svc
<1>9. CASE LeaveHandler
  BY <1>9, <1>0, ReturnOrderly, ServicedOrderly DEF LeaveHandler
<1>10. ASSUME NEW t \in Task, Dispatch(t) PROVE IInv'
  BY <1>10 DEF Dispatch, IInv, PriorityNesting
<1>11. ASSUME NEW p \in BOOLEAN, NEW b \in Basepris, Mask(p, b) PROVE IInv'
  BY <1>11 DEF Mask, cpuVars, IInv, PriorityNesting
<1>12. CASE UNCHANGED vars
  BY <1>12 DEF vars, cpuVars, IInv, PriorityNesting
<1>. QED
  BY <1>1, <1>2, <1>3, <1>4, <1>5, <1>6, <1>7, <1>8, <1>9, <1>10, <1>11, <1>12 DEF Next, Firmware

(* _injectable and _maybe_inject keep the active exceptions nested by      *)
(* priority, whatever SVCs, task switches, resets and bit flips the        *)
(* firmware puts between them: none but SVC ever preempts its equal.       *)
THEOREM ExceptionsNestByPriority == Spec => []PriorityNesting
<1>1. IInv => PriorityNesting
  BY DEF IInv
<1>. QED
  BY <1>1, InitIInv, StepIInv, PTL DEF Spec
-----------------------------------------------------------------------------
(* The stacks: every frame is its own thread's, a handler nested in another *)
(* returns to it from the main stack, and the outermost one returns to the *)
(* thread whose process stack PSP selects, or to Main.  A handler that was *)
(* sent to a task leaves Main's frame behind on the main stack.            *)
CpuState ==
  [enabled : SUBSET Irq, pending : SUBSET Pendable, active : Seq(Entry),
   links : Seq({"F1", "F9", "FD"}), msp : Seq(Exc \cup Thread),
   frame : [Thread -> Thread \cup {None}], psp : Thread, spsel : BOOLEAN,
   pc : Exc \cup Thread]

Nests(c, n) ==
  \A i \in 2 .. n : c.links[i] = "F1" /\ c.msp[Len(c.msp) - n + i] = c.active[i - 1].exc

Outermost(c, n) ==
  \/ c.links[1] = "FD" /\ c.frame[c.psp] = c.psp /\ Len(c.msp) >= n - 1
  \/ c.links[1] = "F9" /\ Len(c.msp) >= n /\ c.msp[Len(c.msp) - n + 1] = Main

Stacked(c) ==
  /\ c \in CpuState /\ Len(c.links) = Len(c.active)
  /\ \A t \in Thread : c.frame[t] \in {t, None}
  /\ c.active = <<>> => c.pc = IF c.spsel THEN c.psp ELSE Main
  /\ c.active # <<>> => /\ c.pc = c.active[Len(c.active)].exc /\ ~c.spsel
                        /\ Nests(c, Len(c.active)) /\ Outermost(c, Len(c.active))

Flags ==
  /\ primask \in BOOLEAN /\ basepri \in Basepris \cup {0}
  /\ slicing \in BOOLEAN /\ left \in 0 .. Budget /\ reset \in BOOLEAN /\ stale \in BOOLEAN

SInv == Stacked(cpu) /\ Flags
-----------------------------------------------------------------------------
LEMMA ThreadFacts == Main \in Thread /\ None \notin Thread /\ Thread \cap Exc = {}
<1>1. Exc \subseteq Nat /\ None \in Nat
  BY ExceptionsAssumption DEF Exc, SVC, PENDSV, SYSTICK, None
<1>. QED
  BY <1>1, ExceptionsAssumption DEF Thread

LEMMA EmptyHasNoLength ==
  ASSUME NEW S, NEW s \in Seq(S)
  PROVE  s = <<>> <=> Len(s) = 0
OBVIOUS

LEMMA AppendFacts ==
  ASSUME NEW S, NEW s \in Seq(S), NEW x \in S
  PROVE  /\ Append(s, x) \in Seq(S) /\ Len(Append(s, x)) = Len(s) + 1 /\ Append(s, x) # <<>>
         /\ Append(s, x)[Len(s) + 1] = x /\ \A i \in 1 .. Len(s) : Append(s, x)[i] = s[i]
<1>1. /\ Append(s, x) \in Seq(S) /\ Len(Append(s, x)) = Len(s) + 1
      /\ Append(s, x)[Len(s) + 1] = x /\ \A i \in 1 .. Len(s) : Append(s, x)[i] = s[i]
  BY AppendProperties
<1>. QED
  BY <1>1, EmptyHasNoLength

LEMMA FrontFacts ==
  ASSUME NEW S, NEW s \in Seq(S), Len(s) > 0
  PROVE  /\ Front(s) \in Seq(S) /\ Len(Front(s)) = Len(s) - 1 /\ Last(s) = s[Len(s)]
         /\ \A i \in 1 .. Len(s) - 1 : Front(s)[i] = s[i]
<1>. DEFINE n == Len(s) - 1
            b == Front(s)
<1>1. n \in Nat /\ \A i \in 1 .. n : s[i] \in S
  OBVIOUS
<1>2. b = SubSeq(s, 1, n)
  BY DEF Front
<1>. HIDE DEF b, n
<1>3. /\ b \in Seq(S)
      /\ Len(b) = IF 1 <= n THEN n - 1 + 1 ELSE 0
      /\ \A i \in 1 .. n - 1 + 1 : b[i] = s[1 + i - 1]
  BY <1>1, <1>2, SubSeqProperties
<1>4. Len(b) = n /\ n - 1 + 1 = n /\ \A i \in 1 .. n : 1 + i - 1 = i
  BY <1>1, <1>3
<1>. QED
  BY <1>3, <1>4 DEF b, n, Last

(* Entry field by field. *)
LEMMA EnterFields ==
  ASSUME NEW c \in CpuState, NEW e \in Exc, NEW onPsp, onPsp = (c.active = <<>> /\ c.spsel)
  PROVE  LET d == Enter(c, e)
         IN  /\ d.enabled = c.enabled /\ d.pending = c.pending /\ d.psp = c.psp /\ d.pc = e
             /\ d.active = Append(c.active, [exc |-> e, pri |-> Prio[e]])
             /\ d.frame = [c.frame EXCEPT ![c.psp] = IF onPsp THEN c.pc ELSE @]
             /\ d.msp = IF onPsp THEN c.msp ELSE Append(c.msp, c.pc)
             /\ d.links = Append(c.links, IF c.active # <<>> THEN "F1" ELSE IF onPsp THEN "FD" ELSE "F9")
             /\ d.spsel = IF onPsp THEN FALSE ELSE c.spsel
             /\ DOMAIN d = Fields
BY DEF Enter, CpuState, SpselInHandler, Fields

LEMMA StackedNat ==
  ASSUME NEW c, Stacked(c)
  PROVE  /\ Len(c.active) \in Nat /\ Len(c.msp) \in Nat /\ Len(c.links) = Len(c.active)
         /\ c.active = <<>> <=> Len(c.active) = 0
BY DEF Stacked, CpuState

(* A state with its fields replaced one by one is a state. *)
LEMMA ExceptIsState ==
  ASSUME NEW c \in CpuState, NEW d, DOMAIN d = Fields, d = [f \in Fields |-> d[f]],
         d.enabled \in SUBSET Irq, d.pending \in SUBSET Pendable, d.active \in Seq(Entry),
         d.links \in Seq({"F1", "F9", "FD"}), d.msp \in Seq(Exc \cup Thread),
         d.frame \in [Thread -> Thread \cup {None}], d.psp \in Thread, d.spsel \in BOOLEAN,
         d.pc \in Exc \cup Thread
  PROVE  d \in CpuState
<1>1. d = [enabled |-> d.enabled, pending |-> d.pending, active |-> d.active, links |-> d.links,
           msp |-> d.msp, frame |-> d.frame, psp |-> d.psp, spsel |-> d.spsel, pc |-> d.pc]
  BY DEF Fields
<1>. QED
  BY <1>1 DEF CpuState

LEMMA EnterIsState ==
  ASSUME NEW c \in CpuState, NEW e
  PROVE  Enter(c, e) = [f \in Fields |-> Enter(c, e)[f]]
BY DEF Enter, CpuState, Fields

(* Places counted from the top of a stack. *)
LEMMA TopOfStack ==
  ASSUME NEW m \in Nat, NEW n \in Nat
  PROVE  (m + 1) - (n + 1) + (n + 1) = m + 1 /\ (n + 1) - 1 = n
OBVIOUS

LEMMA EnterStacked ==
  ASSUME NEW c, Stacked(c), NEW e \in Exc
  PROVE  Stacked(Enter(c, e))
<1>. DEFINE d == Enter(c, e)
            x == [exc |-> e, pri |-> Prio[e]]
            n == Len(c.active)
            onPsp == c.active = <<>> /\ c.spsel
            link == IF c.active # <<>> THEN "F1" ELSE IF onPsp THEN "FD" ELSE "F9"
<1>1. /\ c \in CpuState /\ x \in Entry /\ link \in {"F1", "F9", "FD"}
      /\ n \in Nat /\ Len(c.msp) \in Nat /\ Len(c.links) = n /\ (c.active = <<>> <=> n = 0)
  BY StackedNat, ExceptionsAssumption DEF Entry, Stacked
<1>2. /\ d.enabled = c.enabled /\ d.pending = c.pending /\ d.psp = c.psp /\ d.pc = e
      /\ d.active = Append(c.active, x)
      /\ d.frame = [c.frame EXCEPT ![c.psp] = IF onPsp THEN c.pc ELSE @]
      /\ d.msp = IF onPsp THEN c.msp ELSE Append(c.msp, c.pc)
      /\ d.links = Append(c.links, link)
      /\ d.spsel = IF onPsp THEN FALSE ELSE c.spsel
      /\ DOMAIN d = Fields
  BY <1>1, EnterFields
<1>. HIDE DEF d, x, link
<1>3. /\ d.active \in Seq(Entry) /\ Len(d.active) = n + 1 /\ d.active # <<>> /\ d.active[n + 1] = x
      /\ \A i \in 1 .. n : d.active[i] = c.active[i]
  BY <1>1, <1>2, AppendFacts DEF CpuState
<1>4. /\ d.links \in Seq({"F1", "F9", "FD"}) /\ Len(d.links) = n + 1 /\ d.links[n + 1] = link
      /\ \A i \in 1 .. n : d.links[i] = c.links[i]
  BY <1>1, <1>2, AppendFacts DEF CpuState
<1>5. /\ d.msp \in Seq(Exc \cup Thread)
      /\ onPsp => d.msp = c.msp
      /\ ~onPsp => /\ Len(d.msp) = Len(c.msp) + 1 /\ d.msp[Len(c.msp) + 1] = c.pc
                   /\ \A i \in 1 .. Len(c.msp) : d.msp[i] = c.msp[i]
  <2>1. c.msp \in Seq(Exc \cup Thread) /\ c.pc \in Exc \cup Thread
    BY <1>1 DEF CpuState
  <2>2. CASE onPsp
    BY <1>2, <2>1, <2>2
  <2>3. CASE ~onPsp
    BY <1>2, <2>1, <2>3, AppendFacts
  <2>. QED
    BY <2>2, <2>3
<1>6. /\ d.frame \in [Thread -> Thread \cup {None}] /\ \A t \in Thread : d.frame[t] \in {t, None}
      /\ onPsp => d.frame[c.psp] = c.psp
      /\ ~onPsp => d.frame = c.frame
  <2>1. /\ c.frame \in [Thread -> Thread \cup {None}] /\ c.psp \in Thread
        /\ \A t \in Thread : c.frame[t] \in {t, None}
    BY <1>1 DEF CpuState, Stacked
  <2>2. CASE onPsp
    <3>1. c.pc = c.psp
      BY <2>2 DEF Stacked
    <3>. QED
      BY <1>2, <2>1, <2>2, <3>1
  <2>3. CASE ~onPsp
    BY <1>2, <2>1, <2>3
  <2>. QED
    BY <2>2, <2>3
<1>7. ~d.spsel
  BY <1>2 DEF Stacked
<1>8. d.active[n + 1].exc = e
  BY <1>3 DEF x
<1>9. Nests(d, n + 1)
  <2>. SUFFICES ASSUME NEW i \in 2 .. n + 1
                PROVE  d.links[i] = "F1" /\ d.msp[Len(d.msp) - (n + 1) + i] = d.active[i - 1].exc
    BY DEF Nests
  <2>1. n \in Nat /\ n >= 1 /\ i - 1 \in 1 .. n /\ ~onPsp /\ c.active # <<>>
    BY <1>1
  <2>2. /\ c.pc = c.active[n].exc /\ Nests(c, n) /\ Outermost(c, n)
    BY <2>1 DEF Stacked
  <2>3. Len(c.msp) >= n - 1 /\ Len(d.msp) = Len(c.msp) + 1
    <3>1. Len(c.msp) >= n - 1 \/ Len(c.msp) >= n
      BY <2>2 DEF Outermost
    <3>2. Len(d.msp) = Len(c.msp) + 1
      BY <1>5, <2>1
    <3>. HIDE DEF n
    <3>. QED
      BY <1>1, <3>1, <3>2
  <2>4. CASE i = n + 1
    <3>1. link = "F1"
      BY <2>1 DEF link
    <3>2. Len(d.msp) - (n + 1) + i = Len(c.msp) + 1 /\ i - 1 = n
      <4>1. Len(d.msp) - (n + 1) + i = (Len(c.msp) + 1) - (n + 1) + (n + 1) /\ i - 1 = (n + 1) - 1
        BY <2>3, <2>4
      <4>2. Len(c.msp) \in Nat /\ n \in Nat
        BY <1>1
      <4>. HIDE DEF n
      <4>3. (Len(c.msp) + 1) - (n + 1) + (n + 1) = Len(c.msp) + 1 /\ (n + 1) - 1 = n
        BY <4>2, TopOfStack
      <4>. QED
        BY <4>1, <4>3
    <3>. QED
      BY <1>3, <1>4, <1>5, <2>1, <2>2, <2>4, <3>1, <3>2
  <2>5. CASE i # n + 1
    <3>1. i \in 2 .. n /\ i \in 1 .. n
      BY <2>1, <2>5
    <3>2. c.links[i] = "F1" /\ c.msp[Len(c.msp) - n + i] = c.active[i - 1].exc
      BY <2>2, <3>1 DEF Nests
    <3>3. Len(d.msp) - (n + 1) + i = Len(c.msp) - n + i /\ Len(c.msp) - n + i \in 1 .. Len(c.msp)
      <4>. HIDE DEF n
      <4>. QED
        BY <1>1, <2>3, <3>1
    <3>. QED
      BY <1>3, <1>4, <1>5, <2>1, <3>1, <3>2, <3>3
  <2>. QED
    BY <2>4, <2>5
<1>10. Outermost(d, n + 1)
  <2>1. CASE n = 0
    <3>1. CASE onPsp
      <4>1. d.links[1] = "FD" /\ d.frame[d.psp] = d.psp /\ Len(d.msp) >= 0
        BY <1>1, <1>2, <1>4, <1>5, <1>6, <2>1, <3>1 DEF link
      <4>. QED
        BY <2>1, <4>1 DEF Outermost
    <3>2. CASE ~onPsp
      <4>1. d.links[1] = "F9" /\ c.pc = Main
        BY <1>1, <1>4, <2>1, <3>2 DEF link, Stacked
      <4>2. Len(d.msp) >= 1 /\ d.msp[Len(d.msp)] = Main /\ Len(d.msp) - (n + 1) + 1 = Len(d.msp)
        BY <1>1, <1>5, <2>1, <3>2, <4>1
      <4>. QED
        BY <2>1, <4>1, <4>2 DEF Outermost
    <3>. QED
      BY <3>1, <3>2
  <2>2. CASE n # 0
    <3>1. n >= 1 /\ 1 \in 1 .. n /\ ~onPsp /\ Outermost(c, n)
      BY <1>1, <2>2 DEF Stacked
    <3>2. d.links[1] = c.links[1] /\ d.frame = c.frame /\ d.psp = c.psp /\ Len(d.msp) = Len(c.msp) + 1
      BY <1>2, <1>4, <1>5, <1>6, <3>1
    <3>3. CASE c.links[1] = "FD" /\ c.frame[c.psp] = c.psp /\ Len(c.msp) >= n - 1
      BY <1>1, <3>1, <3>2, <3>3 DEF Outermost
    <3>4. CASE c.links[1] = "F9" /\ Len(c.msp) >= n /\ c.msp[Len(c.msp) - n + 1] = Main
      <4>1. /\ Len(c.msp) - n + 1 \in 1 .. Len(c.msp)
            /\ Len(d.msp) - (n + 1) + 1 = Len(c.msp) - n + 1 /\ Len(d.msp) >= n + 1
        <5>1. Len(c.msp) >= n /\ n >= 1 /\ Len(d.msp) = Len(c.msp) + 1
          BY <3>1, <3>2, <3>4
        <5>. HIDE DEF n
        <5>. QED
          BY <1>1, <5>1
      <4>. QED
        BY <1>5, <3>1, <3>2, <3>4, <4>1 DEF Outermost
    <3>. QED
      BY <3>1, <3>3, <3>4 DEF Outermost
  <2>. QED
    BY <2>1, <2>2
<1>11. d \in CpuState
  <2>1. d = [f \in Fields |-> d[f]]
    BY <1>1, EnterIsState DEF d
  <2>2. /\ d.enabled \in SUBSET Irq /\ d.pending \in SUBSET Pendable /\ d.psp \in Thread
        /\ d.spsel \in BOOLEAN /\ d.pc \in Exc \cup Thread
    BY <1>1, <1>2 DEF CpuState
  <2>. QED
    BY <1>1, <1>2, <1>3, <1>4, <1>5, <1>6, <2>1, <2>2, ExceptIsState
<1>. QED
  BY <1>2, <1>3, <1>4, <1>6, <1>7, <1>8, <1>9, <1>10, <1>11 DEF Stacked, d

LEMMA ReturnIsState ==
  ASSUME NEW c \in CpuState
  PROVE  /\ Return(c) = [f \in Fields |-> Return(c)[f]] /\ DOMAIN Return(c) = Fields
         /\ Return(c).enabled = c.enabled /\ Return(c).pending = c.pending /\ Return(c).psp = c.psp
         /\ Return(c).active = Front(c.active) /\ Return(c).links = Front(c.links)
BY DEF Return, CpuState, Fields

LEMMA ReturnStacked ==
  ASSUME NEW c, Stacked(c), c.active # <<>>
  PROVE  Stacked(Return(c))
<1>. DEFINE d == Return(c)
            n == Len(c.active)
            toPsp == Last(c.links) = "FD"
<1>1. /\ c \in CpuState /\ n \in Nat /\ n > 0 /\ Len(c.msp) \in Nat /\ Len(c.links) = n
      /\ Nests(c, n) /\ Outermost(c, n)
  BY StackedNat DEF Stacked
<1>2. /\ d = [f \in Fields |-> d[f]] /\ DOMAIN d = Fields
      /\ d.enabled = c.enabled /\ d.pending = c.pending /\ d.psp = c.psp
      /\ d.active = Front(c.active) /\ d.links = Front(c.links)
  BY <1>1, ReturnIsState
<1>3. /\ d.pc = IF toPsp THEN c.frame[c.psp] ELSE Last(c.msp)
      /\ d.frame = [c.frame EXCEPT ![c.psp] = IF toPsp THEN None ELSE @]
      /\ d.msp = IF toPsp THEN c.msp ELSE Front(c.msp)
      /\ d.spsel = IF Last(c.links) = "F1" THEN c.spsel ELSE toPsp
  BY <1>1 DEF Return, CpuState
<1>4. /\ c.active \in Seq(Entry) /\ c.links \in Seq({"F1", "F9", "FD"}) /\ c.msp \in Seq(Exc \cup Thread)
      /\ c.frame \in [Thread -> Thread \cup {None}] /\ c.psp \in Thread
      /\ \A t \in Thread : c.frame[t] \in {t, None}
      /\ ~c.spsel
  BY <1>1 DEF CpuState, Stacked
<1>. HIDE DEF d
<1>5. /\ d.active \in Seq(Entry) /\ Len(d.active) = n - 1 /\ \A i \in 1 .. n - 1 : d.active[i] = c.active[i]
      /\ d.links \in Seq({"F1", "F9", "FD"}) /\ Len(d.links) = n - 1
      /\ Last(c.links) = c.links[n] /\ \A i \in 1 .. n - 1 : d.links[i] = c.links[i]
  <2>1. Len(c.active) > 0 /\ Len(c.links) > 0
    BY <1>1
  <2>2. /\ d.active \in Seq(Entry) /\ Len(d.active) = Len(c.active) - 1
        /\ \A i \in 1 .. Len(c.active) - 1 : d.active[i] = c.active[i]
    BY <1>2, <1>4, <2>1, FrontFacts
  <2>3. /\ d.links \in Seq({"F1", "F9", "FD"}) /\ Len(d.links) = Len(c.links) - 1
        /\ Last(c.links) = c.links[Len(c.links)]
        /\ \A i \in 1 .. Len(c.links) - 1 : d.links[i] = c.links[i]
    BY <1>2, <1>4, <2>1, FrontFacts
  <2>. QED
    BY <1>1, <2>2, <2>3
<1>6. /\ d.frame \in [Thread -> Thread \cup {None}] /\ \A t \in Thread : d.frame[t] \in {t, None}
      /\ ~toPsp => d.frame = c.frame
  BY <1>3, <1>4
<1>7. d.active = <<>> <=> n = 1
  <2>1. d.active = <<>> <=> Len(d.active) = 0
    BY <1>5, EmptyHasNoLength
  <2>2. n - 1 = 0 <=> n = 1
    <3>. HIDE DEF n
    <3>. QED
      BY <1>1
  <2>. QED
    BY <1>5, <2>1, <2>2
<1>8. CASE n = 1
  <2>1. d.active = <<>> /\ Last(c.links) = c.links[1]
    BY <1>5, <1>7, <1>8
  <2>2. CASE c.links[1] = "FD" /\ c.frame[c.psp] = c.psp
    <3>1. toPsp /\ d.pc = c.psp /\ d.msp = c.msp /\ d.spsel = TRUE
      BY <1>3, <2>1, <2>2
    <3>2. d.spsel \in BOOLEAN /\ d.pc \in Exc \cup Thread /\ d.pc = IF d.spsel THEN d.psp ELSE Main
      BY <1>2, <1>4, <3>1
    <3>3. d \in CpuState
      BY <1>1, <1>2, <1>4, <1>5, <1>6, <3>1, <3>2, ExceptIsState DEF CpuState
    <3>. QED
      BY <1>5, <1>6, <2>1, <3>2, <3>3 DEF Stacked, d
  <2>3. CASE c.links[1] = "F9" /\ Len(c.msp) >= 1 /\ c.msp[Len(c.msp) - 1 + 1] = Main
    <3>1. ~toPsp /\ Last(c.links) # "F1"
      BY <2>1, <2>3
    <3>2. /\ Front(c.msp) \in Seq(Exc \cup Thread) /\ Last(c.msp) = c.msp[Len(c.msp)]
          /\ Len(c.msp) - 1 + 1 = Len(c.msp)
      <4>1. Len(c.msp) > 0 /\ Len(c.msp) - 1 + 1 = Len(c.msp)
        BY <1>1, <2>3
      <4>. QED
        BY <1>4, <4>1, FrontFacts
    <3>3. d.pc = Main /\ d.msp \in Seq(Exc \cup Thread) /\ d.spsel = FALSE
      BY <1>3, <2>3, <3>1, <3>2
    <3>4. d.spsel \in BOOLEAN /\ d.pc \in Exc \cup Thread /\ d.pc = IF d.spsel THEN d.psp ELSE Main
      BY <3>3, ThreadFacts
    <3>5. d \in CpuState
      BY <1>1, <1>2, <1>4, <1>5, <1>6, <3>3, <3>4, ExceptIsState DEF CpuState
    <3>. QED
      BY <1>5, <1>6, <2>1, <3>4, <3>5 DEF Stacked, d
  <2>. QED
    BY <1>1, <1>8, <2>2, <2>3 DEF Outermost
<1>9. CASE n # 1
  <2>1. n >= 2 /\ n \in 2 .. n /\ 1 \in 1 .. n - 1 /\ n - 1 \in 1 .. n - 1 /\ d.active # <<>>
    <3>1. n >= 2 /\ n \in 2 .. n /\ 1 \in 1 .. n - 1 /\ n - 1 \in 1 .. n - 1
      <4>. HIDE DEF n
      <4>. QED
        BY <1>1, <1>9
    <3>. QED
      BY <1>7, <1>9, <3>1
  <2>2. c.links[n] = "F1" /\ c.msp[Len(c.msp) - n + n] = c.active[n - 1].exc
    BY <1>1, <2>1 DEF Nests
  <2>3. Len(c.msp) >= n - 1 \/ Len(c.msp) >= n
    BY <1>1 DEF Outermost
  <2>4. Len(c.msp) > 0 /\ Len(c.msp) - n + n = Len(c.msp) /\ Len(c.msp) >= n - 1
    <3>. HIDE DEF n
    <3>. QED
      BY <1>1, <2>1, <2>3
  <2>5. ~toPsp /\ Last(c.links) = "F1"
    BY <1>5, <2>2
  <2>6. /\ d.msp \in Seq(Exc \cup Thread) /\ Len(d.msp) = Len(c.msp) - 1
        /\ \A i \in 1 .. Len(c.msp) - 1 : d.msp[i] = c.msp[i]
        /\ d.pc = c.active[n - 1].exc /\ d.spsel = c.spsel /\ d.frame = c.frame
    BY <1>3, <1>4, <1>6, <2>2, <2>4, <2>5, FrontFacts
  <2>7. d.pc = d.active[n - 1].exc /\ ~d.spsel
    BY <1>4, <1>5, <2>1, <2>6
  <2>8. Nests(d, n - 1)
    <3>. SUFFICES ASSUME NEW i \in 2 .. n - 1
                  PROVE  d.links[i] = "F1" /\ d.msp[Len(d.msp) - (n - 1) + i] = d.active[i - 1].exc
      BY DEF Nests
    <3>1. i \in 2 .. n /\ i \in 1 .. n - 1 /\ i - 1 \in 1 .. n - 1
      BY <1>1
    <3>2. c.links[i] = "F1" /\ c.msp[Len(c.msp) - n + i] = c.active[i - 1].exc
      BY <1>1, <3>1 DEF Nests
    <3>3. Len(d.msp) - (n - 1) + i = Len(c.msp) - n + i /\ Len(c.msp) - n + i \in 1 .. Len(c.msp) - 1
      <4>1. /\ n \in Nat /\ Len(c.msp) \in Nat /\ Len(d.msp) = Len(c.msp) - 1 /\ Len(c.msp) >= n - 1
            /\ i \in 2 .. n - 1
        BY <1>1, <2>4, <2>6
      <4>. HIDE DEF n
      <4>. QED
        BY <4>1
    <3>. QED
      BY <1>5, <2>6, <3>1, <3>2, <3>3
  <2>9. Outermost(d, n - 1)
    <3>1. d.links[1] = c.links[1] /\ d.frame = c.frame /\ d.psp = c.psp /\ Len(d.msp) = Len(c.msp) - 1
      BY <1>2, <1>5, <2>1, <2>6
    <3>2. CASE c.links[1] = "FD" /\ c.frame[c.psp] = c.psp /\ Len(c.msp) >= n - 1
      <4>1. Len(d.msp) >= n - 1 - 1
        <5>. HIDE DEF n
        <5>. QED
          BY <1>1, <3>1, <3>2
      <4>. QED
        BY <3>1, <3>2, <4>1 DEF Outermost
    <3>3. CASE c.links[1] = "F9" /\ Len(c.msp) >= n /\ c.msp[Len(c.msp) - n + 1] = Main
      <4>1. Len(d.msp) >= n - 1 /\ Len(d.msp) - (n - 1) + 1 = Len(c.msp) - n + 1
            /\ Len(c.msp) - n + 1 \in 1 .. Len(c.msp) - 1
        <5>1. /\ n \in Nat /\ n >= 2 /\ Len(c.msp) \in Nat /\ Len(d.msp) = Len(c.msp) - 1 /\ Len(c.msp) >= n
          BY <1>1, <2>1, <3>1, <3>3
        <5>. HIDE DEF n
        <5>. QED
          BY <5>1
      <4>. QED
        BY <2>6, <3>1, <3>3, <4>1 DEF Outermost
    <3>. QED
      BY <1>1, <3>2, <3>3 DEF Outermost
  <2>10. d \in CpuState
    <3>1. /\ d.pc \in Exc \cup Thread /\ d.spsel \in BOOLEAN
      <4>1. d.active[n - 1] \in Entry
        BY <1>5, <2>1
      <4>2. d.active[n - 1].exc \in Exc
        BY <4>1 DEF Entry
      <4>3. c.spsel \in BOOLEAN
        BY <1>1 DEF CpuState
      <4>. QED
        BY <2>6, <2>7, <4>2, <4>3
    <3>. QED
      BY <1>1, <1>2, <1>4, <1>5, <1>6, <2>6, <3>1, ExceptIsState DEF CpuState
  <2>. QED
    BY <1>5, <1>6, <2>1, <2>7, <2>8, <2>9, <2>10 DEF Stacked, d
<1>. QED
  BY <1>8, <1>9

LEMMA PendableFacts == Pendable \subseteq Exc /\ SVC \in Exc /\ SYSTICK \in Pendable
BY DEF Pendable, Exc, SVC, SYSTICK

(* The enable and pending bits do not touch the stacks. *)
LEMMA BitsStacked ==
  ASSUME NEW c, Stacked(c), NEW S \in SUBSET Irq, NEW P \in SUBSET Pendable
  PROVE  /\ Stacked([c EXCEPT !.enabled = S])
         /\ Stacked([c EXCEPT !.pending = P])
BY DEF Stacked, CpuState, Nests, Outermost

LEMMA InjectStacked ==
  ASSUME NEW c, Stacked(c)
  PROVE  Stacked(Inject(c))
<1>. DEFINE able == {e \in c.pending : Injectable(c, e)}
            e == CHOOSE e \in able : \A f \in able \ {e} : MoreUrgent(e, f)
            d == [c EXCEPT !.pending = @ \ {e}]
<1>0. c.pending \in SUBSET Pendable
  BY DEF Stacked, CpuState
<1>1. CASE able = {}
  BY <1>1 DEF Inject
<1>2. CASE able # {}
  <2>1. e \in able
    BY <1>0, <1>2, PendableFacts, MostUrgentExists
  <2>. HIDE DEF e
  <2>2. e \in Exc /\ c.pending \ {e} \in SUBSET Pendable
    BY <1>0, <2>1, PendableFacts
  <2>3. Stacked(d)
    BY <2>2, BitsStacked
  <2>4. Stacked(Enter(d, e))
    BY <2>2, <2>3, EnterStacked
  <2>. QED
    BY <1>2, <2>4 DEF Inject, e
<1>. QED
  BY <1>1, <1>2
-----------------------------------------------------------------------------
LEMMA BecomesIs ==
  ASSUME NEW c \in CpuState, Becomes(c)
  PROVE  cpu' = c
BY DEF Becomes, CpuState, cpu

LEMMA BecomesStacked ==
  ASSUME NEW c, Stacked(c), Becomes(c)
  PROVE  Stacked(cpu)'
<1>1. cpu' = c
  BY BecomesIs DEF Stacked
<1>. QED
  BY <1>1 DEF Stacked, Nests, Outermost

LEMMA ServicedStacked ==
  ASSUME NEW c, Stacked(c), Serviced(c)
  PROVE  Stacked(cpu)'
<1>1. CASE left > 0
  BY <1>1, InjectStacked, BecomesStacked DEF Serviced
<1>2. CASE ~(left > 0)
  BY <1>2, BecomesStacked DEF Serviced
<1>. QED
  BY <1>1, <1>2

LEMMA InitSInv == Init => SInv
<1>. SUFFICES ASSUME Init PROVE SInv
  OBVIOUS
<1>1. frame \in [Thread -> Thread \cup {None}] /\ \A t \in Thread : frame[t] \in {t, None}
  BY DEF Init, Thread
<1>2. /\ enabled = {} /\ pending = {} /\ active = <<>> /\ links = <<>> /\ msp = <<>>
      /\ psp = Main /\ spsel = FALSE /\ pc = Main
  BY DEF Init
<1>3. cpu \in CpuState
  <2>1. /\ enabled \in SUBSET Irq /\ pending \in SUBSET Pendable /\ psp \in Thread /\ spsel \in BOOLEAN
        /\ pc \in Exc \cup Thread
    BY <1>2, ThreadFacts
  <2>2. active \in Seq(Entry) /\ links \in Seq({"F1", "F9", "FD"}) /\ msp \in Seq(Exc \cup Thread)
    BY <1>2
  <2>. QED
    BY <1>1, <2>1, <2>2 DEF cpu, CpuState
<1>4. Stacked(cpu)
  BY <1>1, <1>2, <1>3 DEF cpu, Stacked
<1>5. left \in 0 .. Budget
  BY ExceptionsAssumption DEF Init
<1>. QED
  BY <1>4, <1>5 DEF Init, SInv, Flags

LEMMA StepFlags == SInv /\ [Next]_vars => Flags'
<1>. SUFFICES ASSUME Flags, [Next]_vars PROVE Flags'
  BY DEF SInv
<1>0. Budget - 1 \in 0 .. Budget /\ 0 \in 0 .. Budget /\ (left > 0 => left - 1 \in 0 .. Budget)
  BY ExceptionsAssumption DEF Flags
<1>1. ASSUME NEW c, Serviced(c) PROVE left' \in 0 .. Budget /\ slicing' \in BOOLEAN /\ stale' \in BOOLEAN
  BY <1>0, <1>1 DEF Serviced, Flags
<1>2. ASSUME NEW c, Store(c) PROVE Flags'
  BY <1>1, <1>2 DEF Store, Flags
<1>3. ASSUME NEW ticked \in BOOLEAN, StartSlice(ticked) PROVE Flags'
  BY <1>0, <1>3 DEF StartSlice, Flags
<1>4. CASE Reset \/ EndSlice
  BY <1>0, <1>4 DEF Reset, EndSlice, Flags
<1>5. CASE Access \/ WriteAircr \/ Svc \/ LeaveHandler
  BY <1>1, <1>5 DEF Access, Store, WriteAircr, Svc, LeaveHandler, Flags
<1>6. ASSUME NEW e, Pend(e) PROVE Flags'
  BY <1>6 DEF Pend, Flags
<1>7. ASSUME NEW t, Dispatch(t) PROVE Flags'
  BY <1>7 DEF Dispatch, Flags
<1>8. ASSUME NEW p \in BOOLEAN, NEW b \in Basepris, Mask(p, b) PROVE Flags'
  BY <1>8 DEF Mask, Flags
<1>9. CASE UNCHANGED vars
  BY <1>9 DEF vars, Flags
<1>10. ASSUME NEW e, WriteIser(e) \/ WriteIcer(e) \/ SetPending(e) \/ ClearPending(e) PROVE Flags'
  BY <1>2, <1>10 DEF WriteIser, WriteIcer, SetPending, ClearPending
<1>. QED
  BY <1>3, <1>4, <1>5, <1>6, <1>7, <1>8, <1>9, <1>10 DEF Next, Firmware

LEMMA StepStacked == SInv /\ [Next]_vars => Stacked(cpu)'
<1>. SUFFICES ASSUME SInv, [Next]_vars PROVE Stacked(cpu)'
  OBVIOUS
<1>0. /\ Stacked(cpu) /\ cpu.pending = pending /\ cpu.enabled = enabled /\ cpu.active = active
      /\ pending \subseteq Pendable /\ enabled \subseteq Irq
  BY DEF SInv, Stacked, CpuState, cpu
<1>1. ASSUME NEW ticked \in BOOLEAN, StartSlice(ticked) PROVE Stacked(cpu)'
  <2>. DEFINE P == pending \cup IF ticked THEN {SYSTICK} ELSE {}
  <2>1. Becomes(Inject([cpu EXCEPT !.pending = P]))
    BY <1>1, <1>0 DEF StartSlice
  <2>2. P \in SUBSET Pendable
    BY <1>0, PendableFacts
  <2>. QED
    BY <1>0, <2>1, <2>2, BitsStacked, InjectStacked, BecomesStacked
<1>2. CASE Reset
  <2>1. /\ cpu \in CpuState /\ \A t \in Thread : frame'[t] \in {t, None}
        /\ frame' \in [Thread -> Thread \cup {None}]
    BY <1>0, <1>2 DEF Reset, Stacked
  <2>2. /\ pc' = Main /\ active' = <<>> /\ links' = <<>> /\ pending' = {} /\ enabled' = enabled
        /\ spsel' = spsel /\ psp' \in Thread /\ (spsel => psp' = Main)
        /\ msp' \in Seq(Exc \cup Thread) /\ spsel \in BOOLEAN
    BY <1>2, <2>1, ThreadFacts DEF Reset, ActiveAfterReset, CpuState, cpu
  <2>3. cpu' \in CpuState
    BY <1>0, <2>1, <2>2, ThreadFacts DEF CpuState, cpu
  <2>4. cpu'.active = <<>> /\ cpu'.links = <<>> /\ cpu'.pc = Main /\ cpu'.spsel = spsel /\ cpu'.psp = psp'
        /\ cpu'.frame = frame'
    BY <2>2 DEF cpu
  <2>. QED
    BY <2>1, <2>2, <2>3, <2>4 DEF Stacked
<1>3. CASE EndSlice
  BY <1>0, <1>3 DEF EndSlice, cpuVars, cpu, Stacked, Nests, Outermost
<1>4. ASSUME NEW e \in Irq, WriteIser(e) \/ WriteIcer(e) PROVE Stacked(cpu)'
  <2>1. \/ Serviced([cpu EXCEPT !.enabled = enabled \cup {e}])
        \/ Serviced([cpu EXCEPT !.enabled = enabled \ {e}])
    BY <1>4, <1>0 DEF WriteIser, WriteIcer, Store
  <2>2. enabled \cup {e} \in SUBSET Irq /\ enabled \ {e} \in SUBSET Irq /\ {} \in SUBSET Pendable
    BY <1>0
  <2>. QED
    BY <1>0, <2>1, <2>2, BitsStacked, ServicedStacked
<1>5. ASSUME NEW e \in Pendable, SetPending(e) \/ ClearPending(e) PROVE Stacked(cpu)'
  <2>1. \/ Serviced([cpu EXCEPT !.pending = pending \cup {e}])
        \/ Serviced([cpu EXCEPT !.pending = pending \ {e}])
    BY <1>5, <1>0 DEF SetPending, ClearPending, Store
  <2>2. pending \cup {e} \in SUBSET Pendable /\ pending \ {e} \in SUBSET Pendable /\ {} \in SUBSET Irq
    BY <1>0
  <2>. QED
    BY <1>0, <2>1, <2>2, BitsStacked, ServicedStacked
<1>6. ASSUME NEW e \in Pendable, Pend(e) PROVE Stacked(cpu)'
  <2>1. Becomes([cpu EXCEPT !.pending = pending \cup {e}])
    BY <1>6 DEF Pend, Becomes, cpu
  <2>2. pending \cup {e} \in SUBSET Pendable /\ {} \in SUBSET Irq
    BY <1>0
  <2>. QED
    BY <1>0, <2>1, <2>2, BitsStacked, BecomesStacked
<1>7. CASE Access \/ WriteAircr
  BY <1>7, <1>0, ServicedStacked DEF Access, Store, WriteAircr
<1>8. CASE Svc
  BY <1>8, <1>0, PendableFacts, EnterStacked, ServicedStacked DEF Svc
<1>9. CASE LeaveHandler
  BY <1>9, <1>0, ReturnStacked, ServicedStacked DEF LeaveHandler
<1>10. ASSUME NEW t \in Task, Dispatch(t) PROVE Stacked(cpu)'
  <2>. DEFINE d == [cpu EXCEPT !.psp = t, !.links = <<"FD">>]
  <2>1. Becomes(d)
    BY <1>10 DEF Dispatch, Becomes, cpu
  <2>2. t \in Thread /\ cpu \in CpuState /\ cpu.active = active /\ Len(active) = 1 /\ cpu.frame[t] # None
    BY <1>0, <1>10 DEF Dispatch, Stacked, Thread, cpu
  <2>3. d \in CpuState /\ d.links = <<"FD">> /\ d.psp = t
        /\ d.active = cpu.active /\ d.pc = cpu.pc /\ d.spsel = cpu.spsel /\ d.frame = cpu.frame /\ d.msp = cpu.msp
    <3>1. <<"FD">> \in Seq({"F1", "F9", "FD"})
      OBVIOUS
    <3>. QED
      BY <2>2, <3>1 DEF CpuState
  <2>. HIDE DEF d
  <2>4. cpu.frame[t] = t /\ cpu.active # <<>> /\ Len(cpu.msp) \in Nat
    BY <1>0, <2>2, StackedNat DEF Stacked
  <2>5. Outermost(d, 1) /\ Nests(d, 1)
    BY <2>3, <2>4 DEF Outermost, Nests
  <2>6. Stacked(d)
    BY <1>0, <2>2, <2>3, <2>4, <2>5 DEF Stacked
  <2>. QED
    BY <2>1, <2>6, BecomesStacked
<1>11. ASSUME NEW p \in BOOLEAN, NEW b \in Basepris, Mask(p, b) PROVE Stacked(cpu)'
  BY <1>0, <1>11 DEF Mask, cpuVars, cpu, Stacked, Nests, Outermost
<1>12. CASE UNCHANGED vars
  BY <1>0, <1>12 DEF vars, cpuVars, cpu, Stacked, Nests, Outermost
<1>. QED
  BY <1>1, <1>2, <1>3, <1>4, <1>5, <1>6, <1>7, <1>8, <1>9, <1>10, <1>11, <1>12 DEF Next, Firmware

LEMMA StepSInv == SInv /\ [Next]_vars => SInv'
BY StepFlags, StepStacked DEF SInv, Flags
(* Every exception, SVC from a handler, return, task switch, reset and     *)
(* change of masks or bits keeps the fields of their types.                *)
THEOREM ExceptionsAreTyped == Spec => []TypeOK
<1>1. SInv => TypeOK
  <2>. SUFFICES ASSUME SInv PROVE TypeOK
    OBVIOUS
  <2>1. cpu \in CpuState /\ Len(links) = Len(active)
    BY DEF SInv, Stacked, cpu
  <2>2. /\ enabled \in SUBSET Irq /\ pending \in SUBSET Pendable /\ active \in Seq(Entry)
        /\ links \in Seq({"F1", "F9", "FD"}) /\ msp \in Seq(Exc \cup Thread)
        /\ frame \in [Thread -> Thread \cup {None}] /\ psp \in Thread /\ spsel \in BOOLEAN
        /\ pc \in Exc \cup Thread
    BY <2>1 DEF CpuState, cpu
  <2>. QED
    BY <2>1, <2>2 DEF SInv, Flags, TypeOK, Entry
<1>. QED
  BY <1>1, InitSInv, StepSInv, PTL DEF Spec

(* Entry and return agree on where each frame is: whatever nests, and      *)
(* however the RTOS moves PSP, every return resumes what was interrupted.  *)
THEOREM ExceptionsUnwind == Spec => []Unwinds
<1>1. SInv => Unwinds
  <2>. SUFFICES ASSUME SInv PROVE Unwinds
    OBVIOUS
  <2>1. /\ Stacked(cpu) /\ cpu.active = active /\ cpu.links = links /\ cpu.msp = msp
        /\ cpu.frame = frame /\ cpu.psp = psp /\ cpu.spsel = spsel /\ cpu.pc = pc
    BY DEF SInv, cpu
  <2>2. Len(active) \in Nat /\ (active = <<>> <=> Len(active) = 0)
    BY <2>1, StackedNat
  <2>3. CASE active = <<>>
    BY <2>1, <2>2, <2>3 DEF Unwinds, Stacked
  <2>4. CASE active # <<>>
    <3>1. /\ pc = active[Len(active)].exc /\ ~spsel
          /\ Nests(cpu, Len(active)) /\ Outermost(cpu, Len(active))
      BY <2>1, <2>4 DEF Stacked
    <3>. QED
      BY <2>1, <2>2, <2>4, <3>1 DEF Unwinds, Nests, Outermost
  <2>. QED
    BY <2>3, <2>4
<1>. QED
  BY <1>1, InitSInv, StepSInv, PTL DEF Spec
-----------------------------------------------------------------------------
(* What _maybe_inject leaves pending cannot run above what it entered.     *)
LEMMA InjectExhausts ==
  ASSUME NEW c, Stacked(c)
  PROVE  \/ Inject(c) = c
         \/ \A f \in Inject(c).pending : ~Injectable(Inject(c), f)
<1>. DEFINE able == {e \in c.pending : Injectable(c, e)}
            e == CHOOSE e \in able : \A f \in able \ {e} : MoreUrgent(e, f)
            b == [c EXCEPT !.pending = @ \ {e}]
            x == [exc |-> e, pri |-> Prio[e]]
            d == Enter(b, e)
<1>0. c \in CpuState /\ c.pending \in SUBSET Pendable /\ c.active \in Seq(Entry)
  BY DEF Stacked, CpuState
<1>1. CASE able = {}
  BY <1>1 DEF Inject
<1>2. CASE able # {}
  <2>1. e \in able /\ \A f \in able \ {e} : MoreUrgent(e, f)
    BY <1>0, <1>2, PendableFacts, MostUrgentExists
  <2>2. Inject(c) = d
    BY <1>2 DEF Inject
  <2>. HIDE DEF e
  <2>3. e \in Exc /\ c.pending \ {e} \in SUBSET Pendable
    BY <1>0, <2>1, PendableFacts
  <2>4. Stacked(b) /\ b \in CpuState /\ b.active = c.active /\ b.enabled = c.enabled /\ b.pending = c.pending \ {e}
    <3>1. Stacked(b)
      BY <2>3, BitsStacked
    <3>. QED
      BY <1>0, <3>1 DEF Stacked, CpuState
  <2>. HIDE DEF b
  <2>5. d.pending = c.pending \ {e} /\ d.enabled = c.enabled /\ d.active = Append(c.active, x)
    <3>1. d.pending = b.pending /\ d.enabled = b.enabled /\ d.active = Append(b.active, x)
      BY <2>4 DEF Enter, CpuState
    <3>. QED
      BY <2>4, <3>1
  <2>6. x \in Entry
    BY <2>3, ExceptionsAssumption DEF Entry
  <2>. HIDE DEF d
  <2>7. /\ d.active \in Seq(Entry) /\ Len(d.active) = Len(c.active) + 1 /\ d.active[Len(c.active) + 1] = x
        /\ \A i \in 1 .. Len(c.active) : d.active[i] = c.active[i]
    BY <1>0, <2>5, <2>6, AppendFacts
  <2>8. ASSUME NEW f \in d.pending, Injectable(d, f) PROVE FALSE
    <3>1. f \in c.pending /\ f # e /\ f \in Exc /\ f \in Pendable
      BY <1>0, <2>5, PendableFacts
    <3>2. \A i \in DOMAIN d.active : Prio[f] < d.active[i].pri
      BY <2>7, <2>8, <3>1, InjectableFacts
    <3>3. Prio[f] < Prio[e] /\ Prio[f] \in Nat /\ Prio[e] \in Nat /\ Prio[f] < 256
      <4>1. Len(c.active) + 1 \in DOMAIN d.active
        BY <1>0, <2>7
      <4>2. Prio[f] \in 0 .. 255 /\ Prio[e] \in 0 .. 255
        BY <2>3, <3>1, ExceptionsAssumption
      <4>3. Prio[f] < x.pri
        BY <2>7, <3>2, <4>1
      <4>. QED
        BY <4>2, <4>3
    <3>4. Prio[f] < ActivePriority(c)
      <4>1. CASE c.active = <<>>
        BY <3>3, <4>1 DEF ActivePriority
      <4>2. CASE c.active # <<>>
        <5>. DEFINE pris == {c.active[i].pri : i \in DOMAIN c.active}
        <5>1. \A i \in DOMAIN c.active : c.active[i].pri \in Nat /\ Prio[f] < c.active[i].pri
          <6>1. ASSUME NEW i \in DOMAIN c.active PROVE c.active[i].pri \in Nat /\ Prio[f] < c.active[i].pri
            <7>1. c.active[i] \in Entry /\ i \in 1 .. Len(c.active) /\ i \in DOMAIN d.active
              BY <1>0, <2>7
            <7>2. c.active[i].pri \in Nat
              BY <7>1, PrioritiesAreNat DEF Entry
            <7>. QED
              BY <2>7, <3>2, <7>1, <7>2
          <6>. QED
            BY <6>1
        <5>2. pris \in SUBSET Nat /\ pris # {}
          <6>1. 1 \in DOMAIN c.active
            BY <1>0, <4>2
          <6>. QED
            BY <5>1, <6>1
        <5>3. \A p \in pris : Prio[f] < p
          BY <5>1
        <5>4. ActivePriority(c) = Min(pris)
          BY <4>2 DEF ActivePriority
        <5>. HIDE DEF pris
        <5>. QED
          BY <5>2, <5>3, <5>4, MinFacts
      <4>. QED
        BY <4>1, <4>2
    <3>5. Injectable(c, f)
      BY <2>5, <2>8, <3>4 DEF Injectable
    <3>6. MoreUrgent(e, f)
      BY <2>1, <3>1, <3>5
    <3>. QED
      BY <3>3, <3>6 DEF MoreUrgent
  <2>. QED
    BY <2>2, <2>8 DEF d
<1>. QED
  BY <1>1, <1>2

(* The step of MostUrgentFirst, after what an earlier part of a step left. *)
Grown == Len(active') > Len(active) /\ Last(active').exc # SVC
NoneWaits == \A e \in pending' : ~Injectable(cpu, e)'
Short(c) == Len(c.active) <= Len(active) \/ Last(c.active).exc = SVC

LEMMA ShortSteps ==
  ASSUME SInv, NEW c, Stacked(c), Short(c), Becomes(c), Grown
  PROVE  FALSE
<1>1. active' = c.active /\ Len(active) \in Nat /\ Len(c.active) \in Nat
  BY DEF Becomes, SInv, Stacked, CpuState, cpu
<1>. QED
  BY <1>1 DEF Short, Grown

LEMMA InjectedSteps ==
  ASSUME SInv, NEW c, Stacked(c), Short(c), Becomes(Inject(c)), Grown,
         primask' = primask, basepri' = basepri
  PROVE  NoneWaits
<1>1. CASE Inject(c) = c
  BY <1>1, ShortSteps
<1>2. CASE \A f \in Inject(c).pending : ~Injectable(Inject(c), f)
  <2>1. cpu' = Inject(c) /\ pending' = Inject(c).pending
    BY InjectStacked, BecomesIs DEF Stacked, Becomes
  <2>2. ASSUME NEW f \in pending', Injectable(cpu, f)' PROVE FALSE
    <3>1. Injectable(Inject(c), f)
      BY <2>1, <2>2 DEF Injectable, ActivePriority
    <3>. QED
      BY <1>2, <2>1, <3>1
  <2>. QED
    BY <2>2 DEF NoneWaits
<1>. QED
  BY <1>1, <1>2, InjectExhausts

LEMMA ServicedInject ==
  ASSUME SInv, NEW c, Stacked(c), Short(c), Serviced(c), Grown,
         primask' = primask, basepri' = basepri
  PROVE  NoneWaits
<1>1. CASE left > 0
  BY <1>1, InjectedSteps DEF Serviced
<1>2. CASE ~(left > 0)
  BY <1>2, ShortSteps DEF Serviced
<1>. QED
  BY <1>1, <1>2

LEMMA StepMostUrgent == SInv /\ [Next]_vars /\ Grown => NoneWaits
<1>. SUFFICES ASSUME SInv, [Next]_vars, Grown PROVE NoneWaits
  OBVIOUS
<1>0. /\ Stacked(cpu) /\ cpu.pending = pending /\ cpu.enabled = enabled /\ cpu.active = active
      /\ pending \subseteq Pendable /\ enabled \subseteq Irq /\ cpu \in CpuState
      /\ Len(active) \in Nat /\ active \in Seq(Entry)
  BY DEF SInv, Stacked, CpuState, cpu
<1>s. ASSUME NEW c, c.active = active PROVE Short(c)
  BY <1>0, <1>s DEF Short
<1>b. ASSUME NEW S \in SUBSET Irq, NEW P \in SUBSET Pendable
      PROVE  /\ Stacked([cpu EXCEPT !.enabled = S]) /\ Short([cpu EXCEPT !.enabled = S])
             /\ Stacked([cpu EXCEPT !.pending = P]) /\ Short([cpu EXCEPT !.pending = P])
  <2>1. [cpu EXCEPT !.enabled = S].active = active /\ [cpu EXCEPT !.pending = P].active = active
    BY <1>0 DEF CpuState
  <2>. QED
    BY <1>0, <1>s, <2>1, BitsStacked
<1>1. ASSUME NEW ticked \in BOOLEAN, StartSlice(ticked) PROVE NoneWaits
  <2>. DEFINE P == pending \cup IF ticked THEN {SYSTICK} ELSE {}
  <2>1. Becomes(Inject([cpu EXCEPT !.pending = P])) /\ primask' = primask /\ basepri' = basepri
    BY <1>1, <1>0 DEF StartSlice
  <2>2. P \in SUBSET Pendable /\ {} \in SUBSET Irq
    BY <1>0, PendableFacts
  <2>. QED
    BY <1>b, <2>1, <2>2, InjectedSteps
<1>2. ASSUME active' = active \/ active' = <<>> PROVE FALSE
  BY <1>0, <1>2 DEF Grown
<1>3. CASE Reset \/ EndSlice \/ UNCHANGED vars
  BY <1>2, <1>3 DEF Reset, EndSlice, cpuVars, vars, ActiveAfterReset
<1>4. ASSUME NEW e \in Irq, WriteIser(e) \/ WriteIcer(e) PROVE NoneWaits
  <2>1. /\ \/ Serviced([cpu EXCEPT !.enabled = enabled \cup {e}])
           \/ Serviced([cpu EXCEPT !.enabled = enabled \ {e}])
        /\ primask' = primask /\ basepri' = basepri
    BY <1>4, <1>0 DEF WriteIser, WriteIcer, Store
  <2>2. enabled \cup {e} \in SUBSET Irq /\ enabled \ {e} \in SUBSET Irq /\ {} \in SUBSET Pendable
    BY <1>0
  <2>. QED
    BY <1>b, <2>1, <2>2, ServicedInject
<1>5. ASSUME NEW e \in Pendable, SetPending(e) \/ ClearPending(e) PROVE NoneWaits
  <2>1. /\ \/ Serviced([cpu EXCEPT !.pending = pending \cup {e}])
           \/ Serviced([cpu EXCEPT !.pending = pending \ {e}])
        /\ primask' = primask /\ basepri' = basepri
    BY <1>5, <1>0 DEF SetPending, ClearPending, Store
  <2>2. pending \cup {e} \in SUBSET Pendable /\ pending \ {e} \in SUBSET Pendable /\ {} \in SUBSET Irq
    BY <1>0
  <2>. QED
    BY <1>b, <2>1, <2>2, ServicedInject
<1>6. CASE Access \/ WriteAircr
  BY <1>0, <1>s, <1>6, ServicedInject DEF Access, Store, WriteAircr
<1>7. CASE Svc
  <2>1. Serviced(Enter(cpu, SVC)) /\ primask' = primask /\ basepri' = basepri
    BY <1>7 DEF Svc
  <2>2. Stacked(Enter(cpu, SVC))
    BY <1>0, PendableFacts, EnterStacked
  <2>3. Short(Enter(cpu, SVC))
    <3>. DEFINE x == [exc |-> SVC, pri |-> Prio[SVC]]
    <3>1. Enter(cpu, SVC).active = Append(active, x) /\ x \in Entry
      BY <1>0, PendableFacts, EnterFields, ExceptionsAssumption DEF Entry
    <3>2. Last(Append(active, x)) = x
      <4>. HIDE DEF x
      <4>. QED
        BY <1>0, <3>1, AppendFacts DEF Last
    <3>. QED
      BY <3>1, <3>2 DEF Short
  <2>. QED
    BY <2>1, <2>2, <2>3, ServicedInject
<1>8. CASE LeaveHandler
  <2>1. Serviced(Return(cpu)) /\ primask' = primask /\ basepri' = basepri /\ active # <<>>
    BY <1>8 DEF LeaveHandler
  <2>2. Stacked(Return(cpu)) /\ Return(cpu).active = Front(active)
    BY <1>0, <2>1, ReturnStacked, ReturnIsState
  <2>3. Len(active) > 0
    BY <1>0, <2>1
  <2>4. Short(Return(cpu))
    BY <1>0, <2>2, <2>3, FrontFacts DEF Short
  <2>. QED
    BY <2>1, <2>2, <2>4, ServicedInject
<1>9. ASSUME NEW e, Pend(e) PROVE NoneWaits
  BY <1>2, <1>9 DEF Pend
<1>10. ASSUME NEW t, Dispatch(t) PROVE NoneWaits
  BY <1>2, <1>10 DEF Dispatch
<1>11. ASSUME NEW p, NEW b, Mask(p, b) PROVE NoneWaits
  BY <1>2, <1>11 DEF Mask, cpuVars
<1>. QED
  BY <1>1, <1>3, <1>4, <1>5, <1>6, <1>7, <1>8, <1>9, <1>10, <1>11 DEF Next, Firmware

(* _maybe_inject takes the best of what is pending: after an entry no      *)
(* other pending exception could run in its place.                         *)
THEOREM MostUrgentIsTaken == Spec => MostUrgentFirst
<1>1. SInv /\ [Next]_vars
        => [Len(active') > Len(active) /\ Last(active').exc # SVC
              => \A e \in pending' : ~Injectable(cpu, e)']_vars
  BY StepMostUrgent DEF Grown, NoneWaits
<1>. QED
  BY <1>1, InitSInv, StepSInv, PTL DEF Spec, MostUrgentFirst
-----------------------------------------------------------------------------
(* The slice loop.  A running CPU has one slice ahead, no later than its   *)
(* SysTick allows; one that sleeps with SysTick's interrupt on has a wake- *)
(* up ahead and before it is due.                                          *)
Horizon == 0 .. MaxTime + SliceLen
Steady == 0 \notin Rvrs
NoRuns == [x \in Horizon |-> 0]
One(t) == [x \in Horizon |-> IF x = t THEN 1 ELSE 0]
Timely(t) == tick.int /\ Steady /\ tick.next # Never => t < tick.next + SliceLen

Modes == ~(slicing /\ (sleeping \/ faulted)) /\ ~(sleeping /\ faulted)

Chain ==
  IF slicing \/ sleeping \/ faulted THEN runs = NoRuns
  ELSE \E t \in now .. MaxTime + SliceLen : runs = One(t) /\ Timely(t)

Ticking ==
  /\ Steady /\ tick.next # Never => TickEnabled(tick) /\ (slicing => now < tick.next)
  /\ sleeping /\ tick.int /\ Steady /\ tick.next # Never
       => \E w \in wakes : now <= w /\ w <= tick.next

LInv == LoopTypeOK /\ Modes /\ Chain /\ Ticking /\ NoLostWakeup

(* What the CPU's steps do to the slice. *)
LEMMA SliceSteps ==
  /\ \A b : StartSlice(b) => ~slicing /\ slicing' = TRUE
  /\ Reset => ~slicing /\ slicing' = slicing
  /\ EndSlice => /\ slicing /\ slicing' = FALSE
                 /\ UNCHANGED <<primask, basepri, enabled, pending, active, links, msp, frame, psp, spsel, pc>>
  /\ Firmware => slicing /\ (slicing' = slicing \/ slicing' = FALSE)
  /\ \A e : Pend(e) => UNCHANGED <<primask, basepri, enabled, active, slicing>> /\ pending' = pending \cup {e}
<1>1. \A b : StartSlice(b) => ~slicing /\ slicing' = TRUE
  BY DEF StartSlice
<1>2. \A e : Pend(e) => UNCHANGED <<primask, basepri, enabled, active, slicing>> /\ pending' = pending \cup {e}
  BY DEF Pend
<1>3. Reset => ~slicing /\ slicing' = slicing
  BY DEF Reset
<1>4. EndSlice => /\ slicing /\ slicing' = FALSE
                  /\ UNCHANGED <<primask, basepri, enabled, pending, active, links, msp, frame, psp, spsel, pc>>
  BY DEF EndSlice, cpuVars
<1>5. Firmware => slicing /\ (slicing' = slicing \/ slicing' = FALSE)
  <2>1. \A c : Serviced(c) => slicing' = slicing \/ slicing' = FALSE
    BY DEF Serviced
  <2>2. \A c : Store(c) => slicing /\ (slicing' = slicing \/ slicing' = FALSE)
    BY <2>1 DEF Store, Services
  <2>3. Access \/ WriteAircr \/ Svc \/ LeaveHandler => slicing /\ (slicing' = slicing \/ slicing' = FALSE)
    BY <2>1, <2>2 DEF Access, WriteAircr, Svc, LeaveHandler, Services
  <2>4. \A e : WriteIser(e) \/ WriteIcer(e) \/ SetPending(e) \/ ClearPending(e)
                 => slicing /\ (slicing' = slicing \/ slicing' = FALSE)
    BY <2>2 DEF WriteIser, WriteIcer, SetPending, ClearPending
  <2>5. \A t : Dispatch(t) => slicing /\ slicing' = slicing
    BY DEF Dispatch
  <2>6. \A p, b : Mask(p, b) => slicing /\ slicing' = slicing
    BY DEF Mask
  <2>. QED
    BY <2>3, <2>4, <2>5, <2>6 DEF Firmware
<1>. QED
  BY <1>1, <1>2, <1>3, <1>4, <1>5

(* A slice with SysTick just advanced is a slice of Exceptions.            *)
LEMMA StartSliceCases ==
  ASSUME NEW b, StartSlice(b)
  PROVE  \E ticked \in BOOLEAN : StartSlice(ticked)
<1>1. CASE b
  <2>1. StartSlice(TRUE)
    BY <1>1 DEF StartSlice
  <2>. QED
    BY <2>1
<1>2. CASE ~b
  <2>1. StartSlice(FALSE)
    BY <1>2 DEF StartSlice
  <2>. QED
    BY <2>1
<1>. QED
  BY <1>1, <1>2

LEMMA LoopStepIsCpuStep == [LoopNext]_mcuVars => [Next]_vars
<1>. SUFFICES ASSUME [LoopNext]_mcuVars PROVE Next \/ UNCHANGED vars
  OBVIOUS
<1>1. CASE RunSlice
  <2>1. \E ticked \in BOOLEAN : StartSlice(ticked)
    BY <1>1, StartSliceCases DEF RunSlice
  <2>. QED
    BY <2>1 DEF Next
<1>2. CASE TakeReset
  BY <1>2 DEF TakeReset, Next
<1>3. CASE Ran \/ WfiFallsThrough \/ WfiSleeps \/ Fault
  BY <1>3 DEF Ran, WfiFallsThrough, WfiSleeps, Fault, Next
<1>4. CASE WakeEvent \/ Elapse \/ UNCHANGED mcuVars
  BY <1>4 DEF WakeEvent, Elapse, mcuVars
<1>5. ASSUME NEW e \in Irq, PendIrq(e) PROVE Next
  <2>1. e \in Pendable
    <3>1. e \in Nat /\ e >= 16
      BY ExceptionsAssumption
    <3>. QED
      BY <3>1 DEF Pendable, Exc, SVC
  <2>. QED
    BY <1>5, <2>1 DEF PendIrq, Next
<1>6. ASSUME NEW on, NEW int, WriteCsr(on, int) PROVE Next
  BY <1>6 DEF WriteCsr, Next, Firmware
<1>7. ASSUME NEW v, WriteRvr(v) PROVE Next
  BY <1>7 DEF WriteRvr, Next, Firmware
<1>8. CASE Execute
  BY <1>8 DEF Execute, Next
<1>. QED
  BY <1>1, <1>2, <1>3, <1>4, <1>5, <1>6, <1>7, <1>8 DEF LoopNext

(* The loop runs the CPU of Exceptions: whatever was proved of it holds of *)
(* a CPU that sleeps, wakes, faults and ticks.                             *)
THEOREM LoopRunsCpu == LoopSpec => Spec
<1>1. LoopInit => Init
  BY DEF LoopInit
<1>. QED
  BY <1>1, LoopStepIsCpuStep, PTL DEF LoopSpec, Spec
-----------------------------------------------------------------------------
LEMMA RunFacts ==
  ASSUME NEW t \in Horizon
  PROVE  /\ One(t) \in [Horizon -> Nat] /\ NoRuns \in [Horizon -> Nat]
         /\ Schedule(NoRuns, t) = One(t)
         /\ [One(t) EXCEPT ![t] = @ - 1] = NoRuns
         /\ \A x \in Horizon : NoRuns[x] = 0 /\ (One(t)[x] > 0 <=> x = t)
<1>1. One(t) \in [Horizon -> Nat] /\ NoRuns \in [Horizon -> Nat]
  BY DEF One, NoRuns
<1>2. \A x \in Horizon : NoRuns[x] = 0 /\ One(t)[x] = IF x = t THEN 1 ELSE 0
  BY DEF One, NoRuns
<1>3. Schedule(NoRuns, t) = One(t)
  BY DEF One, NoRuns, Schedule
<1>4. [One(t) EXCEPT ![t] = @ - 1] = NoRuns
  <2>1. [One(t) EXCEPT ![t] = @ - 1] = [x \in Horizon |-> IF x = t THEN One(t)[t] - 1 ELSE One(t)[x]]
    BY <1>1
  <2>2. \A x \in Horizon : (IF x = t THEN One(t)[t] - 1 ELSE One(t)[x]) = 0
    BY <1>2
  <2>. QED
    BY <2>1, <2>2 DEF NoRuns
<1>. QED
  BY <1>1, <1>2, <1>3, <1>4

LEMMA MultipleAhead ==
  ASSUME NEW a \in Nat, NEW r \in Nat, r > 0
  PROVE  r * (a \div r + 1) \in Nat /\ r * (a \div r + 1) > a
<1>1. a \div r \in Nat
  OBVIOUS
<1>2. r * (a \div r + 1) > a
  OBVIOUS
<1>. QED
  BY <1>1, <1>2

TickType == [enable : BOOLEAN, int : BOOLEAN, rvr : {0} \cup Rvrs, next : Nat \cup {Never}]

(* SysTick.advance leaves the expiry ahead. *)
LEMMA AdvancedFacts ==
  ASSUME now \in Nat, tick \in TickType, Steady /\ tick.next # Never => TickEnabled(tick)
  PROVE  /\ Advanced \in TickType /\ TickEnabled(Advanced) = TickEnabled(tick)
         /\ Advanced.int = tick.int /\ (Advanced.next # Never <=> tick.next # Never)
         /\ Steady /\ Advanced.next # Never => now < Advanced.next
<1>1. CASE Expired
  <2>. DEFINE n == tick.next + tick.rvr * ((now - tick.next) \div tick.rvr + 1)
  <2>1. tick.next \in Nat /\ tick.rvr \in Nat /\ tick.rvr > 0 /\ now - tick.next \in Nat
    <3>1. tick.next \in Nat /\ now >= tick.next /\ TickEnabled(tick)
      BY <1>1 DEF Expired, TickType
    <3>2. tick.rvr \in {0} \cup Rvrs
      BY DEF TickType
    <3>3. tick.rvr \in Nat
      <4>1. \A v \in Rvrs : v \in Nat
        BY McuAssumption
      <4>2. tick.rvr = 0 \/ tick.rvr \in Rvrs
        BY <3>2
      <4>. QED
        BY <4>1, <4>2
    <3>. QED
      BY <3>1, <3>3 DEF TickEnabled
  <2>2. n \in Nat /\ n > now
    BY <2>1, MultipleAhead
  <2>3. Advanced = [tick EXCEPT !.next = n]
    BY <1>1 DEF Advanced
  <2>. HIDE DEF n
  <2>4. Advanced \in TickType /\ Advanced.next = n /\ Advanced.int = tick.int
        /\ Advanced.enable = tick.enable /\ Advanced.rvr = tick.rvr
    BY <2>2, <2>3 DEF TickType
  <2>5. n # Never /\ tick.next # Never
    BY <1>1, <2>2, McuAssumption DEF Expired
  <2>. QED
    BY <2>2, <2>4, <2>5 DEF TickEnabled
<1>2. CASE ~Expired
  <2>1. Advanced = tick
    BY <1>2 DEF Advanced
  <2>2. ASSUME Steady, tick.next # Never PROVE now < tick.next
    BY <1>2, <2>2 DEF Expired, TickType
  <2>. QED
    BY <2>1, <2>2
<1>. QED
  BY <1>1, <1>2
-----------------------------------------------------------------------------
LEMMA LoopFacts ==
  ASSUME LoopTypeOK
  PROVE  /\ now \in Nat /\ now \in Horizon /\ now <= MaxTime /\ runs \in [Horizon -> Nat]
         /\ wakes \subseteq Nat /\ sleeping \in BOOLEAN /\ faulted \in BOOLEAN
         /\ power \in {"run", "sleep", "off"} /\ ns \in 0 .. SliceLen /\ tick \in TickType
         /\ SliceLen \in Nat /\ SliceLen > 0 /\ MaxTime \in Nat
         /\ now + ns \in now .. MaxTime + SliceLen /\ now + ns \in Horizon
         /\ now \in now .. MaxTime + SliceLen
<1>1. SliceLen \in Nat /\ SliceLen > 0 /\ MaxTime \in Nat
  BY McuAssumption
<1>. QED
  BY <1>1 DEF LoopTypeOK, Horizon, TickType

(* A slice that starts takes the event that is due; no other one is left.  *)
LEMMA DueNow ==
  ASSUME LInv, runs[now] > 0, ~slicing
  PROVE  ~sleeping /\ ~faulted /\ runs = One(now)
<1>1. now \in Horizon /\ now \in Nat
  BY LoopFacts DEF LInv
<1>2. runs # NoRuns
  <2>1. NoRuns[now] = 0
    BY <1>1, RunFacts
  <2>. QED
    BY <2>1
<1>3. PICK t \in now .. MaxTime + SliceLen : runs = One(t)
  BY <1>2 DEF LInv, Chain
<1>4. t \in Horizon
  BY <1>1, <1>3 DEF Horizon
<1>5. t = now
  BY <1>1, <1>3, <1>4, RunFacts
<1>. QED
  BY <1>2, <1>3, <1>5 DEF LInv, Chain

LEMMA InitLInv == LoopInit => LInv
<1>. SUFFICES ASSUME LoopInit PROVE LInv
  OBVIOUS
<1>0. SliceLen \in Nat /\ SliceLen > 0 /\ MaxTime \in Nat
  BY McuAssumption
<1>1. /\ now = 0 /\ runs = [t \in 0 .. MaxTime + SliceLen |-> IF t = 0 THEN 1 ELSE 0]
      /\ wakes = {} /\ sleeping = FALSE /\ power = "run" /\ faulted = FALSE /\ ns = 0
      /\ tick = [enable |-> FALSE, int |-> FALSE, rvr |-> 0, next |-> Never]
      /\ slicing = FALSE
  BY DEF LoopInit, Init
<1>2. 0 \in 0 .. MaxTime + SliceLen /\ 0 \in Horizon /\ 0 \in 0 .. MaxTime /\ 0 \in 0 .. SliceLen
  BY <1>0 DEF Horizon
<1>3. runs = One(0)
  BY <1>1 DEF One, Horizon
<1>4. LoopTypeOK
  <2>1. runs \in [0 .. MaxTime + SliceLen -> Nat]
    BY <1>2, <1>3, RunFacts DEF Horizon
  <2>2. tick \in TickType
    BY <1>1 DEF TickType
  <2>. QED
    BY <1>1, <1>2, <2>1, <2>2 DEF LoopTypeOK, TickType
<1>5. Chain
  BY <1>1, <1>2, <1>3 DEF Chain, Timely
<1>. QED
  BY <1>1, <1>4, <1>5 DEF LInv, Modes, Ticking, NoLostWakeup

(* _run_slice before the emulator, or a reset in its place. *)
LEMMA RunSliceKeeps ==
  ASSUME LInv, RunSlice
  PROVE  LInv'
<1>0. /\ now \in Nat /\ now \in Horizon /\ runs \in [Horizon -> Nat] /\ tick \in TickType
      /\ SliceLen \in Nat
  BY LoopFacts DEF LInv
<1>1. /\ runs[now] > 0 /\ ~slicing /\ slicing' = TRUE /\ runs' = [runs EXCEPT ![now] = @ - 1]
      /\ tick' = Advanced /\ ns' = SliceLength(tick)
      /\ UNCHANGED <<now, wakes, sleeping, power, faulted>>
  BY SliceSteps DEF RunSlice
<1>2. ~sleeping /\ ~faulted /\ runs = One(now)
  BY <1>1, DueNow
<1>3. runs' = NoRuns /\ NoRuns \in [Horizon -> Nat]
  BY <1>0, <1>1, <1>2, RunFacts
<1>4. tick' \in TickType /\ (Steady /\ tick'.next # Never => TickEnabled(tick') /\ now < tick'.next)
  BY <1>0, <1>1, AdvancedFacts DEF LInv, Ticking
<1>5. ns' \in 0 .. SliceLen
  <2>1. tick.rvr \in Nat
    <3>1. tick.rvr = 0 \/ tick.rvr \in Rvrs
      BY <1>0 DEF TickType
    <3>2. \A v \in Rvrs : v \in Nat
      BY McuAssumption
    <3>. QED
      BY <3>1, <3>2
  <2>2. (SliceLength(tick) = tick.rvr /\ tick.rvr < SliceLen) \/ SliceLength(tick) = SliceLen
    BY DEF SliceLength
  <2>. QED
    BY <1>0, <1>1, <2>1, <2>2
<1>6. LoopTypeOK'
  <2>1. runs' \in [0 .. MaxTime + SliceLen -> Nat]
    BY <1>3 DEF Horizon
  <2>2. tick' \in [enable : BOOLEAN, int : BOOLEAN, rvr : {0} \cup Rvrs, next : Nat \cup {Never}]
    BY <1>4 DEF TickType
  <2>. QED
    BY <1>1, <1>5, <2>1, <2>2 DEF LInv, LoopTypeOK
<1>7. Ticking'
  BY <1>1, <1>2, <1>4 DEF Ticking, TickEnabled
<1>. QED
  BY <1>1, <1>2, <1>3, <1>6, <1>7 DEF LInv, Modes, Chain, NoLostWakeup

LEMMA TakeResetKeeps ==
  ASSUME LInv, TakeReset
  PROVE  LInv'
<1>0. /\ now \in Nat /\ now \in now .. MaxTime + SliceLen /\ tick \in TickType
      /\ SliceLen \in Nat /\ SliceLen > 0
  BY LoopFacts DEF LInv
<1>1. /\ runs[now] > 0 /\ ~slicing /\ slicing' = slicing /\ tick' = Advanced
      /\ UNCHANGED <<now, runs, wakes, sleeping, power, faulted, ns>>
  BY SliceSteps DEF TakeReset
<1>2. ~sleeping /\ ~faulted /\ runs = One(now)
  BY <1>1, DueNow
<1>3. tick' \in TickType /\ (Steady /\ tick'.next # Never => TickEnabled(tick') /\ now < tick'.next)
  BY <1>0, <1>1, AdvancedFacts DEF LInv, Ticking
<1>4. LoopTypeOK'
  BY <1>1, <1>3 DEF LInv, LoopTypeOK, TickType
<1>5. Chain'
  <2>1. tick'.next # Never => tick'.next \in Nat
    BY <1>3 DEF TickType
  <2>2. tick'.int /\ Steady /\ tick'.next # Never => now < tick'.next + SliceLen
    BY <1>0, <1>3, <2>1
  <2>. QED
    BY <1>0, <1>1, <1>2, <2>2 DEF Chain, Timely, One
<1>6. Ticking'
  BY <1>1, <1>2, <1>3 DEF Ticking, TickEnabled
<1>. QED
  BY <1>1, <1>2, <1>4, <1>5, <1>6 DEF LInv, Modes, NoLostWakeup

(* What ends a slice with time t for the next one.                         *)
LEMMA NextSliceKeeps ==
  ASSUME LInv, slicing, slicing' = FALSE, NEW t \in now .. now + SliceLen,
         runs' = Schedule(runs, t), UNCHANGED <<now, wakes, sleeping, power, faulted, ns>>,
         tick' \in TickType, Steady /\ tick'.next # Never => TickEnabled(tick') /\ now < tick'.next
  PROVE  LInv'
<1>0. now \in Nat /\ SliceLen \in Nat /\ MaxTime \in Nat /\ now <= MaxTime
  BY LoopFacts DEF LInv
<1>1. t \in Horizon /\ t \in now .. MaxTime + SliceLen
  BY <1>0 DEF Horizon
<1>2. ~sleeping /\ ~faulted /\ runs = NoRuns
  BY DEF LInv, Modes, Chain
<1>3. runs' = One(t) /\ One(t) \in [Horizon -> Nat]
  BY <1>1, <1>2, RunFacts
<1>4. LoopTypeOK'
  BY <1>3 DEF LInv, LoopTypeOK, TickType, Horizon
<1>5. Chain'
  <2>1. tick'.next # Never => tick'.next \in Nat
    BY DEF TickType
  <2>2. tick'.int /\ Steady /\ tick'.next # Never => t < tick'.next + SliceLen
    BY <1>0, <2>1
  <2>. QED
    BY <1>1, <1>2, <1>3, <2>2 DEF Chain, Timely, One
<1>6. Ticking'
  BY <1>2 DEF Ticking, TickEnabled
<1>. QED
  BY <1>2, <1>4, <1>5, <1>6 DEF LInv, Modes, NoLostWakeup

LEMMA SliceEndKeeps ==
  ASSUME LInv, Ran \/ WfiFallsThrough \/ WfiSleeps \/ Fault
  PROVE  LInv'
<1>0. /\ now \in Nat /\ SliceLen \in Nat /\ ns \in 0 .. SliceLen /\ tick \in TickType
      /\ wakes \subseteq Nat
  BY LoopFacts DEF LInv
<1>1. /\ slicing /\ slicing' = FALSE /\ tick' = tick
      /\ UNCHANGED <<primask, basepri, enabled, pending, active, links, msp, frame, psp, spsel, pc>>
  BY SliceSteps DEF Ran, WfiFallsThrough, WfiSleeps, Fault
<1>2. Steady /\ tick.next # Never => TickEnabled(tick) /\ now < tick.next
  BY <1>1 DEF LInv, Ticking
<1>3. ~sleeping /\ ~faulted /\ runs = NoRuns
  BY <1>1 DEF LInv, Modes, Chain
<1>4. CASE Ran
  <2>1. now + ns \in now .. now + SliceLen
    BY <1>0
  <2>. QED
    BY <1>0, <1>1, <1>2, <1>4, <2>1, NextSliceKeeps DEF Ran
<1>5. CASE WfiFallsThrough
  <2>1. now \in now .. now + SliceLen
    BY <1>0
  <2>. QED
    BY <1>0, <1>1, <1>2, <1>5, <2>1, NextSliceKeeps DEF WfiFallsThrough
<1>6. CASE WfiSleeps
  <2>1. /\ ~CanWake /\ sleeping' = TRUE /\ power' = "sleep" /\ wakes' = wakes \cup Alarm
        /\ UNCHANGED <<now, runs, faulted, ns>>
    BY <1>6 DEF WfiSleeps, PowerState
  <2>2. Alarm \subseteq Nat /\ (tick.int /\ Steady /\ tick.next # Never => tick.next \in Alarm)
    <3>1. tick.next # Never => tick.next \in Nat
      BY <1>0 DEF TickType
    <3>. QED
      BY <1>0, <1>2, <3>1 DEF Alarm
  <2>3. LoopTypeOK'
    BY <1>0, <1>1, <2>1, <2>2 DEF LInv, LoopTypeOK
  <2>4. Ticking'
    <3>1. tick.int /\ Steady /\ tick.next # Never => tick.next \in wakes' /\ now <= tick.next /\ tick.next <= tick.next
      <4>1. tick.next # Never => tick.next \in Nat
        BY <1>0 DEF TickType
      <4>. QED
        BY <1>0, <1>2, <2>1, <2>2, <4>1
    <3>. QED
      BY <1>1, <1>2, <2>1, <3>1 DEF Ticking, TickEnabled
  <2>5. NoLostWakeup'
    BY <1>1, <2>1 DEF NoLostWakeup, CanWake, Injectable, ActivePriority, cpu
  <2>. QED
    BY <1>1, <1>3, <2>1, <2>3, <2>4, <2>5 DEF LInv, Modes, Chain, NoRuns, Horizon
<1>7. CASE Fault
  <2>1. faulted' = TRUE /\ power' = "off" /\ UNCHANGED <<now, runs, wakes, sleeping, ns>>
    BY <1>7 DEF Fault, PowerState
  <2>2. LoopTypeOK'
    BY <1>1, <2>1 DEF LInv, LoopTypeOK
  <2>. QED
    BY <1>1, <1>2, <1>3, <2>1, <2>2
       DEF LInv, Modes, Chain, Ticking, TickEnabled, NoLostWakeup, NoRuns, Horizon
<1>. QED
  BY <1>4, <1>5, <1>6, <1>7

(* Waking schedules one slice, now: no later than SysTick allows, since    *)
(* its alarm has not passed.                                               *)
LEMMA WakeKeeps ==
  ASSUME LInv, ~slicing, slicing' = slicing, sleeping, NEW ws \in SUBSET Nat, WakeNow(ws)
  PROVE  LInv'
<1>0. /\ now \in Nat /\ SliceLen \in Nat /\ SliceLen > 0 /\ tick \in TickType /\ now \in Horizon
      /\ now \in now .. MaxTime + SliceLen
  BY LoopFacts DEF LInv
<1>1. /\ wakes' = ws /\ sleeping' = FALSE /\ power' = "run" /\ runs' = Schedule(runs, now)
      /\ UNCHANGED <<now, faulted, ns, tick>>
  BY DEF WakeNow, Asleep, PowerState
<1>2. runs = NoRuns /\ ~faulted
  BY DEF LInv, Modes, Chain
<1>3. runs' = One(now) /\ One(now) \in [Horizon -> Nat]
  BY <1>0, <1>1, <1>2, RunFacts
<1>4. LoopTypeOK'
  BY <1>1, <1>3 DEF LInv, LoopTypeOK, Horizon
<1>5. Timely(now)
  <2>. SUFFICES ASSUME tick.int, Steady, tick.next # Never PROVE now < tick.next + SliceLen
    BY DEF Timely
  <2>1. PICK w \in wakes : now <= w /\ w <= tick.next
    BY DEF LInv, Ticking
  <2>2. w \in Nat /\ tick.next \in Nat
    BY <1>0, <2>1, LoopFacts DEF LInv, TickType
  <2>. QED
    BY <1>0, <2>1, <2>2
<1>6. Chain'
  BY <1>0, <1>1, <1>2, <1>3, <1>5 DEF Chain, Timely, One
<1>. QED
  BY <1>1, <1>2, <1>4, <1>6 DEF LInv, Modes, Ticking, TickEnabled, NoLostWakeup

LEMMA WakeEventKeeps ==
  ASSUME LInv, WakeEvent
  PROVE  LInv'
<1>0. now \in wakes /\ ~slicing /\ WakeNow(wakes \ {now}) /\ UNCHANGED vars
  BY DEF WakeEvent
<1>1. wakes \ {now} \in SUBSET Nat
  BY LoopFacts DEF LInv
<1>2. CASE sleeping
  BY <1>0, <1>1, <1>2, WakeKeeps DEF vars
<1>3. CASE ~sleeping
  <2>1. wakes' = wakes \ {now} /\ UNCHANGED <<sleeping, power, runs, now, faulted, ns, tick, slicing>>
    BY <1>0, <1>3 DEF WakeNow, Asleep, vars
  <2>. QED
    BY <1>1, <1>3, <2>1 DEF LInv, LoopTypeOK, Modes, Chain, Timely, Ticking, TickEnabled, NoLostWakeup, One, NoRuns, Horizon
<1>. QED
  BY <1>2, <1>3

LEMMA PendIrqKeeps ==
  ASSUME LInv, NEW e \in Irq, PendIrq(e)
  PROVE  LInv'
<1>0. /\ UNCHANGED <<primask, basepri, enabled, active, slicing>> /\ pending' = pending \cup {e}
  BY SliceSteps DEF PendIrq
<1>1. CASE e \in enabled /\ sleeping
  <2>1. WakeNow(wakes) /\ wakes \in SUBSET Nat /\ ~slicing
    BY <1>1, LoopFacts DEF PendIrq, LInv, Modes
  <2>. QED
    BY <1>0, <1>1, <2>1, WakeKeeps
<1>2. CASE ~(e \in enabled /\ sleeping)
  <2>1. UNCHANGED <<now, runs, wakes, sleeping, power, faulted, ns, tick>>
    BY <1>2 DEF PendIrq, loopVars
  <2>2. NoLostWakeup'
    <3>. SUFFICES ASSUME sleeping, NEW f \in pending', Injectable(cpu, f)' PROVE FALSE
      BY <2>1 DEF NoLostWakeup
    <3>1. Injectable(cpu, f)
      BY <1>0 DEF Injectable, ActivePriority, cpu
    <3>2. f # e
      <4>1. f \in Irq => f \in enabled
        BY <3>1 DEF Injectable, cpu
      <4>. QED
        BY <1>2, <4>1
    <3>. QED
      BY <1>0, <3>1, <3>2 DEF LInv, NoLostWakeup
  <2>. QED
    BY <1>0, <2>1, <2>2 DEF LInv, LoopTypeOK, Modes, Chain, Timely, Ticking, TickEnabled, One, NoRuns, Horizon
<1>. QED
  BY <1>1, <1>2

(* The firmware's own steps, the SysTick registers included. *)
LEMMA ExecuteKeeps ==
  ASSUME LInv, slicing, slicing' = slicing \/ slicing' = FALSE, ServicesEnd,
         tick' \in TickType, Steady /\ tick'.next # Never => TickEnabled(tick') /\ now < tick'.next
  PROVE  LInv'
<1>0. now \in Nat /\ SliceLen \in Nat /\ ns \in 0 .. SliceLen
  BY LoopFacts DEF LInv
<1>1. CASE slicing' = FALSE
  <2>1. now + ns \in now .. now + SliceLen
    BY <1>0
  <2>. QED
    BY <1>1, <2>1, NextSliceKeeps DEF ServicesEnd
<1>2. CASE slicing' = slicing
  <2>1. UNCHANGED <<now, runs, wakes, sleeping, power, faulted, ns>>
    BY <1>2 DEF ServicesEnd
  <2>2. ~sleeping /\ ~faulted /\ runs = NoRuns
    BY DEF LInv, Modes, Chain
  <2>3. LoopTypeOK'
    BY <2>1 DEF LInv, LoopTypeOK, TickType
  <2>. QED
    BY <1>2, <2>1, <2>2, <2>3 DEF LInv, Modes, Chain, Ticking, TickEnabled, NoLostWakeup, NoRuns, Horizon
<1>. QED
  BY <1>1, <1>2

LEMMA RegistersKeep ==
  ASSUME LInv, \/ \E on, int \in BOOLEAN : WriteCsr(on, int)
               \/ \E v \in Rvrs : WriteRvr(v)
               \/ Execute
  PROVE  LInv'
<1>0. now \in Nat /\ tick \in TickType /\ (tick.next # Never => tick.next \in Nat)
  BY LoopFacts DEF LInv, TickType
<1>1. \A v \in Rvrs : v \in Nat /\ (Steady => v > 0)
  <2>1. \A v \in Rvrs : v \in Nat
    BY McuAssumption
  <2>. QED
    BY <2>1 DEF Steady
<1>r. tick.rvr \in Nat /\ (tick.rvr = 0 \/ tick.rvr \in Rvrs)
  <2>1. tick.rvr = 0 \/ tick.rvr \in Rvrs
    BY <1>0 DEF TickType
  <2>. QED
    BY <1>1, <2>1
<1>2. ASSUME NEW on \in BOOLEAN, NEW int \in BOOLEAN, WriteCsr(on, int) PROVE LInv'
  <2>. DEFINE t == [tick EXCEPT !.enable = on, !.int = int]
  <2>1. Firmware /\ ServicesEnd
    BY <1>2 DEF WriteCsr, Firmware
  <2>2. tick' = IF ~TickEnabled(t) THEN [t EXCEPT !.next = Never]
                ELSE IF TickEnabled(tick) THEN t
                ELSE [t EXCEPT !.next = now + t.rvr]
    BY <1>2 DEF WriteCsr
  <2>3. t \in TickType /\ t.rvr = tick.rvr /\ t.next = tick.next
    BY <1>0 DEF TickType
  <2>4. slicing /\ (Steady /\ tick.next # Never => now < tick.next)
    BY <2>1, SliceSteps DEF LInv, Ticking
  <2>. HIDE DEF t
  <2>5. CASE ~TickEnabled(t)
    <3>1. tick' \in TickType /\ tick'.next = Never
      BY <2>2, <2>3, <2>5 DEF TickType
    <3>. QED
      BY <2>1, <2>4, <3>1, SliceSteps, ExecuteKeeps
  <2>6. CASE TickEnabled(t) /\ TickEnabled(tick)
    <3>1. tick' = t
      BY <2>2, <2>6
    <3>. QED
      BY <2>1, <2>3, <2>4, <2>6, <3>1, SliceSteps, ExecuteKeeps
  <2>7. CASE TickEnabled(t) /\ ~TickEnabled(tick)
    <3>1. tick' = [t EXCEPT !.next = now + t.rvr]
      BY <2>2, <2>7
    <3>2. now + t.rvr \in Nat /\ now < now + t.rvr
      BY <1>0, <1>r, <2>3, <2>7 DEF TickEnabled
    <3>3. tick' \in TickType /\ tick'.next = now + t.rvr /\ tick'.enable = t.enable /\ tick'.rvr = t.rvr
      BY <2>3, <3>1, <3>2 DEF TickType
    <3>4. TickEnabled(tick')
      BY <2>7, <3>3 DEF TickEnabled
    <3>. QED
      BY <2>1, <2>4, <3>2, <3>3, <3>4, SliceSteps, ExecuteKeeps
  <2>. QED
    BY <2>5, <2>6, <2>7
<1>3. ASSUME NEW v \in Rvrs, WriteRvr(v) PROVE LInv'
  <2>1. Firmware /\ ServicesEnd /\ tick' = [tick EXCEPT !.rvr = v]
    BY <1>3 DEF WriteRvr, Firmware
  <2>2. slicing /\ (Steady /\ tick.next # Never => TickEnabled(tick) /\ now < tick.next)
    BY <2>1, SliceSteps DEF LInv, Ticking
  <2>3. tick' \in TickType /\ tick'.next = tick.next /\ tick'.enable = tick.enable /\ tick'.rvr = v
    BY <1>0, <2>1 DEF TickType
  <2>4. Steady /\ tick'.next # Never => TickEnabled(tick') /\ now < tick'.next
    BY <1>1, <2>2, <2>3 DEF TickEnabled
  <2>. QED
    BY <2>1, <2>2, <2>3, <2>4, SliceSteps, ExecuteKeeps
<1>4. CASE Execute
  <2>1. Firmware /\ ServicesEnd /\ tick' = tick
    BY <1>4 DEF Execute
  <2>2. slicing /\ (Steady /\ tick.next # Never => TickEnabled(tick) /\ now < tick.next)
    BY <2>1, SliceSteps DEF LInv, Ticking
  <2>. QED
    BY <1>0, <2>1, <2>2, SliceSteps, ExecuteKeeps
<1>. QED
  BY <1>2, <1>3, <1>4

(* Time passes only when no slice and no wake-up is due. *)
LEMMA ElapseKeeps ==
  ASSUME LInv, Elapse
  PROVE  LInv'
<1>0. /\ now \in Nat /\ SliceLen \in Nat /\ SliceLen > 0 /\ MaxTime \in Nat /\ tick \in TickType
      /\ wakes \subseteq Nat
  BY LoopFacts DEF LInv
<1>1. /\ ~slicing /\ runs[now] = 0 /\ now \notin wakes /\ now < MaxTime /\ now' = now + 1
      /\ UNCHANGED <<runs, wakes, sleeping, power, faulted, ns, tick, slicing,
                     primask, basepri, enabled, pending, active, links, msp, frame, psp, spsel, pc>>
  BY DEF Elapse, vars, cpuVars
<1>2. LoopTypeOK'
  BY <1>0, <1>1 DEF LInv, LoopTypeOK
<1>3. Chain'
  <2>1. CASE sleeping \/ faulted
    BY <1>1, <2>1 DEF LInv, Chain, NoRuns, Horizon
  <2>2. CASE ~(sleeping \/ faulted)
    <3>1. PICK t \in now .. MaxTime + SliceLen : runs = One(t) /\ Timely(t)
      BY <1>1, <2>2 DEF LInv, Chain
    <3>2. t # now
      <4>1. t \in Horizon
        BY <1>0, <3>1 DEF Horizon
      <4>. QED
        BY <1>1, <3>1, <4>1 DEF One
    <3>3. t \in now' .. MaxTime + SliceLen
      BY <1>0, <1>1, <3>1, <3>2
    <3>4. runs' = One(t) /\ Timely(t)'
      BY <1>1, <3>1 DEF Timely
    <3>. QED
      BY <1>1, <2>2, <3>3, <3>4 DEF Chain, One, Horizon
  <2>. QED
    BY <2>1, <2>2
<1>4. Ticking'
  <2>1. ASSUME sleeping, tick.int, Steady, tick.next # Never PROVE \E w \in wakes : now + 1 <= w /\ w <= tick.next
    <3>1. PICK w \in wakes : now <= w /\ w <= tick.next
      BY <2>1 DEF LInv, Ticking
    <3>2. now + 1 <= w
      BY <1>0, <1>1, <3>1
    <3>. QED
      BY <3>1, <3>2
  <2>. QED
    BY <1>1, <2>1 DEF LInv, Ticking, TickEnabled
<1>5. NoLostWakeup'
  BY <1>1 DEF LInv, NoLostWakeup, Injectable, ActivePriority, cpu
<1>. QED
  BY <1>1, <1>2, <1>3, <1>4, <1>5 DEF LInv, Modes

LEMMA StepLInv == LInv /\ [LoopNext]_mcuVars => LInv'
<1>. SUFFICES ASSUME LInv, [LoopNext]_mcuVars PROVE LInv'
  OBVIOUS
<1>1. CASE RunSlice
  BY <1>1, RunSliceKeeps
<1>2. CASE TakeReset
  BY <1>2, TakeResetKeeps
<1>3. CASE Ran \/ WfiFallsThrough \/ WfiSleeps \/ Fault
  BY <1>3, SliceEndKeeps
<1>4. CASE WakeEvent
  BY <1>4, WakeEventKeeps
<1>5. CASE \E e \in Irq : PendIrq(e)
  BY <1>5, PendIrqKeeps
<1>6. CASE (\E on, int \in BOOLEAN : WriteCsr(on, int)) \/ (\E v \in Rvrs : WriteRvr(v)) \/ Execute
  BY <1>6, RegistersKeep
<1>7. CASE Elapse
  BY <1>7, ElapseKeeps
<1>8. CASE UNCHANGED mcuVars
  <2>1. UNCHANGED <<now, runs, wakes, sleeping, power, faulted, ns, tick, slicing>>
    BY <1>8 DEF mcuVars, vars, cpuVars, loopVars
  <2>2. UNCHANGED <<primask, basepri, enabled, pending, active>>
    BY <1>8 DEF mcuVars, vars, cpuVars
  <2>3. LoopTypeOK'
    BY <2>1 DEF LInv, LoopTypeOK
  <2>4. Modes' /\ Ticking'
    BY <2>1 DEF LInv, Modes, Ticking, TickEnabled
  <2>5. Chain'
    BY <2>1 DEF LInv, Chain, Timely, One, NoRuns, Horizon
  <2>6. NoLostWakeup'
    BY <2>1, <2>2 DEF LInv, NoLostWakeup, Injectable, ActivePriority, cpu
  <2>. QED
    BY <2>3, <2>4, <2>5, <2>6 DEF LInv
<1>. QED
  BY <1>1, <1>2, <1>3, <1>4, <1>5, <1>6, <1>7, <1>8 DEF LoopNext

(* The loop's times, wake-ups and SysTick keep their types: a slice is     *)
(* never longer than slice_ns, and the expiry is a time or None.           *)
THEOREM LoopIsTyped == LoopSpec => []LoopTypeOK
<1>1. LInv => LoopTypeOK
  BY DEF LInv
<1>. QED
  BY <1>1, InitLInv, StepLInv, PTL DEF LoopSpec

(* _run_slice, _wake_now, pend_irq, WFI, faults and resets keep one chain  *)
(* of slices: none is lost and none doubled.                               *)
THEOREM OneChainOfSlices == LoopSpec => []OneSlice
<1>1. LInv => OneSlice
  <2>. SUFFICES ASSUME LInv PROVE OneSlice
    OBVIOUS
  <2>0. now \in Nat /\ runs \in [Horizon -> Nat]
    BY LoopFacts DEF LInv
  <2>1. CASE slicing \/ sleeping \/ faulted
    <3>1. Scheduled = {}
      BY <2>1 DEF LInv, Chain, Scheduled, NoRuns
    <3>. QED
      BY <2>1, <3>1, FS_EmptySet DEF OneSlice
  <2>2. CASE ~(slicing \/ sleeping \/ faulted)
    <3>1. PICK t \in now .. MaxTime + SliceLen : runs = One(t)
      BY <2>2 DEF LInv, Chain
    <3>2. t \in Horizon /\ t >= now
      BY <2>0, <3>1 DEF Horizon
    <3>3. Scheduled = {t} /\ runs[t] = 1
      BY <3>1, <3>2 DEF Scheduled, One
    <3>4. Cardinality(Scheduled) = 1
      BY <3>3, FS_Singleton
    <3>. QED
      BY <2>2, <3>2, <3>3, <3>4 DEF OneSlice
  <2>. QED
    BY <2>1, <2>2
<1>. QED
  BY <1>1, InitLInv, StepLInv, PTL DEF LoopSpec

(* can_wake before WFI and pend_irq during sleep leave nothing pending     *)
(* that could run.                                                         *)
THEOREM NoWakeupIsLost == LoopSpec => []NoLostWakeup
<1>1. LInv => NoLostWakeup
  BY DEF LInv
<1>. QED
  BY <1>1, InitLInv, StepLInv, PTL DEF LoopSpec

(* "Interrupt latency is bounded by slice_us", for any period, any slice   *)
(* length and whatever the firmware makes of CSR and RVR, except that it   *)
(* stops the timer in CSR: a reload value of 0 stops it too, but leaves    *)
(* next_fire_ns behind.                                                    *)
THEOREM TicksAreTimely == ASSUME 0 \notin Rvrs PROVE LoopSpec => []TickLatency
<1>0. Steady
  BY DEF Steady
<1>1. LInv => TickLatency
  <2>. SUFFICES ASSUME LInv, tick.int, tick.next # Never, ~faulted
                PROVE  now < tick.next + SliceLen
    BY DEF TickLatency
  <2>0. /\ now \in Nat /\ SliceLen \in Nat /\ SliceLen > 0 /\ tick.next \in Nat /\ wakes \subseteq Nat
    BY LoopFacts DEF LInv, TickType
  <2>1. CASE slicing
    BY <1>0, <2>0, <2>1 DEF LInv, Ticking
  <2>2. CASE sleeping
    <3>1. PICK w \in wakes : now <= w /\ w <= tick.next
      BY <1>0, <2>2 DEF LInv, Ticking
    <3>. QED
      BY <2>0, <3>1
  <2>3. CASE ~slicing /\ ~sleeping
    <3>1. PICK t \in now .. MaxTime + SliceLen : Timely(t)
      BY <2>3 DEF LInv, Chain
    <3>. QED
      BY <1>0, <2>0, <3>1 DEF Timely
  <2>. QED
    BY <2>1, <2>2, <2>3
<1>. QED
  BY <1>1, InitLInv, StepLInv, PTL DEF LoopSpec
=============================================================================
