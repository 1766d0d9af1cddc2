-------------------------- MODULE SimKernelProofs --------------------------
(***************************************************************************)
(* Theorems about SimKernel for every set of delays, horizons and caps and *)
(* any number of events.  The inductive invariant is the type invariant    *)
(* together with where the heap lies: after the last dispatched event and  *)
(* not before the clock.                                                   *)
(***************************************************************************)
EXTENDS SimKernel, TLAPS, WellFoundedInduction

(* Every event of the heap was issued, is not before the clock, and comes *)
(* after the event dispatched last.                                       *)
HeapAhead ==
  /\ \A e \in queue : e.seq < nextSeq /\ e.time >= now /\ Before(ran, e)
  /\ ran.seq < nextSeq
  /\ ran.time <= now

(* Events are told apart by their number alone. *)
SeqUnique == \A e, f \in queue : e.seq = f.seq => e = f

(* Only an event that was issued can be cancelled: a new event is live. *)
HandlesIssued == \A s \in cancelled : s < nextSeq

IInv == TypeOK /\ HeapAhead /\ SeqUnique /\ HandlesIssued

(* A nonempty set of numbers has a least element. *)
LEMMA LeastElement ==
  ASSUME NEW T \in SUBSET Nat, T # {}
  PROVE  \E x \in T : \A y \in T : x <= y
<1>1. PICK x \in T : \A y \in T : ~ (<<y, x>> \in OpToRel(<, Nat))
  BY NatLessThanWellFounded, WFMin
<1>2. ASSUME NEW y \in T PROVE x <= y
  <2>1. x \in Nat /\ y \in Nat
    OBVIOUS
  <2>2. ~ (y < x)
    BY <1>1, <2>1 DEF OpToRel
  <2> QED BY <2>1, <2>2
<1> QED BY <1>2

(* The heap's order is total on what it holds, so a nonempty heap has a   *)
(* head: the least number among the events of the least time.             *)
LEMMA HeadExists == ASSUME IInv, queue # {} PROVE \E h \in queue : IsHead(h)
<1> USE DEF IInv, TypeOK, Event
<1>1. PICK e \in queue : \A f \in queue : e.time <= f.time
  <2> DEFINE T == {f.time : f \in queue}
  <2>1. T \in SUBSET Nat /\ T # {}
    OBVIOUS
  <2> HIDE DEF T
  <2>2. PICK x \in T : \A y \in T : x <= y
    BY <2>1, LeastElement
  <2> QED BY <2>2 DEF T
<1> DEFINE First == {f \in queue : f.time = e.time}
<1>2. PICK h \in First : \A f \in First : h.seq <= f.seq
  <2> DEFINE T == {f.seq : f \in First}
  <2>1. T \in SUBSET Nat /\ T # {}
    OBVIOUS
  <2> HIDE DEF T
  <2>2. PICK x \in T : \A y \in T : x <= y
    BY <2>1, LeastElement
  <2> QED BY <2>2 DEF T
<1>3. ASSUME NEW f \in queue \ {h} PROVE Before(h, f)
  <2>1. CASE f.time = e.time
    <3>1. h.seq # f.seq
      BY DEF SeqUnique
    <3>2. h.seq <= f.seq
      BY <1>2, <2>1
    <3> QED BY <2>1, <3>1, <3>2 DEF Before
  <2>2. CASE f.time # e.time
    BY <1>1, <2>2 DEF Before
  <2> QED BY <2>1, <2>2
<1> QED BY <1>3 DEF IsHead

(* When run_until() breaks off its loop, every live event, head or not, is *)
(* beyond the horizon.                                                     *)
LEMMA NothingDueAtReturn ==
  ASSUME IInv, RunUntilReturn
  PROVE  until \in Nat /\ \A e \in queue : e.time > until
<1>1. until \in Nat
  BY DEF RunUntilReturn, Looping, IInv, TypeOK
<1>2. ASSUME NEW e \in queue PROVE e.time > until
  <2>1. PICK h \in queue : IsHead(h)
    BY HeadExists
  <2>2. h.time > until
    BY <2>1 DEF RunUntilReturn, BeyondHorizon
  <2>3. h.time <= e.time
    BY <2>1 DEF IsHead, Before, IInv, TypeOK, Event
  <2> QED BY <1>1, <2>2, <2>3 DEF IInv, TypeOK, Event
<1> QED BY <1>1, <1>2

(* The program starts with an empty heap at time zero. *)
LEMMA InitIInv == Init => IInv
<1> SUFFICES ASSUME Init PROVE IInv
  OBVIOUS
<1>1. TypeOK
  BY DEF Init, TypeOK, NothingRan
<1>2. HeapAhead /\ SeqUnique /\ HandlesIssued
  BY DEF Init, HeapAhead, SeqUnique, HandlesIssued, NothingRan
<1> QED BY <1>1, <1>2 DEF IInv

(* The strengthened invariant survives every call, callback and loop step. *)
LEMMA NextIInv == IInv /\ [Next]_vars => IInv'
<1> SUFFICES ASSUME IInv, [Next]_vars PROVE IInv'
  OBVIOUS
<1> USE KernelAssumption DEF IInv
<1>1. ASSUME NEW d \in Delays, Schedule(d) PROVE IInv'
  <2> DEFINE new == [time |-> now + d, seq |-> nextSeq]
  <2>1. d \in Nat
    BY <1>1 DEF Schedule, Accepted
  <2>2. new \in Event /\ new.time >= now /\ new.seq = nextSeq
    BY <2>1 DEF TypeOK, Event
  <2>3. queue' = queue \cup {new} /\ nextSeq' = nextSeq + 1
        /\ UNCHANGED <<now, cancelled, until, left, busy, ran>>
    BY <1>1 DEF Schedule
  <2>4. Before(ran, new)
    BY <2>2 DEF TypeOK, HeapAhead, Before, Event
  <2> HIDE DEF new
  <2>5. TypeOK'
    BY <2>2, <2>3 DEF TypeOK
  <2>6. HeapAhead'
    BY <2>2, <2>3, <2>4 DEF TypeOK, HeapAhead, Before, Event
  <2>7. SeqUnique'
    BY <2>2, <2>3 DEF TypeOK, HeapAhead, SeqUnique, Event
  <2>8. HandlesIssued'
    BY <2>3 DEF TypeOK, HandlesIssued
  <2> QED BY <2>5, <2>6, <2>7, <2>8
<1>2. ASSUME NEW s \in 0 .. nextSeq - 1, Cancel(s) PROVE IInv'
  BY <1>2 DEF Cancel, TypeOK, HeapAhead, SeqUnique, HandlesIssued,
      Before
<1>3. ASSUME NEW t \in Horizons, RunUntil(t) PROVE IInv'
  BY <1>3 DEF RunUntil, TypeOK, HeapAhead, SeqUnique, HandlesIssued,
      Before
<1>4. ASSUME NEW n \in Caps, Run(n) PROVE IInv'
  BY <1>4 DEF Run, TypeOK, HeapAhead, SeqUnique, HandlesIssued,
      Before
<1>5. CASE SkipCancelled
  BY <1>5 DEF SkipCancelled, TypeOK, HeapAhead, SeqUnique, HandlesIssued,
      Before
<1>6. CASE Dispatch
  <2> PICK e \in queue : /\ IsHead(e)
                         /\ queue' = queue \ {e} /\ now' = e.time /\ ran' = e
    BY <1>6 DEF Dispatch
  <2>1. left' \in Nat
    BY <1>6 DEF Dispatch, UnderCap, TypeOK
  <2>2. e \in Event
    BY DEF TypeOK
  <2>3. TypeOK'
    BY <1>6, <2>1, <2>2 DEF Dispatch, TypeOK, Event
  <2>4. \A f \in queue' : f.time >= e.time /\ Before(e, f)
    BY <2>2 DEF IsHead, Before, TypeOK, Event
  <2>5. HeapAhead'
    BY <1>6, <2>2, <2>4 DEF Dispatch, HeapAhead, Before, TypeOK, Event
  <2>6. SeqUnique'
    BY DEF SeqUnique
  <2>7. HandlesIssued'
    BY <1>6 DEF Dispatch, HandlesIssued
  <2> QED BY <2>3, <2>5, <2>6, <2>7
<1>7. CASE CallbackReturn
  BY <1>7 DEF CallbackReturn, TypeOK, HeapAhead, SeqUnique, HandlesIssued,
      Before
<1>8. CASE CallbackRaise
  BY <1>8 DEF CallbackRaise, TypeOK, HeapAhead, SeqUnique, HandlesIssued,
      Before
<1>9. CASE RunUntilReturn
  <2>1. until \in Nat /\ \A e \in queue : e.time > until
    BY <1>9, NothingDueAtReturn
  <2>2. now' \in Nat /\ now' >= now /\ \A e \in queue : e.time >= now'
    BY <1>9, <2>1 DEF RunUntilReturn, TypeOK, HeapAhead, Event
  <2> QED
    BY <1>9, <2>2 DEF RunUntilReturn, TypeOK, HeapAhead, SeqUnique, HandlesIssued,
      Before
<1>10. CASE RunReturn
  BY <1>10 DEF RunReturn, TypeOK, HeapAhead, SeqUnique, HandlesIssued,
      Before
<1>11. CASE UNCHANGED vars
  BY <1>11 DEF vars, TypeOK, HeapAhead, SeqUnique, HandlesIssued,
      Before
<1> QED
  BY <1>1, <1>2, <1>3, <1>4, <1>5, <1>6, <1>7, <1>8, <1>9, <1>10, <1>11
  DEF Next

LEMMA Invariance == Spec => []IInv
  BY InitIInv, NextIInv, PTL DEF Spec

(* Type correctness of the kernel. *)
THEOREM TypeCorrect == Spec => []TypeOK
  BY Invariance, PTL DEF IInv

(* No call sequence leaves an event of the heap before the clock.          *)
THEOREM NeverOverdue == Spec => []NothingOverdue
<1>1. IInv => NothingOverdue
  BY DEF IInv, HeapAhead, NothingOverdue
<1> QED BY <1>1, Invariance, PTL

(* Time order, then scheduling order, over the whole simulation: the heap  *)
(* always lies after the event dispatched last.                            *)
THEOREM DispatchesInOrder == Spec => DispatchOrder
<1>1. IInv /\ [Next]_vars => [ran' # ran => Before(ran, ran')]_vars
  <2> SUFFICES ASSUME IInv, Next, ran' # ran PROVE Before(ran, ran')
    BY DEF vars
  <2>1. Dispatch
    BY DEF Next, Schedule, Cancel, RunUntil, Run, SkipCancelled,
           CallbackReturn, CallbackRaise, RunUntilReturn, RunReturn
  <2> QED BY <2>1 DEF Dispatch, IInv, HeapAhead
<1> QED BY <1>1, Invariance, PTL DEF Spec, DispatchOrder

(* run_until() returns only when nothing at or before its horizon is left: *)
(* the break at the head speaks for the whole heap.                        *)
THEOREM RunsAllDue == Spec => RunUntilComplete
<1> DEFINE Done == (until \in Nat /\ until' = Off /\ ~busy)
                     => /\ \A e \in queue' : Live(e)' => e.time > until
                        /\ now' >= until
<1>1. IInv /\ [Next]_vars => [Done]_vars
  <2> SUFFICES ASSUME IInv, Next, until \in Nat, until' = Off, ~busy
               PROVE  Done
    BY DEF vars
  <2> USE KernelAssumption
  <2>1. RunUntilReturn
    BY DEF Next, Schedule, Cancel, RunUntil, Run, SkipCancelled, Dispatch,
           CallbackReturn, CallbackRaise, RunReturn, Looping
  <2>2. \A e \in queue : e.time > until
    BY <2>1, NothingDueAtReturn
  <2> QED BY <2>1, <2>2 DEF RunUntilReturn, IInv, TypeOK
<1> QED BY <1>1, Invariance, PTL DEF Spec, RunUntilComplete
-----------------------------------------------------------------------------
(* Lazy deletion implements immediate deletion, step by step. *)
LEMMA StepRefines ==
  IInv /\ [Next]_vars => [Calendar!CalendarNext]_(Calendar!calendarVars)
<1> SUFFICES ASSUME IInv, [Next]_vars
             PROVE  [Calendar!CalendarNext]_(Calendar!calendarVars)
  OBVIOUS
<1> DEFINE Pending == {e \in queue : Live(e)}
<1> USE KernelAssumption DEF IInv
<1>1. ASSUME NEW d \in Delays, Schedule(d)
      PROVE  \E e \in Pending' \ Pending : Calendar!Add(e)
  <2> DEFINE new == [time |-> now + d, seq |-> nextSeq]
  <2>1. new.time >= now /\ new.seq = nextSeq
    BY <1>1 DEF Schedule, Accepted, TypeOK
  <2>2. queue' = queue \cup {new} /\ nextSeq' = nextSeq + 1
        /\ UNCHANGED <<now, cancelled, ran>>
    BY <1>1 DEF Schedule
  <2> HIDE DEF new
  <2>3. new \notin queue /\ Live(new)
    BY <2>1 DEF TypeOK, HeapAhead, HandlesIssued, Live
  <2>4. Pending' = Pending \cup {new}
    BY <2>2, <2>3 DEF Live
  <2>5. Calendar!Add(new)
    BY <2>1, <2>2, <2>4 DEF Calendar!Add
  <2> QED BY <2>3, <2>4, <2>5
<1>2. ASSUME NEW s \in 0 .. nextSeq - 1, Cancel(s)
      PROVE  \/ \E z \in {e.seq : e \in Pending} : Calendar!Withdraw(z)
             \/ UNCHANGED Calendar!calendarVars
  <2>1. Pending' = {e \in Pending : e.seq # s}
    BY <1>2 DEF Cancel, Live
  <2>2. CASE \E e \in Pending : e.seq = s
    BY <1>2, <2>1, <2>2 DEF Cancel, Calendar!Withdraw
  <2>3. CASE \A e \in Pending : e.seq # s
    BY <1>2, <2>1, <2>3 DEF Cancel, Calendar!calendarVars
  <2> QED BY <2>2, <2>3
<1>3. CASE SkipCancelled
  <2>1. Pending' = Pending
    BY <1>3 DEF SkipCancelled, Live
  <2> QED BY <1>3, <2>1 DEF SkipCancelled, Calendar!calendarVars
<1>4. CASE Dispatch
  <2> PICK e \in queue : /\ IsHead(e) /\ Live(e)
                         /\ queue' = queue \ {e} /\ now' = e.time /\ ran' = e
    BY <1>4 DEF Dispatch, Runnable
  <2>1. UNCHANGED <<nextSeq, cancelled>>
    BY <1>4 DEF Dispatch
  <2>2. Pending' = Pending \ {e}
    BY <2>1 DEF Live
  <2>3. \A f \in Pending \ {e} : Calendar!Before(e, f)
    BY DEF IsHead, Before, Calendar!Before
  <2>4. Calendar!Before(ran, e) /\ e.time >= now
    BY DEF HeapAhead, Before, Calendar!Before
  <2>5. Calendar!RunFirst(ran')
    BY <2>1, <2>2, <2>3, <2>4 DEF Calendar!RunFirst
  <2> QED BY <2>5 DEF Calendar!CalendarNext
<1>5. CASE RunUntilReturn
  <2>1. until \in Nat /\ \A e \in queue : e.time > until
    BY <1>5, NothingDueAtReturn
  <2>2. UNCHANGED <<queue, nextSeq, cancelled, ran>>
    BY <1>5 DEF RunUntilReturn
  <2>3. Pending' = Pending
    BY <2>2 DEF Live
  <2>4. CASE until > now
    <3>1. now' = until
      BY <1>5, <2>4 DEF RunUntilReturn
    <3>2. Calendar!Idle(now')
      BY <2>1, <2>2, <2>3, <2>4, <3>1 DEF Calendar!Idle, TypeOK
    <3> QED BY <3>2 DEF Calendar!CalendarNext
  <2>5. CASE ~(until > now)
    <3>1. now' = now
      BY <1>5, <2>5 DEF RunUntilReturn
    <3> QED BY <2>2, <2>3, <3>1 DEF Calendar!calendarVars
  <2> QED BY <2>4, <2>5
<1>6. CASE \/ \E t \in Horizons : RunUntil(t)
           \/ \E n \in Caps : Run(n)
           \/ CallbackReturn \/ CallbackRaise \/ RunReturn
           \/ UNCHANGED vars
  <2>1. UNCHANGED <<now, queue, nextSeq, cancelled, ran>>
    BY <1>6 DEF RunUntil, Run, CallbackReturn, CallbackRaise, RunReturn, vars
  <2>2. Pending' = Pending
    BY <2>1 DEF Live
  <2> QED BY <2>1, <2>2 DEF Calendar!calendarVars
<1> QED
  BY <1>1, <1>2, <1>3, <1>4, <1>5, <1>6 DEF Next, Calendar!CalendarNext

(* To its callers the kernel is the calendar of EventCalendar: a cancelled *)
(* event never runs, and the next to run is always the first live one.     *)
THEOREM KernelIsCalendar == Spec => ImplementsCalendar
<1>1. Init => Calendar!CalendarInit
  BY DEF Init, Calendar!CalendarInit, NothingRan, Calendar!NothingRan
<1> QED
  BY <1>1, StepRefines, Invariance, PTL
  DEF Spec, ImplementsCalendar, Calendar!CalendarSpec

=============================================================================
