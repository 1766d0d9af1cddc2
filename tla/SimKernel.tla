----------------------------- MODULE SimKernel -----------------------------
(***************************************************************************)
(* The discrete-event kernel of twin/core/kernel.py.  Callbacks are        *)
(* arbitrary code: while one runs it may schedule and cancel events, then  *)
(* it returns or raises.  The kernel is single threaded, so outside a      *)
(* callback only the loop of run_until() or run() moves.                   *)
(***************************************************************************)
EXTENDS Integers, FiniteSets

CONSTANTS
  Delays,      (* delays a caller may ask for; negative ones are refused *)
  Horizons,    (* arguments of run_until() *)
  Caps,        (* arguments of run(max_events); step() is run(1) *)
  MaxEvents,   (* bound: schedule() is called at most this often *)
  Off, Drain   (* values of until outside run_until() and inside run() *)

ASSUME KernelAssumption ==
  /\ Delays \subseteq Int
  /\ Horizons \subseteq Nat
  /\ Caps \subseteq Nat
  /\ MaxEvents \in Nat
  /\ Off \notin Nat /\ Drain \notin Nat /\ Off # Drain

VARIABLES
  now,         (* SimKernel.now *)
  queue,       (* SimKernel._queue, the heap, as the set of its events *)
  nextSeq,     (* SimKernel._seq *)
  cancelled,   (* seq of the events whose cancelled flag is set *)
  until,       (* run_until()'s t_ns, Drain inside run(), Off outside both *)
  left,        (* max_events - n inside run() *)
  busy,        (* a callback is on the stack *)
  ran          (* history: the event dispatched last *)

vars == <<now, queue, nextSeq, cancelled, until, left, busy, ran>>

Event == [time : Nat, seq : Nat]
Before(e, f) == e.time < f.time \/ (e.time = f.time /\ e.seq < f.seq)
NothingRan == [time |-> 0, seq |-> -1]

Live(e) == e.seq \notin cancelled
-----------------------------------------------------------------------------
(* Seeded faults: what the operators below would be under a plausible      *)
(* mistake.  Only the mutation runs of PROJECT.json use them.              *)
IsEarliest(e) == e \in queue /\ \A f \in queue : e.time <= f.time
IgnoreCap == until # Off
AtHorizon(e) == e.time >= until
-----------------------------------------------------------------------------
(* schedule() raises ValueError for anything else. *)
Accepted(d) == d >= 0

(* The event at self._queue[0]: the dataclass orders by (time, seq). *)
IsHead(e) == e \in queue /\ \A f \in queue \ {e} : Before(e, f)

(* run()'s loop condition n < max_events; run_until() has no cap. *)
UnderCap == until = Drain => left > 0

(* step() runs the event it popped unless its flag is set. *)
Runnable(e) == Live(e)

(* run_until()'s break. *)
BeyondHorizon(e) == e.time > until

Init ==
  /\ now = 0
  /\ queue = {}
  /\ nextSeq = 0
  /\ cancelled = {}
  /\ until = Off
  /\ left = 0
  /\ busy = FALSE
  /\ ran = NothingRan

(* User code runs: a callback, or the program outside the loop. *)
UserCode == busy \/ until = Off

Schedule(d) ==
  /\ UserCode
  /\ Accepted(d)
  /\ nextSeq < MaxEvents
  /\ queue' = queue \cup {[time |-> now + d, seq |-> nextSeq]}
  /\ nextSeq' = nextSeq + 1
  /\ UNCHANGED <<now, cancelled, until, left, busy, ran>>

(* The handle outlives the dispatch, so any event may be cancelled. *)
Cancel(s) ==
  /\ UserCode
  /\ cancelled' = cancelled \cup {s}
  /\ UNCHANGED <<now, queue, nextSeq, until, left, busy, ran>>

RunUntil(t) ==
  /\ until = Off /\ ~busy
  /\ until' = t
  /\ UNCHANGED <<now, queue, nextSeq, cancelled, left, busy, ran>>

Run(n) ==
  /\ until = Off /\ ~busy
  /\ until' = Drain
  /\ left' = n
  /\ UNCHANGED <<now, queue, nextSeq, cancelled, busy, ran>>

Looping == until # Off /\ ~busy

(* Seeded fault: the loop looks at a cancelled head and forgets to pop it. *)
SpinOnCancelled == Looping /\ UnderCap /\ UNCHANGED vars

(* Both loops pop a cancelled head, due or not, and look again. *)
SkipCancelled ==
  /\ Looping
  /\ UnderCap
  /\ \E e \in queue : IsHead(e) /\ ~Live(e) /\ queue' = queue \ {e}
  /\ UNCHANGED <<now, nextSeq, cancelled, until, left, busy, ran>>

Dispatch ==
  /\ Looping
  /\ UnderCap
  /\ \E e \in queue : /\ IsHead(e) /\ Runnable(e)
                      /\ until # Drain => ~BeyondHorizon(e)
                      /\ queue' = queue \ {e}
                      /\ now' = e.time
                      /\ ran' = e
  /\ left' = IF until = Drain THEN left - 1 ELSE left
  /\ busy' = TRUE
  /\ UNCHANGED <<nextSeq, cancelled, until>>

CallbackReturn ==
  /\ busy
  /\ busy' = FALSE
  /\ UNCHANGED <<now, queue, nextSeq, cancelled, until, left, ran>>

(* The exception leaves the loop: the event is gone, the clock stays. *)
CallbackRaise ==
  /\ busy
  /\ busy' = FALSE
  /\ until' = Off
  /\ left' = 0
  /\ UNCHANGED <<now, queue, nextSeq, cancelled, ran>>

RunUntilReturn ==
  /\ Looping /\ until # Drain
  /\ \A e \in queue : IsHead(e) => Live(e) /\ BeyondHorizon(e)
  /\ now' = IF until > now THEN until ELSE now
  /\ until' = Off
  /\ UNCHANGED <<queue, nextSeq, cancelled, left, busy, ran>>

RunReturn ==
  /\ Looping /\ until = Drain
  /\ ~UnderCap \/ queue = {}
  /\ until' = Off
  /\ left' = 0
  /\ UNCHANGED <<now, queue, nextSeq, cancelled, busy, ran>>

Loop == SkipCancelled \/ Dispatch \/ RunUntilReturn \/ RunReturn

Next ==
  \/ \E d \in Delays : Schedule(d)
  \/ \E s \in 0 .. nextSeq - 1 : Cancel(s)
  \/ \E t \in Horizons : RunUntil(t)
  \/ \E n \in Caps : Run(n)
  \/ SkipCancelled
  \/ Dispatch
  \/ CallbackReturn
  \/ CallbackRaise
  \/ RunUntilReturn
  \/ RunReturn

(* The loop is plain sequential code, and a callback is code that ends. *)
Fairness == WF_vars(Loop) /\ WF_vars(CallbackReturn)

Spec == Init /\ [][Next]_vars
FairSpec == Spec /\ Fairness
-----------------------------------------------------------------------------
TypeOK ==
  /\ now \in Nat
  /\ queue \subseteq Event
  /\ nextSeq \in Nat
  /\ cancelled \subseteq Nat
  /\ until \in Nat \cup {Off, Drain}
  /\ left \in Nat
  /\ busy \in BOOLEAN
  /\ ran \in [time : Nat, seq : Nat \cup {-1}]

(* Nothing in the heap lies in the past, whatever callbacks do and however *)
(* far run_until() moved the clock: schedule() refuses a negative delay.   *)
NothingOverdue == \A e \in queue : e.time >= now

(* "Events at the same timestamp dispatch in scheduling order" (kernel.py  *)
(* line 4): over a whole simulation, several runs of the loop included,    *)
(* dispatched events increase strictly in (time, seq).                     *)
DispatchOrder == [][ran' # ran => Before(ran, ran')]_vars

(* "Run all events with time <= t_ns, then advance the clock to t_ns":     *)
(* when run_until() returns without an exception, no live event at or      *)
(* before its horizon is left.                                             *)
RunUntilComplete ==
  [][(until \in Nat /\ until' = Off /\ ~busy)
       => /\ \A e \in queue' : Live(e)' => e.time > until
          /\ now' >= until]_vars

(* cancel() only sets a flag and the loop drops flagged events when they   *)
(* surface: to its callers the kernel still is a calendar whose withdrawn  *)
(* events vanish at once.                                                  *)
Calendar == INSTANCE EventCalendar
              WITH pending <- {e \in queue : Live(e)}, issued <- nextSeq

ImplementsCalendar == Calendar!CalendarSpec

(* Provided callbacks schedule finitely many events (MaxEvents), each call *)
(* of run_until() and run() ends, also when cancelled events lie at the    *)
(* head of the heap beyond the horizon.                                    *)
LoopReturns == (until # Off) ~> (until = Off)
=============================================================================
