--------------------------- MODULE EventCalendar ---------------------------
(***************************************************************************)
(* What a discrete-event kernel promises its callers: a calendar of        *)
(* numbered events and a clock.  Withdrawing an event removes it at once;  *)
(* the event that runs is always the first of the calendar in (time, seq)  *)
(* order; and the clock moves only to the event that runs, or past a       *)
(* stretch in which the calendar holds nothing.                            *)
(***************************************************************************)
EXTENDS Integers

VARIABLES now,       (* the clock *)
          pending,   (* the events that will run, unless withdrawn *)
          issued,    (* how many events were ever added *)
          ran        (* the event that ran last *)

calendarVars == <<now, pending, issued, ran>>

Event == [time : Nat, seq : Nat]

Before(e, f) == e.time < f.time \/ (e.time = f.time /\ e.seq < f.seq)

(* A value before every event, for the time when nothing ran yet. *)
NothingRan == [time |-> 0, seq |-> -1]

CalendarInit ==
  /\ now = 0
  /\ pending = {}
  /\ issued = 0
  /\ ran = NothingRan

Add(e) ==
  /\ e.time >= now
  /\ e.seq = issued
  /\ pending' = pending \cup {e}
  /\ issued' = issued + 1
  /\ UNCHANGED <<now, ran>>

Withdraw(s) ==
  /\ pending' = {e \in pending : e.seq # s}
  /\ UNCHANGED <<now, issued, ran>>

RunFirst(e) ==
  /\ e \in pending
  /\ \A f \in pending \ {e} : Before(e, f)
  /\ Before(ran, e)
  /\ e.time >= now
  /\ now' = e.time
  /\ ran' = e
  /\ pending' = pending \ {e}
  /\ UNCHANGED issued

Idle(t) ==
  /\ t >= now
  /\ \A e \in pending : e.time > t
  /\ now' = t
  /\ UNCHANGED <<pending, issued, ran>>

(* Written with explicit witnesses for the next state, so that TLC can    *)
(* check it as a property of a detailed specification.                    *)
CalendarNext ==
  \/ \E e \in pending' \ pending : Add(e)
  \/ \E s \in {e.seq : e \in pending} : Withdraw(s)
  \/ RunFirst(ran')
  \/ Idle(now')

CalendarSpec == CalendarInit /\ [][CalendarNext]_calendarVars
=============================================================================
