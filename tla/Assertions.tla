----------------------------- MODULE Assertions -----------------------------
(***************************************************************************)
(* twin/core/trace.py and twin/scenario/assertions.py: the queries of a    *)
(* trace and the verdicts drawn from it.  A trace is the sequence of what  *)
(* was recorded, [t, kind, name, val], in the order of recording.          *)
(***************************************************************************)
EXTENDS Integers, Sequences, SequencesExt

(* TraceRecorder.select.  Both ends of the window are in it. *)
Matches(e, kind, name, start, end) ==
  e.kind = kind /\ e.name = name /\ start <= e.t /\ e.t <= end

Select(trace, kind, name, start, end) ==
  LET kept[i \in 0 .. Len(trace)] ==
        IF i = 0 THEN <<>>
        ELSE IF Matches(trace[i], kind, name, start, end) THEN Append(kept[i - 1], trace[i])
        ELSE kept[i - 1]
  IN  kept[Len(trace)]

(* net_level_at: None, here "none", for a net that was never recorded.     *)
NetLevelAt(trace, net, t) ==
  LET es == Select(trace, "net", net, 0, t)
  IN  IF es = <<>> THEN "none" ELSE Last(es).val

UartBytes(trace, net, start, end) ==
  LET es == Select(trace, "uart", net, start, end) IN [i \in DOMAIN es |-> es[i].val]

Within(pattern, data) ==
  \E i \in 1 .. Len(data) - Len(pattern) + 1 :
    SubSeq(data, i, i + Len(pattern) - 1) = pattern

(* transitions, in a window and to a level, or to any ("any"). *)
Transitions(trace, net, start, end, level) ==
  SelectSeq(Select(trace, "net", net, start, end), LAMBDA e : level \in {"any", e.val})

(* The handlers.  A rail that is not in the report, a component that is    *)
(* not on the board and an assertion of an unknown type fail; so does one  *)
(* whose evaluation raises (its fields are missing).                       *)
Holds(a, trace, report, states) ==
  CASE a.type = "net_level" -> NetLevelAt(trace, a.name, a.at) = a.equals
    [] a.type = "uart_contains" -> Within(a.pattern, UartBytes(trace, a.name, a.after, a.before))
    [] a.type = "uart_not_contains" ->
         ~Within(a.pattern, UartBytes(trace, a.name, a.after, a.before))
    [] a.type = "power_budget" ->
         /\ a.name \in DOMAIN report.rails
         /\ \A k \in DOMAIN a.limits : report.rails[a.name][k] <= a.limits[k]
    [] a.type = "battery_soc_min" -> a.name \in DOMAIN report.soc /\ report.soc[a.name] >= a.min
    [] a.type = "temp_max" -> a.name \in DOMAIN report.thermal /\ report.thermal[a.name] <= a.max
    [] a.type = "log_contains" -> \E i \in DOMAIN trace :
         trace[i].kind = "log" /\ trace[i].val = a.pattern /\ a.name \in {"any", trace[i].name}
    [] a.type = "state_reached" -> \E i \in DOMAIN Select(trace, "state", a.name, 0, a.by) :
         Select(trace, "state", a.name, 0, a.by)[i].val = a.state
    [] a.type = "state_at_end" -> a.name \in DOMAIN states /\ states[a.name] = a.state
    [] a.type = "no_contention" ->
         \A i \in DOMAIN trace : trace[i].kind = "net" => trace[i].val # "X"
    [] a.type = "transition_count" ->
         Len(Transitions(trace, a.name, a.after, a.before, a.level)) \in a.min .. a.max
    [] OTHER -> FALSE

(* evaluate *)
Verdicts(asserts, trace, report, states) ==
  [i \in DOMAIN asserts |-> Holds(asserts[i], trace, report, states)]
=============================================================================
