--------------------------- MODULE MCScenarioRun ---------------------------
(* A generated part on a board, whose designer and factory go on working   *)
(* while it is run twice; a run with stimuli and assertions; a run with    *)
(* behavioural firmware and an unknown event before another.               *)
EXTENDS ScenarioRun

CONSTANTS m, bench, field, typo

MCSession ==
  {[line |-> <<bench, bench>>, jobs |-> 2, edits |-> 1, trace |-> 0],
   [line |-> <<field>>, jobs |-> 0, edits |-> 0, trace |-> 5],
   [line |-> <<typo, bench, bench>>, jobs |-> 0, edits |-> 2, trace |-> 0]}
MCUsesModels == [s \in Scenario |-> s = bench]
Nothing == [k \in {"ir", "bom", "mpn", "value", "refdes", "override"} |-> NoModel]
MCPart ==
  bench :> [Nothing EXCEPT !.mpn = m, !.refdes = Builtin]
  @@ field :> [Nothing EXCEPT !.ir = Builtin, !.mpn = m]
  @@ typo :> [Nothing EXCEPT !.bom = Builtin, !.override = m]
MCBehavioural == [s \in Scenario |-> s # bench]
MCStimuli ==
  bench :> <<>>
  @@ field :> <<[at |-> 1, do |-> "0"], [at |-> 0, do |-> "press"], [at |-> 1, do |-> "1"],
                [at |-> 9, do |-> "0"]>>
  @@ typo :> <<[at |-> 0, do |-> "press"], [at |-> 0, do |-> "unknown"], [at |-> 0, do |-> "1"]>>
MCDuration == bench :> 0 @@ field :> 2 @@ typo :> 0
MCAsserts ==
  bench :> <<>> @@ typo :> <<>>
  @@ field :>
  <<[type |-> "net_level", name |-> "probe", at |-> 0, equals |-> "1"],
    [type |-> "net_level", name |-> "probe", at |-> 1, equals |-> "1"],
    [type |-> "net_level", name |-> "probe", at |-> 2, equals |-> "0"],
    [type |-> "transition_count", name |-> "probe", after |-> 1, before |-> 2, level |-> "any",
     min |-> 1, max |-> 2],
    [type |-> "uart_contains", name |-> "line", after |-> 0, before |-> 2, pattern |-> <<"a", "b">>],
    [type |-> "uart_not_contains", name |-> "line", after |-> 1, before |-> 1, pattern |-> <<"a">>],
    [type |-> "power_budget", name |-> "VBAT", limits |-> [max |-> 1]],
    [type |-> "state_reached", name |-> "part", by |-> 1, state |-> "on"],
    [type |-> "state_at_end", name |-> "part", state |-> "on"],
    [type |-> "battery_soc_min", name |-> "BT1", min |-> 2],
    [type |-> "temp_max", name |-> "U2", max |-> 1],
    [type |-> "log_contains", name |-> "any", pattern |-> "on"],
    [type |-> "no_contention"],
    [type |-> "unheard_of"]>>
=============================================================================
