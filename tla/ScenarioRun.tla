---------------------------- MODULE ScenarioRun ----------------------------
(***************************************************************************)
(* Scenarios run one after the other in a process (twin/scenario/runner.py *)
(* as twin/cli.py or a test session calls it) while the files they read    *)
(* change: a designer edits them, and the model factory of another process *)
(* installs models.  A run loads models, reads the board, builds the twin, *)
(* loads firmware, starts, carries out its stimuli up to its duration,     *)
(* draws its verdicts from the trace and locks its inputs.                 *)
(***************************************************************************)
EXTENDS ModelFactory, Assertions

CONSTANTS
  Scenario,     (* scenarios.  Of each: *)
  UsesModels,   (*   board.model_dirs names the factory's directory *)
  Part,         (*   its board's part of interest: the model key that each *)
                (*   source gives it: what the IR says, a BOM row's model *)
                (*   column, what the tables have for its part number, its *)
                (*   value and its refdes, and the scenario's override *)
  Behavioural,  (*   its firmware is a Python function, not a file *)
  Stimuli,      (*   its events, [at, do], as listed *)
  Duration,     (*   its length *)
  Asserts,      (*   its assertions *)
  NoModel,      (* no model *)
  Builtin,      (* a model of the library, registered by its import *)
  Session,      (* processes to look at: the scenarios they run, in a line, *)
                (* and bounds: jobs of the factory and edits meanwhile, and *)
                (* how far the board may extend a trace *)
  MaxEdits      (* bound: edits in any session *)

ASSUME ScenarioAssumption ==
  /\ {NoModel, Builtin} \cap Slug = {} /\ MaxEdits \in Nat
  /\ Part \in [Scenario -> [{"ir", "bom", "mpn", "value", "refdes", "override"} ->
                            Slug \cup {NoModel, Builtin}]]
  /\ IsFiniteSet(Scenario) /\ Scenario # {} /\ Duration \in [Scenario -> Nat]
  /\ \A i \in Scenario :
       /\ Stimuli[i] \in Seq(Range(Stimuli[i])) /\ Asserts[i] \in Seq(Range(Asserts[i]))
       /\ \A ev \in Range(Stimuli[i]) : ev.at \in Nat
  /\ \A x \in Session : x.line \in Seq(Scenario) /\ x.jobs <= MaxJobs /\ x.edits \in 0 .. MaxEdits

Input == {"board", "firmware"}
Level == {"0", "1", "X"}

VARIABLES
  session,   (* the session *)
  files,     (* [input -> the version of the file] *)
  modules,   (* [slug -> the draft whose module is in sys.modules] *)
  registry,  (* [slug -> the draft registered under gen.<slug>] *)
  imported,  (* the version of the behavioural firmware in sys.modules, or 0 *)
  pos,       (* which scenario of the line runs, or is next *)
  stage,     (* how far its run() has come *)
  used,      (* [input -> version, model -> draft]: what it has read *)
  touched,   (* history: the inputs edited since its run began *)
  clock,     (* its kernel's clock *)
  due,       (* its stimuli that have not fired *)
  trace,     (* its trace *)
  level,     (* [time -> level of its probed net at the end of that instant] *)
  verdicts,  (* its verdicts, once it has been evaluated *)
  results    (* of each scenario reported: what it read and its lock *)

processVars == <<session, modules, registry, imported, pos>>
twinVars == <<clock, due, trace, level, verdicts>>
runVars == <<stage, used, touched>>
vars == <<factoryVars, files, processVars, runVars, twinVars, results>>

(* merge_bom, if the board is not read from an IR, then bind_models, and   *)
(* the overrides last: a key that is there is never guessed again.         *)
FirstKey(keys) ==
  LET known == SelectSeq(keys, LAMBDA k : k # NoModel) IN IF known = <<>> THEN NoModel ELSE known[1]
MergeBom(part) == FirstKey(<<part.bom, part.ir>>)
BindModel(part) == FirstKey(<<MergeBom(part), part.mpn, part.value, part.refdes>>)
ModelKey(part) == FirstKey(<<part.override, BindModel(part)>>)

Unread == [board |-> 0, firmware |-> 0, model |-> None]
Empty == [s \in Slug |-> None]
sc == session.line[pos]
End == Max({Duration[i] : i \in Scenario})
Total == files["board"] + files["firmware"] - 2
-----------------------------------------------------------------------------
(* Seeded faults, used only by the mutation runs of PROJECT.json. *)
ReadAgain(i) == IF imported > 0 THEN imported ELSE files.firmware
Unordered(k) == k \in due
-----------------------------------------------------------------------------
(* load_model_dir: a module of that name that is there is not read again.  *)
Module(s) == IF modules[s] # None THEN modules[s] ELSE disk[s].py

(* The firmware is read by name for the MCU's start(), or imported once.   *)
Firmware(i) ==
  IF Behavioural[i] /\ imported > 0 THEN imported ELSE files.firmware

(* The kernel's order: by time, then as scheduled, which is as listed.     *)
IsNext(k) ==
  \A j \in due : Stimuli[sc][k].at < Stimuli[sc][j].at
                 \/ (Stimuli[sc][k].at = Stimuli[sc][j].at /\ k <= j)

Init ==
  /\ FactoryInit
  /\ session \in Session
  /\ files = [f \in Input |-> 1]
  /\ modules = Empty /\ registry = Empty /\ imported = 0
  /\ pos = 1 /\ stage = "idle" /\ used = Unread /\ touched = {}
  /\ clock = 0 /\ due = {} /\ trace = <<>> /\ level = [t \in 0 .. End |-> "none"]
  /\ verdicts = <<>> /\ results = <<>>

Goto(s) == stage' = s
Recorded(kind, name, val) == [t |-> clock, kind |-> kind, name |-> name, val |-> val]
NoProcess == UNCHANGED processVars
NoTwin == UNCHANGED twinVars
NoFiles == UNCHANGED <<factoryVars, files, touched>>

(* load_scenario, in a process that goes on or in a new one. *)
Begin(fresh) ==
  /\ stage = "idle" /\ pos \in DOMAIN session.line
  /\ Goto("models")
  /\ used' = Unread
  /\ touched' = {}
  /\ clock' = 0 /\ due' = {} /\ trace' = <<>> /\ level' = [t \in 0 .. End |-> "none"]
  /\ verdicts' = <<>>
  /\ IF fresh THEN modules' = Empty /\ registry' = Empty /\ imported' = 0
              ELSE UNCHANGED <<modules, registry, imported>>
  /\ UNCHANGED <<factoryVars, files, session, pos, results>>

(* load_model_dir: the files that are there, but for those of a module     *)
(* that is in sys.modules, whatever it was made of.                        *)
News == {s \in Slug : modules[s] = None /\ disk[s].py # None}
LoadModels ==
  /\ stage = "models"
  /\ IF UsesModels[sc]
     THEN /\ modules' = [s \in Slug |-> Module(s)]
          /\ registry' = [s \in Slug |-> IF s \in News THEN Module(s) ELSE registry[s]]
     ELSE UNCHANGED <<modules, registry>>
  /\ Goto("board")
  /\ NoFiles /\ NoTwin /\ UNCHANGED <<session, imported, pos, used, results>>

(* An import that raises leaves its module behind, registered or not, and  *)
(* ends the run; files sorted before it have been loaded.                  *)
ImportRaises(s, before, registers) ==
  /\ stage = "models" /\ UsesModels[sc]
  /\ s \in News /\ before \subseteq News \ {s}
  /\ modules' = [x \in Slug |-> IF x \in before \cup {s} THEN Module(x) ELSE modules[x]]
  /\ registry' = [x \in Slug |-> IF x \in before \/ (x = s /\ registers) THEN Module(x)
                                 ELSE registry[x]]
  /\ stage' = "idle" /\ pos' = pos + 1
  /\ NoFiles /\ NoTwin /\ UNCHANGED <<session, imported, used, results>>

(* build_twin: a part that is not bound, or to a model that nobody has     *)
(* registered, is an open circuit, and the trace says so.                  *)
Open(key) == key = NoModel \/ (key \in Slug /\ registry[key] = None)

(* parse_design or from_json, the keys of the parts, and build_twin.       *)
ReadBoard ==
  LET key == ModelKey(Part[sc])
  IN  /\ stage = "board"
      /\ used' = [used EXCEPT !.board = files.board,
                              !.model = IF key \in Slug THEN registry[key] ELSE None]
      /\ trace' = IF Open(key) THEN <<Recorded("log", "build", "open")>> ELSE trace
      /\ Goto("firmware")
      /\ NoFiles /\ NoProcess /\ UNCHANGED <<clock, due, level, verdicts, results>>

(* _load_firmware, _schedule_events, and start() with the MCU's reading.   *)
Start ==
  /\ stage = "firmware"
  /\ used' = [used EXCEPT !.firmware = Firmware(sc)]
  /\ imported' = IF Behavioural[sc] THEN Firmware(sc) ELSE imported
  /\ due' = DOMAIN Stimuli[sc]
  /\ Goto("running")
  /\ NoFiles /\ UNCHANGED <<session, modules, registry, pos, clock, trace, level, verdicts, results>>

(* A design that does not parse, a missing target or pin.  The caller goes *)
(* on with the next scenario, if it catches it; see Begin's fresh.         *)
Raise ==
  /\ stage \in {"board", "firmware"}
  /\ stage' = "idle" /\ pos' = pos + 1
  /\ NoFiles /\ NoTwin /\ UNCHANGED <<session, modules, registry, imported, used, results>>

(* Net._resolve: the probed net gets a level, or only a voltage, that it   *)
(* did not have; both are recorded.                                        *)
Becomes(l, tr) ==
  /\ trace' = Append(tr, Recorded("net", "probe", l))
  /\ level' = [t \in 0 .. End |-> IF t < clock THEN level[t] ELSE l]

(* _fire.  An event that is unknown or raises ends run_until and run.      *)
Fire(k) ==
  LET ev == Stimuli[sc][k]
      tr == Append(trace, Recorded("event", "do", k))
  IN  /\ stage = "running"
      /\ k \in due /\ IsNext(k) /\ ev.at = clock
      /\ due' = due \ {k}
      /\ IF ev.do = "unknown"
         THEN /\ stage' = "idle" /\ pos' = pos + 1
              /\ trace' = tr /\ UNCHANGED level
         ELSE /\ IF ev.do \in Level \ {level[clock]} THEN Becomes(ev.do, tr)
                 ELSE trace' = tr /\ UNCHANGED level
              /\ UNCHANGED <<stage, pos>>
      /\ NoFiles /\ UNCHANGED <<session, modules, registry, imported, used, clock, verdicts, results>>

(* What the board does meanwhile. *)
Board ==
  /\ stage = "running" /\ Len(trace) < session.trace
  /\ \/ \E l \in Level : Becomes(l, trace)
     \/ \E b \in {"a", "b"} :
          trace' = Append(trace, Recorded("uart", "line", b)) /\ UNCHANGED level
     \/ \E kind \in {"state", "log"} :
          trace' = Append(trace, Recorded(kind, "part", "on")) /\ UNCHANGED level
  /\ NoFiles /\ NoProcess /\ UNCHANGED <<stage, used, clock, due, verdicts, results>>

Elapse ==
  /\ stage = "running" /\ clock < Duration[sc]
  /\ \A k \in due : Stimuli[sc][k].at > clock
  /\ clock' = clock + 1
  /\ NoFiles /\ NoProcess /\ UNCHANGED <<stage, used, due, trace, level, verdicts, results>>

(* make_lock, after the run: the board as it was read, and the hashes of   *)
(* the files as they are now.  A behavioural firmware is there by name.    *)
(* The scenario's own file is not edited here.                             *)
Lock(i) ==
  [scenario |-> i, ir |-> used.board, board |-> files.board,
   firmware |-> IF Behavioural[i] THEN 0 ELSE files.firmware]

Finish ==
  /\ stage = "running" /\ clock = Duration[sc]
  /\ \A k \in due : Stimuli[sc][k].at > clock
  /\ \E x \in {1, 2} :
       verdicts' = Verdicts(Asserts[sc], trace,
                            [rails |-> [VBAT |-> [max |-> x]], soc |-> [BT1 |-> x],
                             thermal |-> [U1 |-> x]],
                            [part |-> IF \E i \in DOMAIN trace : trace[i].kind = "state"
                                      THEN "on" ELSE "init"])
  /\ results' = Append(results, [sc |-> sc, used |-> used, lock |-> Lock(sc), touched |-> touched])
  /\ stage' = "idle" /\ pos' = pos + 1
  /\ NoFiles /\ UNCHANGED <<session, modules, registry, imported, used, clock, due, trace, level>>

Edit(f) ==
  /\ Total < session.edits
  /\ files' = [files EXCEPT ![f] = @ + 1]
  /\ touched' = touched \cup {f}
  /\ NoProcess /\ NoTwin /\ UNCHANGED <<factoryVars, stage, used, results>>

Next ==
  \/ FactoryNext /\ jobs' <= session.jobs /\ NoProcess /\ NoTwin /\ UNCHANGED <<files, runVars, results>>
  \/ \E f \in Input : Edit(f)
  \/ \E fresh \in BOOLEAN : Begin(fresh)
  \/ LoadModels
  \/ \E s \in Slug, registers \in BOOLEAN : \E before \in SUBSET (Slug \ {s}) :
       ImportRaises(s, before, registers)
  \/ ReadBoard
  \/ Start
  \/ Raise
  \/ \E k \in due : Fire(k)
  \/ Board
  \/ Elapse
  \/ Finish

Spec == Init /\ [][Next]_vars
-----------------------------------------------------------------------------
TypeOK ==
  /\ FactoryTypeOK
  /\ files \in [Input -> 1 .. MaxEdits + 1]
  /\ modules \in [Slug -> File] /\ registry \in [Slug -> File]
  /\ imported \in 0 .. MaxEdits + 1
  /\ session \in Session /\ pos \in 1 .. Len(session.line) + 1
  /\ stage \in {"idle", "models", "board", "firmware", "running"}
  /\ used \in [board : 0 .. MaxEdits + 1, firmware : 0 .. MaxEdits + 1, model : File]
  /\ touched \subseteq Input
  /\ clock \in 0 .. End /\ due \subseteq Nat
  /\ level \in [0 .. End -> Level \cup {"none"}]
  /\ verdicts \in Seq(BOOLEAN)

(* "A model without passing claims never installs" (docs/FACTORY.md), and  *)
(* none is ever built into a twin: what stands in the model directory, in  *)
(* sys.modules and in the registry has passed, whatever crash came between *)
(* the writes and whichever module a process still holds.  Nor does the    *)
(* spec that "ships next to the model" vouch for another one: after any    *)
(* crash and reinstallation a spec of the model's own job has that model's *)
(* own tests beside it.                                                    *)
OnlyConformant ==
  \A s \in Slug :
    /\ {disk[s].py, modules[s], registry[s]} \subseteq passed \cup {None}
    /\ disk[s].spec = disk[s].py[1] => disk[s].test = disk[s].py

(* "when a result changes, diff the lock to see which input changed"       *)
(* (docs/USAGE.md): two results with one lock ran one scenario on one      *)
(* board, and with one firmware, if that is a file which nobody edited     *)
(* during either run: it is read before the run and hashed after it.       *)
(* docs/adr/0001 promises more: "SHA-256 of the netlist, BOM, firmware     *)
(* image, each bound component model source".  But make_lock hashes no     *)
(* model, and of a behavioural firmware only its name is in the lock.      *)
LockTells ==
  \A i, j \in DOMAIN results :
    LET r == results[i]  q == results[j]
    IN  r.lock = q.lock =>
          /\ r.sc = q.sc /\ r.used.board = q.used.board
          /\ ~Behavioural[r.sc] /\ "firmware" \notin r.touched \cup q.touched
               => r.used.firmware = q.used.firmware

(* A scenario gets verdicts only if all its stimuli up to its duration     *)
(* were carried out, each once and at its time, in order of time and then  *)
(* of listing; and a net_level verdict is the truth: the level that the    *)
(* probed net had at the end of that instant, were it driven several times *)
(* within it or not again after it.                                        *)
Ran == session.line[pos - 1]
Fired == Select(trace, "event", "do", 0, End)
Earlier(x, y) == x.t < y.t \/ (x.t = y.t /\ x.val < y.val)

VerdictsTell ==
  verdicts # <<>> =>
    /\ {Fired[i].val : i \in DOMAIN Fired} =
         {k \in DOMAIN Stimuli[Ran] : Stimuli[Ran][k].at <= Duration[Ran]}
    /\ \A i, j \in DOMAIN Fired : i < j => Earlier(Fired[i], Fired[j])
    /\ \A i \in DOMAIN Fired :
         LET ev == Stimuli[Ran][Fired[i].val] IN ev.at = Fired[i].t /\ ev.do # "unknown"
    /\ \A i \in DOMAIN verdicts :
         LET a == Asserts[Ran][i]
         IN  a.type = "net_level" /\ a.name = "probe" /\ a.at \in 0 .. End =>
               verdicts[i] = (level[a.at] = a.equals)
=============================================================================
