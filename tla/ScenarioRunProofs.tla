------------------------- MODULE ScenarioRunProofs -------------------------
(***************************************************************************)
(* However factory, designer and scenarios interleave: only models that    *)
(* have passed their tests are installed, loaded or built into a twin, a   *)
(* spec lies beside the model it belongs to, and a lock tells apart the    *)
(* inputs it covers.                                                       *)
(***************************************************************************)
EXTENDS ScenarioRun, SequenceTheorems, WellFoundedInduction, FiniteSetTheorems, TLAPS

Installing == {"py", "tests", "spec"}

(* Where the factory is: iterations are left to a revision, what is being  *)
(* installed has passed, and the files written so far are this job's,      *)
(* while no other slug has one of it.                                      *)
Stages ==
  /\ job.stage = "revise" => job.i < MaxIters
  /\ job.stage # "idle" => jobs > 0
  /\ job.stage \in Installing => Current \in passed
  /\ job.stage \in {"test", "revise", "py"} => \A s \in Slug : disk[s].py[1] < jobs
  /\ job.stage \in {"tests", "spec"} => disk[job.slug].py = Current
  /\ job.stage = "spec" => disk[job.slug].test = Current

(* The three files of a model are of jobs in the order of their writing;   *)
(* a crash leaves the later ones behind.                                   *)
InOrder(f, n) ==
  /\ f.spec <= f.test[1] /\ f.test[1] <= f.py[1] /\ f.py[1] <= n
  /\ f.spec = f.py[1] => f.test = f.py

FactoryInv ==
  /\ FactoryTypeOK
  /\ Stages
  /\ \A s \in Slug : disk[s].py \in passed \cup {None} /\ InOrder(disk[s], jobs)

Loaded ==
  /\ modules \in [Slug -> passed \cup {None}]
  /\ registry \in [Slug -> passed \cup {None}]

(* A result whose lock is of what it read, as far as a lock can be.        *)
Used == [board : Nat, firmware : Nat, model : File]
Locks == [scenario : Scenario, ir : Nat, board : Nat, firmware : Nat]
Honest ==
  {r \in [sc : Scenario, used : Used, lock : Locks, touched : SUBSET Input] :
    /\ r.lock.scenario = r.sc /\ r.lock.ir = r.used.board
    /\ ~Behavioural[r.sc] /\ "firmware" \notin r.touched => r.lock.firmware = r.used.firmware}

Inputs ==
  /\ session \in Session
  /\ stage # "idle" => pos \in DOMAIN session.line
  /\ files \in [Input -> Nat] /\ imported \in Nat /\ used \in Used /\ touched \in SUBSET Input
  /\ stage = "running" /\ ~Behavioural[sc] /\ "firmware" \notin touched
       => used.firmware = files.firmware
  /\ results \in Seq(Honest)

IInv == FactoryInv /\ Loaded /\ Inputs
-----------------------------------------------------------------------------
LEMMA FactoryStarts == FactoryInit => FactoryInv
<1>. SUFFICES ASSUME FactoryInit PROVE FactoryInv
  OBVIOUS
<1>1. Idle.slug \in Slug
  BY FactoryAssumption DEF Idle
<1>2. FactoryTypeOK
  BY <1>1, FactoryAssumption DEF FactoryInit, FactoryTypeOK, Idle, File
<1>3. Stages
  BY DEF FactoryInit, Stages, Idle, Installing
<1>4. \A s \in Slug : disk[s].py \in passed \cup {None} /\ InOrder(disk[s], jobs)
  BY DEF FactoryInit, InOrder, None
<1>. QED
  BY <1>2, <1>3, <1>4 DEF FactoryInv

(* The file that a step writes, and the others. *)
LEMMA Written ==
  ASSUME FactoryTypeOK, NEW f, disk' = [disk EXCEPT ![job.slug] = f]
  PROVE  \A s \in Slug : disk'[s] = IF s = job.slug THEN f ELSE disk[s]
BY DEF FactoryTypeOK

(* A draft's number and the file of none. *)
LEMMA FileFacts ==
  ASSUME FactoryTypeOK
  PROVE  /\ jobs \in Nat /\ jobs <= MaxJobs /\ job.i \in 1 .. MaxIters /\ job.slug \in Slug
         /\ Current[1] = jobs /\ (jobs > 0 => Current \in Draft)
         /\ \A s \in Slug : /\ disk[s].py \in File /\ disk[s].test \in File
                            /\ disk[s].py[1] \in Nat /\ disk[s].test[1] \in Nat
                            /\ disk[s].spec \in Nat
<1>1. jobs \in Nat /\ jobs <= MaxJobs /\ job.i \in 1 .. MaxIters /\ job.slug \in Slug
  BY FactoryAssumption DEF FactoryTypeOK
<1>2. Current[1] = jobs /\ (jobs > 0 => Current \in Draft)
  BY <1>1, FactoryAssumption DEF Current, Draft
<1>3. \A x \in File : x[1] \in Nat
  BY FactoryAssumption DEF File, Draft, None
<1>4. \A s \in Slug : disk[s].py \in File /\ disk[s].test \in File /\ disk[s].spec \in Nat
  BY FactoryAssumption DEF FactoryTypeOK
<1>. QED
  BY <1>1, <1>2, <1>3, <1>4

LEMMA FactorySteps == FactoryInv /\ FactoryNext => FactoryInv' /\ passed \subseteq passed'
<1>. SUFFICES ASSUME FactoryInv, FactoryNext PROVE FactoryInv' /\ passed \subseteq passed'
  OBVIOUS
<1>. USE DEF FactoryInv
<1>f. /\ jobs \in Nat /\ jobs <= MaxJobs /\ job.i \in 1 .. MaxIters /\ job.slug \in Slug
      /\ Current[1] = jobs /\ (jobs > 0 => Current \in Draft)
      /\ \A s \in Slug : /\ disk[s].py \in File /\ disk[s].test \in File
                         /\ disk[s].py[1] \in Nat /\ disk[s].test[1] \in Nat
                         /\ disk[s].spec \in Nat
  BY FileFacts
<1>1. ASSUME NEW s \in Slug, Extract(s) PROVE FactoryInv' /\ passed \subseteq passed'
  <2>1. jobs' = jobs + 1 /\ job' = [stage |-> "test", slug |-> s, i |-> 1]
        /\ disk' = disk /\ passed' = passed /\ jobs' \in 0 .. MaxJobs
    BY <1>1, <1>f, FactoryAssumption DEF Extract
  <2>2. FactoryTypeOK'
    BY <2>1, FactoryAssumption DEF FactoryTypeOK
  <2>3. Stages'
    BY <2>1, <1>f DEF Stages, Installing, InOrder
  <2>4. \A x \in Slug : InOrder(disk'[x], jobs')
    BY <2>1, <1>f DEF InOrder
  <2>. QED
    BY <2>1, <2>2, <2>3, <2>4
<1>2. ASSUME NEW ok \in BOOLEAN, Conformance(ok) PROVE FactoryInv' /\ passed \subseteq passed'
  <2>1. /\ job.stage = "test" /\ disk' = disk /\ jobs' = jobs
        /\ passed' = IF ok THEN passed \cup {Current} ELSE passed
        /\ job' = [job EXCEPT !.stage = AfterTests(ok)]
    BY <1>2 DEF Conformance
  <2>2. /\ job'.stage = (IF ok THEN "py" ELSE IF job.i < MaxIters THEN "revise" ELSE "idle")
        /\ job'.i = job.i /\ job'.slug = job.slug /\ Current' = Current
    BY <2>1 DEF AfterTests, Current, FactoryTypeOK
  <2>3. jobs > 0
    BY <2>1 DEF Stages
  <2>4. FactoryTypeOK'
    BY <2>1, <2>2, <2>3, <1>f DEF FactoryTypeOK, AfterTests
  <2>5. Stages'
    BY <2>1, <2>2, <2>3 DEF Stages, Installing
  <2>. QED
    BY <2>1, <2>4, <2>5 DEF InOrder
<1>3. ASSUME Revise PROVE FactoryInv' /\ passed \subseteq passed'
  <2>1. /\ job.stage = "revise" /\ disk' = disk /\ jobs' = jobs /\ passed' = passed
        /\ job' = [job EXCEPT !.stage = "test", !.i = job.i + 1] /\ job.i < MaxIters
    BY <1>3 DEF Revise, Stages
  <2>2. job.i + 1 \in 1 .. MaxIters
    BY <2>1, <1>f, FactoryAssumption
  <2>3. FactoryTypeOK'
    BY <2>1, <2>2 DEF FactoryTypeOK
  <2>4. Stages'
    BY <2>1 DEF Stages, Installing, FactoryTypeOK
  <2>. QED
    BY <2>1, <2>3, <2>4 DEF InOrder
<1>4. ASSUME WriteModel PROVE FactoryInv' /\ passed \subseteq passed'
  <2>. DEFINE f == [disk[job.slug] EXCEPT !.py = Current]
  <2>1. /\ job.stage = "py" /\ jobs' = jobs /\ passed' = passed
        /\ disk' = [disk EXCEPT ![job.slug] = f] /\ job' = [job EXCEPT !.stage = "tests"]
    BY <1>4 DEF WriteModel
  <2>2. f.py = Current /\ f.test = disk[job.slug].test /\ f.spec = disk[job.slug].spec
    BY <1>f DEF FactoryTypeOK
  <2>3. \A s \in Slug : disk'[s] = IF s = job.slug THEN f ELSE disk[s]
    BY <2>1, Written
  <2>4. job'.stage = "tests" /\ job'.slug = job.slug /\ job'.i = job.i /\ Current' = Current
    BY <2>1 DEF FactoryTypeOK, Current
  <2>5. jobs > 0 /\ Current \in passed /\ \A s \in Slug : disk[s].py[1] < jobs
    BY <2>1 DEF Stages, Installing
  <2>6. FactoryTypeOK'
    BY <2>1, <2>4, <2>5, <1>f DEF FactoryTypeOK, File
  <2>7. Stages'
    BY <2>1, <2>2, <2>3, <2>4, <2>5, <1>f DEF Stages, Installing
  <2>8. InOrder(f, jobs)
    BY <2>2, <2>5, <1>f DEF InOrder
  <2>. HIDE DEF f
  <2>. QED
    BY <2>1, <2>2, <2>3, <2>5, <2>6, <2>7, <2>8
<1>5. ASSUME WriteTest PROVE FactoryInv' /\ passed \subseteq passed'
  <2>. DEFINE f == [disk[job.slug] EXCEPT !.test = Current]
  <2>1. /\ job.stage = "tests" /\ jobs' = jobs /\ passed' = passed
        /\ disk' = [disk EXCEPT ![job.slug] = f] /\ job' = [job EXCEPT !.stage = "spec"]
    BY <1>5 DEF WriteTest
  <2>2. f.test = Current /\ f.py = disk[job.slug].py /\ f.spec = disk[job.slug].spec
    BY <1>f DEF FactoryTypeOK
  <2>3. \A s \in Slug : disk'[s] = IF s = job.slug THEN f ELSE disk[s]
    BY <2>1, Written
  <2>4. job'.stage = "spec" /\ job'.slug = job.slug /\ job'.i = job.i /\ Current' = Current
    BY <2>1 DEF FactoryTypeOK, Current
  <2>5. jobs > 0 /\ Current \in passed /\ disk[job.slug].py = Current
    BY <2>1 DEF Stages, Installing
  <2>6. FactoryTypeOK'
    BY <2>1, <2>4, <2>5, <1>f DEF FactoryTypeOK, File
  <2>7. Stages'
    BY <2>1, <2>2, <2>3, <2>4, <2>5, <1>f DEF Stages, Installing
  <2>8. InOrder(f, jobs)
    BY <2>2, <2>5, <1>f DEF InOrder
  <2>. HIDE DEF f
  <2>. QED
    BY <2>1, <2>2, <2>3, <2>5, <2>6, <2>7, <2>8, <1>f
<1>6. ASSUME WriteSpec PROVE FactoryInv' /\ passed \subseteq passed'
  <2>. DEFINE f == [disk[job.slug] EXCEPT !.spec = jobs]
  <2>1. /\ job.stage = "spec" /\ jobs' = jobs /\ passed' = passed
        /\ disk' = [disk EXCEPT ![job.slug] = f] /\ job' = [job EXCEPT !.stage = "idle"]
    BY <1>6 DEF WriteSpec
  <2>2. f.test = disk[job.slug].test /\ f.py = disk[job.slug].py /\ f.spec = jobs
    BY <1>f DEF FactoryTypeOK
  <2>3. \A s \in Slug : disk'[s] = IF s = job.slug THEN f ELSE disk[s]
    BY <2>1, Written
  <2>4. job'.stage = "idle"
    BY <2>1 DEF FactoryTypeOK
  <2>5. disk[job.slug].py = Current /\ disk[job.slug].test = Current
    BY <2>1 DEF Stages
  <2>6. FactoryTypeOK'
    BY <2>1, <1>f DEF FactoryTypeOK
  <2>7. Stages'
    BY <2>4 DEF Stages, Installing
  <2>8. InOrder(f, jobs)
    BY <2>2, <2>5, <1>f DEF InOrder
  <2>. HIDE DEF f
  <2>. QED
    BY <2>1, <2>2, <2>3, <2>6, <2>7, <2>8, <1>f
<1>7. ASSUME Abort PROVE FactoryInv' /\ passed \subseteq passed'
  <2>1. /\ disk' = disk /\ jobs' = jobs /\ passed' = passed
        /\ job' = [job EXCEPT !.stage = "idle"]
    BY <1>7 DEF Abort
  <2>2. FactoryTypeOK'
    BY <2>1 DEF FactoryTypeOK
  <2>3. Stages'
    BY <2>1 DEF Stages, Installing, FactoryTypeOK
  <2>. QED
    BY <2>1, <2>2, <2>3 DEF InOrder
<1>. QED
  BY <1>1, <1>2, <1>3, <1>4, <1>5, <1>6, <1>7 DEF FactoryNext
-----------------------------------------------------------------------------
(* What runs in a session is scenarios. *)
LEMMA SessionLines == \A x \in Session : x.line \in Seq(Scenario)
BY ScenarioAssumption

LEMMA Starts == Init => IInv
<1>. SUFFICES ASSUME Init PROVE IInv
  OBVIOUS
<1>1. FactoryInv
  BY FactoryStarts DEF Init
<1>2. Loaded
  BY DEF Init, Loaded, Empty
<1>3. Unread \in Used
  BY DEF Unread, Used, File
<1>4. results \in Seq(Honest)
  BY EmptySeq DEF Init
<1>5. Inputs
  BY <1>3, <1>4 DEF Init, Inputs, Input
<1>. QED
  BY <1>1, <1>2, <1>5 DEF IInv

LEMMA Steps == IInv /\ [Next]_vars => IInv'
<1>. SUFFICES ASSUME IInv, [Next]_vars PROVE IInv'
  OBVIOUS
<1>. USE DEF IInv
<1>a. CASE UNCHANGED vars
  <2>1. UNCHANGED factoryVars /\ UNCHANGED <<files, processVars, runVars, results>>
    BY <1>a DEF vars
  <2>2. FactoryInv'
    BY <2>1 DEF factoryVars, FactoryInv, FactoryTypeOK, Stages, Installing, InOrder, Current
  <2>3. Loaded'
    BY <2>1 DEF factoryVars, processVars, Loaded
  <2>4. Inputs'
    BY <2>1 DEF processVars, runVars, Inputs, sc
  <2>. QED
    BY <2>2, <2>3, <2>4
<1>k. ASSUME UNCHANGED factoryVars PROVE FactoryInv' /\ passed' = passed /\ disk' = disk
  BY <1>k DEF factoryVars, FactoryInv, FactoryTypeOK, Stages, Installing, InOrder, Current
<1>d. \A s \in Slug : disk[s].py \in passed \cup {None}
  BY DEF FactoryInv
<1>1. ASSUME FactoryNext, NoProcess, NoTwin, UNCHANGED <<files, runVars, results>> PROVE IInv'
  <2>1. FactoryInv' /\ passed \subseteq passed'
    BY <1>1, FactorySteps
  <2>2. Loaded'
    BY <1>1, <2>1 DEF Loaded, NoProcess, processVars
  <2>3. Inputs'
    BY <1>1 DEF Inputs, NoProcess, processVars, runVars, sc
  <2>. QED
    BY <2>1, <2>2, <2>3
<1>2. ASSUME NEW f \in Input, Edit(f) PROVE IInv'
  <2>1. FactoryInv' /\ passed' = passed
    BY <1>2, <1>k DEF Edit
  <2>2. Loaded'
    BY <1>2, <2>1 DEF Edit, Loaded, NoProcess, processVars
  <2>3. /\ files' = [files EXCEPT ![f] = @ + 1] /\ touched' = touched \cup {f}
        /\ UNCHANGED <<session, pos, imported, stage, used, results>> /\ sc' = sc
    BY <1>2 DEF Edit, NoProcess, processVars, sc
  <2>4. files' \in [Input -> Nat] /\ (f # "firmware" => files'.firmware = files.firmware)
    BY <2>3 DEF Inputs, Input
  <2>5. Inputs'
    BY <2>3, <2>4 DEF Inputs
  <2>. QED
    BY <2>1, <2>2, <2>5
<1>3. ASSUME NEW fresh \in BOOLEAN, Begin(fresh) PROVE IInv'
  <2>1. FactoryInv' /\ passed' = passed
    BY <1>3, <1>k DEF Begin
  <2>2. Loaded'
    BY <1>3, <2>1 DEF Begin, Loaded, Empty
  <2>3. Unread \in Used
    BY DEF Unread, Used, File
  <2>4. Inputs'
    BY <1>3, <2>3 DEF Begin, Goto, Inputs, Input
  <2>. QED
    BY <2>1, <2>2, <2>4
<1>4. ASSUME LoadModels PROVE IInv'
  <2>1. FactoryInv' /\ passed' = passed
    BY <1>4, <1>k DEF LoadModels, NoFiles
  <2>2. \A s \in Slug : Module(s) \in passed \cup {None}
    BY <1>d DEF Module, Loaded
  <2>3. Loaded'
    BY <1>4, <2>1, <2>2 DEF LoadModels, Loaded
  <2>4. Inputs'
    BY <1>4 DEF LoadModels, Goto, NoFiles, Inputs
  <2>. QED
    BY <2>1, <2>3, <2>4
<1>5. ASSUME NEW s \in Slug, NEW registers \in BOOLEAN, NEW before \in SUBSET (Slug \ {s}),
             ImportRaises(s, before, registers)
      PROVE IInv'
  <2>1. FactoryInv' /\ passed' = passed
    BY <1>5, <1>k DEF ImportRaises, NoFiles
  <2>2. \A x \in Slug : Module(x) \in passed \cup {None}
    BY <1>d DEF Module, Loaded
  <2>3. Loaded'
    BY <1>5, <2>1, <2>2 DEF ImportRaises, Loaded
  <2>4. Inputs'
    BY <1>5 DEF ImportRaises, NoFiles, Inputs
  <2>. QED
    BY <2>1, <2>3, <2>4
<1>6. ASSUME ReadBoard PROVE IInv'
  <2>1. FactoryInv' /\ passed' = passed
    BY <1>6, <1>k DEF ReadBoard, NoFiles
  <2>2. Loaded'
    BY <1>6, <2>1 DEF ReadBoard, Loaded, NoProcess, processVars
  <2>3. \A s \in Slug : registry[s] \in File
    BY FileFacts DEF Loaded, FactoryInv, FactoryTypeOK, File
  <2>4. used' \in Used
    BY <1>6, <2>3 DEF ReadBoard, Inputs, Used, Input, File
  <2>5. Inputs'
    BY <1>6, <2>4 DEF ReadBoard, Goto, NoFiles, NoProcess, processVars, Inputs
  <2>. QED
    BY <2>1, <2>2, <2>5
<1>7. ASSUME Start PROVE IInv'
  <2>1. FactoryInv' /\ passed' = passed
    BY <1>7, <1>k DEF Start, NoFiles
  <2>2. Loaded'
    BY <1>7, <2>1 DEF Start, Loaded
  <2>3. Firmware(sc) \in Nat /\ (~Behavioural[sc] => Firmware(sc) = files.firmware)
    BY DEF Firmware, Inputs, Input
  <2>4. /\ used' = [used EXCEPT !.firmware = Firmware(sc)]
        /\ imported' = (IF Behavioural[sc] THEN Firmware(sc) ELSE imported)
        /\ stage = "firmware" /\ UNCHANGED <<session, pos, files, touched, results>> /\ sc' = sc
    BY <1>7 DEF Start, NoFiles, sc
  <2>5. used' \in Used /\ used'.firmware = Firmware(sc) /\ imported' \in Nat
    BY <2>3, <2>4 DEF Inputs, Used
  <2>6. Inputs'
    BY <2>3, <2>4, <2>5 DEF Inputs
  <2>. QED
    BY <2>1, <2>2, <2>6
<1>8. ASSUME Raise PROVE IInv'
  <2>1. FactoryInv' /\ passed' = passed
    BY <1>8, <1>k DEF Raise, NoFiles
  <2>. QED
    BY <1>8, <2>1 DEF Raise, NoFiles, Loaded, Inputs
<1>9. ASSUME NEW k \in due, Fire(k) PROVE IInv'
  <2>1. FactoryInv' /\ passed' = passed
    BY <1>9, <1>k DEF Fire, NoFiles
  <2>2. /\ UNCHANGED <<session, modules, registry, imported, used, files, touched, results>>
        /\ stage = "running" /\ stage' \in {"idle", stage} /\ (stage' # "idle" => pos' = pos)
    BY <1>9 DEF Fire, NoFiles
  <2>3. stage' # "idle" => sc' = sc
    BY <2>2 DEF sc
  <2>4. Loaded' /\ Inputs'
    BY <2>1, <2>2, <2>3 DEF Loaded, Inputs
  <2>. QED
    BY <2>1, <2>4
<1>10. ASSUME Board \/ Elapse PROVE IInv'
  <2>1. FactoryInv' /\ passed' = passed
    BY <1>10, <1>k DEF Board, Elapse, NoFiles
  <2>2. UNCHANGED <<processVars, stage, used, files, touched, results>>
    BY <1>10 DEF Board, Elapse, NoFiles, NoProcess
  <2>3. Loaded' /\ Inputs'
    BY <2>1, <2>2 DEF processVars, sc, Loaded, Inputs
  <2>. QED
    BY <2>1, <2>3
<1>11. ASSUME Finish PROVE IInv'
  <2>. DEFINE r == [sc |-> sc, used |-> used, lock |-> Lock(sc), touched |-> touched]
  <2>1. FactoryInv' /\ passed' = passed
    BY <1>11, <1>k DEF Finish, NoFiles
  <2>2. stage = "running" /\ results' = Append(results, r)
    BY <1>11 DEF Finish
  <2>3. sc \in Scenario
    BY <2>2, SessionLines, ElementOfSeq DEF sc, Inputs
  <2>4. Lock(sc) \in Locks
    BY <2>3 DEF Lock, Locks, Inputs, Input, Used
  <2>5. r \in Honest
    BY <2>2, <2>3, <2>4 DEF Honest, Lock, Inputs
  <2>6. results' \in Seq(Honest)
    BY <2>2, <2>5, AppendProperties DEF Inputs
  <2>7. Loaded' /\ Inputs'
    BY <1>11, <2>1, <2>6 DEF Finish, NoFiles, Loaded, Inputs
  <2>. QED
    BY <2>1, <2>7
<1>. QED
  BY <1>a, <1>1, <1>2, <1>3, <1>4, <1>5, <1>6, <1>7, <1>8, <1>9, <1>10, <1>11 DEF Next

LEMMA Invariance == Spec => []IInv
BY Starts, Steps, PTL DEF Spec
-----------------------------------------------------------------------------
(* Nothing that failed its tests is ever installed, loaded or registered,  *)
(* for any number of models, jobs, iterations and scenarios, and whatever  *)
(* crash leaves of an installation: a spec never stands beside another     *)
(* job's tests as if it vouched for the model there.                       *)
THEOREM OnlyPassedModelsRun == Spec => []OnlyConformant
<1>1. IInv => OnlyConformant
  BY DEF IInv, FactoryInv, InOrder, Loaded, OnlyConformant
<1>. QED
  BY <1>1, Invariance, PTL

(* Results with one lock are of one scenario, one board and, unless it was *)
(* edited during a run, one firmware file, for any scenarios and edits.    *)
THEOREM LocksTellInputs == Spec => []LockTells
<1>1. ASSUME IInv PROVE LockTells
  <2>. SUFFICES ASSUME NEW i \in DOMAIN results, NEW j \in DOMAIN results,
                       results[i].lock = results[j].lock
                PROVE  /\ results[i].sc = results[j].sc
                       /\ results[i].used.board = results[j].used.board
                       /\ ~Behavioural[results[i].sc]
                          /\ "firmware" \notin results[i].touched \cup results[j].touched
                            => results[i].used.firmware = results[j].used.firmware
    BY DEF LockTells
  <2>1. results[i] \in Honest /\ results[j] \in Honest
    BY <1>1, ElementOfSeq DEF IInv, Inputs
  <2>. QED
    BY <2>1 DEF Honest
<1>. QED
  BY <1>1, Invariance, PTL
-----------------------------------------------------------------------------
(* A set of naturals has a least member. *)
LEMMA LeastNat ==
  ASSUME NEW S \in SUBSET Nat, S # {}
  PROVE  \E x \in S : \A y \in S : x <= y
<1>. DEFINE R == OpToRel(<, Nat)
<1>1. IsWellFoundedOn(R, Nat)
  BY NatLessThanWellFounded
<1>2. \A x, y \in Nat : y < x => <<y, x>> \in R
  BY DEF OpToRel
<1>. HIDE DEF R
<1>3. PICK x \in S : \A y \in S : ~(<<y, x>> \in R)
  BY <1>1, WFMin
<1>4. ASSUME NEW y \in S PROVE x <= y
  <2>1. x \in Nat /\ y \in Nat /\ ~(<<y, x>> \in R)
    BY <1>3
  <2>2. ~(y < x)
    BY <1>2, <2>1
  <2>. QED
    BY <2>1, <2>2
<1>. QED
  BY <1>4

(* Of some subsets of a finite set, one is smallest; taking a member out   *)
(* makes it smaller.                                                       *)
LEMMA Smallest ==
  ASSUME NEW S, IsFiniteSet(S), NEW F, F \subseteq SUBSET S, F # {}
  PROVE  \E s \in F : \A x \in s : s \ {x} \notin F
<1> DEFINE sizes == {Cardinality(s) : s \in F}
<1>1. \A s \in F : IsFiniteSet(s) /\ Cardinality(s) \in Nat
  BY FS_Subset, FS_CardinalityType
<1>2. PICK c \in sizes : \A k \in sizes : c <= k
  <2>1. sizes \in SUBSET Nat /\ sizes # {}
    BY <1>1
  <2> HIDE DEF sizes
  <2> QED BY <2>1, LeastNat
<1>3. PICK s \in F : c = Cardinality(s)
  OBVIOUS
<1>4. ASSUME NEW x \in s, s \ {x} \in F PROVE FALSE
  <2>1. Cardinality(s \ {x}) = Cardinality(s) - 1
    BY <1>1, FS_RemoveElement
  <2>2. Cardinality(s) <= Cardinality(s \ {x})
    BY <1>2, <1>3, <1>4
  <2> QED BY <1>1, <2>1, <2>2
<1> QED BY <1>4

(* Finitely many integers have a greatest one.                             *)
LEMMA Greatest ==
  ASSUME NEW D, IsFiniteSet(D), NEW f, NEW W \in SUBSET D, W # {}, \A i \in W : f[i] \in Int
  PROVE  \E i \in W : \A j \in W : f[i] >= f[j]
<1> DEFINE Bad == {s \in SUBSET W : s # {} /\ \A i \in s : \E j \in s : ~(f[i] >= f[j])}
<1>1. IsFiniteSet(W)
  BY FS_Subset
<1>2. ASSUME Bad # {} PROVE FALSE
  <2>1. PICK s \in Bad : \A x \in s : s \ {x} \notin Bad
    <3>1. Bad \subseteq SUBSET W
      OBVIOUS
    <3> HIDE DEF Bad
    <3> QED BY <1>1, <1>2, <3>1, Smallest
  <2>2. PICK x \in s : TRUE
    OBVIOUS
  <2>3. \A i \in s : f[i] \in Int
    OBVIOUS
  <2>4. CASE s \ {x} = {}
    <3>1. s = {x}
      BY <2>2, <2>4
    <3> QED BY <2>3, <3>1
  <2>5. CASE s \ {x} # {}
    <3>1. PICK y \in s \ {x} : \A j \in s \ {x} : f[y] >= f[j]
      BY <2>1, <2>2, <2>5
    <3>2. \A j \in s : f[x] >= f[j] \/ f[y] >= f[j]
      BY <2>3, <3>1
    <3>3. (\A j \in s : f[x] >= f[j]) \/ (\A j \in s : f[y] >= f[j])
      BY <2>2, <2>3, <3>1, <3>2
    <3> QED BY <2>2, <3>1, <3>3
  <2> QED BY <2>4, <2>5
<1> QED BY <1>2

(* Induction over 0 .. n, on the members of a set. *)
LEMMA UpTo ==
  ASSUME NEW n \in Nat, NEW T, 0 \in T, \A i \in 1 .. n : i - 1 \in T => i \in T
  PROVE  \A i \in 0 .. n : i \in T
<1>. DEFINE Bad == {i \in 0 .. n : i \notin T}
<1>1. ASSUME Bad # {} PROVE FALSE
  <2>1. PICK x \in Bad : \A y \in Bad : x <= y
    <3>1. Bad \in SUBSET Nat
      OBVIOUS
    <3>. QED
      BY <1>1, <3>1, LeastNat
  <2>2. x \in 1 .. n /\ x - 1 \in Bad
    BY <2>1
  <2>. QED
    BY <2>1, <2>2
<1>. QED
  BY <1>1
-----------------------------------------------------------------------------
(* No scenario lasts longer than the longest. *)
LEMMA EndFacts == End \in Nat /\ \A i \in Scenario : Duration[i] \in 0 .. End
<1>. DEFINE lengths == {Duration[i] : i \in Scenario}
<1>1. \A i \in Scenario : Duration[i] \in Nat
  BY ScenarioAssumption
<1>2. PICK i \in Scenario : \A j \in Scenario : Duration[i] >= Duration[j]
  <2>1. IsFiniteSet(Scenario) /\ Scenario # {} /\ Scenario \in SUBSET Scenario
    BY ScenarioAssumption
  <2>2. \A i \in Scenario : Duration[i] \in Int
    BY <1>1
  <2>. QED
    BY <2>1, <2>2, Greatest
<1>3. \E x \in lengths : \A y \in lengths : x >= y
  BY <1>2
<1>4. End \in lengths /\ \A y \in lengths : End >= y
  BY <1>3 DEF End, Max
<1>5. End \in Nat
  BY <1>1, <1>4
<1>6. ASSUME NEW j \in Scenario PROVE Duration[j] \in 0 .. End
  BY <1>1, <1>4, <1>5
<1>. QED
  BY <1>5, <1>6

(* Whichever scenario runs is one of them. *)
LEMMA Running ==
  ASSUME IInv, stage # "idle"
  PROVE  /\ sc \in Scenario /\ pos \in 1 .. Len(session.line) /\ Len(session.line) \in Nat
         /\ Stimuli[sc] \in Seq(Range(Stimuli[sc])) /\ Asserts[sc] \in Seq(Range(Asserts[sc]))
<1>1. session.line \in Seq(Scenario) /\ pos \in DOMAIN session.line
  BY SessionLines DEF IInv, Inputs
<1>2. sc \in Scenario
  BY <1>1, ElementOfSeq DEF sc
<1>3. Len(session.line) \in Nat /\ pos \in 1 .. Len(session.line)
  BY <1>1
<1>4. Stimuli[sc] \in Seq(Range(Stimuli[sc])) /\ Asserts[sc] \in Seq(Range(Asserts[sc]))
  BY <1>2, ScenarioAssumption
<1>. QED
  BY <1>2, <1>3, <1>4

Known == {"net_level", "uart_contains", "uart_not_contains", "power_budget", "battery_soc_min",
          "temp_max", "log_contains", "state_reached", "state_at_end", "no_contention",
          "transition_count"}

(* Every assertion has a verdict, whatever its fields. *)
LEMMA HoldsType ==
  ASSUME NEW a, NEW tr, NEW report, NEW states
  PROVE  Holds(a, tr, report, states) \in BOOLEAN
<1>. DEFINE cheap == /\ a.name \in DOMAIN report.rails
                    /\ \A k \in DOMAIN a.limits : report.rails[a.name][k] <= a.limits[k]
            full == a.name \in DOMAIN report.soc /\ report.soc[a.name] >= a.min
<1>1. (\A p, d : Within(p, d) \in BOOLEAN) /\ cheap \in BOOLEAN /\ full \in BOOLEAN
  BY Zenon DEF Within
<1>2. CASE a.type \in {"net_level", "uart_contains", "uart_not_contains"}
  BY <1>1, <1>2 DEF Holds
<1>3. CASE a.type = "power_budget"
  <2>1. Holds(a, tr, report, states) = cheap
    BY <1>3 DEF Holds
  <2>. QED
    BY <1>1, <2>1
<1>4. CASE a.type = "battery_soc_min"
  <2>1. Holds(a, tr, report, states) = full
    BY <1>4 DEF Holds
  <2>. QED
    BY <1>1, <2>1
<1>5. CASE a.type = "temp_max"
  BY <1>5, Zenon DEF Holds
<1>6. CASE a.type = "log_contains"
  BY <1>6 DEF Holds
<1>7. CASE a.type = "state_reached"
  BY <1>7 DEF Holds
<1>8. CASE a.type = "state_at_end"
  BY <1>8 DEF Holds
<1>9. CASE a.type = "no_contention"
  BY <1>9 DEF Holds
<1>10. CASE a.type = "transition_count"
  BY <1>10 DEF Holds
<1>11. CASE a.type \notin Known
  <2>1. Holds(a, tr, report, states) = FALSE
    BY <1>11 DEF Holds, Known
  <2>. QED
    BY <2>1
<1>. QED
  BY <1>2, <1>3, <1>4, <1>5, <1>6, <1>7, <1>8, <1>9, <1>10, <1>11 DEF Known

LEMMA VerdictsType ==
  ASSUME NEW asserts, asserts \in Seq(Range(asserts)), NEW tr, NEW report, NEW states
  PROVE  Verdicts(asserts, tr, report, states) \in Seq(BOOLEAN)
<1>1. \A i \in DOMAIN asserts : Holds(asserts[i], tr, report, states) \in BOOLEAN
  BY HoldsType
<1>2. DOMAIN asserts = 1 .. Len(asserts) /\ Len(asserts) \in Nat
  OBVIOUS
<1>. QED
  BY <1>1, <1>2 DEF Verdicts

LEMMA StartTyped == Init => TypeOK
<1>. SUFFICES ASSUME Init PROVE TypeOK
  OBVIOUS
<1>1. FactoryTypeOK
  BY FactoryStarts DEF Init, FactoryInv
<1>2. files \in [Input -> 1 .. MaxEdits + 1] /\ imported \in 0 .. MaxEdits + 1
  BY ScenarioAssumption DEF Init
<1>3. modules \in [Slug -> File] /\ registry \in [Slug -> File]
  BY DEF Init, Empty, File
<1>4. session \in Session /\ pos \in 1 .. Len(session.line) + 1
  <2>1. session \in Session /\ session.line \in Seq(Scenario)
    BY SessionLines DEF Init
  <2>. QED
    BY <2>1 DEF Init
<1>5. used \in [board : 0 .. MaxEdits + 1, firmware : 0 .. MaxEdits + 1, model : File]
  BY ScenarioAssumption DEF Init, Unread, File
<1>6. clock \in 0 .. End /\ due \subseteq Nat /\ level \in [0 .. End -> Level \cup {"none"}]
  BY EndFacts DEF Init
<1>7. stage = "idle" /\ touched = {} /\ verdicts = <<>>
  BY DEF Init
<1>8. <<>> \in Seq(BOOLEAN)
  OBVIOUS
<1>. QED
  BY <1>1, <1>2, <1>3, <1>4, <1>5, <1>6, <1>7, <1>8 DEF TypeOK

(* The parts of TypeOK that the factory and its models have no share in.   *)
ReadTyped ==
  /\ files \in [Input -> 1 .. MaxEdits + 1] /\ imported \in 0 .. MaxEdits + 1
  /\ used \in [board : 0 .. MaxEdits + 1, firmware : 0 .. MaxEdits + 1, model : File]
  /\ touched \subseteq Input
PlaceTyped ==
  /\ session \in Session /\ pos \in 1 .. Len(session.line) + 1
  /\ stage \in {"idle", "models", "board", "firmware", "running"}
TwinTyped ==
  /\ clock \in 0 .. End /\ due \subseteq Nat
  /\ level \in [0 .. End -> Level \cup {"none"}]
  /\ verdicts \in Seq(BOOLEAN)

(* What a step of the scenario's own does to the three. *)
LEMMA ReadSteps == IInv /\ ReadTyped /\ [Next]_vars => ReadTyped'
<1>. SUFFICES ASSUME IInv, ReadTyped, [Next]_vars PROVE ReadTyped'
  OBVIOUS
<1>. USE DEF ReadTyped
<1>e. MaxEdits \in Nat
  BY ScenarioAssumption
<1>1. CASE UNCHANGED <<files, imported, used, touched>>
  BY <1>1
<1>2. ASSUME NEW f \in Input, Edit(f) PROVE ReadTyped'
  <2>1. /\ files' = [files EXCEPT ![f] = files[f] + 1] /\ touched' = touched \cup {f}
        /\ Total < session.edits /\ UNCHANGED <<imported, used>>
    BY <1>2 DEF Edit, NoProcess, processVars
  <2>2. session.edits \in 0 .. MaxEdits
    BY ScenarioAssumption DEF IInv, Inputs
  <2>3. files["board"] \in 1 .. MaxEdits + 1 /\ files["firmware"] \in 1 .. MaxEdits + 1
    BY DEF Input
  <2>4. files[f] + 1 \in 1 .. MaxEdits + 1
    BY <1>e, <2>1, <2>2, <2>3 DEF Total, Input
  <2>. QED
    BY <2>1, <2>4
<1>3. ASSUME NEW fresh \in BOOLEAN, Begin(fresh) PROVE ReadTyped'
  <2>1. Unread \in [board : 0 .. MaxEdits + 1, firmware : 0 .. MaxEdits + 1, model : File]
    BY <1>e DEF Unread, File
  <2>. QED
    BY <1>3, <1>e, <2>1 DEF Begin
<1>4. ASSUME ReadBoard PROVE ReadTyped'
  <2>1. \A s \in Slug : registry[s] \in File
    BY FileFacts DEF IInv, Loaded, FactoryInv, FactoryTypeOK, File
  <2>2. None \in File
    BY DEF File
  <2>3. PICK x \in File : used' = [used EXCEPT !.board = files["board"], !.model = x]
    BY <1>4, <2>1, <2>2 DEF ReadBoard
  <2>4. files["board"] \in 0 .. MaxEdits + 1
    BY <1>e DEF Input
  <2>5. UNCHANGED <<files, imported, touched>>
    BY <1>4 DEF ReadBoard, NoFiles, NoProcess, processVars
  <2>. QED
    BY <2>3, <2>4, <2>5
<1>5. ASSUME Start PROVE ReadTyped'
  <2>1. Firmware(sc) \in 0 .. MaxEdits + 1
    BY <1>e DEF Firmware, Input
  <2>2. /\ used' = [used EXCEPT !.firmware = Firmware(sc)]
        /\ imported' \in {Firmware(sc), imported} /\ UNCHANGED <<files, touched>>
    BY <1>5 DEF Start, NoFiles
  <2>. QED
    BY <2>1, <2>2
<1>6. CASE \/ LoadModels \/ Raise \/ (\E k \in due : Fire(k)) \/ Board \/ Elapse \/ Finish
  BY <1>1, <1>6 DEF LoadModels, Raise, Fire, Board, Elapse, Finish, NoFiles, NoProcess, processVars
<1>7. CASE \E s \in Slug, registers \in BOOLEAN : \E before \in SUBSET (Slug \ {s}) :
             ImportRaises(s, before, registers)
  BY <1>1, <1>7 DEF ImportRaises, NoFiles
<1>8. CASE FactoryNext /\ NoProcess /\ NoTwin /\ UNCHANGED <<files, runVars, results>>
  BY <1>1, <1>8 DEF NoProcess, processVars, runVars
<1>9. CASE UNCHANGED vars
  BY <1>1, <1>9 DEF vars, processVars, runVars
<1>. QED
  BY <1>2, <1>3, <1>4, <1>5, <1>6, <1>7, <1>8, <1>9 DEF Next

LEMMA PlaceSteps == IInv /\ PlaceTyped /\ [Next]_vars => PlaceTyped'
<1>. SUFFICES ASSUME IInv, PlaceTyped, [Next]_vars PROVE PlaceTyped'
  OBVIOUS
<1>. USE DEF PlaceTyped
<1>l. Len(session.line) \in Nat /\ (stage # "idle" => pos \in 1 .. Len(session.line))
  <2>1. session.line \in Seq(Scenario)
    BY SessionLines
  <2>. QED
    BY <2>1, Running
<1>1. CASE UNCHANGED <<session, pos>> /\ stage' \in {stage, "models", "board", "firmware", "running"}
  BY <1>1
<1>2. CASE UNCHANGED session /\ stage # "idle" /\ stage' = "idle" /\ pos' = pos + 1
  BY <1>2, <1>l
<1>3. CASE Raise \/ Finish
  BY <1>2, <1>3 DEF Raise, Finish
<1>4. CASE \E s \in Slug, registers \in BOOLEAN : \E before \in SUBSET (Slug \ {s}) :
             ImportRaises(s, before, registers)
  BY <1>2, <1>4 DEF ImportRaises
<1>5. CASE \E k \in due : Fire(k)
  BY <1>1, <1>2, <1>5 DEF Fire
<1>6. CASE LoadModels \/ ReadBoard \/ Start \/ Board \/ Elapse
  BY <1>1, <1>6 DEF LoadModels, ReadBoard, Start, Board, Elapse, Goto, NoProcess, processVars
<1>7. CASE \/ \E f \in Input : Edit(f)
           \/ \E fresh \in BOOLEAN : Begin(fresh)
  BY <1>1, <1>7 DEF Edit, Begin, Goto, NoProcess, processVars
<1>8. CASE FactoryNext /\ NoProcess /\ NoTwin /\ UNCHANGED <<files, runVars, results>>
  BY <1>1, <1>8 DEF NoProcess, processVars, runVars
<1>9. CASE UNCHANGED vars
  BY <1>1, <1>9 DEF vars, processVars, runVars
<1>. QED
  BY <1>3, <1>4, <1>5, <1>6, <1>7, <1>8, <1>9 DEF Next

LEMMA TwinSteps == IInv /\ TwinTyped /\ [Next]_vars => TwinTyped'
<1>. SUFFICES ASSUME IInv, TwinTyped, [Next]_vars PROVE TwinTyped'
  OBVIOUS
<1>. USE DEF TwinTyped
<1>e. End \in Nat /\ (stage # "idle" => Duration[sc] \in 0 .. End)
  BY EndFacts, Running
<1>1. CASE UNCHANGED twinVars
  BY <1>1 DEF twinVars
<1>l. ASSUME NEW l \in Level, NEW tr, Becomes(l, tr)
      PROVE  level' \in [0 .. End -> Level \cup {"none"}]
  BY <1>l DEF Becomes
<1>2. ASSUME NEW fresh \in BOOLEAN, Begin(fresh) PROVE TwinTyped'
  BY <1>2, <1>e DEF Begin
<1>3. ASSUME ReadBoard PROVE TwinTyped'
  BY <1>3 DEF ReadBoard
<1>4. ASSUME Start PROVE TwinTyped'
  <2>1. DOMAIN Stimuli[sc] \subseteq Nat
    BY <1>4, Running DEF Start
  <2>. QED
    BY <1>4, <2>1 DEF Start
<1>5. ASSUME NEW k \in due, Fire(k) PROVE TwinTyped'
  BY <1>5, <1>l DEF Fire
<1>6. ASSUME Board PROVE TwinTyped'
  BY <1>6, <1>l DEF Board
<1>7. ASSUME Elapse PROVE TwinTyped'
  BY <1>7, <1>e DEF Elapse
<1>8. ASSUME Finish PROVE TwinTyped'
  <2>1. Asserts[sc] \in Seq(Range(Asserts[sc]))
    BY <1>8, Running DEF Finish
  <2>2. verdicts' \in Seq(BOOLEAN)
    BY <1>8, <2>1, VerdictsType DEF Finish
  <2>. QED
    BY <1>8, <2>2 DEF Finish
<1>9. CASE LoadModels \/ Raise \/ \E f \in Input : Edit(f)
  BY <1>1, <1>9 DEF LoadModels, Raise, Edit, NoTwin
<1>10. CASE \E s \in Slug, registers \in BOOLEAN : \E before \in SUBSET (Slug \ {s}) :
             ImportRaises(s, before, registers)
  BY <1>1, <1>10 DEF ImportRaises, NoTwin
<1>11. CASE (FactoryNext /\ NoTwin) \/ UNCHANGED vars
  BY <1>1, <1>11 DEF NoTwin, vars
<1>. QED
  BY <1>2, <1>3, <1>4, <1>5, <1>6, <1>7, <1>8, <1>9, <1>10, <1>11 DEF Next

(* A process that runs scenarios stays well typed, for any scenarios,      *)
(* sessions, models and edits: its kernel's clock never leaves the longest *)
(* scenario, and whatever an assertion looks like it gets a verdict.       *)
THEOREM RunsAreTyped == Spec => []TypeOK
<1>. DEFINE Rest == ReadTyped /\ PlaceTyped /\ TwinTyped
<1>1. Init => Rest
  BY StartTyped DEF TypeOK, ReadTyped, PlaceTyped, TwinTyped
<1>2. IInv /\ Rest /\ [Next]_vars => Rest'
  BY ReadSteps, PlaceSteps, TwinSteps
<1>3. IInv /\ Rest => TypeOK
  <2>. SUFFICES ASSUME IInv, Rest PROVE TypeOK
    OBVIOUS
  <2>1. FactoryTypeOK
    BY DEF IInv, FactoryInv
  <2>2. modules \in [Slug -> File] /\ registry \in [Slug -> File]
    BY <2>1 DEF IInv, Loaded, FactoryTypeOK, File
  <2>. QED
    BY <2>1, <2>2 DEF TypeOK, ReadTyped, PlaceTyped, TwinTyped
<1>. QED
  BY <1>1, <1>2, <1>3, Invariance, PTL DEF Spec
-----------------------------------------------------------------------------
(* What Select keeps of each prefix of a trace. *)
Keeping(tr, kind, name, start, end, g) ==
  g = [i \in 0 .. Len(tr) |->
         IF i = 0 THEN <<>>
         ELSE IF Matches(tr[i], kind, name, start, end) THEN Append(g[i - 1], tr[i])
         ELSE g[i - 1]]

LEMMA KeepingExists ==
  ASSUME NEW tr, Len(tr) \in Nat, NEW kind, NEW name, NEW start, NEW end
  PROVE  \E g : /\ Keeping(tr, kind, name, start, end, g)
                /\ Select(tr, kind, name, start, end) = g[Len(tr)]
<1>. DEFINE n == Len(tr)
            Keep(s, i) == IF Matches(tr[i], kind, name, start, end) THEN Append(s, tr[i]) ELSE s
            Upto(k, g) == g = [i \in 0 .. k |-> IF i = 0 THEN <<>> ELSE Keep(g[i - 1], i)]
            T == {k \in 0 .. n : \E g : Upto(k, g)}
<1>1. n \in Nat
  OBVIOUS
<1>2. 0 \in T
  <2>. DEFINE h == [i \in 0 .. 0 |-> <<>>]
  <2>1. Upto(0, h)
    OBVIOUS
  <2>2. 0 \in 0 .. n
    OBVIOUS
  <2>. HIDE DEF h, Upto, n
  <2>. QED
    BY <2>1, <2>2
<1>. HIDE DEF n, Keep
<1>3. ASSUME NEW k \in 1 .. n, k - 1 \in T PROVE k \in T
  <2>1. k \in Nat /\ k \in 0 .. n /\ k - 1 \in Nat
    BY <1>1
  <2>2. PICK g : Upto(k - 1, g)
    BY <1>3
  <2>. DEFINE h == [i \in 0 .. k |-> IF i = 0 THEN <<>> ELSE Keep(g[i - 1], i)]
  <2>3. \A i \in 0 .. k - 1 : h[i] = g[i]
    BY <2>1, <2>2
  <2>4. \A i \in 0 .. k : i # 0 => h[i - 1] = g[i - 1]
    <3>1. \A i \in 0 .. k : i # 0 => i - 1 \in 0 .. k - 1
      BY <2>1
    <3>. HIDE DEF h
    <3>. QED
      BY <2>3, <3>1
  <2>5. Upto(k, h)
    <3>1. h = [i \in 0 .. k |-> IF i = 0 THEN <<>> ELSE Keep(h[i - 1], i)]
      BY <2>4
    <3>. QED
      BY <3>1
  <2>. HIDE DEF h, Upto
  <2>. QED
    BY <2>1, <2>5
<1>4. n \in T
  <2>. HIDE DEF T
  <2>1. \A k \in 0 .. n : k \in T
    BY <1>1, <1>2, <1>3, UpTo
  <2>. QED
    BY <1>1, <2>1
<1>5. \E g : Keeping(tr, kind, name, start, end, g)
  BY <1>4 DEF Keeping, n, Keep
<1>. DEFINE it == CHOOSE g : Keeping(tr, kind, name, start, end, g)
<1>6. Keeping(tr, kind, name, start, end, it)
  BY <1>5
<1>7. Select(tr, kind, name, start, end) = it[Len(tr)]
  BY DEF Select, Keeping
<1>. QED
  BY <1>6, <1>7

LEMMA KeepingFacts ==
  ASSUME NEW tr, Len(tr) \in Nat, NEW kind, NEW name, NEW start, NEW end, NEW g,
         Keeping(tr, kind, name, start, end, g)
  PROVE  /\ g[0] = <<>>
         /\ \A i \in 1 .. Len(tr) : g[i] = IF Matches(tr[i], kind, name, start, end)
                                         THEN Append(g[i - 1], tr[i]) ELSE g[i - 1]
<1>1. 0 \in 0 .. Len(tr) /\ \A i \in 1 .. Len(tr) : i \in 0 .. Len(tr) /\ i # 0
  OBVIOUS
<1>2. g[0] = <<>>
  BY <1>1 DEF Keeping
<1>3. ASSUME NEW i \in 1 .. Len(tr)
      PROVE  g[i] = IF Matches(tr[i], kind, name, start, end)
                    THEN Append(g[i - 1], tr[i]) ELSE g[i - 1]
  <2>. DEFINE n == Len(tr)
              Kept(j) == IF j = 0 THEN <<>>
                         ELSE IF Matches(tr[j], kind, name, start, end)
                         THEN Append(g[j - 1], tr[j]) ELSE g[j - 1]
  <2>1. g = [j \in 0 .. n |-> Kept(j)]
    BY DEF Keeping
  <2>2. i \in 0 .. n /\ i # 0
    BY <1>1
  <2>. HIDE DEF n, Kept
  <2>3. g[i] = Kept(i)
    BY <2>1, <2>2
  <2>. QED
    BY <2>2, <2>3 DEF Kept
<1>. QED
  BY <1>2, <1>3

(* Select goes along the trace: one more record is at the end of what it   *)
(* keeps, or makes no difference.                                          *)
LEMMA SelectFacts ==
  ASSUME NEW S, NEW tr \in Seq(S), NEW kind, NEW name, NEW start, NEW end
  PROVE  /\ Select(tr, kind, name, start, end) \in Seq(S)
         /\ Len(tr) = 0 => Select(tr, kind, name, start, end) = <<>>
         /\ \A x \in S : Select(Append(tr, x), kind, name, start, end) =
              IF Matches(x, kind, name, start, end)
              THEN Append(Select(tr, kind, name, start, end), x)
              ELSE Select(tr, kind, name, start, end)
<1>. DEFINE n == Len(tr)
<1>1. n \in Nat /\ \A i \in 1 .. n : tr[i] \in S
  BY ElementOfSeq
<1>2. PICK g : Keeping(tr, kind, name, start, end, g) /\ Select(tr, kind, name, start, end) = g[n]
  BY <1>1, KeepingExists
<1>3. g[0] = <<>> /\ \A i \in 1 .. n : g[i] = IF Matches(tr[i], kind, name, start, end)
                                               THEN Append(g[i - 1], tr[i]) ELSE g[i - 1]
  BY <1>1, <1>2, KeepingFacts
<1>4. \A i \in 0 .. n : g[i] \in Seq(S)
  <2>. DEFINE T == {i \in 0 .. n : g[i] \in Seq(S)}
  <2>. HIDE DEF n
  <2>1. 0 \in T
    <3>1. g[0] \in Seq(S)
      BY <1>3, EmptySeq
    <3>. QED
      BY <1>1, <3>1
  <2>2. ASSUME NEW i \in 1 .. n, i - 1 \in T PROVE i \in T
    <3>1. g[i - 1] \in Seq(S) /\ i \in 0 .. n /\ tr[i] \in S
      BY <1>1, <2>2
    <3>2. Append(g[i - 1], tr[i]) \in Seq(S)
      BY <3>1, AppendProperties
    <3>3. g[i] \in Seq(S)
      BY <1>3, <3>1, <3>2
    <3>. QED
      BY <3>1, <3>3
  <2>3. \A i \in 0 .. n : i \in T
    <3>. HIDE DEF T
    <3>. QED
      BY <1>1, <2>1, <2>2, UpTo
  <2>. QED
    BY <2>3
<1>5. ASSUME NEW x \in S
      PROVE  Select(Append(tr, x), kind, name, start, end) =
               IF Matches(x, kind, name, start, end) THEN Append(g[n], x) ELSE g[n]
  <2>. DEFINE tx == Append(tr, x)
  <2>1. Len(tx) = n + 1 /\ tx[n + 1] = x /\ \A i \in 1 .. n : tx[i] = tr[i]
    BY AppendProperties
  <2>. HIDE DEF tx, n
  <2>2. PICK h : Keeping(tx, kind, name, start, end, h)
                 /\ Select(tx, kind, name, start, end) = h[n + 1]
    <3>1. Len(tx) \in Nat
      BY <1>1, <2>1
    <3>. QED
      BY <2>1, <3>1, KeepingExists
  <2>3. h[0] = <<>> /\ \A i \in 1 .. n + 1 : h[i] = IF Matches(tx[i], kind, name, start, end)
                                                   THEN Append(h[i - 1], tx[i]) ELSE h[i - 1]
    <3>1. Len(tx) \in Nat
      BY <1>1, <2>1
    <3>2. /\ h[0] = <<>>
          /\ \A i \in 1 .. Len(tx) : h[i] = IF Matches(tx[i], kind, name, start, end)
                                          THEN Append(h[i - 1], tx[i]) ELSE h[i - 1]
      BY <2>2, <3>1, KeepingFacts
    <3>. QED
      BY <2>1, <3>2
  <2>. DEFINE T == {i \in 0 .. n : h[i] = g[i]}
  <2>4. 0 \in T
    BY <1>1, <1>3, <2>3
  <2>5. ASSUME NEW i \in 1 .. n, i - 1 \in T PROVE i \in T
    <3>1. i \in 1 .. n + 1 /\ i \in 0 .. n /\ tx[i] = tr[i]
      BY <1>1, <2>1
    <3>2. h[i - 1] = g[i - 1]
      BY <2>5
    <3>3. h[i] = g[i]
      BY <1>3, <2>3, <3>1, <3>2
    <3>. QED
      BY <3>1, <3>3
  <2>6. n \in T
    <3>. HIDE DEF T
    <3>1. \A i \in 0 .. n : i \in T
      BY <1>1, <2>4, <2>5, UpTo
    <3>. QED
      BY <1>1, <3>1
  <2>7. h[n] = g[n] /\ n + 1 \in 1 .. n + 1 /\ (n + 1) - 1 = n
    BY <1>1, <2>6
  <2>8. h[n + 1] = IF Matches(x, kind, name, start, end) THEN Append(g[n], x) ELSE g[n]
    BY <2>1, <2>3, <2>7
  <2>. QED
    BY <2>2, <2>8 DEF tx
<1>6. n = 0 => g[n] = <<>>
  BY <1>3
<1>7. g[n] \in Seq(S)
  BY <1>1, <1>4
<1>. QED
  BY <1>2, <1>5, <1>6, <1>7

(* net_level_at tells what was recorded last. *)
LEMMA LevelFacts ==
  ASSUME NEW S, NEW tr \in Seq(S), NEW net, NEW t
  PROVE  /\ Len(tr) = 0 => NetLevelAt(tr, net, t) = "none"
         /\ \A x \in S : NetLevelAt(Append(tr, x), net, t) =
              IF Matches(x, "net", net, 0, t) THEN x.val ELSE NetLevelAt(tr, net, t)
<1>. DEFINE es == Select(tr, "net", net, 0, t)
<1>1. es \in Seq(S) /\ (Len(tr) = 0 => es = <<>>)
  BY SelectFacts
<1>2. ASSUME NEW x \in S
      PROVE  Select(Append(tr, x), "net", net, 0, t) =
               IF Matches(x, "net", net, 0, t) THEN Append(es, x) ELSE es
  BY SelectFacts
<1>3. ASSUME NEW x \in S PROVE Append(es, x) # <<>> /\ Last(Append(es, x)) = x
  <2>1. Len(Append(es, x)) = Len(es) + 1 /\ Append(es, x)[Len(es) + 1] = x /\ Len(es) \in Nat
    BY <1>1, AppendProperties
  <2>2. Len(<<>>) = 0
    BY EmptySeq
  <2>. HIDE DEF es
  <2>. QED
    BY <2>1, <2>2 DEF Last
<1>4. NetLevelAt(tr, net, t) = IF es = <<>> THEN "none" ELSE Last(es).val
  BY DEF NetLevelAt
<1>5. ASSUME NEW x \in S
      PROVE  NetLevelAt(Append(tr, x), net, t) =
               IF Matches(x, "net", net, 0, t) THEN x.val ELSE NetLevelAt(tr, net, t)
  <2>. HIDE DEF es
  <2>1. CASE Matches(x, "net", net, 0, t)
    <3>1. Select(Append(tr, x), "net", net, 0, t) = Append(es, x)
      BY <1>2, <2>1
    <3>. QED
      BY <1>3, <2>1, <3>1 DEF NetLevelAt
  <2>2. CASE ~Matches(x, "net", net, 0, t)
    <3>1. Select(Append(tr, x), "net", net, 0, t) = es
      BY <1>2, <2>2
    <3>. QED
      BY <1>4, <2>2, <3>1 DEF NetLevelAt
  <2>. QED
    BY <2>1, <2>2
<1>. QED
  BY <1>1, <1>4, <1>5
-----------------------------------------------------------------------------
Record ==
  [t : 0 .. End, kind : {"event", "net", "uart", "state", "log"},
   name : {"do", "probe", "line", "part", "build"},
   val : Nat \cup Level \cup {"a", "b", "on", "open"}]

(* While a scenario runs, the events of its trace are the stimuli that are *)
(* not due any more, at their times; every one of them before every one    *)
(* that is.                                                                *)
InTime(k, ev) == ev.t < Stimuli[sc][k].at \/ (ev.t = Stimuli[sc][k].at /\ ev.val < k)
Chronicle ==
  /\ due \subseteq DOMAIN Stimuli[sc]
  /\ {Fired[i].val : i \in DOMAIN Fired} = DOMAIN Stimuli[sc] \ due
  /\ \A i, j \in DOMAIN Fired : i < j => Earlier(Fired[i], Fired[j])
  /\ \A i \in DOMAIN Fired :
       LET ev == Stimuli[sc][Fired[i].val]
       IN  ev.at = Fired[i].t /\ ev.do # "unknown" /\ Fired[i].t <= clock
  /\ \A k \in due, i \in DOMAIN Fired : InTime(k, Fired[i])

(* Until then the trace says nothing of stimuli; of the net it says at any *)
(* time what its level was at the end of each instant.                     *)
Told ==
  /\ trace \in Seq(Record)
  /\ stage \in {"models", "board"} => trace = <<>>
  /\ stage = "firmware" => Fired = <<>>
  /\ stage = "running" => Chronicle
  /\ \A t \in 0 .. End : NetLevelAt(trace, "probe", t) = level[t]
  /\ verdicts # <<>> => stage = "idle"
  /\ VerdictsTell

Typed == IInv /\ TypeOK

(* What one more record makes of it. *)
LEMMA Recording ==
  ASSUME trace \in Seq(Record), NEW x \in Record, NEW tr, tr = Append(trace, x)
  PROVE  /\ tr \in Seq(Record) /\ Fired \in Seq(Record)
         /\ Select(tr, "event", "do", 0, End) =
              IF x.kind = "event" /\ x.name = "do" THEN Append(Fired, x) ELSE Fired
         /\ \A t \in 0 .. End : NetLevelAt(tr, "probe", t) =
              IF x.kind = "net" /\ x.name = "probe" /\ x.t <= t THEN x.val
              ELSE NetLevelAt(trace, "probe", t)
<1>1. x.t \in 0 .. End /\ 0 <= x.t /\ x.t <= End
  BY EndFacts DEF Record
<1>2. tr \in Seq(Record)
  BY AppendProperties
<1>3. /\ Fired \in Seq(Record)
      /\ Select(tr, "event", "do", 0, End) =
           IF Matches(x, "event", "do", 0, End) THEN Append(Fired, x) ELSE Fired
  BY SelectFacts DEF Fired
<1>4. \A t \in 0 .. End : NetLevelAt(tr, "probe", t) =
        IF Matches(x, "net", "probe", 0, t) THEN x.val ELSE NetLevelAt(trace, "probe", t)
  BY LevelFacts
<1>. QED
  BY <1>1, <1>2, <1>3, <1>4 DEF Matches

(* An empty trace tells nothing. *)
LEMMA NothingTold ==
  ASSUME NEW tr, tr = <<>>
  PROVE  /\ tr \in Seq(Record) /\ Select(tr, "event", "do", 0, End) = <<>>
         /\ \A t \in 0 .. End : NetLevelAt(tr, "probe", t) = "none"
<1>1. tr \in Seq(Record) /\ Len(tr) = 0
  BY EmptySeq
<1>2. ASSUME NEW u \in Seq(Record), Len(u) = 0
      PROVE  /\ Select(u, "event", "do", 0, End) = <<>>
             /\ \A t \in 0 .. End : NetLevelAt(u, "probe", t) = "none"
  BY <1>2, SelectFacts, LevelFacts
<1>. QED
  BY <1>1, <1>2

LEMMA ToldStarts == Init => Told
<1>. SUFFICES ASSUME Init PROVE Told
  OBVIOUS
<1>1. trace = <<>> /\ level = [t \in 0 .. End |-> "none"] /\ stage = "idle" /\ verdicts = <<>>
  BY DEF Init
<1>2. trace \in Seq(Record) /\ \A t \in 0 .. End : NetLevelAt(trace, "probe", t) = level[t]
  BY <1>1, NothingTold
<1>. QED
  BY <1>1, <1>2 DEF Told, VerdictsTell

(* Steps that leave the twin alone, or only take it from one stage of its  *)
(* building to the next or back to none.                                   *)
LEMMA ToldStays == Told /\ UNCHANGED <<twinVars, session, pos, stage>> => Told'
<1>. SUFFICES ASSUME Told, UNCHANGED <<twinVars, session, pos, stage>> PROVE Told'
  OBVIOUS
<1>1. UNCHANGED <<clock, due, trace, level, verdicts, session, pos, stage>>
  BY DEF twinVars
<1>2. Fired' = Fired /\ Ran' = Ran /\ sc' = sc
  BY <1>1 DEF Fired, Ran, sc
<1>3. Chronicle => Chronicle'
  BY <1>1, <1>2 DEF Chronicle, InTime, Earlier
<1>4. VerdictsTell => VerdictsTell'
  BY <1>1, <1>2 DEF VerdictsTell, Earlier
<1>. QED
  BY <1>1, <1>2, <1>3, <1>4 DEF Told

LEMMA ToldMoves ==
  Told /\ UNCHANGED twinVars /\ stage # "idle"
       /\ (stage' = "idle" \/ (stage = "models" /\ stage' = "board")) => Told'
<1>. SUFFICES ASSUME Told, UNCHANGED twinVars, stage # "idle",
                     stage' = "idle" \/ (stage = "models" /\ stage' = "board")
              PROVE  Told'
  OBVIOUS
<1>1. UNCHANGED <<trace, level, verdicts>> /\ verdicts = <<>>
  BY DEF twinVars, Told
<1>2. Fired' = Fired
  BY <1>1 DEF Fired
<1>. QED
  BY <1>1, <1>2 DEF Told, VerdictsTell

(* A running scenario's trace grows; its stimuli stay what they are. *)
LEMMA BoardTold == Typed /\ Told /\ Board => Told'
<1>. SUFFICES ASSUME Typed, Told, Board PROVE Told'
  OBVIOUS
<1>1. /\ UNCHANGED <<session, pos, stage, clock, due, verdicts>> /\ stage = "running"
      /\ verdicts = <<>> /\ trace \in Seq(Record) /\ sc' = sc /\ clock \in 0 .. End
    BY DEF Board, NoProcess, processVars, sc, Told, Typed, TypeOK
<1>2. \E x \in Record :
        /\ trace' = Append(trace, x) /\ x.kind # "event"
        /\ \A t \in 0 .. End : level'[t] =
             IF x.kind = "net" /\ x.name = "probe" /\ x.t <= t THEN x.val ELSE level[t]
  <2>1. CASE \E l \in Level : Becomes(l, trace)
    <3>1. PICK l \in Level : Becomes(l, trace)
      BY <2>1
    <3>2. Recorded("net", "probe", l) \in Record
      BY <1>1 DEF Recorded, Record
    <3>3. \A t \in 0 .. End : clock <= t <=> ~(t < clock)
      BY <1>1, EndFacts
    <3>. QED
      BY <3>1, <3>2, <3>3 DEF Becomes, Recorded
  <2>2. CASE \E b \in {"a", "b"} :
               trace' = Append(trace, Recorded("uart", "line", b)) /\ UNCHANGED level
    BY <1>1, <2>2 DEF Recorded, Record
  <2>3. CASE \E kind \in {"state", "log"} :
               trace' = Append(trace, Recorded(kind, "part", "on")) /\ UNCHANGED level
    BY <1>1, <2>3 DEF Recorded, Record
  <2>. QED
    BY <2>1, <2>2, <2>3 DEF Board
<1>3. PICK x \in Record :
        /\ trace' = Append(trace, x) /\ x.kind # "event"
        /\ \A t \in 0 .. End : level'[t] =
             IF x.kind = "net" /\ x.name = "probe" /\ x.t <= t THEN x.val ELSE level[t]
  BY <1>2
<1>4. /\ trace' \in Seq(Record) /\ Fired' = Fired
      /\ \A t \in 0 .. End : NetLevelAt(trace', "probe", t) =
           IF x.kind = "net" /\ x.name = "probe" /\ x.t <= t THEN x.val
           ELSE NetLevelAt(trace, "probe", t)
  BY <1>1, <1>3, Recording DEF Fired
<1>5. \A t \in 0 .. End : NetLevelAt(trace', "probe", t) = level'[t]
  BY <1>3, <1>4 DEF Told
<1>6. Chronicle'
  BY <1>1, <1>4 DEF Told, Chronicle, InTime, Earlier
<1>. QED
  BY <1>1, <1>4, <1>5, <1>6 DEF Told, VerdictsTell

LEMMA ElapseTold == Typed /\ Told /\ Elapse => Told'
<1>. SUFFICES ASSUME Typed, Told, Elapse PROVE Told'
  OBVIOUS
<1>1. /\ UNCHANGED <<session, pos, stage, due, verdicts, trace, level>> /\ stage = "running"
      /\ verdicts = <<>> /\ sc' = sc /\ Fired' = Fired /\ clock' = clock + 1 /\ clock \in 0 .. End
  BY DEF Elapse, NoProcess, processVars, sc, Fired, Told, Typed, TypeOK
<1>2. \A i \in DOMAIN Fired : Fired[i].t <= clock => Fired[i].t <= clock'
  <2>1. Fired \in Seq(Record)
    BY SelectFacts DEF Told, Fired
  <2>2. \A i \in DOMAIN Fired : Fired[i] \in Record
    BY <2>1
  <2>3. \A r \in Record : r.t \in Int
    BY EndFacts DEF Record
  <2>. QED
    BY <1>1, <2>2, <2>3, EndFacts
<1>3. Chronicle'
  BY <1>1, <1>2 DEF Told, Chronicle, InTime, Earlier
<1>. QED
  BY <1>1, <1>3 DEF Told, VerdictsTell

(* The stimulus that fires is the next: all that have fired were before    *)
(* it, all that are due come after it.                                     *)
LEMMA FireTold == ASSUME Typed, Told, NEW k \in due, Fire(k) PROVE Told'
<1>. DEFINE ev == Stimuli[sc][k]
            x == Recorded("event", "do", k)
            tr == Append(trace, x)
<1>1. /\ stage = "running" /\ verdicts = <<>> /\ verdicts' = <<>> /\ IsNext(k) /\ ev.at = clock
      /\ due' = due \ {k} /\ UNCHANGED <<session, clock>> /\ clock \in 0 .. End /\ k \in Nat
      /\ trace \in Seq(Record) /\ Chronicle
  BY DEF Fire, Told, Typed, TypeOK
<1>2. x \in Record /\ x.t = clock /\ x.val = k
  BY <1>1 DEF Recorded, Record
<1>3. /\ tr \in Seq(Record) /\ Fired \in Seq(Record)
      /\ Select(tr, "event", "do", 0, End) = Append(Fired, x)
      /\ \A t \in 0 .. End : NetLevelAt(tr, "probe", t) = level[t]
  BY <1>1, <1>2, Recording DEF Recorded, Told
<1>4. CASE ev.do = "unknown"
  <2>1. stage' = "idle" /\ trace' = tr /\ level' = level
    BY <1>4 DEF Fire
  <2>. QED
    BY <1>1, <1>3, <2>1 DEF Told, VerdictsTell
<1>5. CASE ev.do # "unknown"
  <2>1. stage' = stage /\ pos' = pos /\ sc' = sc
    BY <1>1, <1>5 DEF Fire, sc
  <2>2. /\ trace' \in Seq(Record) /\ Fired' = Append(Fired, x)
        /\ \A t \in 0 .. End : NetLevelAt(trace', "probe", t) = level'[t]
    <3>1. CASE trace' = tr /\ level' = level
      BY <1>3, <3>1 DEF Fired
    <3>2. CASE ev.do \in Level \ {level[clock]} /\ Becomes(ev.do, tr)
      <4>1. Recorded("net", "probe", ev.do) \in Record
        BY <1>1, <3>2 DEF Recorded, Record
      <4>2. trace' = Append(tr, Recorded("net", "probe", ev.do))
        BY <3>2 DEF Becomes
      <4>. DEFINE y == Recorded("net", "probe", ev.do)
      <4>3. /\ trace' \in Seq(Record)
            /\ Select(trace', "event", "do", 0, End) = Select(tr, "event", "do", 0, End)
        <5>1. trace' \in Seq(Record)
          BY <1>3, <4>1, <4>2, AppendProperties
        <5>2. ~Matches(y, "event", "do", 0, End)
          BY DEF Matches, Recorded
        <5>. HIDE DEF tr, y
        <5>3. Select(Append(tr, y), "event", "do", 0, End) = Select(tr, "event", "do", 0, End)
          BY <1>3, <4>1, <5>2, SelectFacts DEF y
        <5>. QED
          BY <4>2, <5>1, <5>3 DEF y
      <4>4. \A t \in 0 .. End : NetLevelAt(trace', "probe", t) =
              IF clock <= t THEN ev.do ELSE level[t]
        <5>1. \A t \in 0 .. End : Matches(y, "net", "probe", 0, t) <=> clock <= t
          BY <1>1, EndFacts DEF Matches, Recorded
        <5>2. y.val = ev.do
          BY DEF Recorded
        <5>. HIDE DEF tr, y
        <5>3. \A t \in 0 .. End : NetLevelAt(Append(tr, y), "probe", t) =
                IF Matches(y, "net", "probe", 0, t) THEN y.val ELSE NetLevelAt(tr, "probe", t)
          BY <1>3, <4>1, LevelFacts DEF y
        <5>. QED
          BY <1>3, <4>2, <5>1, <5>2, <5>3 DEF y
      <4>5. \A t \in 0 .. End : level'[t] = IF clock <= t THEN ev.do ELSE level[t]
        <5>1. \A t \in 0 .. End : clock <= t <=> ~(t < clock)
          BY <1>1, EndFacts
        <5>. QED
          BY <3>2, <5>1 DEF Becomes
      <4>. QED
        BY <1>3, <4>3, <4>4, <4>5 DEF Fired
    <3>. QED
      BY <1>5, <3>1, <3>2 DEF Fire
  <2>3. /\ Len(Fired) \in Nat /\ DOMAIN Fired = 1 .. Len(Fired)
        /\ DOMAIN Fired' = 1 .. Len(Fired) + 1 /\ Fired'[Len(Fired) + 1] = x
        /\ \A i \in DOMAIN Fired : Fired'[i] = Fired[i] /\ Fired[i].t \in Int
    <3>1. DOMAIN Append(Fired, x) = 1 .. Len(Append(Fired, x))
      BY <1>2, <1>3, AppendProperties, LenProperties
    <3>2. \A i \in DOMAIN Fired : Fired[i] \in Record
      BY <1>3
    <3>3. \A r \in Record : r.t \in Int
      BY EndFacts DEF Record
    <3>. QED
      BY <1>2, <1>3, <2>2, <3>1, <3>2, <3>3, AppendProperties, LenProperties
  <2>. DEFINE n == Len(Fired)
  <2>. HIDE DEF n, x, tr, ev
  <2>4. \A i \in DOMAIN Fired' : i \in DOMAIN Fired \/ i = n + 1
    BY <2>3 DEF n
  <2>5. due' \subseteq DOMAIN Stimuli[sc]
    BY <1>1 DEF Chronicle
  <2>6. {Fired'[i].val : i \in DOMAIN Fired'} = DOMAIN Stimuli[sc] \ due'
    <3>1. {Fired'[i].val : i \in DOMAIN Fired'} = {Fired[i].val : i \in DOMAIN Fired} \cup {k}
      BY <1>2, <2>3, <2>4 DEF n
    <3>2. k \in DOMAIN Stimuli[sc] /\ {Fired[i].val : i \in DOMAIN Fired} = DOMAIN Stimuli[sc] \ due
      BY <1>1 DEF Chronicle
    <3>. QED
      BY <1>1, <3>1, <3>2
  <2>7. ASSUME NEW i \in DOMAIN Fired', NEW j \in DOMAIN Fired', i < j
        PROVE  Earlier(Fired'[i], Fired'[j])
    <3>1. CASE j \in DOMAIN Fired
      <4>1. i \in DOMAIN Fired
        BY <2>3, <2>7, <3>1
      <4>. QED
        BY <1>1, <2>3, <2>7, <3>1, <4>1 DEF Chronicle
    <3>2. CASE j = n + 1
      <4>1. i \in DOMAIN Fired
        BY <2>3, <2>4, <2>7, <3>2 DEF n
      <4>2. InTime(k, Fired[i])
        BY <1>1, <4>1 DEF Chronicle
      <4>. QED
        BY <1>1, <1>2, <2>3, <3>2, <4>1, <4>2 DEF InTime, Earlier, ev, n
    <3>. QED
      BY <2>4, <3>1, <3>2
  <2>8. ASSUME NEW i \in DOMAIN Fired'
        PROVE  LET e == Stimuli[sc][Fired'[i].val]
               IN  e.at = Fired'[i].t /\ e.do # "unknown" /\ Fired'[i].t <= clock
    <3>1. CASE i \in DOMAIN Fired
      BY <1>1, <2>3, <3>1 DEF Chronicle
    <3>2. CASE i = n + 1
      BY <1>1, <1>2, <1>5, <2>3, <3>2, EndFacts DEF ev, n
    <3>. QED
      BY <2>4, <3>1, <3>2
  <2>9. ASSUME NEW j \in due', NEW i \in DOMAIN Fired' PROVE InTime(j, Fired'[i])
    <3>1. j \in due /\ j # k /\ j \in Nat
      BY <1>1 DEF Typed, TypeOK
    <3>2. CASE i \in DOMAIN Fired
      BY <1>1, <2>3, <3>1, <3>2 DEF Chronicle
    <3>3. CASE i = n + 1
      BY <1>1, <1>2, <2>3, <3>1, <3>3 DEF InTime, IsNext, ev, n
    <3>. QED
      BY <2>4, <3>2, <3>3
  <2>10. Chronicle'
    BY <1>1, <2>1, <2>5, <2>6, <2>7, <2>8, <2>9 DEF Chronicle, InTime
  <2>. QED
    BY <1>1, <2>1, <2>2, <2>10 DEF Told, VerdictsTell
<1>. QED
  BY <1>4, <1>5

(* Verdicts are drawn when nothing is due: all stimuli up to the duration  *)
(* have fired, and the trace has the level of every instant.               *)
LEMMA FinishTold == Typed /\ Told /\ Finish => Told'
<1>. SUFFICES ASSUME Typed, Told, Finish PROVE Told'
  OBVIOUS
<1>1. /\ stage = "running" /\ stage' = "idle" /\ pos' = pos + 1 /\ clock = Duration[sc]
      /\ UNCHANGED <<session, due, trace, level>> /\ Chronicle /\ trace \in Seq(Record)
      /\ \A k \in due : Stimuli[sc][k].at > clock
  BY DEF Finish, Told
<1>2. Fired' = Fired /\ Ran' = sc
  <2>1. pos \in Nat
    BY <1>1, Running DEF Typed
  <2>. QED
    BY <1>1, <2>1 DEF Fired, Ran, sc
<1>3. \A k \in DOMAIN Stimuli[sc] : Stimuli[sc][k].at \in Nat
  <2>1. sc \in Scenario /\ Stimuli[sc] \in Seq(Range(Stimuli[sc]))
    BY <1>1, Running DEF Typed
  <2>2. \A k \in DOMAIN Stimuli[sc] : Stimuli[sc][k] \in Range(Stimuli[sc])
    BY DEF Range
  <2>. QED
    BY <2>1, <2>2, ScenarioAssumption
<1>4. clock \in Nat
  BY EndFacts DEF Typed, TypeOK
<1>5. {Fired[i].val : i \in DOMAIN Fired} =
        {k \in DOMAIN Stimuli[sc] : Stimuli[sc][k].at <= Duration[sc]}
  <2>1. ASSUME NEW k \in DOMAIN Stimuli[sc] PROVE k \in due <=> ~(Stimuli[sc][k].at <= clock)
    <3>1. k \in due => Stimuli[sc][k].at > clock
      BY <1>1
    <3>2. k \notin due => Stimuli[sc][k].at <= clock
      <4>. SUFFICES ASSUME k \notin due PROVE Stimuli[sc][k].at <= clock
        OBVIOUS
      <4>1. PICK i \in DOMAIN Fired : Fired[i].val = k
        BY <1>1, <2>1 DEF Chronicle
      <4>. QED
        BY <1>1, <4>1 DEF Chronicle
    <3>. QED
      BY <1>3, <1>4, <3>1, <3>2
  <2>. QED
    BY <1>1, <2>1 DEF Chronicle
<1>6. ASSUME NEW i \in DOMAIN verdicts',
             Asserts[sc][i].type = "net_level", Asserts[sc][i].name = "probe",
             Asserts[sc][i].at \in 0 .. End
      PROVE  verdicts'[i] = (level[Asserts[sc][i].at] = Asserts[sc][i].equals)
  <2>1. PICK report, states : verdicts' = Verdicts(Asserts[sc], trace, report, states)
    BY DEF Finish
  <2>2. verdicts'[i] = Holds(Asserts[sc][i], trace, report, states)
    BY <1>6, <2>1 DEF Verdicts
  <2>3. Holds(Asserts[sc][i], trace, report, states) =
          (NetLevelAt(trace, "probe", Asserts[sc][i].at) = Asserts[sc][i].equals)
    BY <1>6 DEF Holds
  <2>. QED
    BY <1>6, <2>2, <2>3 DEF Told
<1>7. VerdictsTell'
  BY <1>1, <1>2, <1>5, <1>6 DEF VerdictsTell, Chronicle, Earlier
<1>. QED
  BY <1>1, <1>2, <1>7 DEF Told

LEMMA ToldSteps == Typed /\ Told /\ [Next]_vars => Told'
<1>. SUFFICES ASSUME Typed, Told, [Next]_vars PROVE Told'
  OBVIOUS
<1>1. CASE UNCHANGED vars \/ (FactoryNext /\ NoProcess /\ NoTwin /\ UNCHANGED runVars)
  BY <1>1, ToldStays DEF vars, runVars, NoProcess, NoTwin, processVars
<1>2. CASE \E f \in Input : Edit(f)
  BY <1>2, ToldStays DEF Edit, NoProcess, NoTwin, processVars
<1>3. CASE \E fresh \in BOOLEAN : Begin(fresh)
  <2>1. /\ trace' = <<>> /\ level' = [t \in 0 .. End |-> "none"] /\ stage' = "models"
        /\ verdicts' = <<>>
    BY <1>3 DEF Begin, Goto
  <2>2. trace' \in Seq(Record) /\ \A t \in 0 .. End : NetLevelAt(trace', "probe", t) = level'[t]
    BY <2>1, NothingTold
  <2>. QED
    BY <2>1, <2>2 DEF Told, VerdictsTell
<1>4. CASE LoadModels
  BY <1>4, ToldMoves DEF LoadModels, Goto, NoTwin
<1>5. CASE Raise \/ \E s \in Slug, registers \in BOOLEAN : \E before \in SUBSET (Slug \ {s}) :
                     ImportRaises(s, before, registers)
  BY <1>5, ToldMoves DEF Raise, ImportRaises, NoTwin
<1>6. CASE ReadBoard
  <2>. DEFINE x == Recorded("log", "build", "open")
  <2>1. /\ stage = "board" /\ stage' = "firmware" /\ trace = <<>> /\ verdicts = <<>>
        /\ verdicts' = <<>> /\ level' = level /\ trace' \in {trace, <<x>>}
    BY <1>6 DEF ReadBoard, Goto, Told
  <2>2. Fired = <<>> /\ trace \in Seq(Record)
    BY <2>1, NothingTold DEF Fired
  <2>3. x \in Record /\ <<x>> = Append(trace, x)
    <3>1. clock \in 0 .. End
      BY DEF Typed, TypeOK
    <3>. QED
      BY <2>1, <3>1 DEF Recorded, Record
  <2>4. /\ trace' \in Seq(Record) /\ Fired' = <<>>
        /\ \A t \in 0 .. End : NetLevelAt(trace', "probe", t) = level'[t]
    <3>1. CASE trace' = trace
      BY <2>1, <2>2, <3>1 DEF Told, Fired
    <3>2. CASE trace' = Append(trace, x)
      <4>1. x.kind = "log"
        BY DEF Recorded
      <4>. HIDE DEF x
      <4>. QED
        BY <2>1, <2>2, <2>3, <3>2, <4>1, Recording DEF Told, Fired
    <3>. QED
      BY <2>1, <2>3, <3>1, <3>2
  <2>. QED
    BY <2>1, <2>4 DEF Told, VerdictsTell
<1>7. CASE Start
  <2>1. /\ stage = "firmware" /\ stage' = "running" /\ due' = DOMAIN Stimuli[sc]
        /\ UNCHANGED <<session, pos, clock, trace, level, verdicts>> /\ verdicts = <<>>
        /\ Fired = <<>> /\ Fired' = <<>> /\ sc' = sc
    BY <1>7 DEF Start, Goto, Told, Fired, sc
  <2>2. DOMAIN Fired' = {}
    BY <2>1
  <2>3. Chronicle'
    BY <2>1, <2>2 DEF Chronicle
  <2>. QED
    BY <2>1, <2>3 DEF Told, VerdictsTell
<1>8. CASE \E k \in due : Fire(k)
  BY <1>8, FireTold
<1>9. CASE Board \/ Elapse \/ Finish
  BY <1>9, BoardTold, ElapseTold, FinishTold
<1>. QED
  BY <1>1, <1>2, <1>3, <1>4, <1>5, <1>6, <1>7, <1>8, <1>9 DEF Next

(* Verdicts are about what happened: for any scenarios, stimuli, durations *)
(* and assertions, whatever the board records in between, verdicts are     *)
(* drawn only after each stimulus up to the duration has fired once, at    *)
(* its time and in the kernel's order, and a net_level verdict is about    *)
(* the level that the net had at the end of the instant it names.          *)
THEOREM VerdictsAreTrue == Spec => []VerdictsTell
<1>1. Spec => []Typed
  BY Invariance, RunsAreTyped, PTL DEF Typed
<1>2. Told => VerdictsTell
  BY DEF Told
<1>. QED
  BY <1>1, <1>2, ToldStarts, ToldSteps, PTL DEF Spec
=============================================================================
