---------------------------- MODULE ModelFactory ----------------------------
(***************************************************************************)
(* twin/factory/pipeline.py: a datasheet becomes a specification, a draft  *)
(* of model and tests, revisions of it until its tests pass, and then      *)
(* three files in a model directory.  What the LLM answers and what pytest *)
(* says of it are choices; a draft is named by its job and iteration.  A   *)
(* write of one file is atomic; a crash may fall between any two steps.    *)
(***************************************************************************)
EXTENDS Integers, FiniteSets, Sequences

CONSTANTS
  Slug,      (* names of models: BehaviorSpec.slug *)
  MaxIters,  (* max_iters of ModelFactory.run *)
  MaxJobs    (* bound: runs of the factory *)

ASSUME FactoryAssumption == Slug # {} /\ MaxIters \in Nat \ {0} /\ MaxJobs \in Nat

Draft == (1 .. MaxJobs) \X (1 .. MaxIters)
None == <<0, 0>>   (* no file *)
File == Draft \cup {None}

VARIABLES
  disk,    (* [slug -> its three files]: py and test hold drafts, spec a job *)
  passed,  (* the drafts whose conformance tests have passed *)
  jobs,    (* factory runs so far *)
  job      (* the one that runs: its stage, slug and iteration *)

factoryVars == <<disk, passed, jobs, job>>
Idle == [stage |-> "idle", slug |-> CHOOSE s \in Slug : TRUE, i |-> 1]
Current == <<jobs, job.i>>
-----------------------------------------------------------------------------
(* Seeded faults, used only by the mutation runs of PROJECT.json. *)
InstallLast(ok) == IF ok \/ job.i = MaxIters THEN "py" ELSE "revise"
ReviseForever(ok) == IF ok THEN "py" ELSE "revise"
-----------------------------------------------------------------------------
FactoryInit ==
  /\ disk = [s \in Slug |-> [py |-> None, test |-> None, spec |-> 0]]
  /\ passed = {} /\ jobs = 0 /\ job = Idle

(* extract and draft.  Replies that do not parse (parse_json_reply) or     *)
(* validate (BehaviorSpec.validate) raise: Abort.                          *)
Extract(s) ==
  /\ job.stage = "idle" /\ jobs < MaxJobs
  /\ jobs' = jobs + 1
  /\ job' = [stage |-> "test", slug |-> s, i |-> 1]
  /\ UNCHANGED <<disk, passed>>

AfterTests(ok) ==
  IF ok THEN "py" ELSE IF job.i < MaxIters THEN "revise" ELSE "idle"

(* pytest on copies of the two files in a directory of their own. *)
Conformance(ok) ==
  /\ job.stage = "test"
  /\ passed' = IF ok THEN passed \cup {Current} ELSE passed
  /\ job' = [job EXCEPT !.stage = AfterTests(ok)]
  /\ UNCHANGED <<disk, jobs>>

Revise ==
  /\ job.stage = "revise"
  /\ job' = [job EXCEPT !.stage = "test", !.i = @ + 1]
  /\ UNCHANGED <<disk, passed, jobs>>

(* install: the three writes in their order. *)
WriteModel ==
  /\ job.stage = "py"
  /\ disk' = [disk EXCEPT ![job.slug].py = Current]
  /\ job' = [job EXCEPT !.stage = "tests"]
  /\ UNCHANGED <<passed, jobs>>

WriteTest ==
  /\ job.stage = "tests"
  /\ disk' = [disk EXCEPT ![job.slug].test = Current]
  /\ job' = [job EXCEPT !.stage = "spec"]
  /\ UNCHANGED <<passed, jobs>>

WriteSpec ==
  /\ job.stage = "spec"
  /\ disk' = [disk EXCEPT ![job.slug].spec = jobs]
  /\ job' = [job EXCEPT !.stage = "idle"]
  /\ UNCHANGED <<passed, jobs>>

(* A bad reply, pytest's timeout, a full disk, a killed process. *)
Abort ==
  /\ job.stage # "idle"
  /\ job' = [job EXCEPT !.stage = "idle"]
  /\ UNCHANGED <<disk, passed, jobs>>

FactoryNext ==
  \/ \E s \in Slug : Extract(s)
  \/ \E ok \in BOOLEAN : Conformance(ok)
  \/ Revise
  \/ WriteModel
  \/ WriteTest
  \/ WriteSpec
  \/ Abort

FactoryTypeOK ==
  /\ disk \in [Slug -> [py : File, test : File, spec : 0 .. MaxJobs]]
  /\ passed \subseteq Draft
  /\ jobs \in 0 .. MaxJobs
  /\ job \in [stage : {"idle", "test", "revise", "py", "tests", "spec"},
              slug : Slug, i : 1 .. MaxIters]
=============================================================================
