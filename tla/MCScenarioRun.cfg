SPECIFICATION Spec
CONSTANTS
  m = m
  Slug = {m}
  NoModel = none
  Builtin = builtin
  MaxIters = 2
  MaxJobs = 2
  bench = bench
  field = field
  typo = typo
  Scenario = {bench, field, typo}
  Session <- MCSession
  UsesModels <- MCUsesModels
  Part <- MCPart
  Behavioural <- MCBehavioural
  Stimuli <- MCStimuli
  Duration <- MCDuration
  Asserts <- MCAsserts
  MaxEdits = 2
INVARIANTS
  TypeOK
  OnlyConformant
  LockTells
  VerdictsTell
CHECK_DEADLOCK FALSE
