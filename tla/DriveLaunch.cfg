SPECIFICATION Spec
CONSTANTS
  tool = tool
  again = again
  cli = cli
  cli2 = cli2
  run = run
  other = other
  third = third
  Launch = {tool, again, cli}
  Run = {run, other}
  RunOf <- RunShared
  Tool = {tool, again}
  Detached = {tool}
  SameRoot = TRUE
  Results = {"blocked"}
  Asked = {run}
  MaxDeaths = 1
INVARIANTS
  TypeOK
  OneLoopPerPlan
  ResultStands
  EndedIsTold
  PlanFreed
CHECK_DEADLOCK FALSE
