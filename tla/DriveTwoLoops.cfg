SPECIFICATION Spec
CONSTANTS
  tool = tool
  again = again
  cli = cli
  cli2 = cli2
  run = run
  other = other
  third = third
  Launch = {tool, cli, cli2}
  Run = {run, other, third}
  RunOf <- RunsApart
  Tool = {tool}
  Detached = {}
  SameRoot = FALSE
  Results = {"completed"}
  Asked = {}
  MaxDeaths = 0
INVARIANT
  OneLoopPerPlan
CHECK_DEADLOCK FALSE
