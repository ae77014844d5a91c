SPECIFICATION ToolsSpec
CONSTANTS
  MaxCalls = 2
  MCOps = {"gemm"}
  Comps = {TRUE, FALSE}
  Verdicts = {TRUE, FALSE}
  Calls <- MCCalls
INVARIANT EachTestHasItsLog
