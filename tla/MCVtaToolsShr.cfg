SPECIFICATION ToolsSpec
CONSTANTS
  MaxCalls = 2
  MCOps = {"shr"}
  Comps = {TRUE}
  Verdicts = {TRUE}
  Calls <- MCCalls
INVARIANT EachTestHasItsLog
