SPECIFICATION ToolsSpec
CONSTANTS
  MaxCalls = 3
  MCOps = {"add", "shr", "gemm"}
  Comps = {TRUE}
  Verdicts = {TRUE, FALSE}
  Calls <- MCCalls
INVARIANTS NothingLost FragmentsOfOneTest
PROPERTY Completes
