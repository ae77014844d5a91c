SPECIFICATION Spec
CONSTANTS
  Beat = 2
  Size = 4
  MaxLen = 3
  Cases <- MCCases
INVARIANTS SameProgram RowsAreReads NoFalseFailure VerdictIsExact
