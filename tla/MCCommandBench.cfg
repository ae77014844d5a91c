SPECIFICATION Spec
CONSTANTS
  MaxLen = 3
  Cases <- MCCases
INVARIANTS ExecutedInOrder VerdictIsDeterministic IInv
PROPERTIES Terminates
