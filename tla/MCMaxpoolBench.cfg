SPECIFICATION Spec
CONSTANTS
  MaxLen = 3
  Short = 60
  Long = 150
  FirstPoll = 1000
  PollPeriod = 100
  Files <- MCFiles
INVARIANTS ExecutedInOrder JudgedComplete IInv
PROPERTY Terminates
