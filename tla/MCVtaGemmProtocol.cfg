SPECIFICATION Spec
CONSTANTS
  Calls <- MCCalls
INVARIANTS GemmReadsItsBlocks StoreReadsItsTile FinishIsLast NoDeadlock IInv
