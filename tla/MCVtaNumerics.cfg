SPECIFICATION Spec
CONSTANTS
  InpHalf = 4
  ProdHalf = 64
  SumHalf = 256
  AccHalf = 512
  ImmHalf = 32
  ShiftHalf = 8
  BlockIn = 4
  Sums = 2
  Biases <- MCBiases
  Pow2 <- MCPow2
INVARIANTS SumIsExact AccumIsReference OutIsReference IInv
