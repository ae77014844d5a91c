SPECIFICATION Spec
CONSTANTS
  Tests <- MCFullBlock
  VTA_BATCH = 1
  VTA_BLOCK_IN = 2
  VTA_BLOCK_OUT = 4
  VTA_UOP_BUFF_DEPTH = 128
  VTA_INP_BUFF_DEPTH = 8
  VTA_WGT_BUFF_DEPTH = 2
  VTA_ACC_BUFF_DEPTH = 4
INVARIANT WithinBuffers
