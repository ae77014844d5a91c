SPECIFICATION Spec
CONSTANTS
  Tests <- MCTests
  VTA_BATCH = 1
  VTA_BLOCK_IN = 2
  VTA_BLOCK_OUT = 4
  VTA_UOP_BUFF_DEPTH = 128
  VTA_INP_BUFF_DEPTH = 64
  VTA_WGT_BUFF_DEPTH = 16
  VTA_ACC_BUFF_DEPTH = 16
INVARIANTS OutputIsReference WithinBuffers TransfersItsBlock QueuesBalance BufferExact AdjacentInsnsDiffer
