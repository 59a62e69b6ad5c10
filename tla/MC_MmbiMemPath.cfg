CONSTANTS
  NPKTS = 2
  PKT_LEN <- MC_PKT_LEN
  MemSizes = {2}
  AllocMayFail = FALSE

SPECIFICATION Spec
PROPERTY ImplementsFrameChannel
