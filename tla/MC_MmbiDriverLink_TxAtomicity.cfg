CONSTANTS
  RING_BUFFER_SIZE <- MC_RING_BUFFER_SIZE
  FrameLen <- MC_FrameLen
  PKT_SIZE <- MC_PKT_SIZE
  RX_BUF_SIZE <- MC_RX_BUF_SIZE
  AllocMayFail = TRUE
  ZeroByte = ZeroByte

SPECIFICATION Spec
INVARIANT TxAtomicity
