\* Both endpoints send a 5-packet message through one-packet pipes under mctp_mmbi_send.
CONSTANTS
  NPKTS = 5
  PKT_LEN <- MC_PKT_LEN
  PKT_SIZE <- MC_PKT_SIZE
  PIPE_CAP = 2
  RELAY_BUF = 4
  Harnesses = {"context"}
  SerialHandleIo = FALSE
SPECIFICATION Spec
CHECK_DEADLOCK FALSE
PROPERTY EveryPacketDelivered
