\* Both lock placements, the full-duplex test's and mctp_mmbi_send's, with
\* one-packet pipes so that WriteFile blocks, messages of 3 packets, and the
\* handles synchronous, as the tests and mctp_mmbi_init_device open them.
CONSTANTS
  NPKTS = 3
  PKT_LEN <- MC_PKT_LEN
  PKT_SIZE <- MC_PKT_SIZE
  PIPE_CAP = 2
  RELAY_BUF = 4
  Harnesses = {"full_duplex", "context"}
  SerialHandleIo = TRUE
SPECIFICATION Spec
INVARIANT TypeOK
PROPERTY PipeImplementsFrameChannel
