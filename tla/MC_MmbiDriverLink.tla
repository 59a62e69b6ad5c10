------------------------- MODULE MC_MmbiDriverLink -------------------------
EXTENDS MmbiDriverLink

MC_RING_BUFFER_SIZE == 3
MC_FrameLen == <<2, 2, 1>>
MC_PKT_SIZE == 2
MC_RX_BUF_SIZE == 8
=============================================================================
