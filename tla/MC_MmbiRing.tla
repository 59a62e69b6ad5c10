---------------------------- MODULE MC_MmbiRing ----------------------------
EXTENDS MmbiRing

MC_RING_BUFFER_SIZE == 3
MC_Bytes == {"a", "b"}
MC_MaxLen == 4
=============================================================================
