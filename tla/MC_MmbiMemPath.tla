--------------------------- MODULE MC_MmbiMemPath ---------------------------
(* A two-packet message, the last packet shorter, as libmctp splits one   *)
(* longer than the MTU; test_mmbi.c's MMBI_MEM_SIZE holds either packet.   *)
EXTENDS MmbiMemPath

MC_PKT_LEN == <<2, 1>>
=============================================================================
