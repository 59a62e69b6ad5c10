--------------------------- MODULE MC_MmbiPipeLink ---------------------------
(* Instances of the pipe link for TLC.  A packet of 2 bytes stands for a   *)
(* TEST_MTU (1024-byte) packet of test_mmbi_full_duplex.c; a pipe of 2     *)
(* bytes holds one such packet.                                            *)
EXTENDS MmbiPipeLink

(* Both ends write 2-byte packets with pkt_size 2, as both use TEST_MTU.   *)
MC_PKT_LEN == [e \in Ends |-> 2]
MC_PKT_SIZE == [e \in Ends |-> 2]
=============================================================================
