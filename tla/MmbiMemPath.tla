---------------------------- MODULE MmbiMemPath ----------------------------
(***************************************************************************)
(* The memory-mapped path of the MMBI binding (mmbi.c): a binding set up  *)
(* with mctp_mmbi_init_mem transmits by copying each packet to offset 0   *)
(* of its TX region (mctp_mmbi_tx with no device_handle), and a binding    *)
(* receives with mctp_mmbi_rx(len), which pushes the first len bytes of    *)
(* its RX region to mctp_bus_rx.  One direction is modelled: the "tx"      *)
(* binding's tx_storage is the same memory as the peer "rx" binding's      *)
(* rx_storage (the two regions of the header comment, mmbi.c 13-19).       *)
(*                                                                         *)
(* The MCTP core above the sender is an external collaborator: it hands    *)
(* mctp_mmbi_tx the NPKTS packets of one message in order, one call after  *)
(* the previous returned, and drops a packet the binding rejected.  The    *)
(* binding has no way to tell the peer a packet is there, so the model     *)
(* grants the peer the best it could have: a doorbell carrying the length  *)
(* of every packet whose mctp_mmbi_tx returned 0, in order, which the peer *)
(* answers with one mctp_mmbi_rx each.  The sender's memcpy is one step    *)
(* per byte, since the peer's side runs on its own.                        *)
(***************************************************************************)
EXTENDS Naturals, Sequences

CONSTANTS
  NPKTS,        \* packets of the one message the core sends
  PKT_LEN,      \* PKT_LEN[k]: mctp_pktbuf_size of packet k
  MemSizes,     \* sizes a caller passes to mctp_mmbi_init_mem
  AllocMayFail  \* mctp_pktbuf_alloc in mctp_mmbi_rx may return NULL

ASSUME /\ NPKTS \in Nat \ {0}
       /\ PKT_LEN \in [1 .. NPKTS -> Nat \ {0}]
       /\ MemSizes \subseteq Nat

Bindings == {"tx", "rx"}
Frame(k) == [i \in 1 .. PKT_LEN[k] |-> <<k, i>>]
NoByte == <<0, 0>>
(* The bytes of the region the model follows: the longest packet's worth. *)
REGION == CHOOSE n \in {PKT_LEN[k] : k \in 1 .. NPKTS} :
            \A k \in 1 .. NPKTS : PKT_LEN[k] <= n

VARIABLES
  ready,       \* ready[b]: mctp_mmbi_init_mem(b, ...) has returned
  memorySize,  \* memorySize[b]: mmbi->memory_size
  region,      \* the shared memory: tx_storage of "tx", rx_storage of "rx"
  txPc,        \* "idle" or "copy" (inside mctp_mmbi_tx's memcpy)
  txNext,      \* the packet the core hands to mctp_mmbi_tx next
  copied,      \* bytes of it the memcpy has written so far
  doorbell,    \* lengths of transmitted packets the peer has not read
  sentLog,     \* history: the packets mctp_mmbi_tx returned 0 for
  rxLog        \* history: every unit mctp_mmbi_rx gave mctp_bus_rx

vars == <<ready, memorySize, region, txPc, txNext, copied, doorbell,
          sentLog, rxLog>>

Init ==
  /\ ready = [b \in Bindings |-> FALSE]
  /\ memorySize = [b \in Bindings |-> 0]
  /\ region = [i \in 1 .. REGION |-> NoByte]
  /\ txPc = "idle"
  /\ txNext = 1
  /\ copied = 0
  /\ doorbell = <<>>
  /\ sentLog = <<>>
  /\ rxLog = <<>>

(* mctp_mmbi_init_mem: store the regions and the size, install tx.        *)
MmbiInitMem(b) ==
  /\ ~ready[b]
  /\ \E size \in MemSizes : memorySize' = [memorySize EXCEPT ![b] = size]
  /\ ready' = [ready EXCEPT ![b] = TRUE]
  /\ UNCHANGED <<region, txPc, txNext, copied, doorbell, sentLog, rxLog>>

(* mctp_mmbi_tx called by the core with packet txNext (binding.tx is NULL *)
(* until init_mem, so tx_storage is set whenever it runs): a packet longer *)
(* than memory_size is refused with -EMSGSIZE and dropped by the core;     *)
(* otherwise the memcpy to tx_storage starts.                              *)
MmbiTx ==
  /\ ready["tx"] /\ txPc = "idle" /\ txNext <= NPKTS
  /\ IF PKT_LEN[txNext] > memorySize["tx"]
     THEN /\ txNext' = txNext + 1
          /\ UNCHANGED <<txPc, copied>>
     ELSE /\ txPc' = "copy"
          /\ copied' = 0
          /\ UNCHANGED txNext
  /\ UNCHANGED <<ready, memorySize, region, doorbell, sentLog, rxLog>>

(* memcpy(mmbi->tx_storage, buf, len), one byte per step.                  *)
MemCopy ==
  /\ txPc = "copy" /\ copied < PKT_LEN[txNext]
  /\ region' = [region EXCEPT ![copied + 1] = Frame(txNext)[copied + 1]]
  /\ copied' = copied + 1
  /\ UNCHANGED <<ready, memorySize, txPc, txNext, doorbell, sentLog, rxLog>>

(* mctp_mmbi_tx returns 0; the core goes on with the next packet and the  *)
(* peer is told the length.                                                *)
TxReturn ==
  /\ txPc = "copy" /\ copied = PKT_LEN[txNext]
  /\ txPc' = "idle"
  /\ txNext' = txNext + 1
  /\ sentLog' = Append(sentLog, Frame(txNext))
  /\ doorbell' = Append(doorbell, PKT_LEN[txNext])
  /\ UNCHANGED <<ready, memorySize, region, copied, rxLog>>

(* mctp_mmbi_rx(mmbi, len) on the peer for the oldest doorbell: -EMSGSIZE *)
(* above memory_size, -ENOMEM when mctp_pktbuf_alloc fails, otherwise the  *)
(* first len bytes of rx_storage go to mctp_bus_rx as one packet.          *)
MmbiRx ==
  /\ ready["rx"] /\ doorbell # <<>>
  /\ LET len == Head(doorbell) IN
       \/ /\ len > memorySize["rx"] \/ AllocMayFail
          /\ UNCHANGED rxLog
       \/ /\ len <= memorySize["rx"]
          /\ rxLog' = Append(rxLog, [i \in 1 .. len |-> region[i]])
  /\ doorbell' = Tail(doorbell)
  /\ UNCHANGED <<ready, memorySize, region, txPc, txNext, copied, sentLog>>

(* The message is sent and every doorbell answered.                        *)
Finished ==
  /\ txNext > NPKTS /\ txPc = "idle" /\ doorbell = <<>>
  /\ UNCHANGED vars

Next ==
  \/ \E b \in Bindings : MmbiInitMem(b)
  \/ MmbiTx \/ MemCopy \/ TxReturn \/ MmbiRx
  \/ Finished

Spec == Init /\ [][Next]_vars

Chan == INSTANCE FrameChannel
          WITH Frames <- {Frame(k) : k \in 1 .. NPKTS},
               sent <- sentLog, got <- rxLog

(* The memory path is a channel as spec.md 3-5 describe one: what the      *)
(* peer's mctp_mmbi_rx hands its core is, unit by unit, the packets the    *)
(* sender's mctp_mmbi_tx accepted, whole, in order, each at most once,     *)
(* although the peer reads exactly once per accepted packet.               *)
ImplementsFrameChannel == Chan!Spec
=============================================================================
