--------------------------- MODULE MmbiDriverLink ---------------------------
(***************************************************************************)
(* Two MCTP endpoints, the host (DeviceID 0, \\.\MMBI0) and the BMC        *)
(* (DeviceID 1, \\.\MMBI1), each with an MMBI binding opened on the        *)
(* simulated driver, exchanging packets through the driver's two rings.    *)
(*                                                                         *)
(*  - the driver (src/windows_driver/MmbiDriver.c): MmbiEvtIoWrite and     *)
(*    MmbiEvtIoRead pick the ring by DeviceID and run RingBufferWrite or   *)
(*    RingBufferRead under the one global spinlock, so each is atomic;     *)
(*  - the binding (src/src/mmbi.c): mctp_mmbi_tx sends one packet with     *)
(*    WriteFile, retrying up to 3 times; mctp_mmbi_poll reads at most      *)
(*    pkt_size + 4 bytes with one ReadFile and hands them to mctp_bus_rx.  *)
(*                                                                         *)
(* The MCTP core above the binding is not part of this repository: it is   *)
(* modelled only as the producer of a fixed list of packets per endpoint   *)
(* (spec.md 6, "the stack hands me one packet to transmit") and the        *)
(* consumer of what mctp_bus_rx is given.  A byte is a triple <<endpoint,  *)
(* packet number, position>>, so a reader can tell which packet each       *)
(* byte it receives came from.                                             *)
(***************************************************************************)
EXTENDS MmbiRingBuffer, SequencesExt

CONSTANTS
  FrameLen,     \* FrameLen[k]: length of the k-th packet each endpoint sends
  PKT_SIZE,     \* binding.pkt_size
  RX_BUF_SIZE,  \* sizeof(rx_buf) in mctp_mmbi_poll
  AllocMayFail  \* whether mctp_pktbuf_alloc may return NULL

ASSUME \A k \in DOMAIN FrameLen : FrameLen[k] \in 1 .. PKT_SIZE

Ends == {"host", "bmc"}
Dirs == {"HostToBmc", "BmcToHost"}
Peer(e) == IF e = "host" THEN "bmc" ELSE "host"
DeviceID(e) == IF e = "host" THEN 0 ELSE 1
NumFrames == Len(FrameLen)

(* Device 0 writes HostToBmc and reads BmcToHost; device 1 the inverse.    *)
WriteDir(e) == IF DeviceID(e) = 0 THEN "HostToBmc" ELSE "BmcToHost"
ReadDir(e)  == IF DeviceID(e) = 0 THEN "BmcToHost" ELSE "HostToBmc"

Frame(e, k) == [i \in 1 .. FrameLen[k] |-> <<e, k, i>>]
ByteVals == {<<e, k, i>> : e \in Ends, k \in DOMAIN FrameLen, i \in 1 .. PKT_SIZE}

TX_RETRIES == 3
MaxToRead == Lesser(PKT_SIZE + 4, RX_BUF_SIZE)

VARIABLES
  rings,      \* GlobalContext.HostToBmc and .BmcToHost
  nextFrame,  \* per endpoint: number of the next packet the core hands down
  txPc,       \* per endpoint: "idle" or "writing" (inside mctp_mmbi_tx)
  txFrame,    \* per endpoint: packet being transmitted
  retries,    \* per endpoint: the retries counter of mctp_mmbi_tx
  txResult,   \* per endpoint: what the last mctp_mmbi_tx returned
  stream,     \* history: per ring, every byte the driver accepted, in order
  rxLog       \* history: per endpoint, every unit ReadFile returned to poll,
              \* and whether it reached mctp_bus_rx

vars == <<rings, nextFrame, txPc, txFrame, retries, txResult, stream, rxLog>>

Init ==
  /\ rings = [d \in Dirs |-> EmptyRing]
  /\ nextFrame = [e \in Ends |-> 1]
  /\ txPc = [e \in Ends |-> "idle"]
  /\ txFrame = [e \in Ends |-> 0]
  /\ retries = [e \in Ends |-> 0]
  /\ txResult = [e \in Ends |-> "none"]
  /\ stream = [d \in Dirs |-> <<>>]
  /\ rxLog = [e \in Ends |-> <<>>]

-----------------------------------------------------------------------------
(* The core hands the binding its next packet: mctp_mmbi_tx is entered     *)
(* with retries = 3.                                                       *)
BusTx(e) ==
  /\ txPc[e] = "idle"
  /\ nextFrame[e] <= NumFrames
  /\ txPc' = [txPc EXCEPT ![e] = "writing"]
  /\ txFrame' = [txFrame EXCEPT ![e] = nextFrame[e]]
  /\ nextFrame' = [nextFrame EXCEPT ![e] = @ + 1]
  /\ retries' = [retries EXCEPT ![e] = TX_RETRIES]
  /\ UNCHANGED <<rings, txResult, stream, rxLog>>

(* A faulty variant of the loop test: one pass too many, as with          *)
(* while (retries-- >= 0).                                                 *)
MmbiTxAttemptExtraPass(e) ==
  LET d    == WriteDir(e)
      data == Frame(e, txFrame[e])
      w    == RingBufferWrite(rings[d], data)
      ok   == w.BytesWritten = Len(data)
  IN  /\ txPc[e] = "writing"
      /\ retries[e] >= 0
      /\ rings' = [rings EXCEPT ![d] = w.ring]
      /\ stream' = [stream EXCEPT ![d] = @ \o SubSeq(data, 1, w.BytesWritten)]
      /\ retries' = [retries EXCEPT ![e] = @ - 1]
      /\ IF ok \/ retries[e] - 1 < 0
           THEN /\ txPc' = [txPc EXCEPT ![e] = "idle"]
                /\ txResult' = [txResult EXCEPT ![e] = IF ok THEN "ok" ELSE "EIO"]
           ELSE UNCHANGED <<txPc, txResult>>
      /\ UNCHANGED <<nextFrame, txFrame, rxLog>>

(* One pass of the loop of mctp_mmbi_tx: while (retries--) WriteFile.  The *)
(* driver's MmbiEvtIoWrite writes what fits; it completes with             *)
(* STATUS_DEVICE_BUSY (WriteFile fails) when nothing fits, and with        *)
(* success and the count written otherwise, a short count included.  The  *)
(* loop ends when a write was whole; after the third failed pass the call  *)
(* returns -EIO.  Other threads run during the Sleep(1) between passes.    *)
MmbiTxAttempt(e) ==
  LET d    == WriteDir(e)
      data == Frame(e, txFrame[e])
      w    == RingBufferWrite(rings[d], data)
      res  == ~(w.BytesWritten = 0 /\ Len(data) > 0)
      ok   == res /\ w.BytesWritten = Len(data)
  IN  /\ txPc[e] = "writing"
      /\ retries[e] > 0
      /\ rings' = [rings EXCEPT ![d] = w.ring]
      /\ stream' = [stream EXCEPT ![d] = @ \o SubSeq(data, 1, w.BytesWritten)]
      /\ retries' = [retries EXCEPT ![e] = @ - 1]
      /\ IF ok \/ retries[e] - 1 = 0
           THEN /\ txPc' = [txPc EXCEPT ![e] = "idle"]
                /\ txResult' = [txResult EXCEPT ![e] = IF ok THEN "ok" ELSE "EIO"]
           ELSE UNCHANGED <<txPc, txResult>>
      /\ UNCHANGED <<nextFrame, txFrame, rxLog>>

(* Faulty variants of mctp_mmbi_poll.  The first reads the ring the        *)
(* endpoint itself writes (the DeviceID test of MmbiEvtIoRead inverted);   *)
(* the second treats the failed PeekNamedPipe as "nothing available", the  *)
(* obvious alternative to the bytesAvail = 1 fallback.                     *)
MmbiPollWrongRing(e) ==
  LET r == RingBufferRead(rings[WriteDir(e)], MaxToRead)
  IN  /\ Len(r.data) > 0
      /\ rings' = [rings EXCEPT ![WriteDir(e)] = r.ring]
      /\ rxLog' = [rxLog EXCEPT ![e] = Append(@, [data |-> r.data, ok |-> TRUE])]
      /\ UNCHANGED <<nextFrame, txPc, txFrame, retries, txResult, stream>>

MmbiPollPeekFailNoData(e) == UNCHANGED vars

(* mctp_mmbi_poll on the driver.  The handle is not a pipe, so             *)
(* PeekNamedPipe fails and bytesAvail is forced to 1: ReadFile is always   *)
(* issued, for MaxToRead bytes.  MmbiEvtIoRead returns what the ring holds *)
(* up to that.  A non-empty read is copied into a fresh pktbuf and given   *)
(* to mctp_bus_rx; if the pktbuf allocation fails the bytes are dropped    *)
(* and poll returns -ENOMEM.  An empty read changes nothing.               *)
MmbiPoll(e) ==
  LET d == ReadDir(e)
      r == RingBufferRead(rings[d], MaxToRead)
  IN  /\ Len(r.data) > 0
      /\ rings' = [rings EXCEPT ![d] = r.ring]
      /\ \E allocated \in IF AllocMayFail THEN BOOLEAN ELSE {TRUE} :
            rxLog' = [rxLog EXCEPT ![e] = Append(@, [data |-> r.data, ok |-> allocated])]
      /\ UNCHANGED <<nextFrame, txPc, txFrame, retries, txResult, stream>>

(* The same call when the ring is empty: bytesRead is 0, poll returns 0.   *)
MmbiPollEmpty(e) ==
  /\ rings[ReadDir(e)].DataAvailable = 0
  /\ UNCHANGED vars

Next ==
  \E e \in Ends :
    \/ BusTx(e)
    \/ MmbiTxAttempt(e)
    \/ MmbiPoll(e)
    \/ MmbiPollEmpty(e)

(* Each endpoint runs a poll loop (bmc_transport.c, test_mmbi_full_duplex's *)
(* poll_thread) and the transmit path never stops in the middle of a call; *)
(* the core itself is not obliged to send anything.                        *)
Fairness ==
  \A e \in Ends : WF_vars(MmbiPoll(e)) /\ WF_vars(MmbiTxAttempt(e))

Spec == Init /\ [][Next]_vars /\ Fairness

-----------------------------------------------------------------------------
TypeOK ==
  /\ rings \in [Dirs -> RingType(ByteVals)]
  /\ nextFrame \in [Ends -> 1 .. NumFrames + 1]
  /\ txPc \in [Ends -> {"idle", "writing"}]
  /\ txFrame \in [Ends -> 0 .. NumFrames]
  /\ retries \in [Ends -> 0 .. TX_RETRIES]
  /\ txResult \in [Ends -> {"none", "ok", "EIO"}]
  /\ stream \in [Dirs -> Seq(ByteVals)]
  /\ rxLog \in [Ends -> Seq([data: Seq(ByteVals), ok: BOOLEAN])]

(* The bytes ReadFile handed to an endpoint's poll, followed by what is    *)
(* still queued in the ring it reads, are exactly the bytes the driver     *)
(* accepted from the peer's writes, in order: the driver neither loses,    *)
(* duplicates nor reorders bytes, whatever the interleaving of the two     *)
(* endpoints' transmits and polls on the shared lock, and each endpoint    *)
(* reads the ring its peer writes.                                         *)
ByteStreamIntegrity ==
  \A e \in Ends :
    FlattenSeq([j \in DOMAIN rxLog[e] |-> rxLog[e][j].data])
      \o RingContents(rings[ReadDir(e)])
    = stream[ReadDir(e)]

(* With both poll loops running, neither ring keeps data for ever: every   *)
(* byte the driver accepts is eventually read out by the peer's            *)
(* mctp_mmbi_poll, which relies on ReadFile being issued although the      *)
(* driver handle cannot be peeked.                                         *)
RingsDrain ==
  \A d \in Dirs : []<>(rings[d].DataAvailable = 0)

(* Frame atomicity on receive (spec.md 4.3; the comment above the          *)
(* ReadFile in mctp_mmbi_poll): every unit handed to mctp_bus_rx is        *)
(* exactly one packet the peer transmitted.                                *)
FrameAtomicity ==
  \A e \in Ends : \A j \in DOMAIN rxLog[e] :
    rxLog[e][j].ok => \E k \in DOMAIN FrameLen : rxLog[e][j].data = Frame(Peer(e), k)

(* s consists of whole packets of endpoint e, each at most once and in     *)
(* increasing order, starting from packet k.                               *)
RECURSIVE WholeFramesFrom(_, _, _)
WholeFramesFrom(s, e, k) ==
  \/ s = <<>>
  \/ \E j \in k .. NumFrames :
       /\ IsPrefix(Frame(e, j), s)
       /\ WholeFramesFrom(SubSeq(s, FrameLen[j] + 1, Len(s)), e, j + 1)

(* Frame atomicity on transmit (spec.md 4.3, "frames must arrive           *)
(* atomically", "no partial-frame-accepted success state"): the bytes the  *)
(* driver accepted from an endpoint are whole packets, each once, in the   *)
(* order the core handed them down.                                        *)
TxAtomicity ==
  \A e \in Ends : WholeFramesFrom(stream[WriteDir(e)], e, 1)
=============================================================================
