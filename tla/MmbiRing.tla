------------------------------ MODULE MmbiRing ------------------------------
(***************************************************************************)
(* One ring of the simulated MMBI driver on its own: any sequence of       *)
(* RingBufferWrite and RingBufferRead calls, each under the driver's       *)
(* spinlock and so atomic.  Checked against ByteFifo, the bounded byte     *)
(* FIFO the channel promises (spec.md 4.1 and the round-trip law of 8).    *)
(***************************************************************************)
EXTENDS MmbiRingBuffer

CONSTANTS
  Bytes,  \* byte values a writer may send
  MaxLen  \* longest request; above RING_BUFFER_SIZE so that capping happens

VARIABLES
  ring,   \* the MMBI_RING_BUFFER
  reply   \* request and result of the last call, as seen by the caller

vars == <<ring, reply>>

NoReply == [req |-> <<>>, n |-> 0, data |-> <<>>]

Requests == UNION {[1 .. m -> Bytes] : m \in 0 .. MaxLen}

Init ==
  /\ ring = EmptyRing
  /\ reply = NoReply

(* A write of Data, as MmbiEvtIoWrite does it with the lock held.          *)
Write(Data) ==
  LET r == RingBufferWrite(ring, Data)
  IN  /\ ring' = r.ring
      /\ reply' = [req |-> Data, n |-> r.BytesWritten, data |-> <<>>]

(* A read of up to Length bytes, as MmbiEvtIoRead does it.                 *)
Read(Length) ==
  LET r == RingBufferRead(ring, Length)
  IN  /\ ring' = r.ring
      /\ reply' = [req |-> <<>>, n |-> Len(r.data), data |-> r.data]

Next ==
  \/ \E d \in Requests : Write(d)
  \/ \E len \in 0 .. MaxLen : Read(len)

Spec == Init /\ [][Next]_vars

-----------------------------------------------------------------------------
TypeOK ==
  /\ ring \in RingType(Bytes)
  /\ reply \in [req: Requests, n: 0 .. MaxLen, data: Requests]

(* The count the driver keeps apart from the cursors agrees with them:     *)
(* the free slots start at ReadIdx + DataAvailable.  Breaks when a wrapped *)
(* write or read advances its cursor by the wrong amount.                  *)
CursorsAgreeWithCount ==
  (ring.ReadIdx + ring.DataAvailable) % RING_BUFFER_SIZE = ring.WriteIdx

(* Round-trip law: every read returns the oldest unread bytes in the order *)
(* written, every write takes exactly min(request, free space) bytes, for  *)
(* any interleaving of writes and reads crossing the wrap-around.          *)
Fifo == INSTANCE ByteFifo WITH
          Capacity <- RING_BUFFER_SIZE,
          queue <- RingContents(ring)

FifoRefinement == Fifo!Spec
=============================================================================
