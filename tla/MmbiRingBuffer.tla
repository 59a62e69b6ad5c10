--------------------------- MODULE MmbiRingBuffer ---------------------------
(***************************************************************************)
(* The circular byte buffer of the simulated MMBI driver                   *)
(* (src/windows_driver/MmbiDriver.c, MMBI_RING_BUFFER, RingBufferWrite and *)
(* RingBufferRead).  A ring is a record with the fields of the C struct;   *)
(* the two operations are pure operators from a ring and a request to the  *)
(* new ring and the result, so that a single ring (MmbiRing) and the       *)
(* driver's pair of rings (MmbiDriver) use the same definitions.  Both     *)
(* run with the driver's spinlock held, so each is one atomic step.        *)
(***************************************************************************)
EXTENDS Naturals, Sequences

CONSTANTS
  RING_BUFFER_SIZE, \* capacity in bytes (1 MiB in the driver)
  ZeroByte          \* the content of a slot never written (GlobalContext is zeroed)

ASSUME RING_BUFFER_SIZE \in Nat \ {0}

Slots == 0 .. RING_BUFFER_SIZE - 1

Lesser(a, b) == IF a < b THEN a ELSE b

(* The driver's ring buffer is a global, so it starts zero-filled.         *)
EmptyRing ==
  [Buffer        |-> [i \in Slots |-> ZeroByte],
   WriteIdx      |-> 0,
   ReadIdx       |-> 0,
   DataAvailable |-> 0]

RingType(Bytes) ==
  [Buffer: [Slots -> Bytes \cup {ZeroByte}],
   WriteIdx: Slots, ReadIdx: Slots, DataAvailable: 0 .. RING_BUFFER_SIZE]

(* RtlCopyMemory of n bytes of src, from its position from, to buf at at.  *)
CopyIn(buf, at, src, from, n) ==
  [i \in DOMAIN buf |-> IF i \in at .. at + n - 1 THEN src[from + i - at] ELSE buf[i]]

(* RtlCopyMemory of n bytes of buf, starting at slot at, as a sequence.    *)
CopyOut(buf, at, n) == [k \in 1 .. n |-> buf[at + k - 1]]

(* Faulty variants of the two operations, each a plausible slip in the C  *)
(* code; the properties of MC_MmbiRing must tell them from the real ones.  *)
RingBufferWriteWrapIdxSlip(Ring, Data) ==
  \* the wrapped branch sets WriteIdx to the first chunk's length
  LET toWrite    == Lesser(Len(Data), RING_BUFFER_SIZE - Ring.DataAvailable)
      firstChunk == RING_BUFFER_SIZE - Ring.WriteIdx
  IN  IF toWrite = 0 THEN [ring |-> Ring, BytesWritten |-> 0]
      ELSE IF toWrite <= firstChunk
      THEN [ring |-> [Ring EXCEPT
                        !.Buffer = CopyIn(@, Ring.WriteIdx, Data, 1, toWrite),
                        !.WriteIdx = (@ + toWrite) % RING_BUFFER_SIZE,
                        !.DataAvailable = @ + toWrite],
            BytesWritten |-> toWrite]
      ELSE [ring |-> [Ring EXCEPT
                        !.Buffer = CopyIn(CopyIn(@, Ring.WriteIdx, Data, 1, firstChunk),
                                          0, Data, firstChunk + 1, toWrite - firstChunk),
                        !.WriteIdx = firstChunk,
                        !.DataAvailable = @ + toWrite],
            BytesWritten |-> toWrite]

RingBufferWriteUncapped(Ring, Data) ==
  \* the request is not capped at the free space
  LET toWrite    == Len(Data)
      firstChunk == RING_BUFFER_SIZE - Ring.WriteIdx
  IN  IF toWrite = 0 THEN [ring |-> Ring, BytesWritten |-> 0]
      ELSE IF toWrite <= firstChunk
      THEN [ring |-> [Ring EXCEPT
                        !.Buffer = CopyIn(@, Ring.WriteIdx, Data, 1, toWrite),
                        !.WriteIdx = (@ + toWrite) % RING_BUFFER_SIZE,
                        !.DataAvailable = @ + toWrite],
            BytesWritten |-> toWrite]
      ELSE [ring |-> [Ring EXCEPT
                        !.Buffer = CopyIn(CopyIn(@, Ring.WriteIdx, Data, 1, firstChunk),
                                          0, Data, firstChunk + 1, toWrite - firstChunk),
                        !.WriteIdx = toWrite - firstChunk,
                        !.DataAvailable = @ + toWrite],
            BytesWritten |-> toWrite]

RingBufferReadChunksSwapped(Ring, Length) ==
  \* the wrapped branch returns the chunk at slot 0 before the one at ReadIdx
  LET toRead     == Lesser(Length, Ring.DataAvailable)
      firstChunk == RING_BUFFER_SIZE - Ring.ReadIdx
  IN  IF toRead = 0 THEN [ring |-> Ring, data |-> <<>>]
      ELSE IF toRead <= firstChunk
      THEN [ring |-> [Ring EXCEPT
                        !.ReadIdx = (@ + toRead) % RING_BUFFER_SIZE,
                        !.DataAvailable = @ - toRead],
            data |-> CopyOut(Ring.Buffer, Ring.ReadIdx, toRead)]
      ELSE [ring |-> [Ring EXCEPT
                        !.ReadIdx = toRead - firstChunk,
                        !.DataAvailable = @ - toRead],
            data |-> CopyOut(Ring.Buffer, 0, toRead - firstChunk)
                       \o CopyOut(Ring.Buffer, Ring.ReadIdx, firstChunk)]

(* RingBufferWrite: cap the request at the free space, copy it in one or   *)
(* two chunks, advance WriteIdx and DataAvailable.                         *)
RingBufferWrite(Ring, Data) ==
  LET spaceFree   == RING_BUFFER_SIZE - Ring.DataAvailable
      toWrite     == Lesser(Len(Data), spaceFree)
      firstChunk  == RING_BUFFER_SIZE - Ring.WriteIdx
      secondChunk == toWrite - firstChunk
  IN  IF toWrite = 0
      THEN [ring |-> Ring, BytesWritten |-> 0]
      ELSE IF toWrite <= firstChunk
      THEN [ring |-> [Ring EXCEPT
                        !.Buffer = CopyIn(@, Ring.WriteIdx, Data, 1, toWrite),
                        !.WriteIdx = (@ + toWrite) % RING_BUFFER_SIZE,
                        !.DataAvailable = @ + toWrite],
            BytesWritten |-> toWrite]
      ELSE [ring |-> [Ring EXCEPT
                        !.Buffer = CopyIn(CopyIn(@, Ring.WriteIdx, Data, 1, firstChunk),
                                          0, Data, firstChunk + 1, secondChunk),
                        !.WriteIdx = secondChunk,
                        !.DataAvailable = @ + toWrite],
            BytesWritten |-> toWrite]

(* RingBufferRead: cap the request at DataAvailable, copy out in one or    *)
(* two chunks, advance ReadIdx and decrease DataAvailable.                 *)
RingBufferRead(Ring, Length) ==
  LET toRead      == Lesser(Length, Ring.DataAvailable)
      firstChunk  == RING_BUFFER_SIZE - Ring.ReadIdx
      secondChunk == toRead - firstChunk
  IN  IF toRead = 0
      THEN [ring |-> Ring, data |-> <<>>]
      ELSE IF toRead <= firstChunk
      THEN [ring |-> [Ring EXCEPT
                        !.ReadIdx = (@ + toRead) % RING_BUFFER_SIZE,
                        !.DataAvailable = @ - toRead],
            data |-> CopyOut(Ring.Buffer, Ring.ReadIdx, toRead)]
      ELSE [ring |-> [Ring EXCEPT
                        !.ReadIdx = secondChunk,
                        !.DataAvailable = @ - toRead],
            data |-> CopyOut(Ring.Buffer, Ring.ReadIdx, firstChunk)
                       \o CopyOut(Ring.Buffer, 0, secondChunk)]

(* The bytes queued in a ring, oldest first: the refinement mapping to a   *)
(* FIFO queue.                                                             *)
RingContents(Ring) ==
  [k \in 1 .. Ring.DataAvailable |->
     Ring.Buffer[(Ring.ReadIdx + k - 1) % RING_BUFFER_SIZE]]
=============================================================================
