------------------------------ MODULE ByteFifo ------------------------------
(***************************************************************************)
(* What one direction of the MMBI channel promises (spec.md 4.1, 5): a     *)
(* bounded FIFO of bytes.  A write appends as much of the request as fits *)
(* and reports how much that was; a read removes up to the requested      *)
(* number of bytes from the front and returns them.  Neither ever blocks   *)
(* or fails.  reply records the request and the result of the last        *)
(* operation so that a refinement fixes the request as well.              *)
(***************************************************************************)
EXTENDS Naturals, Sequences

CONSTANTS Capacity, Bytes, MaxLen

VARIABLES queue, reply

NoReply == [req |-> <<>>, n |-> 0, data |-> <<>>]

Requests == UNION {[1 .. m -> Bytes] : m \in 0 .. MaxLen}

Init ==
  /\ queue = <<>>
  /\ reply = NoReply

Put(d) ==
  LET n == IF Len(d) < Capacity - Len(queue) THEN Len(d) ELSE Capacity - Len(queue)
  IN  /\ queue' = queue \o SubSeq(d, 1, n)
      /\ reply' = [req |-> d, n |-> n, data |-> <<>>]

Get(len) ==
  LET n == IF len < Len(queue) THEN len ELSE Len(queue)
  IN  /\ queue' = SubSeq(queue, n + 1, Len(queue))
      /\ reply' = [req |-> <<>>, n |-> n, data |-> SubSeq(queue, 1, n)]

Next ==
  \/ \E d \in Requests : Put(d)
  \/ \E len \in 0 .. MaxLen : Get(len)

Spec == Init /\ [][Next]_<<queue, reply>>
=============================================================================
