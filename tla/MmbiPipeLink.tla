---------------------------- MODULE MmbiPipeLink ----------------------------
(***************************************************************************)
(* The named-pipe backend: two endpoints, each an MMBI binding opened on  *)
(* the client end of its own message-mode pipe (\\.\pipe\..MMBI0 for the   *)
(* host, ..MMBI1 for the BMC), and the mock driver of the tests, whose two *)
(* relay threads (relay_worker) copy every message read from one pipe's    *)
(* server end to the other pipe's server end.                              *)
(*                                                                         *)
(* Per endpoint there is a sending thread (mctp_message_tx under a lock,   *)
(* so one mctp_mmbi_tx WriteFile per packet) and a poll thread            *)
(* (mctp_mmbi_poll in a loop).  harness, one of Harnesses fixed at Init, *)
(* selects who holds which lock:                                           *)
(*  - "full_duplex" (test_mmbi_full_duplex.c): the test's mctp_lock is     *)
(*    held around mctp_message_tx and around the whole mctp_mmbi_poll;    *)
(*  - "context" (mctp_mmbi_send / mctp_mmbi_context_poll, the use spec.md  *)
(*    5 expects): mmbi->lock is held around mctp_message_tx, and poll      *)
(*    takes it only after its ReadFile, around mctp_bus_rx.                *)
(*                                                                         *)
(* A pipe direction holds whole messages up to PIPE_CAP bytes; WriteFile   *)
(* on a full pipe blocks (PIPE_WAIT).  ReadFile of a message longer than  *)
(* the buffer fails with ERROR_MORE_DATA after consuming the buffer's      *)
(* worth; the rest stays queued as the head message.  With SerialHandleIo, *)
(* blocking calls on one handle are serialised, as Windows does for a      *)
(* handle opened without FILE_FLAG_OVERLAPPED (all handles here are).      *)
(***************************************************************************)
EXTENDS Naturals, Sequences, SequencesExt

CONSTANTS
  NPKTS,          \* packets in the one message each endpoint sends
  PKT_LEN,        \* PKT_LEN[e]: length of each packet endpoint e writes
  PKT_SIZE,       \* PKT_SIZE[e]: binding.pkt_size of endpoint e
  PIPE_CAP,       \* bytes one direction of a pipe buffers
  RELAY_BUF,      \* sizeof(buf) in the relay thread
  Harnesses,      \* a subset of {"full_duplex", "context"}, see above
  SerialHandleIo  \* blocking calls on one synchronous handle are serialised

Ends == {"host", "bmc"}
Peer(e) == IF e = "host" THEN "bmc" ELSE "host"

ASSUME /\ Harnesses \subseteq {"full_duplex", "context"}
       /\ \A e \in Ends : PKT_LEN[e] \in 1 .. PKT_SIZE[e]

Frame(e, k) == [i \in 1 .. PKT_LEN[e] |-> <<e, k, i>>]
Packets(e) == [k \in 1 .. NPKTS |-> Frame(e, k)]
ByteVals == UNION {{<<e, k, i>> : k \in 1 .. NPKTS, i \in 1 .. PKT_LEN[e]} : e \in Ends}

(* mctp_mmbi_poll: max_to_read = pkt_size + 4, capped at sizeof(rx_buf).  *)
RX_BUF_SIZE == 65536 + 10
MaxToRead(e) == IF PKT_SIZE[e] + 4 > RX_BUF_SIZE THEN RX_BUF_SIZE
                ELSE PKT_SIZE[e] + 4

Used(q) == FoldLeft(LAMBDA acc, m : acc + Len(m), 0, q)
(* A faulty variant of the quota: the message being written not counted. *)
RoomIgnoringLength(q, m) == Used(q) <= PIPE_CAP
Room(q, m) == Used(q) + Len(m) <= PIPE_CAP

(* One ReadFile of at most n bytes from the head message of a message-mode *)
(* pipe: the whole message, or n bytes and ERROR_MORE_DATA.                *)
ReadMsg(q, n) ==
  LET m == Head(q) IN
  IF Len(m) <= n
  THEN [ok |-> TRUE, data |-> m, rest |-> Tail(q)]
  ELSE [ok |-> FALSE, data |-> SubSeq(m, 1, n),
        rest |-> <<SubSeq(m, n + 1, Len(m))>> \o Tail(q)]

Handles == {"client", "server"} \X Ends

VARIABLES
  up,         \* up[e]: the client-to-server direction of e's pipe
  down,       \* down[e]: the server-to-client direction of e's pipe
  lockOwner,  \* lockOwner[e]: "none", "tx" or "poll" (mctp_lock / mmbi->lock)
  txPc,       \* txPc[e]: "lock", "write", "writing", "done"
  txNext,     \* txNext[e]: the packet mctp_message_tx hands down next
  pollPc,     \* pollPc[e]: the poll thread's place in one poll
  pollUnit,   \* pollUnit[e]: what its ReadFile returned
  relayPc,    \* relayPc[e]: the relay from e's pipe to the peer's pipe
  relayMsg,   \* relayMsg[e]: the relay's buf
  hBusy,      \* hBusy[h]: a blocking call is in progress on handle h
  delivered,  \* history: delivered[e], every unit given to mctp_bus_rx
  harness     \* which code holds the lock, fixed for the whole behaviour

vars == <<up, down, lockOwner, txPc, txNext, pollPc, pollUnit, relayPc,
          relayMsg, hBusy, delivered, harness>>

Init ==
  /\ up = [e \in Ends |-> <<>>]
  /\ down = [e \in Ends |-> <<>>]
  /\ lockOwner = [e \in Ends |-> "none"]
  /\ txPc = [e \in Ends |-> "lock"]
  /\ txNext = [e \in Ends |-> 1]
  /\ pollPc = [e \in Ends |-> "idle"]
  /\ pollUnit = [e \in Ends |-> <<>>]
  /\ relayPc = [e \in Ends |-> "read"]
  /\ relayMsg = [e \in Ends |-> <<>>]
  /\ hBusy = [h \in Handles |-> FALSE]
  /\ delivered = [e \in Ends |-> <<>>]
  /\ harness \in Harnesses

(* Entering and leaving a blocking call on a handle.                       *)
Free(h) == ~SerialHandleIo \/ ~hBusy[h]
Occupy(h) == IF SerialHandleIo THEN [hBusy EXCEPT ![h] = TRUE] ELSE hBusy
Vacate(h) == [hBusy EXCEPT ![h] = FALSE]

-----------------------------------------------------------------------------
(* The sending thread.  mctp_mmbi_send (context) or the test's main        *)
(* thread (full_duplex) enters the lock, then mctp_message_tx calls         *)
(* mctp_mmbi_tx once per packet; on a blocking pipe WriteFile returns only *)
(* when the whole packet is queued, so the first pass of its retry loop    *)
(* succeeds.                                                               *)
TxLock(e) ==
  /\ txPc[e] = "lock"
  /\ lockOwner[e] = "none"
  /\ lockOwner' = [lockOwner EXCEPT ![e] = "tx"]
  /\ txPc' = [txPc EXCEPT ![e] = "write"]
  /\ UNCHANGED <<harness, up, down, txNext, pollPc, pollUnit, relayPc, relayMsg,
                 hBusy, delivered>>

TxWriteEnter(e) ==
  /\ txPc[e] = "write"
  /\ txNext[e] <= NPKTS
  /\ Free(<<"client", e>>)
  /\ hBusy' = Occupy(<<"client", e>>)
  /\ txPc' = [txPc EXCEPT ![e] = "writing"]
  /\ UNCHANGED <<harness, up, down, lockOwner, txNext, pollPc, pollUnit, relayPc,
                 relayMsg, delivered>>

TxWriteDone(e) ==
  /\ txPc[e] = "writing"
  /\ Room(up[e], Frame(e, txNext[e]))
  /\ up' = [up EXCEPT ![e] = Append(@, Frame(e, txNext[e]))]
  /\ hBusy' = Vacate(<<"client", e>>)
  /\ txNext' = [txNext EXCEPT ![e] = @ + 1]
  /\ txPc' = [txPc EXCEPT ![e] = "write"]
  /\ UNCHANGED <<harness, down, lockOwner, pollPc, pollUnit, relayPc, relayMsg,
                 delivered>>

TxUnlock(e) ==
  /\ txPc[e] = "write"
  /\ txNext[e] > NPKTS
  /\ lockOwner' = [lockOwner EXCEPT ![e] = "none"]
  /\ txPc' = [txPc EXCEPT ![e] = "done"]
  /\ UNCHANGED <<harness, up, down, txNext, pollPc, pollUnit, relayPc, relayMsg,
                 hBusy, delivered>>

-----------------------------------------------------------------------------
(* The poll thread.  Under full_duplex: lock, PeekNamedPipe and ReadFile,  *)
(* mctp_bus_rx, unlock.  Under context: PeekNamedPipe and ReadFile, then   *)
(* mmbi->lock around mctp_bus_rx.  The pktbuf allocation is taken to       *)
(* succeed here (its failure is modelled in MmbiDriverLink).               *)
FullDuplex == harness = "full_duplex"
LockPc == IF FullDuplex THEN "idle" ELSE "lock"
ReadPc == IF FullDuplex THEN "read" ELSE "idle"
AfterPollPc == IF FullDuplex THEN "unlock" ELSE "idle"

PollLock(e) ==
  /\ pollPc[e] = LockPc
  /\ lockOwner[e] = "none"
  /\ lockOwner' = [lockOwner EXCEPT ![e] = "poll"]
  /\ pollPc' = [pollPc EXCEPT ![e] = IF FullDuplex THEN "read" ELSE "deliver"]
  /\ UNCHANGED <<harness, up, down, txPc, txNext, pollUnit, relayPc, relayMsg, hBusy,
                 delivered>>

(* PeekNamedPipe reports the bytes queued; with none, poll returns 0.      *)
(* Otherwise one ReadFile of max_to_read bytes: a whole message, or        *)
(* ERROR_MORE_DATA, which poll logs and returns 0 for, dropping the part   *)
(* read.  Without the lock an empty peek changes nothing.                  *)
PollRead(e) ==
  /\ pollPc[e] = ReadPc
  /\ Free(<<"client", e>>)
  /\ IF down[e] = <<>>
     THEN /\ pollPc' = [pollPc EXCEPT ![e] = AfterPollPc]
          /\ UNCHANGED <<harness, down, pollUnit>>
     ELSE LET r == ReadMsg(down[e], MaxToRead(e)) IN
          /\ down' = [down EXCEPT ![e] = r.rest]
          /\ IF r.ok
             THEN /\ pollUnit' = [pollUnit EXCEPT ![e] = r.data]
                  /\ pollPc' = [pollPc EXCEPT ![e] =
                                  IF FullDuplex THEN "deliver" ELSE "lock"]
             ELSE /\ pollPc' = [pollPc EXCEPT ![e] = AfterPollPc]
                  /\ UNCHANGED pollUnit
  /\ UNCHANGED <<harness, up, lockOwner, txPc, txNext, relayPc, relayMsg, hBusy,
                 delivered>>

PollDeliver(e) ==
  /\ pollPc[e] = "deliver"
  /\ delivered' = [delivered EXCEPT ![e] = Append(@, pollUnit[e])]
  /\ pollUnit' = [pollUnit EXCEPT ![e] = <<>>]
  /\ pollPc' = [pollPc EXCEPT ![e] = AfterPollPc]
  /\ lockOwner' = IF FullDuplex THEN lockOwner
                  ELSE [lockOwner EXCEPT ![e] = "none"]
  /\ UNCHANGED <<harness, up, down, txPc, txNext, relayPc, relayMsg, hBusy>>

PollUnlock(e) ==
  /\ pollPc[e] = "unlock"
  /\ lockOwner' = [lockOwner EXCEPT ![e] = "none"]
  /\ pollPc' = [pollPc EXCEPT ![e] = "idle"]
  /\ UNCHANGED <<harness, up, down, txPc, txNext, pollUnit, relayPc, relayMsg, hBusy,
                 delivered>>

-----------------------------------------------------------------------------
(* A relay thread of the mock driver, copying e's pipe to the peer's: a    *)
(* blocking ReadFile of sizeof(buf) bytes on e's server end, then a        *)
(* blocking WriteFile of what was read on the peer's server end.  On       *)
(* ERROR_MORE_DATA relay_worker logs, sleeps and reads again (the part     *)
(* read is lost).                                                          *)
RelayReadEnter(e) ==
  /\ relayPc[e] = "read"
  /\ Free(<<"server", e>>)
  /\ hBusy' = Occupy(<<"server", e>>)
  /\ relayPc' = [relayPc EXCEPT ![e] = "reading"]
  /\ UNCHANGED <<harness, up, down, lockOwner, txPc, txNext, pollPc, pollUnit,
                 relayMsg, delivered>>

RelayRead(e) ==
  /\ relayPc[e] = "reading"
  /\ up[e] # <<>>
  /\ LET r == ReadMsg(up[e], RELAY_BUF) IN
       /\ up' = [up EXCEPT ![e] = r.rest]
       /\ IF r.ok
          THEN /\ relayMsg' = [relayMsg EXCEPT ![e] = r.data]
               /\ relayPc' = [relayPc EXCEPT ![e] = "write"]
          ELSE /\ relayPc' = [relayPc EXCEPT ![e] = "read"]
               /\ UNCHANGED relayMsg
  /\ hBusy' = Vacate(<<"server", e>>)
  /\ UNCHANGED <<harness, down, lockOwner, txPc, txNext, pollPc, pollUnit, delivered>>

RelayWriteEnter(e) ==
  /\ relayPc[e] = "write"
  /\ Free(<<"server", Peer(e)>>)
  /\ hBusy' = Occupy(<<"server", Peer(e)>>)
  /\ relayPc' = [relayPc EXCEPT ![e] = "writing"]
  /\ UNCHANGED <<harness, up, down, lockOwner, txPc, txNext, pollPc, pollUnit,
                 relayMsg, delivered>>

(* A faulty variant: hIn and hOut swapped, the relay writes back into the  *)
(* pipe it read from.                                                      *)
RelayWriteDoneSwapped(e) ==
  /\ relayPc[e] = "writing"
  /\ Room(down[e], relayMsg[e])
  /\ down' = [down EXCEPT ![e] = Append(@, relayMsg[e])]
  /\ hBusy' = Vacate(<<"server", Peer(e)>>)
  /\ relayMsg' = [relayMsg EXCEPT ![e] = <<>>]
  /\ relayPc' = [relayPc EXCEPT ![e] = "read"]
  /\ UNCHANGED <<harness, up, lockOwner, txPc, txNext, pollPc, pollUnit, delivered>>

RelayWriteDone(e) ==
  /\ relayPc[e] = "writing"
  /\ Room(down[Peer(e)], relayMsg[e])
  /\ down' = [down EXCEPT ![Peer(e)] = Append(@, relayMsg[e])]
  /\ hBusy' = Vacate(<<"server", Peer(e)>>)
  /\ relayMsg' = [relayMsg EXCEPT ![e] = <<>>]
  /\ relayPc' = [relayPc EXCEPT ![e] = "read"]
  /\ UNCHANGED <<harness, up, lockOwner, txPc, txNext, pollPc, pollUnit, delivered>>

(* Each endpoint has received the whole message of its peer.               *)
AllDelivered == \A e \in Ends : delivered[e] = Packets(Peer(e))

(* Both messages are through: the endpoints compare and exit.              *)
Finished ==
  /\ AllDelivered
  /\ UNCHANGED vars

Sender(e) == TxLock(e) \/ TxWriteEnter(e) \/ TxWriteDone(e) \/ TxUnlock(e)
Poller(e) == PollLock(e) \/ PollRead(e) \/ PollDeliver(e) \/ PollUnlock(e)
Relay(e) ==
  RelayReadEnter(e) \/ RelayRead(e) \/ RelayWriteEnter(e) \/ RelayWriteDone(e)

Next ==
  \/ \E e \in Ends : Sender(e) \/ Poller(e) \/ Relay(e)
  \/ Finished

(* Every thread keeps running, and one that can go on infinitely often     *)
(* does: a thread waits for a lock or a handle that others take and give   *)
(* back, and the poll loops sleep between polls, the relays between reads, *)
(* so a waiter gets its turn (strong fairness per thread).                 *)
Fairness ==
  \A e \in Ends : SF_vars(Sender(e)) /\ SF_vars(Poller(e)) /\ SF_vars(Relay(e))

Spec == Init /\ [][Next]_vars /\ Fairness

-----------------------------------------------------------------------------
TypeOK ==
  /\ \A e \in Ends :
       /\ up[e] \in Seq(Seq(ByteVals)) /\ Used(up[e]) <= PIPE_CAP
       /\ down[e] \in Seq(Seq(ByteVals)) /\ Used(down[e]) <= PIPE_CAP
       /\ lockOwner[e] \in {"none", "tx", "poll"}
       /\ txPc[e] \in {"lock", "write", "writing", "done"}
       /\ txNext[e] \in 1 .. NPKTS + 1
       /\ pollPc[e] \in {"idle", "lock", "read", "deliver", "unlock"}
       /\ relayPc[e] \in {"read", "reading", "write", "writing"}
       /\ Len(relayMsg[e]) <= RELAY_BUF
       /\ Len(pollUnit[e]) <= MaxToRead(e)
  /\ hBusy \in [Handles -> BOOLEAN]
  /\ harness \in Harnesses

(* Each direction, from the peer's WriteFile through its pipe, the relay's *)
(* ReadFile and WriteFile, this end's pipe and poll's ReadFile, is a      *)
(* FrameChannel: sent is the peer's packets whose WriteFile has returned,  *)
(* got what this end's poll gave mctp_bus_rx.                             *)
SentTo(e) == SubSeq(Packets(Peer(e)), 1, txNext[Peer(e)] - 1)
ToHost == INSTANCE FrameChannel
            WITH Frames <- Range(Packets("bmc")),
                 sent <- SentTo("host"), got <- delivered["host"]
ToBmc == INSTANCE FrameChannel
           WITH Frames <- Range(Packets("host")),
                sent <- SentTo("bmc"), got <- delivered["bmc"]

(* The pipe backend and the mock driver's relays compose to the channel    *)
(* spec.md 3-5 describe: what mctp_bus_rx is given on each side is, step   *)
(* by step, the next of the packets whose WriteFile the peer completed,    *)
(* whole, in order, none lost, repeated or delivered ahead of its write    *)
(* (spec.md 1: "one read returns at most one unit previously written").    *)
PipeImplementsFrameChannel == ToHost!Spec /\ ToBmc!Spec

(* With both poll loops and both relays running, each endpoint eventually  *)
(* receives the whole message its peer sent: no thread waits forever on a  *)
(* lock, a handle or a full pipe held up by another.                       *)
EveryPacketDelivered == <>AllDelivered
=============================================================================
