---------------------------- MODULE SppTransport ----------------------------
(***************************************************************************)
(* firmware/src/bluetooth/spp_transport.cpp: the ring of frames waiting to *)
(* be written, and the connection as the firmware sees it, which is what   *)
(* hasClient() said at the last poll.  BluetoothSerial is not part of the  *)
(* program; a write takes none, some or all of the pieces it is offered.   *)
(***************************************************************************)
EXTENDS Integers, Sequences

CONSTANTS
  SendQueueLength,  \* kSendQueueLength
  Pieces,           \* pieces a frame may be cut into by partial writes
  RadioRoom,        \* pieces the radio takes before the host reads some
  NoFrame

ASSUME TransportAssumption ==
  SendQueueLength \in Nat \ {0} /\ Pieces \in Nat \ {0} /\ RadioRoom \in Nat

VARIABLES
  client,     \* hasClient(): a host is connected
  started, connected,
  writes, write_head, write_tail, write_count,
  wire        \* pieces handed to the radio, not yet read by the host

ringVars == <<writes, write_head, write_tail, write_count>>
transportVars == <<client, started, connected, ringVars, wire>>

Slots == 0..SendQueueLength - 1
Unused == [frame |-> NoFrame, offset |-> 0]

TransportInit ==
  /\ client = FALSE /\ started = TRUE /\ connected = FALSE /\ wire = <<>>
  /\ writes = [i \in Slots |-> Unused]
  /\ write_head = 0 /\ write_tail = 0 /\ write_count = 0

ClearQueues ==
  /\ writes' = [i \in Slots |-> Unused]
  /\ write_head' = 0 /\ write_tail' = 0 /\ write_count' = 0

\* What hasClient() says now differs from what it said at the last poll.
Edge == (started /\ client) # connected

\* The connection part of update().
UpdateConnection ==
  /\ connected' = (started /\ client)
  /\ IF connected /\ ~connected' THEN ClearQueues ELSE UNCHANGED ringVars
  /\ UNCHANGED <<client, started, wire>>

\* Mutant: one frame too many.
EnqueueAcceptsOneMore == connected /\ write_count <= SendQueueLength

EnqueueAccepts == connected /\ write_count < SendQueueLength

Enqueue(frame) ==
  IF EnqueueAccepts
  THEN /\ writes' = [writes EXCEPT ![write_tail] = [frame |-> frame, offset |-> 0]]
       /\ write_tail' = (write_tail + 1) % SendQueueLength
       /\ write_count' = write_count + 1
       /\ UNCHANGED write_head
  ELSE UNCHANGED ringVars

\* flushWrites, one write of the serial port at a time.
FlushWrite ==
  /\ connected /\ client /\ write_count # 0
  /\ LET pending == writes[write_head]
     IN  \E n \in 1..Pieces - pending.offset :
           /\ Len(wire) + n <= RadioRoom
           /\ wire' = wire \o [i \in 1..n |-> <<pending.frame, pending.offset + i>>]
           /\ IF pending.offset + n = Pieces
              THEN /\ writes' = [writes EXCEPT ![write_head] = Unused]
                   /\ write_head' = (write_head + 1) % SendQueueLength
                   /\ write_count' = write_count - 1
              ELSE /\ writes' = [writes EXCEPT ![write_head].offset = @ + n]
                   /\ UNCHANGED <<write_head, write_count>>
  /\ UNCHANGED <<client, started, connected, write_tail>>

\* reconnect(): end() and begin(), which may fail.
Restarted(succeeds) ==
  /\ started' = succeeds
  /\ connected' = FALSE
  /\ client' = FALSE /\ wire' = <<>>
  /\ ClearQueues

-----------------------------------------------------------------------------
(* The ring is a queue: whatever is enqueued, cut and cleared in whatever  *)
(* order, and however often the link goes down unseen, the frames accepted *)
(* are written whole and in order, or dropped together.                    *)
Waiting ==
  [i \in 1..write_count |->
     writes[(write_head + i - 1) % SendQueueLength].frame]

Ring == INSTANCE SendQueue WITH
  Capacity <- SendQueueLength,
  queue <- Waiting,
  written <- IF write_count = 0 THEN 0 ELSE writes[write_head].offset

RingIsAQueue == Ring!Queue
=============================================================================
