------------------------------ MODULE SendQueue ------------------------------
(***************************************************************************)
(* What the firmware's transport promises its callers: the frames it       *)
(* accepts, a few at a time, are handed to the radio whole, once and in    *)
(* order, in whatever pieces the radio takes; or they are dropped together *)
(* with everything else that waits.                                        *)
(***************************************************************************)
EXTENDS Sequences, Integers

CONSTANTS Capacity, Pieces

VARIABLES
  queue,   \* frames accepted and not yet handed over whole
  written, \* pieces of the first one that were
  wire     \* pieces on their way to the peer

queueVars == <<queue, written, wire>>

QueueInit == queue = <<>> /\ written = 0 /\ wire = <<>>

Accept ==
  /\ Len(queue) < Capacity
  /\ Len(queue') = Len(queue) + 1
  /\ SubSeq(queue', 1, Len(queue)) = queue
  /\ UNCHANGED <<written, wire>>

HandOver ==
  /\ queue # <<>>
  /\ \E n \in 1..Pieces - written :
       /\ wire' = wire \o [i \in 1..n |-> <<Head(queue), written + i>>]
       /\ IF written + n = Pieces
          THEN queue' = Tail(queue) /\ written' = 0
          ELSE queue' = queue /\ written' = written + n

DropAll == queue' = <<>> /\ written' = 0

\* The peer takes pieces; what is on its way is lost with the link.
Received ==
  /\ \E n \in 0..Len(wire) : wire' = SubSeq(wire, n + 1, Len(wire))
  /\ UNCHANGED <<queue, written>>

Queue ==
  QueueInit /\ [][Accept \/ HandOver \/ (DropAll /\ wire' \in {wire, <<>>}) \/ Received]_queueVars
=============================================================================
