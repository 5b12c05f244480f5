-------------------------- MODULE DeviceLoopProofs --------------------------
(***************************************************************************)
(* Sessions that follow one another without the firmware noticing are told *)
(* apart until their nonces come round, and what the screen says of them   *)
(* is true all the same: for any size of the ring, any cut of the frames,  *)
(* any width of the nonce, and any number of sessions and of runs of the   *)
(* host's program.                                                         *)
(***************************************************************************)
EXTENDS DeviceLoop, TLAPS

-----------------------------------------------------------------------------
(* The ring of the transport is a queue: each of its operations keeps      *)
(* RingInv and is a step of SendQueue, or leaves the queue alone.          *)

\* Sequences of one length with the same items are the same.
LEMMA SameItems ==
  ASSUME NEW S, NEW s \in Seq(S), NEW t \in Seq(S), Len(s) = Len(t),
         \A i \in 1..Len(s) : s[i] = t[i]
  PROVE  s = t
OBVIOUS

\* The place k behind the head.
At(k) == (write_head + k) % SendQueueLength

\* The waiting frames lie between head and tail, and only the first of them
\* can be written in part.
RingInv(Frames) ==
  /\ write_head \in Slots /\ write_tail \in Slots
  /\ write_count \in 0..SendQueueLength
  /\ write_tail = At(write_count)
  /\ writes \in [Slots -> [frame : Frames \cup {NoFrame}, offset : 0..(Pieces - 1)]]
  /\ \A k \in 0..write_count - 1 : writes[At(k)].frame \in Frames
  /\ \A i \in Slots : i # write_head => writes[i].offset = 0
  /\ wire \in Seq(Frames \X (1..Pieces))

QueueStep ==
  \/ Ring!Accept \/ Ring!HandOver \/ Ring!Received
  \/ Ring!DropAll /\ wire' \in {wire, <<>>}
  \/ UNCHANGED Ring!queueVars

\* The place k behind the head, without a modulus.
LEMMA PlaceIs ==
  ASSUME NEW h \in Slots, NEW k \in 0..SendQueueLength
  PROVE  /\ (h + k) % SendQueueLength =
              IF h + k < SendQueueLength THEN h + k ELSE h + k - SendQueueLength
         /\ (h + k) % SendQueueLength \in Slots
<1> DEFINE n == SendQueueLength
<1>1. n \in Nat \ {0} /\ h \in 0..(n - 1) /\ k \in 0..n
  BY TransportAssumption DEF Slots
<1>2. (h + k) % n = IF h + k < n THEN h + k ELSE h + k - n
  BY <1>1, SMT
<1>. QED
  BY <1>1, <1>2 DEF Slots

\* What waits is a sequence of frames, one for every place in use.
LEMMA WaitingType ==
  ASSUME NEW Frames, RingInv(Frames)
  PROVE  /\ Waiting \in Seq(Frames) /\ Len(Waiting) = write_count
         /\ \A i \in 1..write_count :
              Waiting[i] = writes[(write_head + (i - 1)) % SendQueueLength].frame
<1>1. \A i \in 1..write_count :
        /\ write_head + i - 1 = write_head + (i - 1)
        /\ i - 1 \in 0..SendQueueLength
        /\ (write_head + i - 1) % SendQueueLength \in Slots
  <2> TAKE i \in 1..write_count
  <2>1. /\ write_head + i - 1 = write_head + (i - 1)
        /\ i - 1 \in 0..SendQueueLength
    BY TransportAssumption DEF RingInv, Slots
  <2>. QED
    BY <2>1, PlaceIs DEF RingInv
<1>2. \A i \in 1..write_count :
        writes[(write_head + i - 1) % SendQueueLength].frame \in Frames
  <2> TAKE i \in 1..write_count
  <2>1. i - 1 \in 0..write_count - 1
    BY DEF RingInv
  <2>2. writes[At(i - 1)].frame \in Frames
    BY <2>1 DEF RingInv
  <2>. QED
    BY <1>1, <2>2 DEF At
<1>3. write_count \in Nat
  BY DEF RingInv
<1>. QED
  BY <1>1, <1>2, <1>3 DEF Waiting

LEMMA AtIs ==
  ASSUME NEW Frames, RingInv(Frames), NEW k \in 0..SendQueueLength
  PROVE  /\ At(k) = IF write_head + k < SendQueueLength THEN write_head + k
                    ELSE write_head + k - SendQueueLength
         /\ At(k) \in Slots
BY PlaceIs DEF At, RingInv

LEMMA OthersElsewhere ==
  ASSUME NEW Frames, RingInv(Frames), NEW k \in 1..SendQueueLength - 1
  PROVE  At(k) # write_head /\ At(k) \in Slots
<1>1. k \in 0..SendQueueLength /\ 0 < k /\ k < SendQueueLength
  BY TransportAssumption
<1>2. write_head \in 0..(SendQueueLength - 1)
  BY DEF RingInv, Slots
<1>. QED
  BY <1>1, <1>2, AtIs, TransportAssumption

LEMMA RingInitially ==
  ASSUME NEW Frames, TransportInit
  PROVE  RingInv(Frames) /\ Ring!QueueInit
<1>1. RingInv(Frames)
  <2>1. 0 \in Slots /\ 0 + 0 = 0 /\ 0 \in 0..SendQueueLength
    BY TransportAssumption DEF Slots
  <2>2. 0 = (0 + 0) % SendQueueLength
    BY <2>1, PlaceIs, TransportAssumption
  <2>3. Unused \in [frame : Frames \cup {NoFrame}, offset : 0..(Pieces - 1)]
    BY TransportAssumption DEF Unused
  <2>. QED
    BY <2>1, <2>2, <2>3 DEF TransportInit, RingInv, Unused
<1>2. Len(Waiting) = 0 /\ Waiting \in Seq(Frames)
  BY <1>1, WaitingType DEF TransportInit
<1>. QED
  BY <1>1, <1>2 DEF TransportInit, Ring!QueueInit

\* Everything dropped: end(), or a lost client noticed.
LEMMA ClearIsDropAll ==
  ASSUME NEW Frames, RingInv(Frames),
         ClearQueues, wire' \in {wire, <<>>}
  PROVE  RingInv(Frames)' /\ QueueStep
<1>1. RingInv(Frames)'
  <2>1. 0 \in Slots /\ 0 + 0 = 0 /\ 0 \in 0..SendQueueLength
    BY TransportAssumption DEF Slots
  <2>2. 0 = (0 + 0) % SendQueueLength
    BY <2>1, PlaceIs, TransportAssumption
  <2>3. Unused \in [frame : Frames \cup {NoFrame}, offset : 0..(Pieces - 1)]
    BY TransportAssumption DEF Unused
  <2>4. wire' \in Seq(Frames \X (1..Pieces))
    <3>1. <<>> \in Seq(Frames \X (1..Pieces))
      OBVIOUS
    <3>. QED
      BY <3>1 DEF RingInv
  <2>5. write_count' = 0 /\ 0..write_count' - 1 = {}
    BY DEF ClearQueues
  <2>6. write_tail' = (write_head' + write_count') % SendQueueLength
    BY <2>2 DEF ClearQueues
  <2>7. /\ writes' \in [Slots -> [frame : Frames \cup {NoFrame}, offset : 0..(Pieces - 1)]]
        /\ \A i \in Slots : writes'[i].offset = 0
        /\ write_head' \in Slots /\ write_tail' \in Slots
    BY <2>1, <2>3 DEF ClearQueues, Unused
  <2>. QED
    BY <2>1, <2>4, <2>5, <2>6, <2>7 DEF RingInv, At
<1>2. (Waiting = <<>>)'
  BY DEF ClearQueues, Waiting
<1>3. (write_count = 0)'
  BY DEF ClearQueues
<1>. QED
  BY <1>1, <1>2, <1>3 DEF QueueStep, Ring!DropAll

\* enqueue() puts the frame behind all that waits, or does nothing.
LEMMA EnqueueIsAccept ==
  ASSUME NEW Frames, RingInv(Frames), NEW frame \in Frames,
         Enqueue(frame), UNCHANGED wire
  PROVE  RingInv(Frames)' /\ QueueStep
<1>1. CASE ~EnqueueAccepts
  <2>1. UNCHANGED <<ringVars, wire>>
    BY <1>1 DEF Enqueue
  <2>2. UNCHANGED Waiting
    BY <2>1 DEF Waiting, ringVars
  <2>. QED
    BY <2>1, <2>2 DEF RingInv, At, ringVars, QueueStep, Ring!queueVars
<1>2. CASE EnqueueAccepts
  <2>1. /\ SendQueueLength \in Nat \ {0} /\ write_head \in 0..(SendQueueLength - 1)
        /\ write_tail \in Slots
        /\ write_count \in 0..(SendQueueLength - 1) /\ Slots = 0..(SendQueueLength - 1)
        /\ write_tail = At(write_count)
        /\ Pieces \in Nat \ {0}
    BY <1>2, TransportAssumption DEF RingInv, EnqueueAccepts, Slots, At
  <2>2. /\ writes' = [writes EXCEPT ![write_tail] = [frame |-> frame, offset |-> 0]]
        /\ write_tail' = (write_tail + 1) % SendQueueLength
        /\ write_count' = write_count + 1
        /\ write_head' = write_head /\ wire' = wire
    BY <1>2 DEF Enqueue
  <2>3. write_tail' = (write_head' + write_count') % SendQueueLength
        /\ write_tail' \in Slots
    <3>1. At(write_count) = IF write_head + write_count < SendQueueLength
                            THEN write_head + write_count
                            ELSE write_head + write_count - SendQueueLength
      BY <2>1, AtIs
    <3>2. (write_head + (write_count + 1)) % SendQueueLength =
            IF write_head + (write_count + 1) < SendQueueLength
            THEN write_head + (write_count + 1)
            ELSE write_head + (write_count + 1) - SendQueueLength
      <4>1. write_count + 1 \in 0..SendQueueLength /\ write_head \in Slots
        BY <2>1
      <4>. QED
        BY <4>1, PlaceIs
    <3>3. /\ (write_tail + 1) % SendQueueLength =
               IF write_tail + 1 < SendQueueLength THEN write_tail + 1
               ELSE write_tail + 1 - SendQueueLength
          /\ (write_tail + 1) % SendQueueLength \in Slots
      <4>1. 1 \in 0..SendQueueLength
        BY <2>1
      <4>. QED
        BY <2>1, <4>1, PlaceIs
    <3>4. (write_head + (write_count + 1)) % SendQueueLength
            = (write_tail + 1) % SendQueueLength
      BY <2>1, <3>1, <3>2, <3>3
    <3>. QED
      BY <2>2, <3>3, <3>4
  <2>4. \A k \in 0..write_count - 1 : At(k) # write_tail /\ At(k) \in Slots
    <3> TAKE k \in 0..write_count - 1
    <3>1. k \in 0..SendQueueLength /\ write_count \in 0..SendQueueLength
      BY <2>1
    <3>2. /\ At(k) = IF write_head + k < SendQueueLength THEN write_head + k
                     ELSE write_head + k - SendQueueLength
          /\ At(k) \in Slots
      BY <3>1, AtIs
    <3>3. At(write_count) = IF write_head + write_count < SendQueueLength
                            THEN write_head + write_count
                            ELSE write_head + write_count - SendQueueLength
      BY <3>1, AtIs
    <3>. QED
      BY <2>1, <3>2, <3>3
  <2>5. RingInv(Frames)'
    <3>1. writes' \in [Slots -> [frame : Frames \cup {NoFrame}, offset : 0..(Pieces - 1)]]
      <4>1. [frame |-> frame, offset |-> 0] \in [frame : Frames \cup {NoFrame}, offset : 0..(Pieces - 1)]
        BY <2>1
      <4>. QED
        BY <2>1, <2>2, <4>1 DEF RingInv
    <3>2. \A i \in Slots : i # write_head' => writes'[i].offset = 0
      BY <2>1, <2>2 DEF RingInv
    <3>3. write_count' \in 0..SendQueueLength /\ write_head' \in Slots
      BY <2>1, <2>2
    <3>4. wire' \in Seq(Frames \X (1..Pieces))
      BY <2>2 DEF RingInv
    <3>5. \A k \in 0..write_count' - 1 :
            writes'[(write_head' + k) % SendQueueLength].frame \in Frames
      <4> TAKE k \in 0..write_count' - 1
      <4>1. k \in 0..write_count - 1 \/ k = write_count
        BY <2>1, <2>2
      <4>2. CASE k \in 0..write_count - 1
        <5>1. writes[At(k)].frame \in Frames /\ At(k) # write_tail /\ At(k) \in Slots
          BY <2>4, <4>2 DEF RingInv
        <5>2. writes'[At(k)] = writes[At(k)]
          BY <2>2, <5>1 DEF RingInv
        <5>. QED
          BY <2>2, <5>1, <5>2 DEF At
      <4>3. CASE k = write_count
        <5>1. writes'[write_tail].frame = frame
          BY <2>1, <2>2 DEF RingInv
        <5>. QED
          BY <2>1, <2>2, <4>3, <5>1 DEF At
      <4>. QED
        BY <4>1, <4>2, <4>3
    <3>. QED
      BY <2>3, <3>1, <3>2, <3>3, <3>4, <3>5 DEF RingInv, At
  <2>6. /\ Waiting \in Seq(Frames) /\ Len(Waiting) = write_count
        /\ \A i \in 1..write_count : Waiting[i] = writes[At(i - 1)].frame
    BY WaitingType DEF At
  <2>7. (/\ Waiting \in Seq(Frames) /\ Len(Waiting) = write_count
         /\ \A i \in 1..write_count :
              Waiting[i] = writes[(write_head + (i - 1)) % SendQueueLength].frame)'
    BY <2>5, WaitingType, PTL
  <2>8. Len(Waiting') = Len(Waiting) + 1 /\ Len(Waiting) < SendQueueLength
        /\ Waiting' \in Seq(Frames)
    BY <2>1, <2>2, <2>6, <2>7
  <2>9. \A i \in 1..write_count : Waiting'[i] = Waiting[i]
    <3> TAKE i \in 1..write_count
    <3>1. Waiting'[i] = writes'[At(i - 1)].frame
      <4>1. i \in 1..write_count'
        BY <2>1, <2>2
      <4>. QED
        BY <2>2, <2>7, <4>1 DEF At
    <3>2. i - 1 \in 0..write_count - 1
      BY <2>1
    <3>3. At(i - 1) # write_tail /\ At(i - 1) \in Slots
      BY <2>4, <3>2
    <3>4. writes'[At(i - 1)] = writes[At(i - 1)]
      BY <2>2, <3>3 DEF RingInv
    <3>. QED
      BY <2>6, <3>1, <3>4
  <2>10. SubSeq(Waiting', 1, Len(Waiting)) = Waiting
    BY <2>1, <2>6, <2>8, <2>9
  <2>11. /\ write_count' # 0
         /\ writes'[write_head'].offset =
              IF write_count = 0 THEN 0 ELSE writes[write_head].offset
    <3>1. At(0) = write_head
      BY <2>1, AtIs
    <3>2. CASE write_count = 0
      BY <2>1, <2>2, <3>1, <3>2 DEF RingInv
    <3>3. CASE write_count # 0
      <4>1. write_head # write_tail
        BY <2>1, <2>4, <3>1, <3>3
      <4>. QED
        BY <2>1, <2>2, <3>3, <4>1 DEF RingInv
    <3>. QED
      BY <3>2, <3>3
  <2>. QED
    BY <2>2, <2>5, <2>8, <2>10, <2>11 DEF QueueStep, Ring!Accept
<1>. QED
  BY <1>1, <1>2

\* One write of flushWrites hands over pieces of the first frame, and frees
\* its place with the last of them.
LEMMA FlushIsHandOver ==
  ASSUME NEW Frames, RingInv(Frames), FlushWrite
  PROVE  RingInv(Frames)' /\ QueueStep
<1>1. PICK pending, n :
        /\ pending = writes[write_head]
        /\ n \in 1..Pieces - pending.offset
        /\ wire' = wire \o [i \in 1..n |-> <<pending.frame, pending.offset + i>>]
        /\ IF pending.offset + n = Pieces
           THEN /\ writes' = [writes EXCEPT ![write_head] = Unused]
                /\ write_head' = (write_head + 1) % SendQueueLength
                /\ write_count' = write_count - 1
           ELSE /\ writes' = [writes EXCEPT ![write_head].offset = @ + n]
                /\ UNCHANGED <<write_head, write_count>>
  BY DEF FlushWrite
<1>2. /\ SendQueueLength \in Nat \ {0} /\ write_head \in 0..(SendQueueLength - 1)
      /\ write_tail' = write_tail /\ write_tail \in Slots
      /\ write_count \in 1..SendQueueLength /\ Slots = 0..(SendQueueLength - 1)
      /\ write_tail = At(write_count)
      /\ Pieces \in Nat \ {0}
      /\ writes \in [Slots -> [frame : Frames \cup {NoFrame}, offset : 0..(Pieces - 1)]]
      /\ pending \in [frame : Frames \cup {NoFrame}, offset : 0..(Pieces - 1)]
      /\ wire \in Seq(Frames \X (1..Pieces))
  <2>1. write_count # 0 /\ write_tail' = write_tail
    BY DEF FlushWrite
  <2>2. pending \in [frame : Frames \cup {NoFrame}, offset : 0..(Pieces - 1)]
    BY <1>1 DEF RingInv
  <2>. QED
    BY <2>1, <2>2, TransportAssumption DEF RingInv, Slots, At
<1>3. n \in 1..(Pieces - pending.offset) /\ pending.frame \in Frames
      /\ pending.offset \in 0..(Pieces - 1)
  <2>1. At(0) = write_head /\ 0 \in 0..write_count - 1
    BY <1>2, AtIs
  <2>2. pending.frame \in Frames
    BY <1>1, <2>1 DEF RingInv
  <2>. QED
    BY <1>1, <1>2, <2>2
<1> DEFINE pieces == [i \in 1..n |-> <<pending.frame, pending.offset + i>>]
<1>4. wire' \in Seq(Frames \X (1..Pieces))
  <2>1. pieces \in Seq(Frames \X (1..Pieces))
    <3>1. n \in Nat /\ \A i \in 1..n : pending.offset + i \in 1..Pieces
      BY <1>2, <1>3
    <3>2. \A i \in 1..n : <<pending.frame, pending.offset + i>> \in Frames \X (1..Pieces)
      BY <1>3, <3>1
    <3>. QED
      BY <3>1, <3>2
  <2>. QED
    BY <1>1, <1>2, <2>1
<1>5. /\ Waiting \in Seq(Frames) /\ Len(Waiting) = write_count
      /\ \A i \in 1..write_count : Waiting[i] = writes[At(i - 1)].frame
  BY WaitingType DEF At
<1>6. At(0) = write_head
  BY <1>2, AtIs
<1>7. Waiting # <<>> /\ Head(Waiting) = pending.frame
  <2>1. 1 \in 1..write_count /\ 1 - 1 = 0
    BY <1>2
  <2>2. Waiting[1] = pending.frame
    BY <1>1, <1>5, <1>6, <2>1
  <2>. QED
    BY <1>2, <1>5, <2>2
<1> DEFINE written == IF write_count = 0 THEN 0 ELSE writes[write_head].offset
<1>8. written = pending.offset
  BY <1>1, <1>2
<1>9. ASSUME Waiting' = (IF pending.offset + n = Pieces THEN Tail(Waiting) ELSE Waiting),
              written' = (IF pending.offset + n = Pieces THEN 0 ELSE pending.offset + n)
       PROVE  QueueStep
  <2>1. /\ n \in 1..Pieces - written
        /\ wire' = wire \o [i \in 1..n |-> <<Head(Waiting), written + i>>]
        /\ IF written + n = Pieces
           THEN Waiting' = Tail(Waiting) /\ written' = 0
           ELSE Waiting' = Waiting /\ written' = written + n
    <3> HIDE DEF written
    <3>. QED
      BY <1>1, <1>7, <1>8, <1>9
  <2>. QED
    BY <1>7, <2>1 DEF QueueStep, Ring!HandOver
<1>10. CASE pending.offset + n = Pieces
  <2>1. /\ writes' = [writes EXCEPT ![write_head] = Unused]
        /\ write_head' = (write_head + 1) % SendQueueLength
        /\ write_count' = write_count - 1
    BY <1>1, <1>10
  <2>2. /\ write_head' = IF write_head + 1 < SendQueueLength THEN write_head + 1
                         ELSE write_head + 1 - SendQueueLength
        /\ write_head' \in Slots
    <3>1. 1 \in 0..SendQueueLength
      BY <1>2
    <3>. QED
      BY <1>2, <2>1, <3>1, PlaceIs
  <2>3. \A k \in 0..write_count' : (write_head' + k) % SendQueueLength = At(k + 1)
    <3> TAKE k \in 0..write_count'
    <3>1. k \in 0..SendQueueLength /\ k + 1 \in 0..SendQueueLength
      BY <1>2, <2>1
    <3>2. (write_head' + k) % SendQueueLength =
            IF write_head' + k < SendQueueLength THEN write_head' + k
            ELSE write_head' + k - SendQueueLength
      BY <2>2, <3>1, PlaceIs
    <3>3. At(k + 1) = IF write_head + (k + 1) < SendQueueLength THEN write_head + (k + 1)
                      ELSE write_head + (k + 1) - SendQueueLength
      BY <3>1, AtIs
    <3>. QED
      BY <1>2, <2>2, <3>1, <3>2, <3>3
  <2>4. RingInv(Frames)'
    <3>1. Unused \in [frame : Frames \cup {NoFrame}, offset : 0..(Pieces - 1)]
      BY <1>2 DEF Unused
    <3>2. writes' \in [Slots -> [frame : Frames \cup {NoFrame}, offset : 0..(Pieces - 1)]]
      BY <1>2, <2>1, <3>1
    <3>3. \A i \in Slots : writes'[i].offset = 0
      BY <1>2, <2>1 DEF RingInv, Unused
    <3>4. write_count' \in 0..SendQueueLength
      BY <1>2, <2>1
    <3>5. write_tail' = (write_head' + write_count') % SendQueueLength
      <4>1. write_count' \in 0..write_count' /\ write_count' + 1 = write_count
        BY <1>2, <2>1
      <4>. QED
        BY <1>2, <2>3, <4>1
    <3>6. \A k \in 0..write_count' - 1 :
            writes'[(write_head' + k) % SendQueueLength].frame \in Frames
      <4> TAKE k \in 0..write_count' - 1
      <4>1. /\ k \in 0..write_count' /\ k + 1 \in 0..write_count - 1
            /\ k + 1 \in 1..SendQueueLength - 1
        BY <1>2, <2>1
      <4>2. (write_head' + k) % SendQueueLength = At(k + 1)
        BY <2>3, <4>1
      <4>3. writes[At(k + 1)].frame \in Frames
        BY <4>1 DEF RingInv
      <4>4. At(k + 1) # write_head /\ At(k + 1) \in Slots
        BY <4>1, OthersElsewhere
      <4>. QED
        BY <1>2, <2>1, <4>2, <4>3, <4>4
    <3>. QED
      BY <1>2, <1>4, <2>2, <3>2, <3>3, <3>4, <3>5, <3>6 DEF RingInv, At
  <2>5. (/\ Waiting \in Seq(Frames) /\ Len(Waiting) = write_count
         /\ \A i \in 1..write_count :
              Waiting[i] = writes[(write_head + (i - 1)) % SendQueueLength].frame)'
    BY <2>4, WaitingType, PTL
  <2>6. \A i \in 1..write_count' : Waiting'[i] = Waiting[i + 1]
    <3> TAKE i \in 1..write_count'
    <3>1. /\ i - 1 \in 0..write_count' /\ (i - 1) + 1 = i /\ i + 1 \in 1..write_count
          /\ (i + 1) - 1 = i
          /\ i \in 0..SendQueueLength
      BY <1>2, <2>1
    <3>2. Waiting'[i] = writes'[At(i)].frame
      BY <2>3, <2>5, <3>1
    <3>3. Waiting[i + 1] = writes[At(i)].frame
      BY <1>5, <3>1
    <3>4. At(i) # write_head /\ At(i) \in Slots
      <4>1. i \in 1..SendQueueLength - 1
        BY <1>2, <2>1
      <4>. QED
        BY <4>1, OthersElsewhere
    <3>. QED
      BY <1>2, <2>1, <3>2, <3>3, <3>4
  <2>7. Waiting' = Tail(Waiting)
    <3>1. /\ Tail(Waiting) \in Seq(Frames) /\ Len(Tail(Waiting)) = write_count'
          /\ \A i \in 1..write_count' : Tail(Waiting)[i] = Waiting[i + 1]
      BY <1>2, <1>5, <1>7, <2>1
    <3>2. Waiting' \in Seq(Frames) /\ Len(Waiting') = write_count'
      BY <2>5
    <3>. QED
      BY <2>6, <3>1, <3>2, SameItems
  <2>8. (IF write_count' = 0 THEN 0 ELSE writes'[write_head'].offset) = 0
    BY <2>2, <2>4, <1>2, <2>1 DEF RingInv, Unused
  <2>. QED
    BY <1>9, <1>10, <2>4, <2>7, <2>8
<1>11. CASE pending.offset + n # Pieces
  <2>1. /\ writes' = [writes EXCEPT ![write_head].offset = @ + n]
        /\ write_head' = write_head /\ write_count' = write_count
    BY <1>1, <1>11
  <2>2. pending.offset + n \in 0..(Pieces - 1)
    <3>1. \A o \in 0..(Pieces - 1) : \A m \in 1..(Pieces - o) :
            o + m # Pieces => o + m \in 0..(Pieces - 1)
      BY TransportAssumption
    <3>. QED
      BY <1>3, <1>11, <3>1
  <2>3. RingInv(Frames)'
    <3>1. writes' = [writes EXCEPT ![write_head] =
                       [frame |-> pending.frame, offset |-> pending.offset + n]]
      BY <1>1, <1>2, <2>1
    <3>2. writes' \in [Slots -> [frame : Frames \cup {NoFrame}, offset : 0..(Pieces - 1)]]
      BY <1>2, <1>3, <2>2, <3>1
    <3>3. \A i \in Slots : i # write_head => writes'[i].offset = 0
      BY <1>2, <3>1 DEF RingInv
    <3>4. \A k \in 0..write_count - 1 :
            writes'[(write_head + k) % SendQueueLength].frame \in Frames
      <4> TAKE k \in 0..write_count - 1
      <4>1. k \in 0..SendQueueLength
        BY <1>2
      <4>2. writes[At(k)].frame \in Frames /\ At(k) \in Slots
        BY <4>1, AtIs DEF RingInv
      <4>. QED
        BY <1>2, <1>3, <3>1, <4>2 DEF At
    <3>. QED
      BY <1>2, <1>4, <2>1, <3>2, <3>3, <3>4 DEF RingInv, At
  <2>4. (/\ Waiting \in Seq(Frames) /\ Len(Waiting) = write_count
         /\ \A i \in 1..write_count :
              Waiting[i] = writes[(write_head + (i - 1)) % SendQueueLength].frame)'
    BY <2>3, WaitingType, PTL
  <2>5. \A i \in 1..write_count : Waiting'[i] = Waiting[i]
    <3> TAKE i \in 1..write_count
    <3>1. Waiting'[i] = writes'[At(i - 1)].frame /\ Waiting[i] = writes[At(i - 1)].frame
      BY <1>5, <2>1, <2>4 DEF At
    <3>2. At(i - 1) \in Slots
      <4>1. i - 1 \in 0..SendQueueLength
        BY <1>2
      <4>. QED
        BY <4>1, AtIs
    <3>. QED
      BY <1>2, <2>1, <3>1, <3>2
  <2>6. Waiting' = Waiting
    <3>1. Waiting' \in Seq(Frames) /\ Len(Waiting') = write_count
      BY <2>1, <2>4
    <3>. QED
      BY <1>5, <2>5, <3>1, SameItems
  <2>7. writes'[write_head'].offset = pending.offset + n
    BY <1>1, <1>2, <2>1
  <2>. QED
    <3>1. written' = pending.offset + n
      BY <1>2, <2>1, <2>7
    <3>. QED
      BY <1>9, <1>11, <2>3, <2>6, <3>1
<1>. QED
  BY <1>10, <1>11

\* The peer reads a piece, or loses what was on its way; the ring is not
\* touched.
LEMMA WireIsReceived ==
  ASSUME NEW Frames, RingInv(Frames), UNCHANGED ringVars,
         wire' \in {wire, <<>>} \/ (wire # <<>> /\ wire' = Tail(wire))
  PROVE  RingInv(Frames)' /\ QueueStep
<1>1. wire \in Seq(Frames \X (1..Pieces))
  BY DEF RingInv
<1>2. wire' \in Seq(Frames \X (1..Pieces))
      /\ \E n \in 0..Len(wire) : wire' = SubSeq(wire, n + 1, Len(wire))
  <2>1. CASE wire' = wire
    <3>1. 0 \in 0..Len(wire) /\ wire = SubSeq(wire, 0 + 1, Len(wire))
      BY <1>1
    <3>. QED
      BY <1>1, <2>1, <3>1
  <2>2. CASE wire' = <<>>
    <3>1. /\ Len(wire) \in 0..Len(wire) /\ <<>> = SubSeq(wire, Len(wire) + 1, Len(wire))
          /\ <<>> \in Seq(Frames \X (1..Pieces))
      BY <1>1
    <3>. QED
      BY <1>1, <2>2, <3>1
  <2>3. CASE wire # <<>> /\ wire' = Tail(wire)
    <3>1. 1 \in 0..Len(wire) /\ Tail(wire) = SubSeq(wire, 1 + 1, Len(wire))
          /\ Tail(wire) \in Seq(Frames \X (1..Pieces))
      BY <1>1, <2>3
    <3>. QED
      BY <2>3, <3>1
  <2>. QED
    BY <2>1, <2>2, <2>3
<1>3. RingInv(Frames)'
  BY <1>2 DEF RingInv, At, ringVars
<1>4. UNCHANGED Waiting
  BY DEF Waiting, ringVars
<1>. QED
  BY <1>2, <1>3, <1>4 DEF QueueStep, Ring!Received, ringVars

Cleared ==
  /\ writes = [i \in Slots |-> Unused]
  /\ write_head = 0 /\ write_tail = 0 /\ write_count = 0

LEMMA ClearedRing ==
  ASSUME NEW Frames, Cleared, wire = <<>>
  PROVE  RingInv(Frames)
<1>1. 0 \in Slots /\ 0 + 0 = 0 /\ 0 \in 0..SendQueueLength
  BY TransportAssumption DEF Slots
<1>2. 0 = (0 + 0) % SendQueueLength
  BY <1>1, PlaceIs, TransportAssumption
<1>3. Unused \in [frame : Frames \cup {NoFrame}, offset : 0..(Pieces - 1)]
  BY TransportAssumption DEF Unused
<1>4. 0..write_count - 1 = {} /\ wire \in Seq(Frames \X (1..Pieces))
  BY DEF Cleared
<1>. QED
  BY <1>1, <1>2, <1>3, <1>4 DEF Cleared, RingInv, Unused, At

LEMMA ClearedRingNext ==
  ASSUME NEW Frames
  PROVE  (Cleared /\ wire = <<>> => RingInv(Frames))'
<1>1. Cleared /\ wire = <<>> => RingInv(Frames)
  BY ClearedRing
<1>. QED
  BY <1>1, PTL

LEMMA RingGrows ==
  ASSUME NEW Frames, NEW More, Frames \subseteq More, RingInv(Frames)
  PROVE  RingInv(More)
<1>1. wire \in Seq(More \X (1..Pieces))
  BY DEF RingInv
<1>. QED
  BY <1>1 DEF RingInv

-----------------------------------------------------------------------------
(* The nonces.                                                             *)

\* What division leaves, and that nothing else is left.
LEMMA Divided ==
  ASSUME NEW n \in Nat \ {0}, NEW a \in Nat
  PROVE  /\ a % n \in 0..(n - 1) /\ a \div n \in Nat
         /\ a = n * (a \div n) + (a % n)
OBVIOUS

LEMMA RemainderIs ==
  ASSUME NEW n \in Nat \ {0}, NEW q \in Nat, NEW r \in 0..(n - 1)
  PROVE  (n * q + r) % n = r
OBVIOUS

\* What remains of a number that is a little larger.
LEMMA RemainderAfter ==
  ASSUME NEW n \in Nat \ {0}, NEW a \in Nat, NEW d \in 0..(n - 1)
  PROVE  /\ a % n \in 0..(n - 1)
         /\ (a + d) % n = IF (a % n) + d < n THEN (a % n) + d ELSE (a % n) + d - n
<1> DEFINE q == a \div n
           r == a % n
<1>1. q \in Nat /\ r \in 0..(n - 1) /\ a = n * q + r
  BY Divided
<1>2. \A p \in Nat, s \in 0..(n - 1) : (n * p + s) % n = s
  BY RemainderIs
<1> HIDE DEF q, r
<1>3. CASE r + d < n
  <2>1. a + d = n * q + (r + d) /\ r + d \in 0..(n - 1)
    BY <1>1, <1>3
  <2>. QED
    BY <1>1, <1>2, <1>3, <2>1 DEF r
<1>4. CASE r + d >= n
  <2>1. a + d = n * (q + 1) + (r + d - n) /\ r + d - n \in 0..(n - 1) /\ q + 1 \in Nat
    <3>1. n * (q + 1) = n * q + n /\ n * q \in Nat
      BY <1>1
    <3>. QED
      BY <1>1, <1>4, <3>1
  <2>2. (a + d) % n = r + d - n
    BY <1>2, <2>1
  <2>. QED
    BY <1>1, <1>4, <2>2 DEF r
<1>. QED
  BY <1>1, <1>3, <1>4 DEF r

\* Two sessions of one run with the same nonce are NonceRange sessions apart,
\* or one less if session_number wrapped between them.
LEMMA NoncesComeRound ==
  ASSUME NEW s, NEW t, s.count \in Nat \ {0}, t.count \in Nat,
         s.count < t.count, Nonce(s) = Nonce(t)
  PROVE  s.count + NonceRange - 1 <= t.count
<1> DEFINE n == NonceRange
           wrap == NumberRange - 1
           a == s.count - 1
           laps == NumberRange \div n
           d == t.count - s.count
           x == a % wrap
           y == (a + d) % wrap
<1>1. /\ n \in Nat \ {0, 1} /\ wrap \in Nat \ {0} /\ n - 1 <= wrap
      /\ a \in Nat /\ d \in Nat \ {0} /\ t.count - 1 = a + d
  BY DeviceLoopAssumption
<1>2. (1 + x) % n = (1 + y) % n
  BY <1>1 DEF Nonce, SessionNumber
<1>3. laps \in Nat /\ NumberRange = n * laps
  <2>1. laps \in Nat /\ NumberRange = n * laps + 0
    BY <1>1, DeviceLoopAssumption, Divided
  <2> HIDE DEF laps
  <2>. QED
    BY <1>1, <2>1
<1> SUFFICES ASSUME d < n - 1 PROVE FALSE
  BY <1>1
<1>4. d \in 0..(wrap - 1)
  BY <1>1
<1>5. x \in 0..(wrap - 1) /\ y = IF x + d < wrap THEN x + d ELSE x + d - wrap
  BY <1>1, <1>4, RemainderAfter
<1> HIDE DEF n, laps, x, y, wrap, d, a
<1>6. \A b \in Nat, e \in 1..(n - 1) : (b + e) % n # b % n
  <2> TAKE b \in Nat, e \in 1..(n - 1)
  <2>1. e \in 0..(n - 1) /\ n \in Nat \ {0} /\ e # 0
    BY <1>1
  <2>2. /\ b % n \in 0..(n - 1)
        /\ (b + e) % n = IF (b % n) + e < n THEN (b % n) + e ELSE (b % n) + e - n
    BY <2>1, RemainderAfter
  <2>. QED
    BY <2>1, <2>2
<1>7. CASE x + d < wrap
  <2>1. 1 + y = (1 + x) + d /\ d \in 1..(n - 1) /\ 1 + x \in Nat
    BY <1>1, <1>5, <1>7
  <2>. QED
    BY <1>2, <1>6, <2>1
<1>8. CASE x + d >= wrap
  <2>1. /\ (1 + y) + n * laps = (1 + x) + (d + 1)
        /\ d + 1 \in 1..(n - 1) /\ 1 + x \in Nat /\ 1 + y \in Nat
    BY <1>1, <1>3, <1>5, <1>8 DEF wrap
  <2>2. ((1 + y) + n * laps) % n = (1 + y) % n
    <3> DEFINE m == 1 + y
               q == m \div n
               r == m % n
    <3>1. n \in Nat \ {0} /\ m \in Nat
      BY <1>1, <2>1
    <3>2. q \in Nat /\ r \in 0..(n - 1) /\ m = n * q + r
      BY <3>1, Divided
    <3> HIDE DEF m, q, r
    <3>3. m + n * laps = n * (q + laps) + r /\ q + laps \in Nat
      BY <1>3, <3>1, <3>2
    <3>4. (m + n * laps) % n = r
      BY <3>1, <3>2, <3>3, RemainderIs
    <3>. QED
      BY <3>4 DEF m, r
  <2>3. ((1 + x) + (d + 1)) % n # (1 + x) % n
    BY <1>6, <2>1
  <2>. QED
    BY <1>2, <2>1, <2>2, <2>3
<1>. QED
  BY <1>1, <1>5, <1>7, <1>8

-----------------------------------------------------------------------------
(* The sessions.                                                           *)

Shown == connection_status = "connected" /\ handshake_complete

Sessions == [program : Nat, count : Nat]

\* The sessions begun so far, in this run of the program and in earlier ones.
Begun ==
  {s \in Sessions :
     \/ s.program < session.program
     \/ s.program = session.program /\ s.count \in 1..session.count}

Requests ==
  {HelloRequest(s) : s \in Begun} \cup {Ping(s) : s \in Begun}

\* What may wait in the ring or be on its way: an answer to a hello, of
\* whichever session, only while the handshake is shown.
Greeted == {s \in Begun : connected => Shown}

Answers ==
  {HelloResponse(HelloRequest(s)) : s \in Greeted} \cup {Pong(Ping(s)) : s \in Begun}

DeviceInv ==
  /\ session \in Sessions
  /\ phase # "down" => session.count # 0
  /\ client \in BOOLEAN /\ started \in BOOLEAN /\ connected \in BOOLEAN
  /\ toDevice \in Seq(Requests)
  /\ RingInv(Answers)
  /\ client => started
  /\ ~client => wire = <<>>
  /\ ~connected => Cleared
  /\ (client /\ ~connected) => (wire = <<>> /\ phase # "up")
  /\ AcceptedAnswerIsOurs
  /\ UsedSessionIsShown

\* The ring under any of its operations.
LEMMA RingKept ==
  ASSUME RingInv(Answers), Answers \subseteq Answers',
         \/ /\ UNCHANGED ringVars
            /\ wire' \in {wire, <<>>} \/ (wire # <<>> /\ wire' = Tail(wire))
         \/ ClearQueues /\ wire' \in {wire, <<>>}
         \/ \E answer \in Answers' : Enqueue(answer) /\ UNCHANGED wire
         \/ FlushWrite
  PROVE  RingInv(Answers)' /\ QueueStep
<1>1. PICK F : F = Answers
  OBVIOUS
<1>2. PICK G : G = Answers'
  OBVIOUS
<1>3. RingInv(G)
  <2>1. RingInv(F) /\ F \subseteq G
    BY <1>1, <1>2 DEF RingInv
  <2>. QED
    BY <2>1, RingGrows
<1>4. RingInv(G)' /\ QueueStep
  <2>1. CASE /\ UNCHANGED ringVars
             /\ wire' \in {wire, <<>>} \/ (wire # <<>> /\ wire' = Tail(wire))
    BY <1>3, <2>1, WireIsReceived
  <2>2. CASE ClearQueues /\ wire' \in {wire, <<>>}
    BY <1>3, <2>2, ClearIsDropAll
  <2>3. CASE \E answer \in Answers' : Enqueue(answer) /\ UNCHANGED wire
    BY <1>2, <1>3, <2>3, EnqueueIsAccept
  <2>4. CASE FlushWrite
    BY <1>3, <2>4, FlushIsHandOver
  <2>. QED
    BY <2>1, <2>2, <2>3, <2>4
<1>. QED
  BY <1>2, <1>4 DEF RingInv

LEMMA DeviceInitially == DeviceLoopInit => DeviceInv /\ Ring!QueueInit
<1> SUFFICES ASSUME DeviceLoopInit PROVE DeviceInv /\ Ring!QueueInit
  OBVIOUS
<1>1. PICK F : F = Answers
  OBVIOUS
<1>2. Ring!QueueInit /\ RingInv(F)
  BY RingInitially DEF DeviceLoopInit
<1>3. RingInv(Answers)
  BY <1>1, <1>2 DEF RingInv
<1>4. Cleared /\ toDevice \in Seq(Requests) /\ session \in Sessions
  BY DEF DeviceLoopInit, TransportInit, Cleared, NoSession, Sessions
<1>. QED
  BY <1>2, <1>3, <1>4
     DEF DeviceLoopInit, TransportInit, DeviceInv, AcceptedAnswerIsOurs, UsedSessionIsShown

\* What the host does that does not read an answer.
LEMMA HostKeeps ==
  ASSUME DeviceInv, HostConnects \/ HostEnds \/ ProgramStarts \/ LinkLost \/ HostPings
  PROVE  DeviceInv' /\ QueueStep
<1>1. CASE HostConnects
  <2>1. /\ session' = [session EXCEPT !.count = @ + 1]
        /\ connected' = connected /\ client' = TRUE
        /\ UNCHANGED <<connection_status, handshake_complete>>
    BY <1>1 DEF HostConnects, screenVars, loopVars
  <2>2. session' \in Sessions /\ session'.count # 0 /\ session' \in Begun' /\ Begun \subseteq Begun'
    BY <2>1 DEF DeviceInv, Sessions, Begun
  <2>3. Answers \subseteq Answers'
    BY <2>1, <2>2 DEF Answers, Greeted, Begun, Shown
  <2>4. UNCHANGED ringVars /\ wire' = wire /\ wire = <<>> /\ started' /\ started' = started
        /\ client' = TRUE
    BY <1>1 DEF HostConnects, DeviceInv
  <2>5. RingInv(Answers)' /\ QueueStep
    BY <2>3, <2>4, RingKept DEF DeviceInv
  <2>6. toDevice' \in Seq(Requests')
    BY <1>1, <2>1, <2>2 DEF HostConnects, Requests
  <2>7. phase' = "hello"
    BY <1>1 DEF HostConnects
  <2>. QED
    BY <2>1, <2>2, <2>4, <2>5, <2>6, <2>7
       DEF DeviceInv, AcceptedAnswerIsOurs, UsedSessionIsShown, ringVars, Cleared
<1>2. CASE HostEnds \/ LinkLost
  <2>1. /\ client' = FALSE /\ wire' = <<>> /\ toDevice' = <<>>
        /\ UNCHANGED <<started, connected, ringVars, screenVars, loopVars, session>>
        /\ phase' = "down" \/ UNCHANGED <<phase, answered>>
    BY <1>2 DEF HostEnds, LinkLost, LinkGone, SessionOver
  <2>2. Answers \subseteq Answers'
    BY <2>1 DEF Answers, Greeted, Begun, Shown, screenVars, loopVars
  <2>3. RingInv(Answers)' /\ QueueStep
    BY <2>1, <2>2, RingKept DEF DeviceInv
  <2>4. toDevice' \in Seq(Requests')
    BY <2>1
  <2>5. phase' = "up" => phase = "up" /\ answered' = answered
    BY <2>1
  <2>. QED
    BY <2>1, <2>3, <2>4, <2>5 DEF DeviceInv, AcceptedAnswerIsOurs, UsedSessionIsShown, ringVars, Cleared
<1>3. CASE HostPings
  <2>1. /\ toDevice' = Append(toDevice, Ping(session))
        /\ UNCHANGED <<transportVars, screenVars, loopVars, session, phase, answered>>
    BY <1>3 DEF HostPings
  <2>2. Answers' = Answers /\ Requests' = Requests
    BY <2>1 DEF Answers, Greeted, Begun, Shown, Requests, transportVars, screenVars, loopVars
  <2>3. RingInv(Answers)' /\ QueueStep
    BY <2>1, <2>2, RingKept DEF DeviceInv, transportVars
  <2>4. session \in Begun
    BY <1>3 DEF HostPings, DeviceInv, Begun, Sessions
  <2>5. toDevice' \in Seq(Requests')
    <3>1. Ping(session) \in Requests
      BY <2>4 DEF Requests
    <3>. QED
      BY <2>1, <2>2, <3>1 DEF DeviceInv
  <2>. QED
    BY <2>1, <2>3, <2>5
       DEF DeviceInv, AcceptedAnswerIsOurs, UsedSessionIsShown, ringVars, Cleared,
           transportVars, screenVars, loopVars
<1>4. CASE ProgramStarts
  <2>1. /\ session' = [program |-> session.program + 1, count |-> 0] /\ phase = "down"
        /\ UNCHANGED <<transportVars, screenVars, loopVars, toDevice, phase, answered>>
    BY <1>4 DEF ProgramStarts
  <2>2. session' \in Sessions /\ Begun \subseteq Begun'
    BY <2>1 DEF DeviceInv, Sessions, Begun
  <2>3. Answers \subseteq Answers' /\ Requests \subseteq Requests'
    BY <2>1, <2>2 DEF Answers, Greeted, Begun, Shown, Requests, transportVars, screenVars, loopVars
  <2>4. RingInv(Answers)' /\ QueueStep
    BY <2>1, <2>3, RingKept DEF DeviceInv, transportVars
  <2>5. toDevice' \in Seq(Requests')
    <3>1. toDevice \in Seq(Requests) /\ toDevice' = toDevice
      BY <2>1 DEF DeviceInv
    <3>. QED
      BY <2>3, <3>1
  <2>. QED
    BY <2>1, <2>2, <2>4, <2>5
       DEF DeviceInv, AcceptedAnswerIsOurs, UsedSessionIsShown, ringVars, Cleared,
           transportVars, screenVars, loopVars
<1>. QED
  BY <1>1, <1>2, <1>3, <1>4

\* A whole HELLO_RESP is accepted only if it has the nonce of this session,
\* and as it waited in the ring the handshake is shown.
LEMMA HostReadsKeeps ==
  ASSUME DeviceInv, HostReads
  PROVE  DeviceInv' /\ QueueStep
<1> DEFINE frame == Head(wire)[1]
<1>1. /\ client /\ wire # <<>> /\ connected /\ frame \in Answers
      /\ UNCHANGED <<started, connected, ringVars, screenVars, loopVars, session>>
      /\ wire' \in {Tail(wire), <<>>}
      /\ ~client' => wire' = <<>>
  <2>1. wire \in Seq(Answers \X (1..Pieces))
    BY DEF DeviceInv, RingInv
  <2>2. wire # <<>> /\ client
    BY DEF HostReads
  <2>3. Head(wire) \in Answers \X (1..Pieces)
    BY <2>1, <2>2
  <2>. QED
    BY <2>2, <2>3 DEF HostReads, DeviceInv
<1>2. \/ UNCHANGED <<phase, client, toDevice, answered>>
      \/ /\ phase' = "up" /\ answered' = frame.for
         /\ frame.type = "HELLO_RESP" /\ frame.nonce = Nonce(session) /\ phase # "down"
         /\ UNCHANGED <<client, toDevice>>
      \/ phase' = "down" /\ client' = FALSE /\ toDevice' = <<>>
  BY DEF HostReads, HostHears, SessionOver
<1>3. /\ Answers \subseteq Answers' /\ Requests' = Requests
      /\ client' \in BOOLEAN
      /\ client' => client
  BY <1>1, <1>2 DEF Answers, Greeted, Begun, Shown, screenVars, loopVars, Requests, DeviceInv
<1>4. RingInv(Answers)' /\ QueueStep
  BY <1>1, <1>3, RingKept DEF DeviceInv
<1>5. ASSUME frame.type = "HELLO_RESP", frame.nonce = Nonce(session), phase # "down"
      PROVE  /\ Shown
             /\ \/ frame.for = session
                \/ frame.for.program < session.program
                \/ frame.for.count + NonceRange - 1 <= session.count
  <2>1. PICK s \in Greeted : frame = HelloResponse(HelloRequest(s))
    <3>1. \A s : Pong(Ping(s)).type = "PONG"
      BY DEF Pong
    <3> HIDE DEF frame
    <3>. QED
      BY <1>1, <1>5, <3>1 DEF Answers
  <2>2. Shown /\ frame.for = s /\ Nonce(s) = Nonce(session)
    BY <1>1, <1>5, <2>1 DEF Greeted, HelloResponse, HelloRequest
  <2>3. CASE s.program < session.program
    BY <2>2, <2>3
  <2>4. CASE s.program = session.program /\ s.count \in 1..session.count
    <3>1. s \in Sessions /\ session \in Sessions
      BY <2>1 DEF DeviceInv, Greeted, Begun
    <3>2. CASE s.count = session.count
      <4>1. s = session
        BY <2>4, <3>1, <3>2 DEF Sessions
      <4>. QED
        BY <2>2, <4>1
    <3>3. CASE s.count # session.count
      <4>1. s.count \in Nat \ {0} /\ session.count \in Nat /\ s.count < session.count
        BY <2>4, <3>1, <3>3 DEF Sessions
      <4>2. s.count + NonceRange - 1 <= session.count
        BY <2>2, <4>1, NoncesComeRound
      <4>. QED
        BY <2>2, <4>2
    <3>. QED
      BY <3>2, <3>3
  <2>. QED
    BY <2>1, <2>3, <2>4 DEF Greeted, Begun
<1>6. AcceptedAnswerIsOurs' /\ UsedSessionIsShown'
  BY <1>1, <1>2, <1>3, <1>5
     DEF DeviceInv, AcceptedAnswerIsOurs, UsedSessionIsShown, Shown, screenVars, loopVars
<1>7. toDevice' \in Seq(Requests')
  <2>1. toDevice' = toDevice \/ toDevice' = <<>>
    BY <1>2
  <2>2. toDevice \in Seq(Requests) /\ <<>> \in Seq(Requests)
    BY DEF DeviceInv
  <2>. QED
    BY <1>3, <2>1, <2>2
<1>8. session' \in Sessions /\ (phase' # "down" => session'.count # 0)
  BY <1>1, <1>2 DEF DeviceInv
<1>. QED
  BY <1>1, <1>3, <1>4, <1>6, <1>7, <1>8 DEF DeviceInv, ringVars, Cleared

\* The poll that notices a new connection finds nothing of it in the ring.
LEMMA UpdateKeeps ==
  ASSUME DeviceInv, Update
  PROVE  DeviceInv' /\ QueueStep
<1>1. /\ connected' = (started /\ client)
      /\ IF connected /\ ~connected' THEN ClearQueues ELSE UNCHANGED ringVars
      /\ UNCHANGED <<client, started, wire, peerVars>>
  BY DEF Update, UpdateConnection
<1>2. connected' \in BOOLEAN /\ client' \in BOOLEAN /\ started' \in BOOLEAN
      /\ session' \in Sessions /\ (phase' # "down" => session'.count # 0)
      /\ (client' => started') /\ (~client' => wire' = <<>>)
  BY <1>1 DEF DeviceInv, peerVars
<1>3. toDevice' \in Seq(Requests')
  BY <1>1 DEF DeviceInv, peerVars, Requests, Begun
<1>4. AcceptedAnswerIsOurs' /\ (client' => connected')
  BY <1>1 DEF DeviceInv, peerVars, AcceptedAnswerIsOurs
<1>5. CASE connected' = connected
  <2>1. ~Edge /\ UNCHANGED ringVars
    BY <1>1, <1>5 DEF Edge
  <2>2. UNCHANGED <<connection_status, handshake_complete>>
    BY <2>1 DEF Update
  <2>3. Answers' = Answers
    BY <1>1, <1>5, <2>2 DEF Answers, Greeted, Begun, Shown, peerVars
  <2>4. RingInv(Answers)' /\ QueueStep
    BY <1>1, <2>1, <2>3, RingKept DEF DeviceInv
  <2>. QED
    BY <1>1, <1>2, <1>3, <1>4, <1>5, <2>1, <2>2, <2>4
       DEF DeviceInv, UsedSessionIsShown, peerVars, ringVars, Cleared
<1>6. CASE connected /\ ~connected'
  <2>1. ClearQueues /\ Answers \subseteq Answers'
    BY <1>1, <1>6 DEF Answers, Greeted, Begun, peerVars
  <2>2. RingInv(Answers)' /\ QueueStep
    BY <1>1, <2>1, RingKept DEF DeviceInv
  <2>3. Cleared' /\ UsedSessionIsShown'
    BY <1>6, <2>1 DEF Cleared, ClearQueues, UsedSessionIsShown
  <2>. QED
    BY <1>2, <1>3, <1>4, <2>2, <2>3 DEF DeviceInv
<1>7. CASE ~connected /\ connected'
  <2>1. /\ UNCHANGED ringVars /\ wire = <<>> /\ Cleared /\ phase # "up"
    BY <1>1, <1>7 DEF DeviceInv
  <2>2. (Cleared /\ wire = <<>>)'
    BY <1>1, <2>1 DEF Cleared, ringVars
  <2>3. RingInv(Answers)'
    <3>1. PICK G : G = Answers'
      OBVIOUS
    <3>2. RingInv(G)'
      BY <2>2, ClearedRingNext
    <3>. QED
      BY <3>1, <3>2 DEF RingInv
  <2>4. QueueStep
    BY <1>1, <2>1 DEF QueueStep, Ring!queueVars, Waiting, ringVars
  <2>. QED
    BY <1>1, <1>2, <1>3, <1>4, <1>7, <2>1, <2>2, <2>3, <2>4
       DEF DeviceInv, UsedSessionIsShown, peerVars
<1>. QED
  BY <1>2, <1>5, <1>6, <1>7 DEF DeviceInv

LEMMA FlushKeeps ==
  ASSUME DeviceInv, Flush
  PROVE  DeviceInv' /\ QueueStep
<1>1. /\ FlushWrite /\ connected /\ client
      /\ UNCHANGED <<client, started, connected, screenVars, loopVars, peerVars>>
  BY DEF Flush, FlushWrite
<1>2. Answers' = Answers /\ Requests' = Requests
  BY <1>1 DEF Answers, Greeted, Begun, Shown, Requests, screenVars, loopVars, peerVars
<1>3. RingInv(Answers)' /\ QueueStep
  BY <1>1, <1>2, RingKept DEF DeviceInv
<1>. QED
  BY <1>1, <1>2, <1>3
     DEF DeviceInv, AcceptedAnswerIsOurs, UsedSessionIsShown, screenVars, loopVars, peerVars

\* An answer enters the ring together with the handshake it stands for.
LEMMA HandleKeeps ==
  ASSUME DeviceInv, Handle
  PROVE  DeviceInv' /\ QueueStep
<1> DEFINE request == Head(toDevice)
           answer == IF request.type = "HELLO_REQ" THEN HelloResponse(request)
                     ELSE Pong(request)
<1>0. request \in Requests /\ (request.type = "HELLO_REQ" => Speaks(request))
  <2>1. request \in Requests
    BY DEF DeviceInv, Handle
  <2>2. (request.minimum = 1 /\ request.maximum = 1) \/ request.type = "PING"
    <3> HIDE DEF request
    <3>. QED
      BY <2>1 DEF Requests, HelloRequest, Ping
  <2>. QED
    BY <2>1, <2>2 DEF Speaks, ProtocolVersion
<1>1. /\ connected /\ toDevice # <<>> /\ toDevice' = Tail(toDevice)
      /\ UNCHANGED <<client, started, connected, wire, session, phase, answered>>
      /\ Enqueue(answer)
      /\ \/ UNCHANGED <<handshake_complete, connection_status>>
         \/ handshake_complete' = TRUE /\ connection_status' = "connected"
      /\ (request.type = "HELLO_REQ" /\ EnqueueAccepts) =>
           handshake_complete' = TRUE /\ connection_status' = "connected"
  BY <1>0 DEF Handle, HandleHello, HandlePing
<1>2. Answers \subseteq Answers' /\ Requests' = Requests /\ Begun' = Begun
  BY <1>1 DEF Answers, Greeted, Begun, Shown, Requests
<1>3. request \in Requests /\ toDevice' \in Seq(Requests')
  BY <1>0, <1>1, <1>2 DEF DeviceInv
<1> HIDE DEF request
<1>4. RingInv(Answers)' /\ QueueStep
  <2>1. CASE EnqueueAccepts
    <3>1. answer \in Answers'
      <4>1. CASE \E s \in Begun : request = HelloRequest(s)
        <5>1. PICK s \in Begun : request = HelloRequest(s)
          BY <4>1
        <5>2. s \in Greeted'
          BY <1>1, <1>2, <2>1, <5>1 DEF Greeted, Shown, HelloRequest
        <5>3. answer = HelloResponse(HelloRequest(s))
          BY <5>1 DEF HelloRequest
        <5>. QED
          BY <5>1, <5>2, <5>3 DEF Answers
      <4>2. CASE \E s \in Begun : request = Ping(s)
        <5>1. PICK s \in Begun : request = Ping(s)
          BY <4>2
        <5>2. answer = Pong(Ping(s)) /\ s \in Begun'
          BY <1>2, <5>1 DEF Ping
        <5>. QED
          BY <5>2 DEF Answers
      <4>. QED
        BY <1>3, <4>1, <4>2 DEF Requests
    <3>2. Enqueue(answer) /\ UNCHANGED wire
      BY <1>1
    <3> HIDE DEF answer
    <3>. QED
      BY <1>2, <3>1, <3>2, RingKept DEF DeviceInv
  <2>2. CASE ~EnqueueAccepts
    <3>1. UNCHANGED ringVars /\ wire' = wire
      BY <1>1, <2>2 DEF Enqueue
    <3>. QED
      BY <1>2, <3>1, RingKept DEF DeviceInv
  <2>. QED
    BY <2>1, <2>2
<1>. QED
  BY <1>1, <1>3, <1>4 DEF DeviceInv, AcceptedAnswerIsOurs, UsedSessionIsShown

\* The screens never take back what a handshake showed.
LEMMA ScreensKeep ==
  ASSUME DeviceInv, UNCHANGED <<transportVars, handshake_complete, peerVars>>,
         connection_status = "connected" <=> connection_status' = "connected"
  PROVE  DeviceInv' /\ QueueStep
<1>1. Answers' = Answers /\ Requests' = Requests
  BY DEF Answers, Greeted, Begun, Shown, Requests, transportVars, peerVars
<1>2. RingInv(Answers)' /\ QueueStep
  BY <1>1, RingKept DEF DeviceInv, transportVars
<1>. QED
  BY <1>1, <1>2 DEF DeviceInv, AcceptedAnswerIsOurs, UsedSessionIsShown, transportVars,
                    ringVars, peerVars, Cleared

LEMMA RestartKeeps ==
  ASSUME DeviceInv, NEW succeeds \in BOOLEAN, Reconnect(succeeds) \/ Restart(succeeds)
  PROVE  DeviceInv' /\ QueueStep
<1>1. /\ Restarted(succeeds) /\ toDevice' = <<>>
      /\ UNCHANGED <<session, phase, answered>>
  BY DEF Reconnect, Restart
<1>2. /\ started' = succeeds /\ connected' = FALSE /\ client' = FALSE /\ wire' = <<>>
      /\ ClearQueues
  BY <1>1 DEF Restarted
<1>3. Answers \subseteq Answers'
  BY <1>1, <1>2 DEF Answers, Greeted, Begun
<1>4. RingInv(Answers)' /\ QueueStep
  BY <1>2, <1>3, RingKept DEF DeviceInv
<1>5. Cleared'
  BY <1>2 DEF Cleared, ClearQueues
<1>. QED
  <2>1. toDevice' \in Seq(Requests')
    BY <1>1
  <2>. QED
    BY <1>1, <1>2, <1>4, <1>5, <2>1 DEF DeviceInv, AcceptedAnswerIsOurs, UsedSessionIsShown

LEMMA DeviceStep == DeviceInv /\ [DeviceLoopNext]_deviceLoopVars => DeviceInv' /\ QueueStep
<1> SUFFICES ASSUME DeviceInv, [DeviceLoopNext]_deviceLoopVars
             PROVE  DeviceInv' /\ QueueStep
  OBVIOUS
<1>1. CASE HostConnects \/ HostEnds \/ ProgramStarts \/ LinkLost \/ HostPings
  BY <1>1, HostKeeps
<1>2. CASE HostReads
  BY <1>2, HostReadsKeeps
<1>3. CASE Update
  BY <1>3, UpdateKeeps
<1>4. CASE Flush
  BY <1>4, FlushKeeps
<1>5. CASE Handle
  BY <1>5, HandleKeeps
<1>6. CASE FlushDone \/ ReadDone \/ NoJog
  BY <1>6, ScreensKeep DEF FlushDone, ReadDone, NoJog, screenVars
<1>7. CASE \E press \in Presses : Jog(press)
  BY <1>7, ScreensKeep
     DEF Jog, MainJog, SettingsJog, RestartJog, InfoJog, ShowError, Show, ErrorUnchanged
<1>8. CASE End
  BY <1>8, ScreensKeep DEF End, EndOfLoop, Expired
<1>9. CASE \E succeeds \in BOOLEAN : Reconnect(succeeds) \/ Restart(succeeds)
  BY <1>9, RestartKeeps
<1>10. CASE UNCHANGED deviceLoopVars
  BY <1>10, ScreensKeep DEF deviceLoopVars, screenVars, loopVars
<1>. QED
  BY <1>1, <1>2, <1>3, <1>4, <1>5, <1>6, <1>7, <1>8, <1>9, <1>10 DEF DeviceLoopNext

\* A session of the host is never served with an answer to another one of the
\* same run of the program that is fewer than NonceRange - 1 sessions old: not
\* even when the link was down for less than a loop, and the ring still holds
\* what was meant for the session before (spp_transport.cpp update, main.rs
\* run_spp_session_loop and run_spp_session: the nonce is the low half of a
\* number that grows with each session and wraps past 0).
THEOREM SessionsAreToldApart == DeviceLoopSpec => []AcceptedAnswerIsOurs
<1>1. DeviceInv => AcceptedAnswerIsOurs
  BY DEF DeviceInv
<1>. QED
  BY <1>1, DeviceInitially, DeviceStep, PTL DEF DeviceLoopSpec

\* While a host uses a session, the selector shows it as connected
\* (main.cpp handleProtocolFrame, loop).
THEOREM SessionsAreShown == DeviceLoopSpec => []UsedSessionIsShown
<1>1. DeviceInv => UsedSessionIsShown
  BY DEF DeviceInv
<1>. QED
  BY <1>1, DeviceInitially, DeviceStep, PTL DEF DeviceLoopSpec

\* The ring buffer of the transport implements the queue it promises: what is
\* accepted is written whole, once and in order, or dropped with all the rest
\* (spp_transport.cpp enqueue, flushWrites, clearQueues).
THEOREM TransportIsAQueue == DeviceLoopSpec => RingIsAQueue
<1>1. QueueStep => [\/ Ring!Accept \/ Ring!HandOver
                    \/ Ring!DropAll /\ wire' \in {wire, <<>>}
                    \/ Ring!Received]_(Ring!queueVars)
  BY DEF QueueStep
<1>. QED
  BY <1>1, DeviceInitially, DeviceStep, PTL DEF DeviceLoopSpec, RingIsAQueue, Ring!Queue

-----------------------------------------------------------------------------
(* The time of an error.                                                   *)

\* How far error_until_ms lies ahead follows from the loops it was shown for.
ErrorInv ==
  /\ overdue \in 0..ClockRange - 1
  /\ shownFor \in Int
  /\ (connection_status = "error" /\ shownFor >= 0) =>
       /\ screen_mode = "main" /\ error_message # "none"
       /\ shownFor <= ErrorTime
       /\ overdue = IF shownFor = ErrorTime THEN 0 ELSE ClockRange - ErrorTime + shownFor

\* The signed comparison tells the two seconds before from the time after.
LEMMA ExpiredWhenDue ==
  ASSUME ErrorInv, connection_status = "error", shownFor >= 0
  PROVE  Expired <=> shownFor = ErrorTime
<1>1. /\ ClockRange \in Nat /\ ErrorTime \in Nat \ {0} /\ 2 * ErrorTime < ClockRange
      /\ shownFor \in 0..ErrorTime
  BY ScreensAssumption DEF ErrorInv
<1>2. \A c \in Nat : 2 * (c \div 2) <= c /\ c < 2 * (c \div 2) + 2 /\ c \div 2 \in Nat
  OBVIOUS
<1>3. (overdue < ClockRange \div 2) <=> shownFor = ErrorTime
  BY <1>1, <1>2 DEF ErrorInv
<1>. QED
  BY <1>3 DEF Expired, ErrorInv

LEMMA ErrorShown ==
  ASSUME NEW message, message # "none", ShowError(message), screen_mode' = "main"
  PROVE  ErrorInv'
<1>1. (ClockRange - ErrorTime) % ClockRange = ClockRange - ErrorTime
      /\ ClockRange - ErrorTime \in 0..ClockRange - 1 /\ ErrorTime # 0 /\ 0 <= ErrorTime
  BY ScreensAssumption, SMT
<1>. QED
  BY <1>1, ScreensAssumption DEF ShowError, Until, ErrorInv

LEMMA ErrorInitially == DeviceLoopInit => ErrorInv
BY ScreensAssumption DEF DeviceLoopInit, ScreensInit, ErrorInv

LEMMA EndKeepsError ==
  ASSUME ErrorInv, EndOfLoop
  PROVE  ErrorInv'
<1>1. /\ overdue \in 0..ClockRange - 1 /\ ClockRange \in Nat /\ ErrorTime \in Nat \ {0}
      /\ 2 * ErrorTime < ClockRange /\ shownFor \in Int
  BY ScreensAssumption DEF ErrorInv
<1>2. (overdue + 1) % ClockRange = IF overdue + 1 = ClockRange THEN 0 ELSE overdue + 1
  BY <1>1, SMT
<1>3. overdue' \in 0..ClockRange - 1 /\ shownFor' \in Int
  BY <1>1, <1>2 DEF EndOfLoop
<1>4. CASE Expired
  BY <1>3, <1>4 DEF EndOfLoop, ErrorInv
<1>5. CASE ~Expired
  <2>1. SUFFICES ASSUME connection_status' = "error", shownFor' >= 0
                 PROVE  /\ screen_mode' = "main" /\ error_message' # "none"
                        /\ shownFor' <= ErrorTime
                        /\ overdue' = IF shownFor' = ErrorTime THEN 0
                                      ELSE ClockRange - ErrorTime + shownFor'
    BY <1>3 DEF ErrorInv
  <2>2. connection_status = "error" /\ shownFor >= 0
    BY <1>1, <1>5, <2>1 DEF EndOfLoop
  <2>3. shownFor # ErrorTime
    BY <1>5, <2>2, ExpiredWhenDue
  <2>4. /\ screen_mode = "main" /\ error_message # "none" /\ shownFor < ErrorTime
        /\ overdue = ClockRange - ErrorTime + shownFor
    BY <1>1, <2>2, <2>3 DEF ErrorInv
  <2>5. shownFor' = shownFor + 1 /\ overdue' = (overdue + 1) % ClockRange
        /\ UNCHANGED <<screen_mode, error_message>>
    BY <1>1, <1>5, <2>2, <2>4 DEF EndOfLoop
  <2>. QED
    BY <1>1, <1>2, <2>4, <2>5
<1>. QED
  BY <1>4, <1>5

LEMMA ErrorStep == ErrorInv /\ [DeviceLoopNext]_deviceLoopVars => ErrorInv'
<1> SUFFICES ASSUME ErrorInv, [DeviceLoopNext]_deviceLoopVars
             PROVE  ErrorInv'
  OBVIOUS
<1>1. CASE HostConnects \/ HostEnds \/ ProgramStarts \/ LinkLost \/ HostPings \/ HostReads \/ Flush
           \/ FlushDone \/ ReadDone \/ NoJog \/ UNCHANGED deviceLoopVars
  <2>1. UNCHANGED screenVars
    BY <1>1 DEF HostConnects, HostEnds, ProgramStarts, LinkLost, HostPings, HostReads, Flush,
                FlushDone, ReadDone, NoJog, deviceLoopVars
  <2>. QED
    BY <2>1 DEF screenVars, ErrorInv
<1>2. CASE Update
  BY <1>2, ScreensAssumption DEF Update, ErrorInv
<1>3. CASE Handle
  BY <1>3 DEF Handle, HandleHello, HandlePing, ErrorInv
<1>4. CASE \E press \in Presses : Jog(press)
  <2>1. PICK press \in Presses : MainJog(press) \/ SettingsJog(press) \/ RestartJog(press)
                                   \/ InfoJog(press)
    BY <1>4 DEF Jog
  <2>2. \/ ShowError("PC NOT CONNECTED") /\ screen_mode' = "main"
        \/ \E screen : Show(screen)
        \/ ErrorUnchanged /\ screen_mode' = screen_mode
    BY <2>1 DEF MainJog, SettingsJog, RestartJog, InfoJog
  <2>3. CASE ShowError("PC NOT CONNECTED") /\ screen_mode' = "main"
    BY <2>3, ErrorShown
  <2>4. CASE \E screen : Show(screen)
    BY <2>4 DEF Show, ErrorInv
  <2>5. CASE ErrorUnchanged /\ screen_mode' = screen_mode
    BY <2>5 DEF ErrorUnchanged, ErrorInv
  <2>. QED
    BY <2>2, <2>3, <2>4, <2>5
<1>5. CASE End
  BY <1>5, EndKeepsError DEF End
<1>6. CASE \E succeeds \in BOOLEAN : Reconnect(succeeds)
  <2>1. PICK succeeds \in BOOLEAN : Reconnect(succeeds)
    BY <1>6
  <2>2. CASE succeeds
    BY <2>1, <2>2 DEF Reconnect, ErrorInv
  <2>3. CASE ~succeeds
    <3>1. ShowError("SPP RESTART FAILED") /\ screen_mode' = "main"
      BY <2>1, <2>3 DEF Reconnect, RestartFailed
    <3>. QED
      BY <3>1, ErrorShown
  <2>. QED
    BY <2>2, <2>3
<1>7. CASE \E succeeds \in BOOLEAN : Restart(succeeds)
  <2>1. PICK succeeds \in BOOLEAN : Restart(succeeds)
    BY <1>7
  <2>2. CASE succeeds
    BY <2>1, <2>2, ScreensAssumption DEF Restart, ErrorInv
  <2>3. CASE ~succeeds
    <3>1. ShowError("SPP START FAILED") /\ screen_mode' = "main"
      BY <2>1, <2>3 DEF Restart
    <3>. QED
      BY <3>1, ErrorShown
  <2>. QED
    BY <2>2, <2>3
<1>. QED
  BY <1>1, <1>2, <1>3, <1>4, <1>5, <1>6, <1>7 DEF DeviceLoopNext

\* An error message stays for its two seconds, no more and no less, for any
\* width of the clock and wherever it wraps (main.cpp showError, loop).
THEOREM ErrorsLastTheirTime == DeviceLoopSpec => ErrorLastsItsTime
<1>1. ErrorInv =>
        ((End /\ connection_status = "error" /\ shownFor >= 0) =>
           (connection_status' = "disconnected" <=> shownFor = ErrorTime))
  BY ExpiredWhenDue DEF End, EndOfLoop
<1>2. ErrorInv =>
        [(End /\ connection_status = "error" /\ shownFor >= 0) =>
           (connection_status' = "disconnected" <=> shownFor = ErrorTime)]_deviceLoopVars
  BY <1>1
<1>. QED
  BY <1>2, ErrorInitially, ErrorStep, PTL DEF DeviceLoopSpec, ErrorLastsItsTime

=============================================================================
