-------------------------------- MODULE Wire --------------------------------
(***************************************************************************)
(* One direction of the byte stream: what one program encodes, the radio   *)
(* cuts into reads, and the other program parses and decodes.  The device  *)
(* deals with every frame it finds by itself; the host gives the session   *)
(* up as soon as a read has an error or a frame it cannot decode           *)
(* (receive_messages).                                                     *)
(*                                                                         *)
(* The stream is a message that may be malformed, or noise, followed by a  *)
(* message: enough for the parser to lose and to find its place again.     *)
(***************************************************************************)
EXTENDS MessageCodec, StreamParser

CONSTANTS
  Messages,   \* messages the senders can encode
  Followers,  \* messages that come second
  Noise,      \* byte sequences no sender writes
  Slips,      \* what a byte of a malformed message is replaced by
  ReadSizes   \* how much a read may give: at most ReadLength

ASSUME WireAssumption ==
  /\ ReadSizes \subseteq 1..ReadLength
  /\ Followers \subseteq Messages
  /\ \A m \in Messages :
       /\ m \in [type : Types, fields : Seq(Nat), text : Seq(Bytes)]
       /\ Len(m.fields) = Len(HostWrites[m.type]) /\ HostEncode(m) # NoFrame
  /\ Noise \subseteq Seq(Bytes) /\ Slips \subseteq Bytes

VARIABLES
  receiver,   \* "host" or "device"
  sent,       \* the messages in the stream, as sent
  disturbed,  \* the stream holds something else too
  stream,
  position,   \* bytes read so far
  taken,      \* every frame cut out of the stream
  delivered,  \* the messages the receiver acted upon
  open        \* the session goes on

wireVars == <<receiver, sent, disturbed, stream, position, taken, delivered, open,
              parserVars>>

\* What the other program writes, and what this one makes of a frame.
Sent(side, m) == FrameBytes(IF side = "host" THEN FirmwareEncode(m) ELSE HostEncode(m))
Received(side, frame) ==
  IF side = "host" THEN HostDecode(frame) ELSE FirmwareDecode(frame)

Quiet(bytes) == \A i \in DOMAIN bytes : ~MagicAt(bytes, i)

StreamInit(first, second, messages, isDisturbed) ==
  /\ stream = first \o second
  /\ sent = messages
  /\ disturbed = isDisturbed

WireInit ==
  /\ ParserInit
  /\ position = 0 /\ taken = <<>> /\ delivered = <<>> /\ open = TRUE
  /\ receiver \in {"host", "device"}
  /\ \E m \in Followers :
       \/ \E first \in Messages :
            StreamInit(Sent(receiver, first), Sent(receiver, m), <<first, m>>, FALSE)
       \/ \E noise \in Noise :
            StreamInit(noise, Sent(receiver, m), <<m>>, ~Quiet(noise))
       \/ \E first \in Messages, slip \in Slips :
            \E i \in DOMAIN Sent(receiver, first) :
              /\ Sent(receiver, first)[i] # slip
              /\ StreamInit([Sent(receiver, first) EXCEPT ![i] = slip],
                            Sent(receiver, m), <<m>>, TRUE)

Read ==
  /\ open /\ position < Len(stream)
  /\ \E n \in ReadSizes :
       LET end == IF position + n < Len(stream) THEN position + n ELSE Len(stream)
       IN  /\ Push(SubSeq(stream, position + 1, end))
           /\ position' = end
  /\ UNCHANGED <<receiver, sent, disturbed, stream, taken, delivered, open>>

Cut ==
  /\ Parse
  /\ UNCHANGED <<receiver, sent, disturbed, stream, position, taken, delivered, open>>

Decoded == [i \in DOMAIN batch |-> Received(receiver, batch[i])]
Accepted(messages) ==
  LET among[n \in 0..Len(messages)] ==   \* the first n
        IF n = 0 THEN <<>>
        ELSE IF messages[n] = NoMessage THEN among[n - 1]
        ELSE Append(among[n - 1], messages[n])
  IN  among[Len(messages)]

HostActs ==
  LET sound == ~flawed /\ \A i \in DOMAIN Decoded : Decoded[i] # NoMessage IN
  /\ receiver = "host" /\ Consumed
  /\ open' = sound
  /\ delivered' = IF sound THEN delivered \o Decoded ELSE delivered
  /\ taken' = taken \o batch
  /\ UNCHANGED <<receiver, sent, disturbed, stream, position>>

\* Mutant: what follows a bad frame in the same read is lost.
DeviceStopsAtBad ==
  /\ receiver = "device" /\ Consumed
  /\ LET bad == {i \in DOMAIN Decoded : Decoded[i] = NoMessage}
     IN  \E n \in 0..Len(batch) :
           /\ \A i \in bad : n < i
           /\ n = Len(batch) \/ n + 1 \in bad
           /\ delivered' = delivered \o SubSeq(Decoded, 1, n)
  /\ taken' = taken \o batch
  /\ UNCHANGED <<receiver, sent, disturbed, stream, position, open>>

DeviceActs ==
  /\ receiver = "device" /\ Consumed
  /\ delivered' = delivered \o Accepted(Decoded)
  /\ taken' = taken \o batch
  /\ UNCHANGED <<receiver, sent, disturbed, stream, position, open>>

WireNext == Read \/ Cut \/ HostActs \/ DeviceActs

\* Both programs read in a loop, and what was written is there to be read.
WireSpec == WireInit /\ [][WireNext]_wireVars /\ WF_wireVars(WireNext)

-----------------------------------------------------------------------------
(* The frames of a stream, without a buffer: a frame starts at a magic that *)
(* a possible length follows, and the search goes on behind it, or one byte *)
(* further where there is none.                                             *)

FramesOf(bytes) ==
  LET Header(i)  == MagicAt(bytes, i) /\ i + HeaderLength - 1 <= Len(bytes)
      Length(i)  == bytes[i + 4] + bytes[i + 5] * Base
      End(i)     == i + HeaderLength + Length(i) - 1
      Cuttable(i) == Header(i) /\ Length(i) <= MaximumPayloadLength
      from[k \in 0..Len(bytes)] ==   \* the frames of the last k bytes
        LET i == Len(bytes) - k + 1 IN
        IF k = 0 THEN <<>>
        ELSE IF Cuttable(i)
        THEN IF End(i) > Len(bytes) THEN <<>>
             ELSE <<[version |-> bytes[i + 2], type |-> bytes[i + 3],
                     payload |-> SubSeq(bytes, i + HeaderLength, End(i))]>>
                  \o from[Len(bytes) - End(i)]
        ELSE IF MagicAt(bytes, i) /\ ~Header(i) THEN <<>>
        ELSE from[k - 1]
  IN  from[Len(bytes)]

\* How the radio cuts the stream into reads makes no difference: after every
\* read, what was cut out is what a reader of the whole stream would find
\* (push and its buffer against the reference above).
CutDoesNotMatter ==
  phase = "idle" => taken = FramesOf(SubSeq(stream, 1, position))

\* A frame either program acts upon is, byte for byte, what the other program
\* writes for that message: a decoder ignores nothing it was sent, so a message
\* that was damaged or made up is never taken for one of the protocol's.
AcceptedIsEncoded ==
  \A i \in DOMAIN taken :
    /\ HostDecode(taken[i]) # NoMessage =>
         FirmwareEncode(HostDecode(taken[i])) = taken[i]
    /\ FirmwareDecode(taken[i]) # NoMessage =>
         HostEncode(FirmwareDecode(taken[i])) = taken[i]

\* While it goes on, a program acts upon every frame it understands, once and
\* in the order they came, whatever lies between them; one that stopped has
\* acted upon nothing behind the first frame it did not understand
\* (handleProtocolFrame of each frame of an update, receive_messages).
\* protocol.md:73 has every receiver go on; the host does not.
UnderstoodIsActedUpon ==
  LET understood == [i \in DOMAIN taken |-> Received(receiver, taken[i])]
  IN  /\ open => delivered = Accepted(understood)
      /\ ~open => delivered = SubSeq(understood, 1, Len(delivered))

\* The loop of push ends on every input.
ParserTerminates == phase = "parsing" ~> phase # "parsing"

\* A message arrives whole and in order, whatever is read at a time; noise
\* without a magic before it, even one that ends in half a magic, costs nothing.
Promise == INSTANCE FrameChannel
ImplementsChannel == Promise!Channel
=============================================================================
