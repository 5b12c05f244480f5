----------------------------- MODULE StreamParser -----------------------------
(***************************************************************************)
(* Cutting the byte stream into frames: StreamParser of both programs      *)
(* (windows/src/protocol/parser.rs, firmware/src/protocol/parser.cpp).     *)
(* push appends what was read to the buffer and then takes frames off its  *)
(* front until what is left is no complete frame; every iteration of its   *)
(* loop is a step here.                                                    *)
(***************************************************************************)
EXTENDS ProtocolFrame

CONSTANTS
  ReceiveBufferLength,  \* 2048
  ReadLength            \* the most one read gives: 518 (Windows), 128 (firmware)

\* What is left after a push and the next read fit the buffer.
ASSUME ParserAssumption ==
  /\ ReceiveBufferLength \in Nat /\ ReadLength \in Nat \ {0}
  /\ HeaderLength + MaximumPayloadLength - 1 + ReadLength <= ReceiveBufferLength

VARIABLES
  buffer,
  phase,   \* "idle", "parsing", or "parsed": the result is to be consumed
  batch,   \* the frames this push found
  flawed   \* this push met an error

parserVars == <<buffer, phase, batch, flawed>>

ParserInit ==
  /\ buffer = <<>> /\ phase = "idle"
  /\ batch = <<>> /\ flawed = FALSE

Overflows(bytes) == Len(buffer) + Len(bytes) > ReceiveBufferLength

Push(bytes) ==
  /\ phase = "idle"
  /\ batch' = <<>>
  /\ flawed' = Overflows(bytes)
  /\ buffer' = IF Overflows(bytes) THEN <<>> ELSE buffer \o bytes
  /\ phase'  = IF Overflows(bytes) THEN "parsed" ELSE "parsing"

MagicAt(b, i) == i + 1 \in DOMAIN b /\ b[i] = Magic[1] /\ b[i + 1] = Magic[2]

\* Mutant: a magic cut in two by the end of a read is lost.
DiscardedWithoutPrefix(b) ==
  IF \E i \in DOMAIN b : MagicAt(b, i)
  THEN LET first == CHOOSE i \in DOMAIN b :
                      /\ MagicAt(b, i)
                      /\ \A j \in DOMAIN b : MagicAt(b, j) => i <= j
       IN  SubSeq(b, first, Len(b))
  ELSE <<>>

\* discard_before_magic: everything before the first magic goes; without one,
\* everything but a last byte that may be the start of one.
Discarded(b) ==
  IF \E i \in DOMAIN b : MagicAt(b, i)
  THEN LET first == CHOOSE i \in DOMAIN b :
                      /\ MagicAt(b, i)
                      /\ \A j \in DOMAIN b : MagicAt(b, j) => i <= j
       IN  SubSeq(b, first, Len(b))
  ELSE IF b # <<>> /\ b[Len(b)] = Magic[1] THEN <<Magic[1]>>
  ELSE <<>>

\* The payload length in the header, little-endian.
Announced(b) == b[5] + b[6] * Base

\* Mutant: the announced length is believed, whatever it is.
OversizedNever(b) == FALSE

Short(b)      == Len(b) < HeaderLength
Oversized(b)  == Announced(b) > MaximumPayloadLength
Incomplete(b) == Len(b) < HeaderLength + Announced(b)

\* The loop ends: the rest waits for the next read.
Await ==
  LET b == Discarded(buffer) IN
  /\ phase = "parsing"
  /\ ~Short(b) => ~Oversized(b) /\ Incomplete(b)
  /\ buffer' = b /\ phase' = "parsed"
  /\ UNCHANGED <<batch, flawed>>

\* Mutant: the byte that led to the impossible length is not removed.
SkipNothing ==
  LET b == Discarded(buffer) IN
  /\ phase = "parsing" /\ ~Short(b) /\ Oversized(b)
  /\ buffer' = b
  /\ flawed' = TRUE
  /\ UNCHANGED <<phase, batch>>

\* A length that cannot be: the search goes on one byte further.
Skip ==
  LET b == Discarded(buffer) IN
  /\ phase = "parsing" /\ ~Short(b) /\ Oversized(b)
  /\ buffer' = Tail(b)
  /\ flawed' = TRUE
  /\ UNCHANGED <<phase, batch>>

Take ==
  LET b   == Discarded(buffer)
      end == HeaderLength + Announced(b)
  IN
  /\ phase = "parsing" /\ ~Short(b) /\ ~Oversized(b) /\ ~Incomplete(b)
  /\ batch' = Append(batch, [version |-> b[3], type |-> b[4],
                             payload |-> SubSeq(b, HeaderLength + 1, end)])
  /\ buffer' = SubSeq(b, end + 1, Len(b))
  /\ UNCHANGED <<phase, flawed>>

Parse == Await \/ Skip \/ Take

\* The caller of push has dealt with the result.
Consumed ==
  /\ phase = "parsed" /\ phase' = "idle"
  /\ batch' = <<>> /\ flawed' = FALSE
  /\ UNCHANGED buffer

\* The parser under any sequence of reads.
ParserNext ==
  \/ \E bytes \in UNION {[1..n -> Bytes] : n \in 1..ReadLength} : Push(bytes)
  \/ Parse \/ Consumed

ParserSpec == ParserInit /\ [][ParserNext]_parserVars

ParserTypeOK ==
  /\ buffer \in Seq(Bytes)
  /\ phase \in {"idle", "parsing", "parsed"}
  /\ batch \in Seq(Frame)
  /\ flawed \in BOOLEAN

\* Between two reads the buffer holds less than one frame of the largest size,
\* so the next read always fits: the overflow branch of push never runs, and no
\* frame that was received whole is ever thrown away with the buffer.
NextReadFits ==
  phase # "parsing" => Len(buffer) + ReadLength <= ReceiveBufferLength
=============================================================================
