---------------------------- MODULE ProtocolFrame ----------------------------
(***************************************************************************)
(* A frame: six bytes of header and a payload (windows/src/protocol/       *)
(* frame.rs, firmware/src/protocol/frame.cpp).                             *)
(***************************************************************************)
EXTENDS Integers, Sequences

CONSTANTS
  Base,                 \* values of a byte: 256 in the code
  MaximumPayloadLength  \* 512

\* The length of a payload takes two bytes.
ASSUME FrameAssumption ==
  /\ Base \in Nat /\ Base > 127
  /\ MaximumPayloadLength \in Nat /\ MaximumPayloadLength < Base * Base

Bytes        == 0..(Base - 1)
Magic        == <<65, 83>>
HeaderLength == 6

Frame   == [version : Bytes, type : Bytes, payload : Seq(Bytes)]
NoFrame == [version |-> 0, type |-> 0, payload |-> <<>>]

\* Frame::new: a payload that is too long makes no frame.
Framed(version, type, payload) ==
  IF Len(payload) > MaximumPayloadLength THEN NoFrame
  ELSE [version |-> version, type |-> type, payload |-> payload]

FrameBytes(frame) ==
  Magic \o <<frame.version, frame.type, Len(frame.payload) % Base,
             Len(frame.payload) \div Base>> \o frame.payload
=============================================================================
