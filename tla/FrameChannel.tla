---------------------------- MODULE FrameChannel ----------------------------
(***************************************************************************)
(* What the two programs expect of the byte stream between them: the       *)
(* messages of the sender arrive once, in order and unchanged.  On a       *)
(* stream that is not what a sender wrote nothing is promised but that     *)
(* nothing already delivered is taken back.                                *)
(***************************************************************************)
EXTENDS Sequences, Integers

VARIABLES
  sent,       \* what the sender writes
  disturbed,  \* the stream holds anything but that and bytes without a magic
  delivered,
  open

channelVars == <<sent, disturbed, delivered, open>>

ChannelInit == delivered = <<>> /\ open = TRUE

Deliver ==
  /\ ~disturbed
  /\ \E n \in Len(delivered) + 1..Len(sent) : delivered' = SubSeq(sent, 1, n)
  /\ UNCHANGED <<sent, disturbed, open>>

Misread ==
  /\ disturbed
  /\ SubSeq(delivered', 1, Len(delivered)) = delivered
  /\ open' => open
  /\ UNCHANGED <<sent, disturbed>>

ChannelSafety == ChannelInit /\ [][Deliver \/ Misread]_channelVars
Channel == ChannelSafety /\ WF_channelVars(Deliver)
=============================================================================
