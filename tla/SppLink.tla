------------------------------- MODULE SppLink -------------------------------
(***************************************************************************)
(* The Bluetooth Serial Port link between the PC and the selector, as both *)
(* ends use it: bytes arrive complete and in order while the link is up,   *)
(* and what is under way is lost with the link.  The unit is a whole frame;*)
(* how frames are cut into bytes and put together again is not visible     *)
(* here.                                                                   *)
(***************************************************************************)
EXTENDS AudioTypes, Sequences

VARIABLES
  link,     \* the RFCOMM connection is up
  toDevice, \* frames sent by the host, not yet handled by the firmware
  toHost    \* frames queued by the firmware, not yet read by the host

linkVars == <<link, toDevice, toHost>>

LinkInit == link = FALSE /\ toDevice = <<>> /\ toHost = <<>>

LinkOpens(first) ==
  /\ ~link
  /\ link' = TRUE
  /\ toDevice' = first
  /\ toHost' = <<>>

LinkCloses ==
  /\ link' = FALSE
  /\ toDevice' = <<>>
  /\ toHost' = <<>>

\* What the channels become when frames are written to a link that may be gone.
Sent(channel, frames) == IF link THEN channel \o frames ELSE channel

\* The frames of the protocol that matter to the session.
HelloRequest == [type |-> "HELLO_REQ", minimum |-> 1, maximum |-> 1]
HelloResponse == [type |-> "HELLO_RESP"]
SyncBegin(generation, counts) ==
  [type |-> "SYNC_BEGIN", generation |-> generation, counts |-> counts]
EndpointRecord(f, handle, name) ==
  [type |-> "ENDPOINT", flow |-> f, handle |-> handle, name |-> name]
CurrentHandles(f, handles) ==
  [type |-> "CURRENT", flow |-> f, handles |-> handles]
SyncEnd(generation) == [type |-> "SYNC_END", generation |-> generation]
SetRequestFrame(r) == [type |-> "SET_REQ", request |-> r]
SetResultFrame(id, status, generation) ==
  [type |-> "SET_RESULT", id |-> id, status |-> status,
   knownGeneration |-> generation]
=============================================================================
