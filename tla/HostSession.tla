----------------------------- MODULE HostSession -----------------------------
(***************************************************************************)
(* The resident Windows program (windows/src/main.rs): run_spp_session and *)
(* what it calls.  It is one thread; Core Audio may change between any two *)
(* of its calls, so every call that reads or writes the audio devices is a *)
(* step of its own, while the frames of one list are sent in one step: the *)
(* host looks at nothing else in between.                                  *)
(*                                                                         *)
(* Time is left out: a debounce may end at any moment after the last       *)
(* event was taken from the queue.  Keepalive traffic is left out here.    *)
(***************************************************************************)
EXTENDS WindowsAudio, SppLink

CONSTANTS GenerationLimit \* the last generation before it wraps (2^32 - 1)

VARIABLES
  pc,          \* down, hello, loop, capture, set, apply
  purpose,     \* why a capture runs: initial, notified or result
  reads,       \* calls of the capture done so far
  capture,     \* what they returned
  snapshot,    \* the list last sent in this session
  hostGeneration,
  armed,       \* the debouncer holds events
  inbox,       \* messages read and not yet processed
  target       \* the endpoint a set request was resolved to

hostVars == <<pc, purpose, reads, capture, snapshot, hostGeneration, armed,
              inbox, target>>

NoSnapshot == [list |-> [f \in Flows |-> <<>>],
               defaults |-> [f \in Flows |-> NoDefaults],
               handles |-> [f \in Flows |-> NoRoles]]

Idle ==
  /\ pc = "down" /\ purpose = "initial" /\ reads = 0
  /\ capture = NoSnapshot /\ snapshot = NoSnapshot
  /\ hostGeneration = 0 /\ armed = FALSE /\ inbox = <<>> /\ target = NoId

HostInit == Idle

NextGeneration(g) == IF g = GenerationLimit THEN 1 ELSE g + 1

-----------------------------------------------------------------------------
(* Connecting.                                                             *)

\* run_spp_session_loop: events of the time between sessions are drained, the
\* transport is connected, HELLO_REQ is written.
HostConnect ==
  /\ pc = "down"
  /\ LinkOpens(<<HelloRequest>>)
  /\ queued' = FALSE
  /\ pc' = "hello"
  /\ UNCHANGED <<present, defaults, callback, changes, purpose, reads, capture,
                 snapshot, hostGeneration, armed, inbox, target>>

StartCapture(why) ==
  /\ pc' = "capture"
  /\ purpose' = why
  /\ reads' = 0
  /\ capture' = NoSnapshot

HostHelloResponse ==
  /\ pc = "hello" /\ toHost # <<>> /\ Head(toHost) = HelloResponse
  /\ toHost' = Tail(toHost)
  /\ hostGeneration' = 1
  /\ StartCapture("initial")
  /\ UNCHANGED <<link, toDevice, audioVars, snapshot, armed, inbox, target>>

\* The session ends with an error: everything it held is dropped.
SessionEnds ==
  /\ pc' = "down" /\ purpose' = "initial" /\ reads' = 0
  /\ capture' = NoSnapshot /\ snapshot' = NoSnapshot
  /\ hostGeneration' = 0 /\ armed' = FALSE /\ inbox' = <<>> /\ target' = NoId

\* The link is gone: the next read or write of the session fails.
HostNoticesLoss ==
  /\ pc \notin {"down", "apply"} /\ ~link
  /\ SessionEnds
  /\ UNCHANGED <<linkVars, audioVars>>

\* A Core Audio call of a capture fails, or no answer comes in time.
HostGivesUp ==
  /\ pc \in {"hello", "capture", "loop"} /\ link
  /\ SessionEnds
  /\ LinkCloses
  /\ UNCHANGED audioVars

-----------------------------------------------------------------------------
(* capture_audio_snapshot and send_audio_snapshot.                         *)

\* The collection of each flow, then the default of each flow and role.
ReadOrder ==
  << <<"list", "output">>, <<"list", "input">>,
     <<"console", "output">>, <<"multimedia", "output">>, <<"communications", "output">>,
     <<"console", "input">>, <<"multimedia", "input">>, <<"communications", "input">> >>

CaptureStep ==
  /\ pc = "capture" /\ reads < Len(ReadOrder)
  /\ reads' = reads + 1
  /\ LET what == ReadOrder[reads + 1][1]
         f    == ReadOrder[reads + 1][2]
     IN  capture' =
           IF what = "list"
           THEN [capture EXCEPT !.list[f] = Enumerated(f)]
           ELSE [capture EXCEPT
                   !.defaults[f][what] = defaults[f][what],
                   !.handles[f][what] = HandleIn(capture.list[f], defaults[f][what])]
  /\ UNCHANGED <<linkVars, audioVars, pc, purpose, snapshot, hostGeneration,
                 armed, inbox, target>>

\* Mutant: handles start at 0.
EndpointRecordsFromZero(f, list) ==
  [i \in DOMAIN list |-> EndpointRecord(f, i - 1, list[i])]

EndpointRecords(f, list) ==
  [i \in DOMAIN list |-> EndpointRecord(f, i, list[i])]

SyncFrames(s, generation) ==
  << SyncBegin(generation, [f \in Flows |-> Len(s.list[f])]) >>
  \o EndpointRecords("output", s.list["output"])
  \o EndpointRecords("input", s.list["input"])
  \o << CurrentHandles("output", s.handles["output"]),
        CurrentHandles("input", s.handles["input"]),
        SyncEnd(generation) >>

\* Mutant: a changed list is sent under the generation of the last one.
CaptureGenerationUnchanged == hostGeneration

\* An initial sync and the sync that follows a result have their generation
\* already; a changed list takes the next one.
CaptureGeneration ==
  IF purpose = "notified" THEN NextGeneration(hostGeneration) ELSE hostGeneration

\* After a notification the capture is sent only if it differs from the list
\* last sent; otherwise it is always sent.
CaptureDone ==
  /\ pc = "capture" /\ reads = Len(ReadOrder) /\ link
  /\ IF purpose # "notified" \/ capture # snapshot
     THEN /\ toDevice' = toDevice \o SyncFrames(capture, CaptureGeneration)
          /\ hostGeneration' = CaptureGeneration
     ELSE UNCHANGED <<toDevice, hostGeneration>>
  /\ snapshot' = capture
  /\ capture' = NoSnapshot
  /\ reads' = 0
  /\ pc' = IF inbox # <<>> THEN "set" ELSE "loop"
  /\ UNCHANGED <<link, toHost, audioVars, purpose, armed, inbox, target>>

-----------------------------------------------------------------------------
(* One iteration of the session loop: messages are read first, then the    *)
(* notifications are drained and a due debounce is served, and only then   *)
(* are the messages processed.  An event that was just drained starts the  *)
(* debounce anew, so it is not due.                                        *)

ArmedAfter(due) == (armed \/ queued) /\ ~due

Poll(receive, due) ==
  /\ pc = "loop" /\ link
  /\ receive => toHost # <<>>
  /\ due => armed /\ ~queued
  /\ receive \/ due \/ queued
  /\ inbox' = IF receive THEN toHost ELSE <<>>
  /\ toHost' = IF receive THEN <<>> ELSE toHost
  /\ queued' = FALSE
  /\ armed' = ArmedAfter(due)
  /\ \/ due /\ StartCapture("notified")
     \/ /\ ~due
        /\ pc' = IF receive THEN "set" ELSE "loop"
        /\ UNCHANGED <<purpose, reads, capture>>
  /\ UNCHANGED <<link, toDevice, present, defaults, callback, changes, snapshot,
                 hostGeneration, target>>

-----------------------------------------------------------------------------
(* handle_set_request.                                                     *)

setRequest == Head(inbox).request

\* The result is written, the generation moves on, the full sync is captured.
Reply(status) ==
  /\ toDevice' = Append(toDevice,
                   SetResultFrame(setRequest.id, status, hostGeneration))
  /\ hostGeneration' = NextGeneration(hostGeneration)
  /\ inbox' = Tail(inbox)
  /\ target' = NoId
  /\ StartCapture("result")
  /\ UNCHANGED <<link, toHost, snapshot, armed>>

RejectStale ==
  /\ pc = "set" /\ link
  /\ setRequest.generation # hostGeneration
  /\ Reply("STALE_GENERATION")
  /\ UNCHANGED audioVars

\* The handle is looked up in a new enumeration.
ResolveHandle ==
  /\ pc = "set" /\ link
  /\ setRequest.generation = hostGeneration
  /\ setRequest.handle \in DOMAIN Enumerated(setRequest.flow)
  /\ target' = Enumerated(setRequest.flow)[setRequest.handle]
  /\ pc' = "apply"
  /\ UNCHANGED <<linkVars, audioVars, purpose, reads, capture, snapshot,
                 hostGeneration, armed, inbox>>

RejectHandle ==
  /\ pc = "set" /\ link
  /\ setRequest.generation = hostGeneration
  /\ setRequest.handle \notin DOMAIN Enumerated(setRequest.flow)
  /\ Reply("INVALID_HANDLE")
  /\ UNCHANGED audioVars

\* The default is set for the three roles, unless it is that already, and read
\* back.  An endpoint that is gone cannot be set.
Apply(reached) ==
  LET f == setRequest.flow
      already == \A r \in Roles : defaults[f][r] = target
      status  == IF \A r \in Roles : defaults'[f][r] = target
                 THEN "SUCCESS" ELSE "FAILED"
  IN
  /\ pc = "apply"
  /\ reached # {} => target \in present[f] /\ ~already
  /\ SetDefaults(f, target, reached)
  /\ \/ link /\ Reply(status)
     \/ ~link /\ SessionEnds /\ UNCHANGED linkVars

HostStep ==
  \/ HostHelloResponse \/ HostNoticesLoss \/ CaptureStep \/ CaptureDone
  \/ \E receive, due \in BOOLEAN : Poll(receive, due)
  \/ RejectStale \/ ResolveHandle \/ RejectHandle
  \/ \E reached \in RoleOutcomes : Apply(reached)
=============================================================================
