------------------------------- MODULE Selector -------------------------------
(***************************************************************************)
(* The firmware around DeviceState (firmware/src/main.cpp): what it does   *)
(* with a connection edge, with each frame of the host and with the user's *)
(* input.  loop() is a single thread, so every handler is one step.        *)
(*                                                                         *)
(* Left out: which screen is shown (the user's operations are offered at   *)
(* any time), drawing, and serial logging.                                 *)
(***************************************************************************)
EXTENDS DeviceState, SppLink

VARIABLES
  started,           \* SppTransport::started_
  connected,         \* SppTransport::connected_
  handshakeComplete,
  connectionStatus   \* what the screen says: connected, disconnected or error

selectorVars == <<started, connected, handshakeComplete, connectionStatus>>
deviceVars == <<vars, selectorVars>>

SelectorInit ==
  /\ Init
  /\ started = TRUE
  /\ connected = FALSE
  /\ handshakeComplete = FALSE
  /\ connectionStatus = "Disconnected"

-----------------------------------------------------------------------------
(* SppTransport::update() and handleConnectionEvent().                     *)

ConnectedEdge ==
  /\ started /\ link /\ ~connected
  /\ connected' = TRUE
  /\ handshakeComplete' = FALSE
  /\ connectionStatus' = "Disconnected"
  /\ Clear
  /\ UNCHANGED <<started, linkVars>>

DisconnectedEdge ==
  /\ connected /\ ~link
  /\ connected' = FALSE
  /\ handshakeComplete' = FALSE
  /\ connectionStatus' = "Disconnected"
  /\ DisconnectSession
  /\ UNCHANGED <<started, linkVars>>

-----------------------------------------------------------------------------
(* handleProtocolFrame().                                                  *)

Receive(type) ==
  /\ connected /\ toDevice # <<>> /\ Head(toDevice).type = type
  /\ toDevice' = Tail(toDevice)
  /\ UNCHANGED <<link, started, connected>>

frame == Head(toDevice)

ProtocolVersion == 1

Speaks(hello) == hello.minimum <= ProtocolVersion /\ ProtocolVersion <= hello.maximum

\* A host that does not speak this version gets no answer.
HandleHello ==
  /\ Receive("HELLO_REQ")
  /\ IF Speaks(frame)
     THEN /\ toHost' = Sent(toHost, <<HelloResponse>>)
          /\ handshakeComplete' = TRUE
          /\ connectionStatus' = "Connected"
     ELSE UNCHANGED <<toHost, handshakeComplete, connectionStatus>>
  /\ UNCHANGED vars

\* Every session message before HELLO is dropped.
Ignored == UNCHANGED vars

HandleSyncBegin ==
  /\ Receive("SYNC_BEGIN")
  /\ \/ handshakeComplete /\ BeginSync(frame.generation, frame.counts)
     \/ ~handshakeComplete /\ Ignored
  /\ UNCHANGED <<toHost, handshakeComplete, connectionStatus>>

\* The generation an endpoint or current message carries is not looked at.
HandleEndpoint ==
  /\ Receive("ENDPOINT")
  /\ \/ handshakeComplete /\ AddEndpoint(frame.flow, frame.handle, frame.name)
     \/ ~handshakeComplete /\ Ignored
  /\ UNCHANGED <<toHost, handshakeComplete, connectionStatus>>

HandleCurrent ==
  /\ Receive("CURRENT")
  /\ \/ handshakeComplete /\ SetCurrent(frame.flow, frame.handles)
     \/ ~handshakeComplete /\ Ignored
  /\ UNCHANGED <<toHost, handshakeComplete, connectionStatus>>

\* A sync that does not commit is cancelled in the same step.
CommitRejected(generation) ==
  /\ CommitError(generation) # "None"
  /\ pending' = EmptySnapshot
  /\ syncInProgress' = FALSE
  /\ lastError' = CommitError(generation)
  /\ UNCHANGED <<active, expected, ready, setPending, awaitingSync, requestVars>>

HandleSyncEnd ==
  /\ Receive("SYNC_END")
  /\ \/ handshakeComplete /\ CommitAccepted(frame.generation)
     \/ handshakeComplete /\ CommitRejected(frame.generation)
     \/ ~handshakeComplete /\ CancelSync
  /\ UNCHANGED <<toHost, handshakeComplete, connectionStatus>>

\* The status of a result is only logged.
HandleSetResult ==
  /\ Receive("SET_RESULT")
  /\ \/ handshakeComplete /\ FinishSetRequest(frame.id)
     \/ ~handshakeComplete /\ Ignored
  /\ UNCHANGED <<toHost, handshakeComplete, connectionStatus>>

HandleFrame ==
  \/ HandleHello \/ HandleSyncBegin \/ HandleEndpoint \/ HandleCurrent
  \/ HandleSyncEnd \/ HandleSetResult

-----------------------------------------------------------------------------
(* The user.                                                               *)

\* LEFT and RIGHT on the main screen.
Turn(f, direction) ==
  /\ CycleCandidate(f, direction)
  /\ UNCHANGED <<linkVars, selectorVars>>

\* CENTER while the screen says connected: prepareSetRequest().
PressCenter(f) ==
  /\ connectionStatus = "Connected"
  /\ BeginSetRequest(f)
  /\ toHost' = IF setPending' /\ ~setPending
               THEN Sent(toHost, <<SetRequestFrame(request')>>) ELSE toHost
  /\ UNCHANGED <<link, toDevice, selectorVars>>

\* Mutant: the request that could not be queued stays outstanding.
PressCenterQueueFullKept(f) ==
  /\ connectionStatus = "Connected"
  /\ BeginSetRequestAccepted(f)
  /\ UNCHANGED <<linkVars, selectorVars>>

\* The same, with the send queue full: the request is cancelled at once, and
\* only its id is gone.
PressCenterQueueFull(f) ==
  /\ connectionStatus = "Connected"
  /\ BeginSetRequestError(f) = "None"
  /\ nextRequestId' = NextRequestId(nextRequestId)
  /\ lastError' = "None"
  /\ UNCHANGED <<active, syncVars, modeVars, pendingRequestId, request,
                 linkVars, selectorVars>>

\* CENTER while disconnected shows an error for two seconds.
PressCenterDisconnected ==
  /\ connectionStatus = "Disconnected"
  /\ connectionStatus' = "Error"
  /\ UNCHANGED <<vars, linkVars, started, connected, handshakeComplete>>

ErrorExpires ==
  /\ connectionStatus = "Error"
  /\ connectionStatus' = "Disconnected"
  /\ UNCHANGED <<vars, linkVars, started, connected, handshakeComplete>>

\* Mutant: the screen keeps saying connected after the transport was ended.
ReconnectKeepsStatus(restarted) ==
  /\ Clear
  /\ started' = restarted
  /\ connected' = FALSE
  /\ LinkCloses
  /\ UNCHANGED <<connectionStatus, handshakeComplete>>

\* Settings, item 0: the transport is ended and begun again.  No connection
\* event is seen for it, and handshakeComplete keeps its value.
Reconnect(restarted) ==
  /\ Clear
  /\ started' = restarted
  /\ connected' = FALSE
  /\ connectionStatus' = IF restarted THEN "Disconnected" ELSE "Error"
  /\ LinkCloses
  /\ UNCHANGED handshakeComplete

\* ESP.restart() and setup().
Restart(restarted) ==
  /\ Clear
  /\ started' = restarted
  /\ connected' = FALSE
  /\ handshakeComplete' = FALSE
  /\ connectionStatus' = IF restarted THEN "Disconnected" ELSE "Error"
  /\ LinkCloses
=============================================================================
