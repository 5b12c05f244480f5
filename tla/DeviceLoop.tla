------------------------------ MODULE DeviceLoop ------------------------------
(***************************************************************************)
(* The firmware's loop() around its transport and its screens, against a   *)
(* host that connects, says hello and pings, gives up and comes again.     *)
(* The link may go down and up between two polls: then the firmware sees   *)
(* no edge, keeps its ring, and old answers reach the next session.  Lists *)
(* and requests are left out here.                                         *)
(***************************************************************************)
EXTENDS SppTransport, SelectorScreens

CONSTANTS
  NumberRange,  \* the values of session_number, a u32: 2^32
  NonceRange,   \* those the nonce keeps of it, its low half: 2^16
  MaxSessions,  \* bound on the sessions of a run of the host's program
  MaxPrograms,  \* bound on those runs, each having one session less
  MaxEarlier,   \* bound on the sessions of a run that another one follows
  MaxAsked      \* bound on frames under way to the firmware

ASSUME DeviceLoopAssumption ==
  /\ MaxSessions \in Nat /\ MaxPrograms \in Nat /\ MaxEarlier \in Nat
  /\ MaxAsked \in Nat
  /\ NumberRange \in Nat /\ NonceRange \in Nat \ {0, 1}
  /\ NonceRange <= NumberRange /\ NumberRange % NonceRange = 0

VARIABLES
  stage,              \* where loop() is
  handshake_complete,
  toDevice,           \* frames not yet read by the firmware
  session,            \* the run of the host's program, and its sessions so far
  phase,              \* down, hello or up
  assembling,         \* pieces of a frame the host's parser holds
  answered            \* the session whose HELLO_REQ the accepted answer answers

peerVars == <<toDevice, session, phase, assembling, answered>>
loopVars == <<stage, handshake_complete>>
deviceLoopVars == <<transportVars, screenVars, loopVars, peerVars>>

NoSession == [program |-> 0, count |-> 0]

\* session_number starts at 0 in each run of the program and skips 0 when it
\* wraps.
SessionNumber(count) == 1 + ((count - 1) % (NumberRange - 1))

\* Mutant: the same nonce in every session.
NonceFixed(s) == 1

\* The low half of session_number.
Nonce(s) == SessionNumber(s.count) % NonceRange

\* What is said for a session s; "for" is a history variable: no byte of a
\* frame holds it.
HelloRequest(s) ==
  [type |-> "HELLO_REQ", minimum |-> 1, maximum |-> 1, nonce |-> Nonce(s), for |-> s]
HelloResponse(request) ==
  [type |-> "HELLO_RESP", nonce |-> request.nonce, for |-> request.for]
Ping(s) == [type |-> "PING", for |-> s]
Pong(request) == [type |-> "PONG", for |-> request.for]

DeviceLoopInit ==
  /\ TransportInit /\ ScreensInit
  /\ stage = "update" /\ handshake_complete = FALSE
  /\ toDevice = <<>> /\ session = NoSession /\ phase = "down"
  /\ assembling = 0 /\ answered = NoSession

-----------------------------------------------------------------------------
(* The host.                                                               *)

\* connect_audio_selector and the request of handshake.
HostConnects ==
  /\ phase = "down" /\ started /\ ~client
  /\ session.program + session.count < MaxSessions
  /\ client' = TRUE
  /\ session' = [session EXCEPT !.count = @ + 1]
  /\ toDevice' = <<HelloRequest(session')>>
  /\ phase' = "hello" /\ assembling' = 0
  /\ UNCHANGED <<started, connected, ringVars, wire, screenVars, loopVars,
                 answered>>

LinkGone == client' = FALSE /\ wire' = <<>> /\ toDevice' = <<>>

SessionOver == phase' = "down" /\ assembling' = 0 /\ answered' = NoSession

\* A timeout, an error, or the end of the program.
HostEnds ==
  /\ phase # "down"
  /\ SessionOver
  /\ LinkGone
  /\ UNCHANGED <<started, connected, ringVars, screenVars, loopVars, session>>

\* The program is started anew.
ProgramStarts ==
  /\ phase = "down" /\ session.count \in 1..MaxEarlier
  /\ session.program + 1 < MaxPrograms
  /\ session' = [program |-> session.program + 1, count |-> 0]
  /\ UNCHANGED <<transportVars, screenVars, loopVars, toDevice, phase,
                 assembling, answered>>

LinkLost ==
  /\ client
  /\ LinkGone
  /\ UNCHANGED <<started, connected, ringVars, screenVars, loopVars, session,
                 phase, assembling, answered>>

HostPings ==
  /\ phase = "up" /\ client /\ Len(toDevice) < MaxAsked
  /\ toDevice' = Append(toDevice, Ping(session))
  /\ UNCHANGED <<transportVars, screenVars, loopVars, session, phase,
                 assembling, answered>>

\* The first message of the handshake decides (validate_hello_response); a
\* PONG counts for nothing here; anything else ends the session.
HostHears(frame) ==
  IF phase = "up" /\ frame.type = "PONG"
  THEN UNCHANGED <<phase, client, toDevice, answered>> /\ assembling' = 0
  ELSE IF phase = "hello" /\ frame.type = "HELLO_RESP" /\ frame.nonce = Nonce(session)
  THEN /\ phase' = "up" /\ answered' = frame.for /\ assembling' = 0
       /\ UNCHANGED <<client, toDevice>>
  ELSE SessionOver /\ client' = FALSE /\ toDevice' = <<>>

\* One piece is read.  The parser puts frames together and skips what does not
\* begin with a magic: the rest of a frame cut by a lost link.
HostReads ==
  /\ phase # "down" /\ client /\ wire # <<>>
  /\ LET piece == Head(wire)
         whole == piece[2] = Pieces /\ assembling = Pieces - 1
     IN  IF whole
         THEN HostHears(piece[1])
         ELSE /\ assembling' = IF piece[2] = assembling + 1 THEN piece[2] ELSE 0
              /\ UNCHANGED <<phase, client, toDevice, answered>>
  /\ wire' = IF client' THEN Tail(wire) ELSE <<>>
  /\ UNCHANGED <<started, connected, ringVars, screenVars, loopVars, session>>

-----------------------------------------------------------------------------
(* loop().                                                                 *)

\* update() and handleConnectionEvent.
Update ==
  /\ stage = "update"
  /\ UpdateConnection
  /\ IF Edge
     THEN /\ handshake_complete' = FALSE
          /\ connection_status' = "disconnected"
          /\ error_message' = "none"
          /\ overdue' = 0 /\ shownFor' = -1
     ELSE UNCHANGED <<handshake_complete, connection_status, error_message,
                      overdue, shownFor>>
  /\ stage' = "flush"
  /\ UNCHANGED <<screen_mode, settings_index, restart_selected, peerVars>>

\* flushWrites, until the serial port takes no more.
Flush ==
  /\ stage = "flush"
  /\ FlushWrite
  /\ UNCHANGED <<screenVars, loopVars, peerVars>>

FlushDone ==
  /\ stage = "flush"
  /\ stage' = "read"
  /\ UNCHANGED <<transportVars, screenVars, handshake_complete, peerVars>>

ProtocolVersion == 1

Speaks(hello) == hello.minimum <= ProtocolVersion /\ ProtocolVersion <= hello.maximum

\* A HELLO_REQ counts only if the host speaks this version, and only when its
\* answer has found a place in the ring.
HandleHello(request) ==
  /\ IF Speaks(request) THEN Enqueue(HelloResponse(request)) ELSE UNCHANGED ringVars
  /\ IF Speaks(request) /\ EnqueueAccepts
     THEN handshake_complete' = TRUE /\ connection_status' = "connected"
     ELSE UNCHANGED <<handshake_complete, connection_status>>

HandlePing(request) ==
  /\ Enqueue(Pong(request))
  /\ UNCHANGED <<handshake_complete, connection_status>>

Handle ==
  /\ stage = "read" /\ connected /\ toDevice # <<>>
  /\ IF Head(toDevice).type = "HELLO_REQ"
     THEN HandleHello(Head(toDevice)) ELSE HandlePing(Head(toDevice))
  /\ toDevice' = Tail(toDevice)
  /\ UNCHANGED <<client, started, connected, wire, screen_mode, settings_index,
                 restart_selected, error_message, overdue, shownFor,
                 stage, session, phase, assembling, answered>>

ReadDone ==
  /\ stage = "read"
  /\ stage' = "jog"
  /\ UNCHANGED <<transportVars, screenVars, handshake_complete, peerVars>>

Presses == {"up", "down", "left", "center", "center long"}

\* handleJogEvent: what only concerns the screens.
Jog(press) ==
  /\ stage = "jog"
  /\ MainJog(press) \/ SettingsJog(press) \/ RestartJog(press) \/ InfoJog(press)
  /\ stage' = "end"
  /\ UNCHANGED <<transportVars, handshake_complete, peerVars>>

\* Mutant: a failed restart of the transport does not set the time.
FailedForever ==
  /\ connection_status' = "error" /\ error_message' = "SPP RESTART FAILED"
  /\ overdue' = 1 + ClockRange \div 2 /\ shownFor' = 0

RestartFailed == ShowError("SPP RESTART FAILED")

\* activateSettingsItem, item 0.
Reconnect(succeeds) ==
  /\ stage = "jog" /\ screen_mode = "settings" /\ Item = "reconnect"
  /\ Restarted(succeeds)
  /\ toDevice' = <<>>
  /\ screen_mode' = "main"
  /\ IF succeeds
     THEN /\ connection_status' = "disconnected" /\ shownFor' = -1
          /\ UNCHANGED <<error_message, overdue>>
     ELSE RestartFailed
  /\ stage' = "end"
  /\ settings_index' = 0
  /\ UNCHANGED <<restart_selected, handshake_complete,
                 session, phase, assembling, answered>>

\* ESP.restart() and setup().
Restart(succeeds) ==
  /\ stage = "jog" /\ screen_mode = "restart" /\ restart_selected
  /\ Restarted(succeeds)
  /\ toDevice' = <<>>
  /\ screen_mode' = "main" /\ settings_index' = 0 /\ restart_selected' = FALSE
  /\ handshake_complete' = FALSE
  /\ IF succeeds
     THEN /\ connection_status' = "disconnected" /\ error_message' = "none"
          /\ overdue' = 0 /\ shownFor' = -1
     ELSE ShowError("SPP START FAILED")
  /\ stage' = "update"
  /\ UNCHANGED <<session, phase, assembling, answered>>

NoJog ==
  /\ stage = "jog"
  /\ stage' = "end"
  /\ UNCHANGED <<transportVars, screenVars, handshake_complete, peerVars>>

End ==
  /\ stage = "end"
  /\ EndOfLoop
  /\ stage' = "update"
  /\ UNCHANGED <<transportVars, handshake_complete, peerVars>>

DeviceLoopNext ==
  \/ HostConnects \/ HostEnds \/ ProgramStarts \/ LinkLost \/ HostPings \/ HostReads
  \/ Update \/ Flush \/ FlushDone \/ Handle \/ ReadDone \/ NoJog \/ End
  \/ \E press \in Presses : Jog(press)
  \/ \E succeeds \in BOOLEAN : Reconnect(succeeds) \/ Restart(succeeds)

DeviceLoopSpec == DeviceLoopInit /\ [][DeviceLoopNext]_deviceLoopVars

-----------------------------------------------------------------------------
(* A host that is in a session got the answer to its own request, also     *)
(* when answers to earlier sessions were left in the ring because the link *)
(* was down for less than a loop; unless it was given to an earlier run of *)
(* the program, or as many sessions ago as it takes the nonce to come      *)
(* round: run_spp_session makes it of the number of the session, where     *)
(* protocol.md:110 has a random value.                                     *)
AcceptedAnswerIsOurs ==
  phase = "up" =>
    \/ answered = session
    \/ answered.program < session.program
    \/ answered.count + NonceRange - 1 <= session.count

\* While a host uses a session the selector shows it as connected, whatever
\* error was shown before, on whatever screen the handshake was done, and
\* whichever edges were not seen.
UsedSessionIsShown ==
  (phase = "up" /\ client /\ connected) =>
    connection_status = "connected" /\ handshake_complete

\* An error goes away after its two seconds and not before, wherever the clock
\* is, if the user stays on the main screen; what follows an error is not
\* measured by an error before it.
ErrorLastsItsTime ==
  [][(End /\ connection_status = "error" /\ shownFor >= 0) =>
       (connection_status' = "disconnected" <=> shownFor = ErrorTime)]_deviceLoopVars
=============================================================================
