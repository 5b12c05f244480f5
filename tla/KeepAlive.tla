------------------------------ MODULE KeepAlive ------------------------------
(***************************************************************************)
(* How the host finds out that a selector no longer answers                *)
(* (windows/src/main.rs, run_spp_session): ten seconds without a message   *)
(* and it sends a PING; two PINGs without their PONG and it ends the       *)
(* session.                                                                *)
(*                                                                         *)
(* This is the one place where it matters how frames are cut into reads,   *)
(* so the stream to the host consists of pieces: every frame is a first    *)
(* piece and a last piece, and a read returns any number of them.  Time is *)
(* counted in ticks, and a frame may be under way for any time.            *)
(***************************************************************************)
EXTENDS Integers, Sequences, FiniteSets

CONSTANTS
  IdleTicks,     \* KEEPALIVE_IDLE
  ResponseTicks, \* RESPONSE_TIMEOUT
  TokenCount,    \* tokens wrap (2^32 in the code)
  MaxRequests    \* bound on the set requests of the user

ASSUME KeepAliveAssumption ==
  /\ IdleTicks \in Nat \ {0}
  /\ ResponseTicks \in Nat \ {0}
  /\ TokenCount \in Nat \ {0, 1, 2}
  /\ MaxRequests \in Nat

Tokens == 0..(TokenCount - 1)

VARIABLES
  pc,        \* poll, wait (for a PONG) or closed
  token,     \* of the last PING
  attempt,   \* the PING of this wait: 1 or 2, 0 while polling
  idle,      \* ticks until keepalive_deadline
  left,      \* ticks until the deadline of the PONG
  toDevice,  \* tokens of the PINGs the device has not answered
  toHost,    \* pieces the host has not read
  device,    \* alive, or silent while the connection stays up
  requested, \* set requests the device has sent
  handled    \* set requests the host has processed

keepAliveVars == <<pc, token, attempt, idle, left, toDevice, toHost, device,
                   requested, handled>>

Frame == [type : {"PONG"}, token : Tokens] \cup [type : {"SET_REQ"}]
Piece == [frame : Frame, last : BOOLEAN]

Pieces(f) == <<[frame |-> f, last |-> FALSE], [frame |-> f, last |-> TRUE]>>

KeepAliveInit ==
  /\ pc = "poll" /\ token = 0 /\ attempt = 0
  /\ idle = IdleTicks /\ left = 0
  /\ toDevice = <<>> /\ toHost = <<>> /\ device = "alive"
  /\ requested = 0 /\ handled = 0

-----------------------------------------------------------------------------
(* What one read gives: the frames whose last piece is among the n pieces. *)

Messages(n) == {i \in 1..n : toHost[i].last}

IsRequest(i) == toHost[i].frame.type = "SET_REQ"
IsPong(i)    == toHost[i].frame.type = "PONG" /\ toHost[i].frame.token = token

\* Mutant: what follows the expected PONG in the same read is thrown away.
RequestsUpToPong(n) ==
  {i \in Messages(n) : IsRequest(i) /\ \A j \in Messages(n) : IsPong(j) => i < j}

Requests(n) == {i \in Messages(n) : IsRequest(i)}

\* Mutant: any PONG will do.
AnyPongReceived(n) == \E i \in Messages(n) : toHost[i].frame.type = "PONG"

PongReceived(n) == \E i \in Messages(n) : IsPong(i)

Read(n) ==
  /\ n \in 1..Len(toHost)
  /\ toHost' = SubSeq(toHost, n + 1, Len(toHost))
  /\ handled' = handled + Cardinality(Requests(n))

-----------------------------------------------------------------------------
(* The session loop.                                                       *)

AttemptLimit == 2

SendPing(n) ==
  /\ pc' = "wait"
  /\ attempt' = n
  /\ token' = (token + 1) % TokenCount
  /\ left' = ResponseTicks
  /\ toDevice' = Append(toDevice, (token + 1) % TokenCount)
  /\ UNCHANGED <<idle, device, requested>>

KeepPolling ==
  /\ pc' = "poll"
  /\ attempt' = 0
  /\ left' = 0
  /\ idle' = IdleTicks
  /\ UNCHANGED <<token, toDevice, device, requested>>

\* Nothing was received in time, or only a part of a frame.
PollNothing ==
  /\ pc = "poll" /\ idle = 0
  /\ \/ UNCHANGED <<toHost, handled>>
     \/ \E n \in 1..Len(toHost) : Read(n) /\ Messages(n) = {}
  /\ SendPing(1)

PollPart ==
  /\ pc = "poll" /\ idle > 0
  /\ \E n \in 1..Len(toHost) : Read(n) /\ Messages(n) = {}
  /\ UNCHANGED <<pc, token, attempt, idle, left, toDevice, device, requested>>

PollMessages ==
  /\ pc = "poll"
  /\ \E n \in 1..Len(toHost) : Read(n) /\ Messages(n) # {}
  /\ KeepPolling

\* The wait is over without the PONG.
WaitGivenUp ==
  \/ attempt < AttemptLimit /\ SendPing(attempt + 1)
  \/ /\ attempt = AttemptLimit
     /\ pc' = "closed"
     /\ UNCHANGED <<token, attempt, idle, left, toDevice, device, requested>>

\* Mutant: the deadline is compared the wrong way round.
WaitTimesOutBefore ==
  /\ pc = "wait" /\ left < 0
  /\ UNCHANGED <<toHost, handled>>
  /\ WaitGivenUp

WaitTimesOut ==
  /\ pc = "wait" /\ left = 0
  /\ UNCHANGED <<toHost, handled>>
  /\ WaitGivenUp

\* A read without a complete frame ends the wait as well.
WaitBroken ==
  /\ pc = "wait" /\ left > 0
  /\ \E n \in 1..Len(toHost) : Read(n) /\ Messages(n) = {}
  /\ WaitGivenUp

\* All messages of a read are processed, whether or not the PONG is among
\* them; a set request takes its time, at the cost of the deadline.
WaitMessages ==
  /\ pc = "wait" /\ left > 0
  /\ \E n \in 1..Len(toHost), spent \in 0..left :
       /\ Read(n) /\ Messages(n) # {}
       /\ spent > 0 => Requests(n) # {}
       /\ \/ PongReceived(n) /\ KeepPolling
          \/ /\ ~PongReceived(n)
             /\ left' = left - spent
             /\ UNCHANGED <<pc, token, attempt, idle, toDevice, device, requested>>

HostStep == PollNothing \/ PollPart \/ PollMessages \/ WaitTimesOut \/ WaitBroken
              \/ WaitMessages

-----------------------------------------------------------------------------
(* The device, the user, and time.                                         *)

Write(f) == toHost' = toHost \o Pieces(f)

Answer ==
  /\ device = "alive" /\ toDevice # <<>>
  /\ Write([type |-> "PONG", token |-> Head(toDevice)])
  /\ toDevice' = Tail(toDevice)
  /\ UNCHANGED <<pc, token, attempt, idle, left, device, requested, handled>>

\* The selector has one request outstanding (DeviceState).
Request ==
  /\ device = "alive" /\ requested < MaxRequests /\ requested = handled
  /\ Write([type |-> "SET_REQ"])
  /\ requested' = requested + 1
  /\ UNCHANGED <<pc, token, attempt, idle, left, toDevice, device, handled>>

GoSilent ==
  /\ device = "alive"
  /\ device' = "silent"
  /\ UNCHANGED <<pc, token, attempt, idle, left, toDevice, toHost, requested,
                 handled>>

Tick ==
  /\ \/ pc = "poll" /\ idle > 0 /\ idle' = idle - 1 /\ UNCHANGED left
     \/ pc = "wait" /\ left > 0 /\ left' = left - 1 /\ UNCHANGED idle
  /\ UNCHANGED <<pc, token, attempt, toDevice, toHost, device, requested, handled>>

KeepAliveNext ==
  \/ HostStep \/ Tick
  \/ pc # "closed" /\ (Answer \/ Request \/ GoSilent)

KeepAliveSpec == KeepAliveInit /\ [][KeepAliveNext]_keepAliveVars

\* The loop runs and time passes; nothing is assumed of device and user.
FairKeepAlive ==
  KeepAliveSpec /\ WF_keepAliveVars(HostStep) /\ WF_keepAliveVars(Tick)

-----------------------------------------------------------------------------
(* Properties.                                                             *)

\* The wait ends well only if the device answered this very PING: the late
\* PONG of the first attempt says nothing about the second
\* (protocol.md section 9: only the PONG that corresponds completes a PING).
PongAnswersThisPing ==
  [][(pc = "wait" /\ pc' = "poll") =>
       \A i \in DOMAIN toDevice : toDevice[i] # token]_keepAliveVars

\* A set request that arrives while the host waits for a PONG is processed,
\* once and whichever message of its read it is.
RequestsSurviveTheWait ==
  requested = handled
    + Cardinality({i \in DOMAIN toHost : toHost[i].last /\ IsRequest(i)})

\* A device that has gone silent is given up, whatever it sent before.
SilentDeviceIsDropped == (device = "silent") ~> (pc = "closed")

\* protocol.md section 12: a PONG may take two seconds.
PingWaitsItsTime ==
  [][(pc = "wait" /\ (pc' = "closed" \/ (pc' = "wait" /\ attempt' # attempt)))
       => left = 0]_keepAliveVars
=============================================================================
