-------------------------- MODULE AudioSessionProofs --------------------------
(***************************************************************************)
(* The composed system, for any number of endpoints, generations,          *)
(* requests, audio changes and broken sessions.  First the set requests: a *)
(* request is at one place at a time, and what answers it is an answer to  *)
(* it.  Then the lists on their way from the host to the selector: the     *)
(* firmware finds nothing wrong with a list but its moment, and what it    *)
(* has under the host's generation is what the host sent under it.         *)
(***************************************************************************)
EXTENDS AudioSession, FiniteSetTheorems, TLAPS

-----------------------------------------------------------------------------
(* Channels: sequences of frames, of which only the type matters.          *)

IsChannel(c) == Len(c) \in Nat /\ c = [i \in 1..Len(c) |-> c[i]]

LEMMA ChannelIsSeq ==
  ASSUME NEW c, IsChannel(c), NEW S, \A i \in 1..Len(c) : c[i] \in S
  PROVE  c \in Seq(S)
  BY DEF IsChannel

\* Every sequence is a channel.
LEMMA SeqIsChannel ==
  ASSUME NEW S, NEW c \in Seq(S)
  PROVE  IsChannel(c)
  BY DEF IsChannel

\* Two channels joined: the items of one, then those of the other.
LEMMA Joined ==
  ASSUME NEW c, NEW d, IsChannel(c), IsChannel(d)
  PROVE  /\ IsChannel(c \o d) /\ Len(c \o d) = Len(c) + Len(d)
         /\ \A i \in 1..(Len(c) + Len(d)) :
              (c \o d)[i] = IF i <= Len(c) THEN c[i] ELSE d[i - Len(c)]
<1> DEFINE S == {c[i] : i \in 1..Len(c)} \cup {d[i] : i \in 1..Len(d)}
<1>1. c \in Seq(S) /\ d \in Seq(S)
  BY ChannelIsSeq
<1> HIDE DEF S
<1>2. c \o d \in Seq(S)
  BY <1>1
<1>3. Len(c \o d) = Len(c) + Len(d) /\ Len(c) \in Nat /\ Len(d) \in Nat
  BY <1>1
<1>4. \A i \in 1..(Len(c) + Len(d)) :
        (c \o d)[i] = IF i <= Len(c) THEN c[i] ELSE d[i - Len(c)]
  BY <1>1
<1>. QED
  BY <1>2, <1>3, <1>4, SeqIsChannel

\* The frames of a type, when a channel without such frames is joined.
LEMMA JoinedInFlight ==
  ASSUME NEW c, NEW d, IsChannel(c), IsChannel(d), NEW type,
         \A i \in 1..Len(d) : d[i].type # type
  PROVE  /\ InFlight(c \o d, type) = InFlight(c, type)
         /\ \A i \in InFlight(c, type) : (c \o d)[i] = c[i]
<1>1. Len(c) \in Nat /\ Len(d) \in Nat /\ DOMAIN c = 1..Len(c)
  BY DEF IsChannel
<1>2. DOMAIN (c \o d) = 1..(Len(c) + Len(d))
  BY Joined DEF IsChannel
<1>3. \A i \in 1..(Len(c) + Len(d)) :
        (c \o d)[i] = IF i <= Len(c) THEN c[i] ELSE d[i - Len(c)]
  BY Joined
<1>4. \A i \in 1..(Len(c) + Len(d)) : ~(i <= Len(c)) => i - Len(c) \in 1..Len(d)
  BY <1>1
<1>5. \A i \in 1..Len(c) : i \in 1..(Len(c) + Len(d)) /\ i <= Len(c)
  BY <1>1
<1>6. \A i \in 1..(Len(c) + Len(d)) : i <= Len(c) => i \in 1..Len(c)
  BY <1>1
<1>7. ASSUME NEW i \in InFlight(c \o d, type)
      PROVE  i \in InFlight(c, type)
  <2>1. i \in 1..(Len(c) + Len(d)) /\ (c \o d)[i].type = type
    BY <1>2 DEF InFlight
  <2>2. i <= Len(c)
    BY <1>3, <1>4, <2>1
  <2>. QED
    BY <1>1, <1>3, <1>6, <2>1, <2>2 DEF InFlight
<1>8. ASSUME NEW i \in InFlight(c, type)
      PROVE  i \in InFlight(c \o d, type) /\ (c \o d)[i] = c[i]
  <2>1. i \in 1..Len(c) /\ c[i].type = type
    BY <1>1 DEF InFlight
  <2>. QED
    BY <1>2, <1>3, <1>5, <2>1 DEF InFlight
<1>. QED
  BY <1>7, <1>8

\* One frame more.
LEMMA AppendedInFlight ==
  ASSUME NEW c, IsChannel(c), NEW e
  PROVE  /\ IsChannel(Append(c, e)) /\ Append(c, e)[Len(c) + 1] = e
         /\ InFlight(c, e.type) = {} => InFlight(Append(c, e), e.type) = {Len(c) + 1}
         /\ \A type : type # e.type => InFlight(Append(c, e), type) = InFlight(c, type)
<1> DEFINE S == {c[i] : i \in 1..Len(c)} \cup {e}
           t == Append(c, e)
<1>1. c \in Seq(S) /\ e \in S
  BY ChannelIsSeq
<1> HIDE DEF S
<1>2. /\ t \in Seq(S) /\ Len(t) = Len(c) + 1 /\ Len(c) \in Nat
      /\ DOMAIN c = 1..Len(c) /\ DOMAIN t = 1..(Len(c) + 1)
      /\ t[Len(c) + 1] = e /\ \A i \in 1..Len(c) : t[i] = c[i]
  BY <1>1
<1> HIDE DEF t
<1>3. IsChannel(t)
  BY <1>2, SeqIsChannel
<1>4. 1..(Len(c) + 1) = (1..Len(c)) \cup {Len(c) + 1}
  BY <1>2
<1>5. InFlight(c, e.type) = {} => InFlight(t, e.type) = {Len(c) + 1}
  BY <1>2, <1>4, Zenon DEF InFlight
<1>6. \A type : type # e.type => InFlight(t, type) = InFlight(c, type)
  BY <1>2, <1>4, Zenon DEF InFlight
<1>. QED
  BY <1>2, <1>3, <1>5, <1>6 DEF t

\* The first frame is taken.
LEMMA TakenInFlight ==
  ASSUME NEW c, IsChannel(c), c # <<>>
  PROVE  /\ IsChannel(Tail(c)) /\ Head(c) = c[1] /\ 1 \in DOMAIN c
         /\ \A type, k : InFlight(c, type) \subseteq {k} =>
              IF Head(c).type = type THEN InFlight(Tail(c), type) = {}
              ELSE /\ InFlight(Tail(c), type) = {i - 1 : i \in InFlight(c, type)}
                   /\ \A i \in InFlight(c, type) : i \in Int /\ Tail(c)[i - 1] = c[i]
<1> DEFINE S == {c[i] : i \in 1..Len(c)}
           t == Tail(c)
<1>1. c \in Seq(S)
  BY ChannelIsSeq
<1> HIDE DEF S
<1>2. /\ t \in Seq(S) /\ Len(t) = Len(c) - 1 /\ Len(c) \in Nat \ {0}
      /\ DOMAIN c = 1..Len(c) /\ DOMAIN t = 1..(Len(c) - 1)
      /\ \A i \in 1..(Len(c) - 1) : t[i] = c[i + 1]
      /\ Head(c) = c[1]
  BY <1>1
<1> HIDE DEF t
<1>3. IsChannel(t) /\ 1 \in DOMAIN c
  BY <1>2, SeqIsChannel
<1>4. \A type : InFlight(t, type) = {i - 1 : i \in InFlight(c, type) \ {1}}
  <2> TAKE type
  <2>1. \A i \in 2..Len(c) : /\ i - 1 \in 1..(Len(c) - 1) /\ (i - 1) + 1 = i
    BY <1>2
  <2>2. \A i \in 1..(Len(c) - 1) : i + 1 \in 2..Len(c) /\ (i + 1) - 1 = i
    BY <1>2
  <2>3. (1..Len(c)) \ {1} = 2..Len(c)
    BY <1>2
  <2>4. InFlight(c, type) \ {1} = {i \in 2..Len(c) : c[i].type = type}
    BY <1>2, <2>3, Zenon DEF InFlight
  <2>5. InFlight(t, type) = {i \in 1..(Len(c) - 1) : c[i + 1].type = type}
    BY <1>2 DEF InFlight
  <2>6. ASSUME NEW x \in InFlight(t, type)
        PROVE  x \in {i - 1 : i \in InFlight(c, type) \ {1}}
    <3>1. x + 1 \in InFlight(c, type) \ {1} /\ (x + 1) - 1 = x
      BY <2>2, <2>4, <2>5
    <3>. QED
      BY <3>1
  <2>7. ASSUME NEW x \in InFlight(c, type) \ {1}
        PROVE  x - 1 \in InFlight(t, type)
    BY <2>1, <2>4, <2>5
  <2>. QED
    BY <2>6, <2>7
<1>5. \A type : Head(c).type = type => 1 \in InFlight(c, type)
  BY <1>2, <1>3 DEF InFlight
<1>6. \A type : \A i \in InFlight(c, type) \ {1} : i \in Int /\ t[i - 1] = c[i]
  <2> TAKE type
  <2> TAKE i \in InFlight(c, type) \ {1}
  <2>1. i \in 1..Len(c) /\ i # 1
    BY <1>2 DEF InFlight
  <2>. QED
    BY <1>2, <2>1
<1>7. \A type : Head(c).type # type => 1 \notin InFlight(c, type)
  BY <1>2 DEF InFlight
<1>8. ASSUME NEW type, NEW k, InFlight(c, type) \subseteq {k}
      PROVE  IF Head(c).type = type THEN InFlight(t, type) = {}
             ELSE /\ InFlight(t, type) = {i - 1 : i \in InFlight(c, type)}
                  /\ \A i \in InFlight(c, type) : i \in Int /\ t[i - 1] = c[i]
  <2>1. CASE Head(c).type = type
    <3>1. InFlight(c, type) \ {1} = {}
      BY <1>5, <1>8, <2>1
    <3>. QED
      BY <1>4, <2>1, <3>1
  <2>2. CASE Head(c).type # type
    <3>1. InFlight(c, type) \ {1} = InFlight(c, type)
      BY <1>7, <2>2
    <3>. QED
      BY <1>4, <1>6, <2>2, <3>1
  <2>. QED
    BY <2>1, <2>2
<1>. QED
  BY <1>2, <1>3, <1>8 DEF t

-----------------------------------------------------------------------------
(* What a list is made of.                                                 *)

EndpointsFinite == present \in [Flows -> SUBSET Ids]

\* A capture has a channel of names for each flow.
CaptureShape ==
  /\ capture = [list |-> capture.list, defaults |-> capture.defaults,
                handles |-> capture.handles]
  /\ capture.list = [f \in Flows |-> capture.list[f]]
  /\ \A f \in Flows : IsChannel(capture.list[f])

LEMMA EnumeratedIsChannel ==
  ASSUME NEW f \in Flows, EndpointsFinite
  PROVE  IsChannel(Enumerated(f))
<1>1. IsFiniteSet(present[f])
  BY AudioAssumption, FS_Subset DEF EndpointsFinite
<1>2. Count(f) \in Nat
  BY <1>1, FS_CardinalityType, AudioAssumption DEF Count
<1>. QED
  <2> DEFINE e(i) == CHOOSE d \in present[f] : Cardinality(Before(f, d)) = i - 1
  <2>1. Enumerated(f) = [i \in 1..Count(f) |-> e(i)]
    BY DEF Enumerated
  <2> HIDE DEF e
  <2>2. [i \in 1..Count(f) |-> e(i)] \in Seq({e(i) : i \in 1..Count(f)})
    BY <1>2
  <2>. QED
    BY <2>1, <2>2, SeqIsChannel

LEMMA EmptyIsChannel == IsChannel(<<>>) /\ Len(<<>>) = 0 /\ \A t : InFlight(<<>>, t) = {}
  BY DEF IsChannel, InFlight

LEMMA NoSnapshotShape ==
  ASSUME capture' = NoSnapshot
  PROVE  CaptureShape'
  BY EmptyIsChannel DEF CaptureShape, NoSnapshot

\* The frames of a list are neither a result nor a hello.
ListFrames(c) ==
  /\ IsChannel(c)
  /\ \A i \in 1..Len(c) : c[i].type \notin {"SET_RESULT", "HELLO_REQ"}

LEMMA JoinedListFrames ==
  ASSUME NEW c, NEW d, ListFrames(c), ListFrames(d)
  PROVE  ListFrames(c \o d)
<1>1. Len(c) \in Nat /\ Len(d) \in Nat
  BY DEF ListFrames, IsChannel
<1>2. /\ IsChannel(c \o d) /\ Len(c \o d) = Len(c) + Len(d)
      /\ \A i \in 1..(Len(c) + Len(d)) :
           (c \o d)[i] = IF i <= Len(c) THEN c[i] ELSE d[i - Len(c)]
  BY Joined DEF ListFrames
<1>3. \A i \in 1..(Len(c) + Len(d)) :
        IF i <= Len(c) THEN i \in 1..Len(c) ELSE i - Len(c) \in 1..Len(d)
  BY <1>1
<1>. QED
  BY <1>2, <1>3 DEF ListFrames

LEMMA RecordFrames ==
  ASSUME NEW f, NEW list, IsChannel(list)
  PROVE  ListFrames(EndpointRecords(f, list))
<1> DEFINE r == EndpointRecords(f, list)
           S == {EndpointRecord(f, i, list[i]) : i \in 1..Len(list)}
<1>1. Len(list) \in Nat /\ DOMAIN list = 1..Len(list)
  BY DEF IsChannel
<1>2. r = [i \in 1..Len(list) |-> EndpointRecord(f, i, list[i])]
  BY <1>1 DEF EndpointRecords
<1> HIDE DEF r
<1>3. r \in Seq(S) /\ Len(r) = Len(list)
  <2> DEFINE e(i) == EndpointRecord(f, i, list[i])
  <2>1. r = [i \in 1..Len(list) |-> e(i)] /\ S = {e(i) : i \in 1..Len(list)}
    BY <1>2
  <2> HIDE DEF e, S
  <2>. QED
    BY <1>1, <2>1
<1>4. \A i \in 1..Len(list) : r[i].type = "ENDPOINT"
  BY <1>2 DEF EndpointRecord
<1>5. IsChannel(r)
  <2> HIDE DEF S
  <2>. QED
    BY <1>3, SeqIsChannel
<1>6. ListFrames(r)
  BY <1>3, <1>4, <1>5 DEF ListFrames
<1>. QED
  BY <1>6 DEF r

LEMMA SyncListFrames ==
  ASSUME NEW g, \A f \in Flows : IsChannel(capture.list[f])
  PROVE  ListFrames(SyncFrames(capture, g))
<1> DEFINE first == << SyncBegin(g, [f \in Flows |-> Len(capture.list[f])]) >>
           last == << CurrentHandles("output", capture.handles["output"]),
                      CurrentHandles("input", capture.handles["input"]),
                      SyncEnd(g) >>
           output == EndpointRecords("output", capture.list["output"])
           input == EndpointRecords("input", capture.list["input"])
<1>1. ListFrames(output) /\ ListFrames(input)
  BY RecordFrames DEF Flows
<1>2. ListFrames(first)
  <2>1. /\ Len(first) = 1 /\ first[1].type = "SYNC_BEGIN"
        /\ first \in Seq({first[1]})
    BY DEF SyncBegin
  <2> HIDE DEF first
  <2>2. \A i \in 1..Len(first) : first[i].type = "SYNC_BEGIN"
    BY <2>1
  <2>. QED
    BY <2>1, <2>2, SeqIsChannel DEF ListFrames
<1>3. ListFrames(last)
  <2>1. /\ Len(last) = 3 /\ last[1].type = "CURRENT" /\ last[2].type = "CURRENT"
        /\ last[3].type = "SYNC_END"
        /\ last \in Seq({last[1], last[2], last[3]})
    BY DEF CurrentHandles, SyncEnd
  <2> HIDE DEF last
  <2>2. \A i \in 1..Len(last) : last[i].type \in {"CURRENT", "SYNC_END"}
    BY <2>1
  <2>. QED
    BY <2>1, <2>2, SeqIsChannel DEF ListFrames
<1>4. SyncFrames(capture, g) = ((first \o output) \o input) \o last
  BY DEF SyncFrames
<1> HIDE DEF first, last, output, input
<1>. QED
  BY <1>1, <1>2, <1>3, <1>4, JoinedListFrames

-----------------------------------------------------------------------------
(* The inductive invariant.                                                *)

Request == SetRequestFrame(request)
Results == InFlight(toDevice, "SET_RESULT")

\* The screen says connected exactly after HELLO, and everything a session
\* leads to needs that.
ScreenInv ==
  /\ connectionStatus = "Connected" <=> connected /\ handshakeComplete
  /\ ready => connectionStatus = "Connected"
  /\ setPending => ready /\ pendingRequestId = request.id

HostInv ==
  /\ pc \in {"down", "hello", "loop"} => inbox = <<>>
  /\ pc \in {"set", "apply"} => inbox # <<>>
  /\ inbox = <<>> \/ Len(inbox) = 1
  /\ EndpointsFinite /\ CaptureShape

\* Before the host has its answer to HELLO nothing else is under way.
Greeting ==
  /\ ~ready /\ ~setPending
  /\ \/ toDevice = <<HelloRequest>> /\ toHost = <<>>
     \/ connected /\ toDevice = <<>> /\ toHost = <<HelloResponse>>

\* After it, a request is in the channel to the host, at the host, or answered.
Resting == ~setPending /\ toHost = <<>> /\ inbox = <<>> /\ Results = {}
Sending ==
  setPending /\ toHost = <<Request>> /\ inbox = <<>> /\ Results = {}
Serving ==
  setPending /\ toHost = <<>> /\ inbox = <<Request>> /\ Results = {}
Answered ==
  /\ setPending /\ toHost = <<>> /\ inbox = <<>>
  /\ \E i \in DOMAIN toDevice : Results = {i} /\ toDevice[i].id = pendingRequestId

AfterHello ==
  /\ connected
  /\ InFlight(toDevice, "HELLO_REQ") = {}
  /\ Resting \/ Sending \/ Serving \/ Answered

ChannelInv ==
  /\ IsChannel(toDevice)
  /\ ~link => toDevice = <<>> /\ toHost = <<>>
  /\ link => pc # "down"
  /\ (link /\ pc = "hello") => Greeting
  /\ (link /\ pc # "hello") => AfterHello

SessionInv == ScreenInv /\ HostInv /\ ChannelInv

LEMMA HelloChannel ==
  /\ IsChannel(<<HelloRequest>>) /\ <<HelloRequest>> # <<>>
  /\ Head(<<HelloRequest>>) = HelloRequest /\ Tail(<<HelloRequest>>) = <<>>
  /\ HelloRequest.type = "HELLO_REQ"
  /\ InFlight(<<HelloRequest>>, "SET_RESULT") = {}
<1>1. <<HelloRequest>> \in Seq({HelloRequest})
  OBVIOUS
<1>2. HelloRequest.type = "HELLO_REQ"
  BY DEF HelloRequest
<1>3. /\ <<HelloRequest>> # <<>> /\ Head(<<HelloRequest>>) = HelloRequest
      /\ Tail(<<HelloRequest>>) = <<>>
      /\ \A i \in DOMAIN <<HelloRequest>> : <<HelloRequest>>[i].type = "HELLO_REQ"
  BY <1>2
<1>. QED
  BY <1>1, <1>2, <1>3, SeqIsChannel DEF InFlight

LEMMA SessionInitInv == SessionInit => SessionInv
<1> SUFFICES ASSUME SessionInit PROVE SessionInv
  OBVIOUS
<1> USE DEF SessionInit, SelectorInit, Init, LinkInit, AudioInit, HostInit, Idle
<1>1. ScreenInv
  BY DEF ScreenInv
<1>2. HostInv
  <2>1. CaptureShape
    BY EmptyIsChannel DEF CaptureShape, NoSnapshot
  <2>2. EndpointsFinite
    BY DEF EndpointsFinite
  <2>. QED
    BY <2>1, <2>2 DEF HostInv
<1>3. ChannelInv
  BY EmptyIsChannel DEF ChannelInv
<1>. QED
  BY <1>1, <1>2, <1>3 DEF SessionInv

-----------------------------------------------------------------------------
(* Steps that leave the channels and the request alone.                    *)

LEMMA CaptureShapeKept ==
  ASSUME CaptureShape, UNCHANGED capture
  PROVE  CaptureShape'
  BY DEF CaptureShape

\* A step that touches neither keeps what is said of them.
LEMMA ChannelKept ==
  ASSUME ChannelInv,
         UNCHANGED <<linkVars, connected, setPending, pendingRequestId, request, inbox>>,
         ready' => ready \/ ~(link /\ pc = "hello"),
         pc' = "hello" <=> pc = "hello", pc' = "down" <=> pc = "down"
  PROVE  ChannelInv'
  BY DEF ChannelInv, linkVars, Greeting, AfterHello, Resting, Sending, Serving,
         Answered, Results, Request, InFlight, IsChannel

LEMMA WindowsInv ==
  ASSUME SessionInv, Windows
  PROVE  SessionInv'
<1> USE DEF Windows, deviceVars, vars, syncVars, modeVars, requestVars,
            selectorVars, linkVars, hostVars
<1>1. ScreenInv'
  BY DEF SessionInv, ScreenInv
<1>2. EndpointsFinite'
  <2>1. CASE \E f \in Flows : AudioChange(f)
    <3>1. PICK f \in Flows : AudioChange(f)
      BY <2>1
    <3>2. PICK p \in SUBSET Plugged[f] : present' = [present EXCEPT ![f] = p]
      BY <3>1 DEF AudioChange
    <3>3. p \in SUBSET Ids
      BY AudioAssumption
    <3>. QED
      BY <3>2, <3>3 DEF SessionInv, HostInv, EndpointsFinite
  <2>2. CASE Notify
    BY <2>2 DEF SessionInv, HostInv, EndpointsFinite, Notify
  <2>. QED
    BY <2>1, <2>2
<1>3. CaptureShape'
  BY CaptureShapeKept DEF SessionInv, HostInv
<1>4. HostInv'
  BY <1>2, <1>3 DEF SessionInv, HostInv
<1>5. ChannelInv'
  BY ChannelKept DEF SessionInv
<1>. QED
  BY <1>1, <1>4, <1>5 DEF SessionInv

\* What of the host invariant a step of the device or the user touches.
LEMMA HostKept ==
  ASSUME HostInv, UNCHANGED <<audioVars, hostVars>>
  PROVE  HostInv'
<1>1. CaptureShape'
  BY CaptureShapeKept DEF HostInv, hostVars
<1>. QED
  BY <1>1 DEF HostInv, hostVars, audioVars, EndpointsFinite

-----------------------------------------------------------------------------
(* Sessions begin and end.                                                 *)

LEMMA ConnectInv ==
  ASSUME SessionInv, Connect
  PROVE  SessionInv'
<1> USE DEF Connect, HostConnect, LinkOpens, deviceVars, vars, syncVars, modeVars,
            requestVars, selectorVars
<1>1. ScreenInv'
  BY DEF SessionInv, ScreenInv
<1>2. HostInv'
  <2>1. CaptureShape'
    BY CaptureShapeKept DEF SessionInv, HostInv
  <2>. QED
    BY <2>1 DEF SessionInv, HostInv, EndpointsFinite
<1>3. Greeting'
  BY DEF SessionInv, ScreenInv, Greeting
<1>4. ChannelInv'
  BY <1>3, HelloChannel DEF ChannelInv
<1>. QED
  BY <1>1, <1>2, <1>4 DEF SessionInv

\* The link goes, with the session or before it.
LEMMA LinkGoesInv ==
  ASSUME SessionInv, LinkCloses, ScreenInv', HostInv'
  PROVE  SessionInv'
  BY EmptyIsChannel DEF SessionInv, ChannelInv, LinkCloses

LEMMA SessionEndsInv ==
  ASSUME HostInv, SessionEnds, UNCHANGED audioVars
  PROVE  HostInv'
<1>1. CaptureShape'
  BY NoSnapshotShape DEF SessionEnds
<1>. QED
  BY <1>1 DEF HostInv, SessionEnds, audioVars, EndpointsFinite

LEMMA BreaksInv ==
  ASSUME SessionInv, LinkLost \/ GiveUp \/ ResetSelector
  PROVE  SessionInv'
<1> USE DEF deviceVars, vars, syncVars, modeVars, requestVars, selectorVars
<1>1. CASE LinkLost
  BY <1>1, LinkGoesInv, HostKept DEF LinkLost, SessionInv, ScreenInv
<1>2. CASE GiveUp
  <2>1. ScreenInv'
    BY <1>2 DEF GiveUp, SessionInv, ScreenInv
  <2>. QED
    BY <1>2, <2>1, LinkGoesInv, SessionEndsInv DEF GiveUp, HostGivesUp, SessionInv
<1>3. CASE ResetSelector
  <2>1. PICK restarted \in BOOLEAN : Reconnect(restarted) \/ Restart(restarted)
    BY <1>3 DEF ResetSelector
  <2>2. ScreenInv'
    BY <2>1 DEF Reconnect, Restart, Clear, SessionReset, ScreenInv
  <2>3. HostInv'
    BY <1>3, HostKept DEF ResetSelector, SessionInv
  <2>. QED
    BY <2>1, <2>2, <2>3, LinkGoesInv DEF Reconnect, Restart
<1>. QED
  BY <1>1, <1>2, <1>3

-----------------------------------------------------------------------------
(* The host.                                                               *)

\* No step of the host touches the device.
LEMMA ScreenKept ==
  ASSUME ScreenInv, UNCHANGED deviceVars
  PROVE  ScreenInv'
  BY DEF ScreenInv, deviceVars, vars, modeVars, requestVars, selectorVars

LEMMA HelloResponseInv ==
  ASSUME SessionInv, HostHelloResponse, UNCHANGED deviceVars
  PROVE  SessionInv'
<1> USE DEF HostHelloResponse, StartCapture
<1>1. ScreenInv'
  BY ScreenKept DEF SessionInv
<1>2. HostInv'
  <2>1. CaptureShape'
    BY NoSnapshotShape
  <2>. QED
    BY <2>1 DEF SessionInv, HostInv, audioVars, EndpointsFinite
<1>3. /\ link /\ connected /\ toDevice = <<>> /\ toHost = <<HelloResponse>>
      /\ ~setPending /\ inbox = <<>>
  BY DEF SessionInv, ChannelInv, Greeting, HostInv
<1>4. toDevice' = <<>> /\ toHost' = <<>> /\ inbox' = <<>> /\ ~setPending'
  BY <1>3 DEF deviceVars, vars, modeVars
<1>5. AfterHello'
  BY <1>3, <1>4, EmptyIsChannel DEF AfterHello, Resting, Results, InFlight, deviceVars,
     selectorVars
<1>6. ChannelInv'
  BY <1>3, <1>4, <1>5, EmptyIsChannel DEF ChannelInv
<1>. QED
  BY <1>1, <1>2, <1>6 DEF SessionInv

LEMMA CaptureStepInv ==
  ASSUME SessionInv, CaptureStep, UNCHANGED deviceVars
  PROVE  SessionInv'
<1> USE DEF CaptureStep
<1>1. ScreenInv'
  BY ScreenKept DEF SessionInv
<1>2. CaptureShape'
  <2> DEFINE f == ReadOrder[reads + 1][2]
  <2>1. CaptureShape /\ EndpointsFinite
    BY DEF SessionInv, HostInv
  <2>2. CASE capture' = [capture EXCEPT !.list[f] = Enumerated(f)]
    <3> HIDE DEF f
    <3>1. \A g \in Flows : IsChannel(Enumerated(g))
      BY <2>1, EnumeratedIsChannel
    <3>2. /\ capture' = [list |-> capture'.list, defaults |-> capture'.defaults,
                         handles |-> capture'.handles]
          /\ capture'.list = [g \in Flows |-> IF g = f THEN Enumerated(f)
                                              ELSE capture.list[g]]
      BY <2>1, <2>2 DEF CaptureShape
    <3>3. capture'.list = [g \in Flows |-> capture'.list[g]]
      BY <3>2
    <3>4. \A g \in Flows : IsChannel(capture'.list[g])
      BY <2>1, <3>1, <3>2 DEF CaptureShape
    <3>. QED
      BY <3>2, <3>3, <3>4 DEF CaptureShape, IsChannel
  <2> DEFINE what == ReadOrder[reads + 1][1]
  <2>3. CASE capture' = [capture EXCEPT
                           !.defaults[f][what] = defaults[f][what],
                           !.handles[f][what] = HandleIn(capture.list[f], defaults[f][what])]
    <3> DEFINE h == HandleIn(capture.list[f], defaults[f][what])
               d == defaults[f][what]
    <3> HIDE DEF f, what, h, d
    <3>1. capture' = [capture EXCEPT !.defaults[f][what] = d, !.handles[f][what] = h]
      BY <2>3 DEF d, h
    <3>2. /\ capture' = [list |-> capture'.list, defaults |-> capture'.defaults,
                         handles |-> capture'.handles]
          /\ capture'.list = capture.list
      BY <2>1, <3>1 DEF CaptureShape
    <3>3. /\ capture'.list = [g \in Flows |-> capture'.list[g]]
          /\ \A g \in Flows : IsChannel(capture'.list[g])
      <4>1. /\ capture.list = [g \in Flows |-> capture.list[g]]
            /\ \A g \in Flows : IsChannel(capture.list[g])
        BY <2>1 DEF CaptureShape
      <4>. QED
        BY <3>2, <4>1
    <3>. QED
      BY <3>2, <3>3 DEF CaptureShape, IsChannel
  <2>. QED
    BY <2>2, <2>3
<1>3. HostInv'
  BY <1>2 DEF SessionInv, HostInv, audioVars, EndpointsFinite
<1>4. ChannelInv'
  BY ChannelKept DEF SessionInv, deviceVars, vars, modeVars, requestVars, selectorVars
<1>. QED
  BY <1>1, <1>3, <1>4 DEF SessionInv

LEMMA CaptureDoneInv ==
  ASSUME SessionInv, CaptureDone, UNCHANGED deviceVars
  PROVE  SessionInv'
<1> USE DEF CaptureDone
<1>1. ScreenInv'
  BY ScreenKept DEF SessionInv
<1>2. HostInv'
  <2>1. CaptureShape'
    BY NoSnapshotShape
  <2>. QED
    BY <2>1 DEF SessionInv, HostInv, audioVars, EndpointsFinite
<1>3. link /\ pc = "capture" /\ AfterHello /\ IsChannel(toDevice)
  BY DEF SessionInv, ChannelInv
<1>4. /\ IsChannel(toDevice')
      /\ \A t \in {"SET_RESULT", "HELLO_REQ"} :
           /\ InFlight(toDevice', t) = InFlight(toDevice, t)
           /\ \A i \in InFlight(toDevice, t) : toDevice'[i] = toDevice[i]
  <2>1. CASE UNCHANGED toDevice
    BY <1>3, <2>1
  <2>2. CASE toDevice' = toDevice \o SyncFrames(capture, CaptureGeneration)
    <3>1. ListFrames(SyncFrames(capture, CaptureGeneration))
      BY SyncListFrames DEF SessionInv, HostInv, CaptureShape
    <3> DEFINE d == SyncFrames(capture, CaptureGeneration)
    <3>2. IsChannel(toDevice \o d)
      BY <1>3, <3>1, Joined DEF ListFrames
    <3>3. IsChannel(d) /\ \A i \in 1..Len(d) : d[i].type # "SET_RESULT" /\ d[i].type # "HELLO_REQ"
      BY <3>1 DEF ListFrames
    <3> HIDE DEF d
    <3>4. /\ InFlight(toDevice \o d, "SET_RESULT") = InFlight(toDevice, "SET_RESULT")
          /\ \A i \in InFlight(toDevice, "SET_RESULT") : (toDevice \o d)[i] = toDevice[i]
      BY <1>3, <3>3, JoinedInFlight
    <3>5. /\ InFlight(toDevice \o d, "HELLO_REQ") = InFlight(toDevice, "HELLO_REQ")
          /\ \A i \in InFlight(toDevice, "HELLO_REQ") : (toDevice \o d)[i] = toDevice[i]
      BY <1>3, <3>3, JoinedInFlight
    <3>. QED
      BY <2>2, <3>2, <3>4, <3>5 DEF d
  <2>. QED
    BY <2>1, <2>2
<1>5. AfterHello'
  <2>1. /\ UNCHANGED <<toHost, inbox, setPending, pendingRequestId, request, connected>>
        /\ Request' = Request
    BY DEF deviceVars, vars, modeVars, requestVars, selectorVars, Request
  <2>2. Results' = Results /\ \A i \in Results : toDevice'[i] = toDevice[i]
    BY <1>4 DEF Results, InFlight
  <2>3. InFlight(toDevice, "HELLO_REQ")' = {}
    BY <1>3, <1>4 DEF AfterHello, InFlight
  <2>4. Answered => Answered'
    BY <2>1, <2>2 DEF Answered, Results, InFlight
  <2>. QED
    BY <1>3, <2>1, <2>2, <2>3, <2>4 DEF AfterHello, Resting, Sending, Serving
<1>6. ChannelInv'
  BY <1>3, <1>4, <1>5 DEF ChannelInv, IsChannel
<1>. QED
  BY <1>1, <1>2, <1>6 DEF SessionInv

LEMMA PollInv ==
  ASSUME SessionInv, NEW receive \in BOOLEAN, NEW due \in BOOLEAN,
         Poll(receive, due), UNCHANGED deviceVars
  PROVE  SessionInv'
<1> USE DEF Poll, StartCapture
<1>1. ScreenInv'
  BY ScreenKept DEF SessionInv
<1>2. link /\ pc = "loop" /\ AfterHello /\ IsChannel(toDevice) /\ inbox = <<>>
  BY DEF SessionInv, ChannelInv, HostInv
<1>3. /\ UNCHANGED <<link, toDevice, connected, setPending, pendingRequestId, request>>
      /\ pc' \in {"capture", "set", "loop"} /\ pc' = "set" => receive
      /\ pc' = "loop" => ~receive
  BY <1>2 DEF deviceVars, vars, modeVars, requestVars, selectorVars
<1>4. CASE receive
  <2>1. /\ Sending /\ inbox' = toHost /\ toHost' = <<>>
    BY <1>2, <1>4 DEF AfterHello, Resting, Serving, Answered
  <2>2. inbox' = <<Request>> /\ inbox' # <<>> /\ Len(inbox') = 1
    BY <2>1 DEF Sending
  <2>3. Serving' /\ AfterHello'
    BY <1>2, <1>3, <2>1, <2>2
    DEF Sending, Serving, AfterHello, Results, InFlight, Request
  <2>4. HostInv'
    <3>1. CaptureShape'
      BY CaptureShapeKept, NoSnapshotShape DEF SessionInv, HostInv
    <3>. QED
      BY <1>3, <1>4, <2>2, <3>1 DEF SessionInv, HostInv, EndpointsFinite
  <2>5. ChannelInv'
    BY <1>2, <1>3, <2>3 DEF ChannelInv, IsChannel
  <2>. QED
    BY <1>1, <2>4, <2>5 DEF SessionInv
<1>5. CASE ~receive
  <2>1. UNCHANGED <<inbox, toHost>>
    BY <1>2, <1>5
  <2>2. HostInv'
    <3>1. CaptureShape'
      BY CaptureShapeKept, NoSnapshotShape DEF SessionInv, HostInv
    <3>. QED
      BY <1>2, <1>3, <1>5, <2>1, <3>1 DEF SessionInv, HostInv, EndpointsFinite
  <2>3. ChannelInv'
    BY <1>2, <1>3, <2>1, ChannelKept DEF SessionInv, linkVars, deviceVars, vars, modeVars
  <2>. QED
    BY <1>1, <2>2, <2>3 DEF SessionInv
<1>. QED
  BY <1>4, <1>5

\* The result of the request at the host is the only one, and names it.
LEMMA ReplyInv ==
  ASSUME SessionInv, pc \in {"set", "apply"}, link, NEW status, Reply(status),
         UNCHANGED deviceVars, EndpointsFinite'
  PROVE  SessionInv'
<1> USE DEF Reply, StartCapture
<1>1. ScreenInv'
  BY ScreenKept DEF SessionInv
<1>2. Serving /\ AfterHello /\ IsChannel(toDevice)
  BY DEF SessionInv, ChannelInv, HostInv, AfterHello, Resting, Sending, Answered
<1>3. setRequest = request /\ Tail(inbox) = <<>>
  BY <1>2 DEF Serving, Request, SetRequestFrame, setRequest
<1> DEFINE e == SetResultFrame(setRequest.id, status, hostGeneration)
<1>4. e.type = "SET_RESULT" /\ e.id = request.id /\ toDevice' = Append(toDevice, e)
  BY <1>3 DEF SetResultFrame
<1> HIDE DEF e
<1>5. /\ IsChannel(toDevice') /\ toDevice'[Len(toDevice) + 1] = e
      /\ InFlight(toDevice', "SET_RESULT") = {Len(toDevice) + 1}
      /\ InFlight(toDevice', "HELLO_REQ") = InFlight(toDevice, "HELLO_REQ")
  <2>1. InFlight(toDevice, e.type) = {} /\ "HELLO_REQ" # e.type
    BY <1>2, <1>4 DEF Serving, Results
  <2>2. /\ IsChannel(Append(toDevice, e)) /\ Append(toDevice, e)[Len(toDevice) + 1] = e
        /\ InFlight(Append(toDevice, e), e.type) = {Len(toDevice) + 1}
        /\ \A type : type # e.type =>
             InFlight(Append(toDevice, e), type) = InFlight(toDevice, type)
    BY <1>2, <2>1, AppendedInFlight
  <2>. QED
    BY <1>4, <2>1, <2>2
<1>6. /\ UNCHANGED <<link, toHost, setPending, pendingRequestId, request, connected>>
      /\ inbox' = <<>> /\ pc' = "capture"
  BY <1>3 DEF deviceVars, vars, modeVars, requestVars, selectorVars
<1>7. Answered'
  <2>1. pendingRequestId = request.id
    BY <1>2 DEF SessionInv, ScreenInv, Serving
  <2>2. Len(toDevice) + 1 \in DOMAIN toDevice'
    BY <1>5 DEF InFlight
  <2>. QED
    BY <1>2, <1>4, <1>5, <1>6, <2>1, <2>2 DEF Serving, Answered, Results, InFlight
<1>8. AfterHello'
  BY <1>2, <1>5, <1>6, <1>7 DEF AfterHello, InFlight
<1>9. HostInv'
  <2>1. CaptureShape'
    BY NoSnapshotShape
  <2>. QED
    BY <1>6, <2>1 DEF HostInv
<1>10. ChannelInv'
  BY <1>5, <1>6, <1>8 DEF ChannelInv, IsChannel
<1>. QED
  BY <1>1, <1>9, <1>10 DEF SessionInv

LEMMA HostStepInv ==
  ASSUME SessionInv, Host
  PROVE  SessionInv'
<1> USE DEF Host
<1>1. CASE HostHelloResponse
  BY <1>1, HelloResponseInv
<1>2. CASE HostNoticesLoss
  <2>1. ScreenInv' /\ HostInv'
    BY <1>2, ScreenKept, SessionEndsInv DEF SessionInv, HostNoticesLoss
  <2>2. ChannelInv'
    BY <1>2, EmptyIsChannel DEF HostNoticesLoss, linkVars, SessionInv, ChannelInv
  <2>. QED
    BY <2>1, <2>2 DEF SessionInv
<1>3. CASE CaptureStep
  BY <1>3, CaptureStepInv
<1>4. CASE CaptureDone
  BY <1>4, CaptureDoneInv
<1>5. CASE \E receive, due \in BOOLEAN : Poll(receive, due)
  BY <1>5, PollInv
<1>6. CASE RejectStale \/ RejectHandle
  BY <1>6, ReplyInv
  DEF RejectStale, RejectHandle, audioVars, EndpointsFinite, SessionInv, HostInv
<1>7. CASE ResolveHandle
  <2>1. ScreenInv'
    BY ScreenKept DEF SessionInv
  <2>2. HostInv'
    <3>1. CaptureShape'
      BY <1>7, CaptureShapeKept DEF SessionInv, HostInv, ResolveHandle
    <3>. QED
      BY <1>7, <3>1 DEF SessionInv, HostInv, ResolveHandle, audioVars, EndpointsFinite
  <2>3. ChannelInv'
    BY <1>7, ChannelKept
    DEF SessionInv, ResolveHandle, deviceVars, vars, modeVars, requestVars, selectorVars
  <2>. QED
    BY <2>1, <2>2, <2>3 DEF SessionInv
<1>8. CASE \E reached \in RoleOutcomes : Apply(reached)
  <2>1. PICK reached \in RoleOutcomes : Apply(reached)
    BY <1>8
  <2>2. pc = "apply" /\ UNCHANGED present
    BY <2>1 DEF Apply, SetDefaults
  <2>3. EndpointsFinite'
    BY <2>2 DEF SessionInv, HostInv, EndpointsFinite
  <2>4. CASE link
    <3>1. PICK status : Reply(status)
      BY <2>1, <2>4 DEF Apply
    <3>. QED
      BY <2>2, <2>3, <2>4, <3>1, ReplyInv
  <2>5. CASE ~link
    <3>1. SessionEnds /\ UNCHANGED linkVars
      BY <2>1, <2>5 DEF Apply
    <3>2. HostInv'
      <4>1. CaptureShape'
        BY <3>1, NoSnapshotShape DEF SessionEnds
      <4>. QED
        BY <2>3, <3>1, <4>1 DEF HostInv, SessionEnds
    <3>3. ScreenInv'
      BY ScreenKept DEF SessionInv
    <3>4. ChannelInv'
      BY <2>5, <3>1 DEF SessionInv, ChannelInv, linkVars, IsChannel
    <3>. QED
      BY <3>2, <3>3, <3>4 DEF SessionInv
  <2>. QED
    BY <2>4, <2>5
<1>. QED
  BY <1>1, <1>2, <1>3, <1>4, <1>5, <1>6, <1>7, <1>8 DEF HostStep

-----------------------------------------------------------------------------
(* The device.                                                             *)

LEMMA EdgesInv ==
  ASSUME SessionInv, UNCHANGED <<audioVars, hostVars>>,
         ConnectedEdge \/ DisconnectedEdge
  PROVE  SessionInv'
<1>1. HostInv'
  BY HostKept DEF SessionInv
<1>2. ScreenInv'
  BY DEF ConnectedEdge, DisconnectedEdge, Clear, DisconnectSession, SessionReset, ScreenInv
<1>3. CASE ConnectedEdge
  <2>1. link /\ ~connected /\ UNCHANGED linkVars /\ ~ready' /\ ~setPending' /\ connected'
    BY <1>3 DEF ConnectedEdge, Clear, SessionReset
  <2>2. pc = "hello" /\ Greeting
    BY <2>1 DEF SessionInv, ChannelInv, AfterHello
  <2>3. Greeting'
    BY <2>1, <2>2 DEF Greeting, linkVars
  <2>4. ChannelInv'
    BY <2>1, <2>2, <2>3 DEF SessionInv, ChannelInv, IsChannel, linkVars, hostVars
  <2>. QED
    BY <1>1, <1>2, <2>4 DEF SessionInv
<1>4. CASE DisconnectedEdge
  <2>1. ChannelInv'
    BY <1>4 DEF DisconnectedEdge, SessionInv, ChannelInv, IsChannel, linkVars
  <2>. QED
    BY <1>1, <1>2, <2>1 DEF SessionInv
<1>. QED
  BY <1>3, <1>4

LEMMA HelloInv ==
  ASSUME SessionInv, UNCHANGED <<audioVars, hostVars>>, HandleHello
  PROVE  SessionInv'
<1> USE DEF HandleHello, Receive
<1>1. HostInv'
  BY HostKept DEF SessionInv
<1>2. ScreenInv'
  BY DEF SessionInv, ScreenInv, vars, modeVars, requestVars
<1>3. link /\ IsChannel(toDevice)
  BY DEF SessionInv, ChannelInv
<1>4. 1 \in InFlight(toDevice, "HELLO_REQ")
  BY <1>3, TakenInFlight DEF InFlight
<1>5. pc = "hello" /\ Greeting
  BY <1>3, <1>4 DEF SessionInv, ChannelInv, AfterHello
<1>6. toDevice = <<HelloRequest>> /\ toHost = <<>>
  BY <1>5 DEF Greeting
<1>7. toDevice' = <<>> /\ toHost' = <<HelloResponse>>
  <2>1. frame = HelloRequest
    BY <1>6, HelloChannel DEF frame
  <2>2. Speaks(frame)
    BY <2>1 DEF Speaks, HelloRequest, ProtocolVersion
  <2>. QED
    BY <1>3, <1>6, <2>2, HelloChannel DEF Sent
<1>8. Greeting'
  BY <1>5, <1>7 DEF Greeting, vars, modeVars
<1>9. ChannelInv'
  BY <1>3, <1>5, <1>7, <1>8, EmptyIsChannel DEF ChannelInv, hostVars
<1>. QED
  BY <1>1, <1>2, <1>9 DEF SessionInv

\* A frame of a list changes nothing of the request.
LEMMA ListFrameInv ==
  ASSUME SessionInv, UNCHANGED <<audioVars, hostVars>>,
         NEW type \in {"SYNC_BEGIN", "ENDPOINT", "CURRENT", "SYNC_END"}, Receive(type),
         UNCHANGED <<toHost, handshakeComplete, connectionStatus,
                     setPending, pendingRequestId, request>>,
         ready' => ready \/ handshakeComplete,
         setPending => (ready => ready')
  PROVE  SessionInv'
<1> USE DEF Receive
<1>1. HostInv'
  BY HostKept DEF SessionInv
<1>2. ScreenInv'
  BY DEF SessionInv, ScreenInv
<1>3. link /\ IsChannel(toDevice) /\ Head(toDevice).type = type
  BY DEF SessionInv, ChannelInv
<1>4. pc # "hello" /\ AfterHello
  BY <1>3, HelloChannel DEF SessionInv, ChannelInv, Greeting
<1>5. /\ IsChannel(toDevice')
      /\ InFlight(toDevice', "HELLO_REQ") = {}
      /\ \A k : Results \subseteq {k} =>
           /\ InFlight(toDevice', "SET_RESULT") = {i - 1 : i \in Results}
           /\ \A i \in Results : i \in Int /\ toDevice'[i - 1] = toDevice[i]
  <2>1. IsChannel(Tail(toDevice))
    BY <1>3, TakenInFlight
  <2>2. InFlight(Tail(toDevice), "HELLO_REQ") = {i - 1 : i \in InFlight(toDevice, "HELLO_REQ")}
    BY <1>3, <1>4, TakenInFlight DEF AfterHello
  <2>3. InFlight(Tail(toDevice), "HELLO_REQ") = {}
    BY <1>4, <2>2 DEF AfterHello
  <2>4. type # "SET_RESULT"
    OBVIOUS
  <2>5. \A k : InFlight(toDevice, "SET_RESULT") \subseteq {k} =>
           /\ InFlight(Tail(toDevice), "SET_RESULT")
                = {i - 1 : i \in InFlight(toDevice, "SET_RESULT")}
           /\ \A i \in InFlight(toDevice, "SET_RESULT") :
                i \in Int /\ Tail(toDevice)[i - 1] = toDevice[i]
    BY <1>3, <2>4, TakenInFlight
  <2>. QED
    BY <2>1, <2>3, <2>5 DEF Results
<1>6. UNCHANGED <<link, connected, toHost, inbox, pc, setPending, pendingRequestId, request>>
  BY DEF hostVars
<1>7. Request' = Request
  BY <1>6 DEF Request
<1>8. Results = {} => Results' = {}
  BY <1>5 DEF Results, InFlight
<1>9. Answered => Answered'
  <2> SUFFICES ASSUME Answered PROVE Answered'
    OBVIOUS
  <2>1. PICK i \in DOMAIN toDevice : Results = {i} /\ toDevice[i].id = pendingRequestId
    BY DEF Answered
  <2>2. /\ InFlight(toDevice', "SET_RESULT") = {i - 1}
        /\ toDevice'[i - 1].id = pendingRequestId'
    BY <1>5, <1>6, <2>1
  <2>3. i - 1 \in DOMAIN toDevice'
    BY <2>2 DEF InFlight
  <2>. QED
    BY <1>6, <2>2, <2>3 DEF Answered, Results, InFlight
<1>10. AfterHello'
  <2>1. InFlight(toDevice, "HELLO_REQ")' = {}
    BY <1>5 DEF InFlight
  <2>. QED
    BY <1>4, <1>6, <1>7, <1>8, <1>9, <2>1 DEF AfterHello, Resting, Sending, Serving
<1>11. ChannelInv'
  BY <1>3, <1>4, <1>5, <1>6, <1>10 DEF SessionInv, ChannelInv, IsChannel
<1>. QED
  BY <1>1, <1>2, <1>11 DEF SessionInv

\* A result is the result of the outstanding request, and ends it.
LEMMA ResultInv ==
  ASSUME SessionInv, UNCHANGED <<audioVars, hostVars>>, HandleSetResult
  PROVE  SessionInv'
<1> USE DEF HandleSetResult, Receive
<1>1. HostInv'
  BY HostKept DEF SessionInv
<1>2. link /\ IsChannel(toDevice) /\ Head(toDevice).type = "SET_RESULT"
  BY DEF SessionInv, ChannelInv
<1>3. pc # "hello" /\ AfterHello
  BY <1>2, HelloChannel DEF SessionInv, ChannelInv, Greeting
<1>4. Head(toDevice) = toDevice[1] /\ 1 \in Results
  BY <1>2, TakenInFlight DEF Results, InFlight
<1>5. Answered
  BY <1>3, <1>4 DEF AfterHello, Resting, Sending, Serving
<1>6. Results = {1} /\ frame.id = pendingRequestId
  BY <1>4, <1>5 DEF Answered, frame
<1>7. handshakeComplete /\ setPending
  BY <1>5 DEF Answered, SessionInv, ScreenInv
<1>8. /\ ~setPending' /\ UNCHANGED <<link, connected, toHost, inbox, pc, ready,
                                     handshakeComplete, connectionStatus>>
      /\ toDevice' = Tail(toDevice)
  BY <1>6, <1>7 DEF FinishSetRequest, hostVars
<1>9. ScreenInv'
  BY <1>8 DEF SessionInv, ScreenInv
<1>10. /\ IsChannel(toDevice') /\ InFlight(toDevice', "SET_RESULT") = {}
       /\ InFlight(toDevice', "HELLO_REQ") = {}
  <2>1. IsChannel(Tail(toDevice))
    BY <1>2, TakenInFlight
  <2>2. InFlight(toDevice, "SET_RESULT") \subseteq {1}
    BY <1>6 DEF Results
  <2>3. InFlight(Tail(toDevice), "SET_RESULT") = {}
    BY <1>2, <2>2, TakenInFlight
  <2>4. InFlight(toDevice, "HELLO_REQ") = {} /\ Head(toDevice).type # "HELLO_REQ"
    BY <1>2, <1>3 DEF AfterHello
  <2>5. InFlight(Tail(toDevice), "HELLO_REQ") = {i - 1 : i \in InFlight(toDevice, "HELLO_REQ")}
    BY <1>2, <2>4, TakenInFlight
  <2>. QED
    BY <1>8, <2>1, <2>3, <2>4, <2>5
<1>11. Resting' /\ AfterHello'
  BY <1>3, <1>5, <1>8, <1>10 DEF AfterHello, Answered, Resting, Results, InFlight
<1>12. ChannelInv'
  BY <1>2, <1>3, <1>8, <1>10, <1>11 DEF ChannelInv, IsChannel, SessionInv
<1>. QED
  BY <1>1, <1>9, <1>12 DEF SessionInv

LEMMA DeviceStepInv ==
  ASSUME SessionInv, Device
  PROVE  SessionInv'
<1> USE DEF Device
<1>1. CASE ConnectedEdge \/ DisconnectedEdge
  BY <1>1, EdgesInv
<1>2. CASE HandleHello
  BY <1>2, HelloInv
<1>3. CASE HandleSyncBegin
  BY <1>3, ListFrameInv DEF HandleSyncBegin, BeginSync, Refuse, Ignored, vars, modeVars,
     requestVars
<1>4. CASE HandleEndpoint
  BY <1>4, ListFrameInv DEF HandleEndpoint, AddEndpoint, Refuse, Ignored, vars, modeVars,
     requestVars
<1>5. CASE HandleCurrent
  BY <1>5, ListFrameInv DEF HandleCurrent, SetCurrent, Refuse, Ignored, vars, modeVars,
     requestVars
<1>6. CASE HandleSyncEnd
  <2>1. /\ UNCHANGED <<setPending, pendingRequestId, request>>
        /\ ready' => ready \/ handshakeComplete
        /\ setPending => (ready => ready')
    BY <1>6 DEF HandleSyncEnd, CommitAccepted, CommitRejected, CancelSync, requestVars
  <2>. QED
    BY <1>6, <2>1, ListFrameInv DEF HandleSyncEnd
<1>7. CASE HandleSetResult
  BY <1>7, ResultInv
<1>. QED
  BY <1>1, <1>2, <1>3, <1>4, <1>5, <1>6, <1>7 DEF HandleFrame

-----------------------------------------------------------------------------
(* The user.                                                               *)

LEMMA PressInv ==
  ASSUME SessionInv, UNCHANGED <<audioVars, hostVars>>, NEW f \in Flows, PressCenter(f)
  PROVE  SessionInv'
<1> USE DEF PressCenter, selectorVars
<1>1. HostInv'
  BY HostKept DEF SessionInv
<1>2. CASE BeginSetRequestAccepted(f)
  <2>1. /\ ready /\ ~setPending /\ setPending' /\ ready' /\ pendingRequestId' = request'.id
        /\ UNCHANGED <<link, toDevice, connected, handshakeComplete, connectionStatus>>
        /\ toHost' = Sent(toHost, <<SetRequestFrame(request')>>)
    BY <1>2 DEF BeginSetRequestAccepted, BeginSetRequestError
  <2>2. ScreenInv'
    BY <2>1 DEF SessionInv, ScreenInv
  <2>3. CASE link
    <3>1. pc # "hello" /\ AfterHello
      BY <2>1, <2>3 DEF SessionInv, ChannelInv, Greeting
    <3>2. Resting
      BY <2>1, <3>1 DEF AfterHello, Sending, Serving, Answered
    <3>3. toHost' = <<Request>>'
      BY <2>1, <2>3, <3>2 DEF Resting, Sent, Request
    <3>4. Sending' /\ AfterHello'
      BY <2>1, <3>1, <3>2, <3>3 DEF Resting, Sending, AfterHello, Results, InFlight, hostVars
    <3>5. ChannelInv'
      BY <2>1, <2>3, <3>1, <3>4 DEF SessionInv, ChannelInv, IsChannel, hostVars
    <3>. QED
      BY <1>1, <2>2, <3>5 DEF SessionInv
  <2>4. CASE ~link
    <3>1. ChannelInv'
      BY <2>1, <2>4 DEF SessionInv, ChannelInv, IsChannel, Sent
    <3>. QED
      BY <1>1, <2>2, <3>1 DEF SessionInv
  <2>. QED
    BY <2>3, <2>4
<1>3. CASE Refuse(BeginSetRequestError(f))
  <2>1. UNCHANGED <<linkVars, selectorVars, modeVars, requestVars>>
    BY <1>3 DEF Refuse, modeVars, linkVars
  <2>2. ScreenInv'
    BY <2>1 DEF SessionInv, ScreenInv, modeVars, requestVars
  <2>3. ChannelInv'
    BY <2>1, ChannelKept DEF SessionInv, modeVars, requestVars, hostVars
  <2>. QED
    BY <1>1, <2>2, <2>3 DEF SessionInv
<1>. QED
  BY <1>2, <1>3 DEF BeginSetRequest

LEMMA UserInv ==
  ASSUME SessionInv, User
  PROVE  SessionInv'
<1>1. UNCHANGED <<audioVars, hostVars>>
  BY DEF User
<1>2. CASE \E f \in Flows : PressCenter(f)
  BY <1>1, <1>2, PressInv
<1>3. CASE \/ \E f \in Flows, d \in {-1, 1} : Turn(f, d)
           \/ \E f \in Flows : PressCenterQueueFull(f)
           \/ PressCenterDisconnected \/ ErrorExpires
  <2>1. /\ UNCHANGED <<linkVars, connected, handshakeComplete, ready, setPending,
                       pendingRequestId, request>>
        /\ \/ UNCHANGED connectionStatus
           \/ connectionStatus # "Connected" /\ connectionStatus' # "Connected"
    BY <1>3 DEF Turn, CycleCandidate, PressCenterQueueFull, PressCenterDisconnected,
       ErrorExpires, vars, modeVars, requestVars, selectorVars
  <2>2. HostInv'
    BY <1>1, HostKept DEF SessionInv
  <2>3. ScreenInv'
    BY <2>1 DEF SessionInv, ScreenInv
  <2>4. ChannelInv'
    BY <1>1, <2>1, ChannelKept DEF SessionInv, hostVars
  <2>. QED
    BY <2>2, <2>3, <2>4 DEF SessionInv
<1>. QED
  BY <1>2, <1>3 DEF User

-----------------------------------------------------------------------------
(* The theorems.                                                           *)

LEMMA SessionNextInv == SessionInv /\ [SessionNext]_sessionVars => SessionInv'
<1> SUFFICES ASSUME SessionInv, [SessionNext]_sessionVars PROVE SessionInv'
  OBVIOUS
<1>1. CASE UNCHANGED sessionVars
  <2>1. UNCHANGED <<deviceVars, linkVars, audioVars, hostVars>>
    BY <1>1 DEF sessionVars
  <2>2. HostInv' /\ ScreenInv'
    BY <2>1, HostKept, ScreenKept DEF SessionInv
  <2>3. ChannelInv'
    BY <2>1, ChannelKept
    DEF SessionInv, deviceVars, vars, modeVars, requestVars, selectorVars, hostVars
  <2>. QED
    BY <2>2, <2>3 DEF SessionInv
<1>. QED
  BY <1>1, ConnectInv, BreaksInv, HostStepInv, DeviceStepInv, WindowsInv, UserInv
  DEF SessionNext

LEMMA SessionAlways == SessionSpec => []SessionInv
  BY SessionInitInv, SessionNextInv, PTL DEF SessionSpec

\* The screen says connected only after HELLO on this connection, and a list
\* is usable only then (handleProtocolFrame, activateSettingsItem).
THEOREM ScreenSaysTheTruth == SessionSpec => []ConnectedMeansHandshake
<1>1. SessionInv => ConnectedMeansHandshake
  BY DEF SessionInv, ScreenInv, ConnectedMeansHandshake
<1>. QED
  BY <1>1, SessionAlways, PTL

LEMMA OneFrame ==
  ASSUME NEW e
  PROVE  /\ Len(<<e>>) = 1
         /\ Cardinality(InFlight(<<e>>, e.type)) = 1
         /\ \A t : t # e.type => Cardinality(InFlight(<<e>>, t)) = 0
<1>1. DOMAIN <<e>> = {1} /\ <<e>>[1] = e /\ Len(<<e>>) = 1
  OBVIOUS
<1>2. InFlight(<<e>>, e.type) = {1} /\ \A t : t # e.type => InFlight(<<e>>, t) = {}
  BY <1>1, Zenon DEF InFlight
<1>. QED
  BY <1>1, <1>2, FS_Singleton, FS_EmptySet

\* A set request is at one place at a time, of which a result is one, and a
\* result on its way is for the request the selector waits for (prepareSet-
\* Request, handle_set_request): for any number of requests and sessions.
THEOREM RequestsAreAnsweredOnce == SessionSpec => []OneRequestUnderWay
<1>1. SessionInv => OneRequestUnderWay
  <2> SUFFICES ASSUME SessionInv PROVE OneRequestUnderWay
    OBVIOUS
  <2> DEFINE q == Cardinality(InFlight(toHost, "SET_REQ"))
             r == Cardinality(Results)
  <2>1. /\ \A t : Cardinality(InFlight(<<>>, t)) = 0
        /\ Len(<<>>) = 0
    BY EmptyIsChannel, FS_EmptySet
  <2>2. CASE ~link
    <3>1. q = 0 /\ r = 0 /\ Len(inbox) \in {0, 1}
      BY <2>1, <2>2 DEF SessionInv, ChannelInv, HostInv, Results
    <3>2. \A n \in {0, 1} : 0 + n + 0 <= 1
      OBVIOUS
    <3>3. q + Len(inbox) + r <= 1
      <4>1. 0 + Len(inbox) + 0 <= 1
        BY <3>1, <3>2, Zenon
      <4>. QED
        BY <3>1, <4>1, Zenon
    <3>. QED
      BY <2>2, <3>3 DEF OneRequestUnderWay, Results
  <2>3. CASE link /\ pc = "hello"
    <3>1. inbox = <<>> /\ ~setPending /\ Greeting
      BY <2>3 DEF SessionInv, ChannelInv, HostInv, Greeting
    <3>2. InFlight(<<HelloRequest>>, "SET_RESULT") = {}
      BY HelloChannel
    <3>3. Results = {} /\ r = 0
      BY <2>1, <3>1, <3>2, EmptyIsChannel DEF Greeting, Results
    <3>4. HelloResponse.type # "SET_REQ"
      BY DEF HelloResponse
    <3>5. q = 0
      BY <2>1, <3>1, <3>4, OneFrame DEF Greeting
    <3>. QED
      BY <2>1, <3>1, <3>3, <3>5 DEF OneRequestUnderWay, Results
  <2>4. CASE link /\ pc # "hello"
    <3>1. AfterHello
      BY <2>4 DEF SessionInv, ChannelInv
    <3>2. Request.type = "SET_REQ"
      BY DEF Request, SetRequestFrame
    <3>3. CASE Resting
      <4>1. q = 0 /\ r = 0 /\ Len(inbox) = 0 /\ Results = {} /\ ~setPending
        BY <2>1, <3>3, FS_EmptySet DEF Resting
      <4>2. q + Len(inbox) + r = 0
        <5> HIDE DEF q, r
        <5>. QED
          BY <4>1
      <4>. QED
        BY <4>1, <4>2 DEF OneRequestUnderWay, Results
    <3>4. CASE Sending
      <4>1. q = 1
        BY <3>2, <3>4, OneFrame DEF Sending
      <4>2. r = 0 /\ Len(inbox) = 0 /\ Results = {}
        BY <2>1, <3>4, FS_EmptySet DEF Sending
      <4>3. q + Len(inbox) + r = 1
        <5> HIDE DEF q, r
        <5>. QED
          BY <4>1, <4>2
      <4>. QED
        BY <4>2, <4>3 DEF OneRequestUnderWay, Results
    <3>5. CASE Serving
      <4>1. Len(inbox) = 1
        BY <3>5, OneFrame DEF Serving
      <4>. QED
        BY <2>1, <3>5, <4>1, FS_EmptySet DEF Serving, OneRequestUnderWay, Results
    <3>6. CASE Answered
      <4>1. PICK i \in DOMAIN toDevice : Results = {i} /\ toDevice[i].id = pendingRequestId
        BY <3>6 DEF Answered
      <4>2. r = 1
        BY <4>1, FS_Singleton
      <4>. QED
        BY <2>1, <3>6, <4>1, <4>2 DEF Answered, OneRequestUnderWay, Results
    <3>. QED
      BY <3>1, <3>3, <3>4, <3>5, <3>6 DEF AfterHello
  <2>. QED
    BY <2>2, <2>3, <2>4
<1>. QED
  BY <1>1, SessionAlways, PTL

-----------------------------------------------------------------------------
(* Stages: how far a reader of the frames has come.  A stage is between     *)
(* two lists or within one; it knows the snapshot and the generation of     *)
(* the list it is in, or of the last one, and what of it has been read.     *)

Stage(phase, s, g, count, got) ==
  [phase |-> phase, snapshot |-> s, generation |-> g, count |-> count, got |-> got]

\* What the host may send: short enough lists of endpoints, and defaults that
\* are in them.
Sendable(s) ==
  \A f \in Flows :
    /\ IsChannel(s.list[f]) /\ Len(s.list[f]) <= ListLimit
    /\ \A i \in 1..Len(s.list[f]) : s.list[f][i] \in Names
    /\ s.handles[f] \in [Roles -> 0..Len(s.list[f])]

IsStage(m) ==
  /\ m = Stage(m.phase, m.snapshot, m.generation, m.count, m.got)
  /\ m.phase \in {"between", "list"}
  /\ m.generation \in Nat
  /\ m.phase = "list" =>
       /\ Sendable(m.snapshot) /\ m.generation # 0
       /\ m.count \in [Flows -> Nat]
       /\ \A f \in Flows : m.count[f] <= Len(m.snapshot.list[f])

\* With "rising" generations every list has a higher one than those before it.
Orders == {"any", "rising"}

NotAfter(order, m, k) ==
  order = "rising" =>
    /\ m.generation <= k.generation
    /\ m.generation = k.generation => m.snapshot = k.snapshot

Sizes(s) == [f \in Flows |-> Len(s.list[f])]

Begins(order, m, e, k) ==
  /\ m.phase = "between"
  /\ k = Stage("list", k.snapshot, k.generation, NoCounts, {})
  /\ e = SyncBegin(k.generation, Sizes(k.snapshot))
  /\ order = "rising" => m.generation < k.generation

Lengthens(m, e, k, f) ==
  /\ m.phase = "list" /\ m.count[f] < Len(m.snapshot.list[f])
  /\ e = EndpointRecord(f, m.count[f] + 1, m.snapshot.list[f][m.count[f] + 1])
  /\ k = Stage("list", m.snapshot, m.generation,
               [m.count EXCEPT ![f] = m.count[f] + 1], m.got)

NamesDefaults(m, e, k, f) ==
  /\ m.phase = "list"
  /\ e = CurrentHandles(f, m.snapshot.handles[f])
  /\ k = Stage("list", m.snapshot, m.generation, m.count, m.got \cup {f})

Ends(m, e, k) ==
  /\ m.phase = "list" /\ m.count = Sizes(m.snapshot) /\ m.got = Flows
  /\ e = SyncEnd(m.generation)
  /\ k = Stage("between", m.snapshot, m.generation, m.count, m.got)

Passes(m, e, k) == m.phase = "between" /\ e.type = "SET_RESULT" /\ k = m

\* A frame leads from one stage to the next.
Step(order, m, e, k) ==
  \/ Begins(order, m, e, k)
  \/ \E f \in Flows : Lengthens(m, e, k, f) \/ NamesDefaults(m, e, k, f)
  \/ Ends(m, e, k)
  \/ Passes(m, e, k)

\* The stages from m to k that the frames of a channel lead through.
Through(order, m, c, k, at) ==
  /\ at[0] = m /\ at[Len(c)] = k
  /\ \A i \in 0..Len(c) : IsStage(at[i]) /\ NotAfter(order, at[i], k)
  /\ \A i \in 1..Len(c) : Step(order, at[i - 1], c[i], at[i])

Leads(order, m, c, k) == \E at : Through(order, m, c, k, at)

LEMMA NotAfterReflexive ==
  ASSUME NEW order, NEW m, IsStage(m)
  PROVE  NotAfter(order, m, m)
  BY DEF NotAfter, IsStage

LEMMA NotAfterTransitive ==
  ASSUME NEW order, NEW m, NEW k, NEW n, IsStage(m), IsStage(k), IsStage(n),
         NotAfter(order, m, k), NotAfter(order, k, n)
  PROVE  NotAfter(order, m, n)
  BY DEF NotAfter, IsStage

LEMMA LeadsStages ==
  ASSUME NEW order, NEW m, NEW c, NEW k, IsChannel(c), Leads(order, m, c, k)
  PROVE  IsStage(m) /\ IsStage(k) /\ NotAfter(order, m, k)
<1>1. PICK at : Through(order, m, c, k, at)
  BY DEF Leads
<1>2. 0 \in 0..Len(c) /\ Len(c) \in 0..Len(c)
  BY DEF IsChannel
<1>. QED
  BY <1>1, <1>2 DEF Through

\* No frame, no step.
LEMMA LeadsNowhere ==
  ASSUME NEW order, NEW m, IsStage(m)
  PROVE  Leads(order, m, <<>>, m)
<1> DEFINE at == [i \in 0..0 |-> m]
<1>1. Len(<<>>) = 0
  OBVIOUS
<1>2. Through(order, m, <<>>, m, at)
  BY <1>1, NotAfterReflexive DEF Through
<1>. QED
  BY <1>2 DEF Leads

LEMMA LeadsNowhereElse ==
  ASSUME NEW order, NEW m, NEW k, Leads(order, m, <<>>, k)
  PROVE  m = k
<1>1. Len(<<>>) = 0
  OBVIOUS
<1>. QED
  BY <1>1 DEF Leads, Through

LEMMA LeadsOne ==
  ASSUME NEW order, NEW m, NEW e, NEW k, Step(order, m, e, k),
         IsStage(m), IsStage(k), NotAfter(order, m, k)
  PROVE  IsChannel(<<e>>) /\ Leads(order, m, <<e>>, k)
<1> DEFINE at == [i \in 0..1 |-> IF i = 0 THEN m ELSE k]
<1>1. Len(<<e>>) = 1 /\ <<e>>[1] = e /\ <<e>> \in Seq({e})
  OBVIOUS
<1>2. NotAfter(order, k, k)
  BY NotAfterReflexive
<1>3. at[0] = m /\ at[1] = k /\ 0..1 = {0, 1} /\ 1..1 = {1} /\ 1 - 1 = 0
  OBVIOUS
<1> HIDE DEF at
<1>4. Through(order, m, <<e>>, k, at)
  BY <1>1, <1>2, <1>3 DEF Through
<1>. QED
  BY <1>1, <1>4, SeqIsChannel DEF Leads

\* What leads to a stage, and what leads on from it.
LEMMA LeadsJoined ==
  ASSUME NEW order, NEW m, NEW k, NEW n, NEW c, NEW d, IsChannel(c), IsChannel(d),
         Leads(order, m, c, k), Leads(order, k, d, n)
  PROVE  IsChannel(c \o d) /\ Leads(order, m, c \o d, n)
<1>1. PICK at : Through(order, m, c, k, at)
  BY DEF Leads
<1>2. PICK on : Through(order, k, d, n, on)
  BY DEF Leads
<1> DEFINE l == Len(c)
           all == [i \in 0..(l + Len(d)) |-> IF i <= l THEN at[i] ELSE on[i - l]]
<1>3. /\ IsChannel(c \o d) /\ Len(c \o d) = l + Len(d) /\ l \in Nat /\ Len(d) \in Nat
      /\ \A i \in 1..(l + Len(d)) : (c \o d)[i] = IF i <= l THEN c[i] ELSE d[i - l]
  BY Joined DEF IsChannel
<1>4. IsStage(k) /\ IsStage(n) /\ NotAfter(order, k, n)
  BY LeadsStages
<1>5. \A i \in 0..l : all[i] = at[i]
  BY <1>3
<1>6. \A i \in 0..Len(d) : all[l + i] = on[i]
  <2> TAKE i \in 0..Len(d)
  <2>1. CASE i = 0
    BY <1>1, <1>2, <1>3, <2>1 DEF Through
  <2>2. CASE i # 0
    <3>1. ~(l + i <= l) /\ l + i \in 0..(l + Len(d)) /\ (l + i) - l = i
      BY <1>3, <2>2
    <3>. QED
      BY <3>1
  <2>. QED
    BY <2>1, <2>2
<1>7. \A i \in 0..(l + Len(d)) : i \in 0..l \/ \E j \in 0..Len(d) : i = l + j
  <2> TAKE i \in 0..(l + Len(d))
  <2>1. CASE i <= l
    BY <1>3, <2>1
  <2>2. CASE ~(i <= l)
    <3>1. i - l \in 0..Len(d) /\ i = l + (i - l)
      BY <1>3, <2>2
    <3>. QED
      BY <3>1
  <2>. QED
    BY <2>1, <2>2
<1> HIDE DEF all
<1>8. \A i \in 0..(l + Len(d)) : IsStage(all[i]) /\ NotAfter(order, all[i], n)
  <2>1. \A i \in 0..l : IsStage(at[i]) /\ NotAfter(order, at[i], n)
    BY <1>1, <1>4, NotAfterTransitive DEF Through
  <2>2. \A i \in 0..Len(d) : IsStage(on[i]) /\ NotAfter(order, on[i], n)
    BY <1>2 DEF Through
  <2>. QED
    BY <1>5, <1>6, <1>7, <2>1, <2>2
<1>9. \A i \in 1..(l + Len(d)) : Step(order, all[i - 1], (c \o d)[i], all[i])
  <2> TAKE i \in 1..(l + Len(d))
  <2>1. CASE i <= l
    <3>1. i \in 1..l /\ i \in 0..l /\ i - 1 \in 0..l
      BY <1>3, <2>1
    <3>. QED
      BY <1>1, <1>3, <1>5, <2>1, <3>1 DEF Through
  <2>2. CASE ~(i <= l)
    <3> DEFINE j == i - l
    <3>1. /\ j \in 1..Len(d) /\ j \in 0..Len(d) /\ j - 1 \in 0..Len(d)
          /\ l + j = i /\ l + (j - 1) = i - 1
      BY <1>3, <2>2
    <3>2. Step(order, on[j - 1], d[j], on[j])
      BY <1>2, <3>1 DEF Through
    <3>3. (c \o d)[i] = d[j]
      BY <1>3, <2>2
    <3> HIDE DEF j
    <3>4. all[i] = on[j] /\ all[i - 1] = on[j - 1]
      BY <1>6, <3>1
    <3>. QED
      BY <3>2, <3>3, <3>4
  <2>. QED
    BY <2>1, <2>2
<1>10. all[0] = m /\ all[l + Len(d)] = n
  <2>1. 0 \in 0..l /\ Len(d) \in 0..Len(d)
    BY <1>3
  <2>. QED
    BY <1>1, <1>2, <1>5, <1>6, <2>1 DEF Through
<1>11. Through(order, m, c \o d, n, all)
  BY <1>3, <1>8, <1>9, <1>10 DEF Through
<1>. QED
  BY <1>3, <1>11 DEF Leads

\* The first frame is taken.
LEMMA LeadsTaken ==
  ASSUME NEW order, NEW m, NEW k, NEW c, IsChannel(c), c # <<>>, Leads(order, m, c, k)
  PROVE  \E n : /\ Step(order, m, Head(c), n) /\ IsStage(m) /\ IsStage(n)
                /\ Leads(order, n, Tail(c), k)
<1>1. PICK at : Through(order, m, c, k, at)
  BY DEF Leads
<1> DEFINE S == {c[i] : i \in 1..Len(c)}
           t == Tail(c)
           on == [i \in 0..Len(t) |-> at[i + 1]]
<1>2. c \in Seq(S)
  BY ChannelIsSeq
<1> HIDE DEF S
<1>3. /\ Len(t) = Len(c) - 1 /\ Len(c) \in Nat \ {0}
      /\ \A i \in 1..(Len(c) - 1) : t[i] = c[i + 1]
      /\ Head(c) = c[1]
  BY <1>2
<1> HIDE DEF t
<1>4. Step(order, m, Head(c), at[1]) /\ IsStage(m) /\ IsStage(at[1])
  <2>1. 1 \in 1..Len(c) /\ 0 \in 0..Len(c) /\ 1 \in 0..Len(c) /\ 1 - 1 = 0
    BY <1>3
  <2>. QED
    BY <1>1, <1>3, <2>1 DEF Through
<1>5. \A i \in 0..Len(t) : i + 1 \in 0..Len(c) /\ on[i] = at[i + 1]
  BY <1>3
<1>6. \A i \in 1..Len(t) : /\ i + 1 \in 1..Len(c) /\ on[i] = at[i + 1]
                           /\ on[i - 1] = at[(i + 1) - 1] /\ t[i] = c[i + 1]
  <2> TAKE i \in 1..Len(t)
  <2>1. /\ i \in 0..Len(t) /\ i - 1 \in 0..Len(t) /\ (i - 1) + 1 = (i + 1) - 1
        /\ i \in 1..(Len(c) - 1) /\ i + 1 \in 1..Len(c)
    BY <1>3
  <2>. QED
    BY <1>3, <1>5, <2>1
<1>7. on[0] = at[1] /\ on[Len(t)] = k
  <2>1. 0 \in 0..Len(t) /\ Len(t) \in 0..Len(t) /\ Len(t) + 1 = Len(c) /\ 0 + 1 = 1
    BY <1>3
  <2>2. at[Len(c)] = k
    BY <1>1 DEF Through
  <2>. QED
    BY <1>5, <2>1, <2>2
<1> HIDE DEF on
<1>8. Through(order, at[1], t, k, on)
  BY <1>1, <1>5, <1>6, <1>7 DEF Through
<1>. QED
  BY <1>4, <1>8 DEF Leads, t

-----------------------------------------------------------------------------
(* The frames of one list lead from one moment between lists to another.    *)

Counted(m, f, n) ==
  Stage("list", m.snapshot, m.generation, [m.count EXCEPT ![f] = n], m.got)

LEMMA CountedStage ==
  ASSUME NEW m, IsStage(m), m.phase = "list", NEW f \in Flows,
         NEW n \in 0..Len(m.snapshot.list[f])
  PROVE  /\ IsStage(Counted(m, f, n))
         /\ \A order, k : k.generation = m.generation /\ k.snapshot = m.snapshot
              => NotAfter(order, Counted(m, f, n), k)
<1>1. Sendable(m.snapshot) /\ m.generation \in Nat \ {0} /\ m.count \in [Flows -> Nat]
      /\ \A g \in Flows : m.count[g] <= Len(m.snapshot.list[g])
  BY DEF IsStage
<1>2. Len(m.snapshot.list[f]) \in Nat
  BY <1>1 DEF Sendable, IsChannel
<1>3. /\ [m.count EXCEPT ![f] = n] \in [Flows -> Nat]
      /\ \A g \in Flows : [m.count EXCEPT ![f] = n][g] <= Len(m.snapshot.list[g])
  BY <1>1, <1>2
<1>. QED
  BY <1>1, <1>3 DEF IsStage, Counted, Stage, NotAfter

LEMMA RecordsLead ==
  ASSUME NEW order, NEW m, IsStage(m), m.phase = "list", NEW f \in Flows, m.count[f] = 0
  PROVE  Leads(order, m, EndpointRecords(f, m.snapshot.list[f]),
               Counted(m, f, Len(m.snapshot.list[f])))
<1> DEFINE list == m.snapshot.list[f]
           l == Len(list)
           c == EndpointRecords(f, list)
           k == Counted(m, f, l)
           at == [i \in 0..l |-> Counted(m, f, i)]
<1>1. IsChannel(list) /\ l \in Nat /\ DOMAIN list = 1..l /\ m.count \in [Flows -> Nat]
  BY DEF IsStage, Sendable, IsChannel
<1>2. c = [i \in 1..l |-> EndpointRecord(f, i, list[i])]
  BY <1>1 DEF EndpointRecords
<1>3. Len(c) = l
  BY <1>1, <1>2
<1>4. \A i \in 0..l : IsStage(at[i]) /\ NotAfter(order, at[i], k)
  <2>1. k.generation = m.generation /\ k.snapshot = m.snapshot
    BY DEF Counted, Stage
  <2>. QED
    BY <2>1, CountedStage
<1>5. at[0] = m
  <2>1. [m.count EXCEPT ![f] = 0] = m.count
    BY <1>1
  <2>2. m = Stage("list", m.snapshot, m.generation, m.count, m.got)
    BY DEF IsStage
  <2>. QED
    BY <1>1, <2>1, <2>2 DEF Counted
<1>6. at[l] = k
  BY <1>1
<1>7. ASSUME NEW i \in 1..l
      PROVE  Step(order, at[i - 1], c[i], at[i])
  <2>1. i - 1 \in 0..l /\ i \in 0..l /\ (i - 1) + 1 = i /\ i - 1 < l
    BY <1>1
  <2> DEFINE a == Counted(m, f, i - 1)
  <2>2. at[i - 1] = a /\ at[i] = Counted(m, f, i)
    BY <2>1
  <2>3. /\ a.phase = "list" /\ a.snapshot = m.snapshot /\ a.generation = m.generation
        /\ a.count = [m.count EXCEPT ![f] = i - 1] /\ a.got = m.got
    BY DEF Counted, Stage
  <2>4. a.count[f] = i - 1
    BY <1>1, <2>3
  <2>5. [a.count EXCEPT ![f] = i] = [m.count EXCEPT ![f] = i]
    BY <1>1, <2>3
  <2>6. c[i] = EndpointRecord(f, i, list[i])
    BY <1>2
  <2> HIDE DEF a, c, at
  <2>7. Lengthens(a, c[i], Counted(m, f, i), f)
    BY <2>1, <2>3, <2>4, <2>5, <2>6 DEF Lengthens, Counted
  <2>. QED
    BY <2>2, <2>7 DEF Step
<1>8. Through(order, m, c, k, at)
  <2> HIDE DEF at, c, k
  <2>. QED
    BY <1>3, <1>4, <1>5, <1>6, <1>7 DEF Through
<1>. QED
  BY <1>8 DEF Leads

LEMMA ThreeFrames ==
  ASSUME NEW a, NEW b, NEW c
  PROVE  (<<a>> \o <<b>>) \o <<c>> = <<a, b, c>>
<1> DEFINE S == {a, b, c}
           l == (<<a>> \o <<b>>) \o <<c>>
           r == <<a, b, c>>
<1>1. <<a>> \in Seq(S) /\ <<b>> \in Seq(S) /\ <<c>> \in Seq(S) /\ r \in Seq(S)
  OBVIOUS
<1>2. Len(<<a>>) = 1 /\ Len(<<b>>) = 1 /\ Len(<<c>>) = 1 /\ Len(r) = 3
      /\ <<a>>[1] = a /\ <<b>>[1] = b /\ <<c>>[1] = c /\ r[1] = a /\ r[2] = b /\ r[3] = c
  OBVIOUS
<1>3. \A x, y \in Seq(S) : x \o y \in Seq(S) /\ Len(x \o y) = Len(x) + Len(y)
        /\ \A i \in 1..(Len(x) + Len(y)) :
             (x \o y)[i] = IF i <= Len(x) THEN x[i] ELSE y[i - Len(x)]
  <2> HIDE DEF S
  <2>. QED
    OBVIOUS
<1> HIDE DEF S
<1>4. <<a>> \o <<b>> \in Seq(S) /\ Len(<<a>> \o <<b>>) = 2
      /\ (<<a>> \o <<b>>)[1] = a /\ (<<a>> \o <<b>>)[2] = b
  BY <1>1, <1>2, <1>3
<1>5. l \in Seq(S) /\ Len(l) = 3 /\ l[1] = a /\ l[2] = b /\ l[3] = c
  BY <1>1, <1>2, <1>3, <1>4
<1> HIDE DEF l, r
<1>6. l = r
  <2>1. l = [i \in 1..3 |-> l[i]] /\ r = [i \in 1..3 |-> r[i]]
    BY <1>1, <1>2, <1>5
  <2>2. \A i \in 1..3 : l[i] = r[i]
    BY <1>2, <1>5
  <2>. QED
    BY <2>1, <2>2
<1>. QED
  BY <1>6 DEF l, r

LEMMA SyncLeads ==
  ASSUME NEW order, NEW m, IsStage(m), m.phase = "between",
         NEW s, Sendable(s), NEW g \in Nat \ {0}, order = "rising" => m.generation < g
  PROVE  LET k == Stage("between", s, g, Sizes(s), Flows)
         IN  /\ IsChannel(SyncFrames(s, g))
             /\ Leads(order, m, SyncFrames(s, g), k)
<1> DEFINE lo == Len(s.list["output"])
           li == Len(s.list["input"])
           m0 == Stage("list", s, g, NoCounts, {})
           m1 == Counted(m0, "output", lo)
           m2 == Counted(m1, "input", li)
           m3 == Stage("list", s, g, Sizes(s), {"output"})
           m4 == Stage("list", s, g, Sizes(s), Flows)
           k == Stage("between", s, g, Sizes(s), Flows)
           begin == SyncBegin(g, Sizes(s))
           output == EndpointRecords("output", s.list["output"])
           input == EndpointRecords("input", s.list["input"])
           co == CurrentHandles("output", s.handles["output"])
           ci == CurrentHandles("input", s.handles["input"])
           end == SyncEnd(g)
<1>1. "output" \in Flows /\ "input" \in Flows /\ Flows = {"output", "input"}
  BY DEF Flows
<1>2. \A f \in Flows : IsChannel(s.list[f]) /\ Len(s.list[f]) \in Nat
  BY DEF Sendable, IsChannel
<1>3. Sizes(s) \in [Flows -> Nat] /\ \A f \in Flows : Sizes(s)[f] = Len(s.list[f])
  BY <1>2 DEF Sizes
<1>4. NoCounts \in [Flows -> Nat] /\ \A f \in Flows : NoCounts[f] = 0
  BY DEF NoCounts
<1>5. IsStage(m0) /\ IsStage(m3) /\ IsStage(m4) /\ IsStage(k)
  BY <1>2, <1>3, <1>4 DEF IsStage, Stage
<1>6. /\ m0.phase = "list" /\ m0.snapshot = s /\ m0.count = NoCounts /\ m0.generation = g
      /\ m0.got = {}
  BY DEF Stage
<1>7. lo \in 0..lo /\ li \in 0..li
  BY <1>1, <1>2
<1>8. IsStage(m1) /\ Leads(order, m0, output, m1)
  BY <1>1, <1>4, <1>5, <1>6, <1>7, CountedStage, RecordsLead
<1>9. /\ m1.phase = "list" /\ m1.snapshot = s /\ m1.generation = g /\ m1.got = {}
      /\ m1.count = [NoCounts EXCEPT !["output"] = lo]
  BY <1>6 DEF Counted, Stage
<1>10. m1.count["input"] = 0
  BY <1>1, <1>4, <1>9
<1>11. IsStage(m2) /\ Leads(order, m1, input, m2)
  BY <1>1, <1>7, <1>8, <1>9, <1>10, CountedStage, RecordsLead
<1>12. m2 = Stage("list", s, g, Sizes(s), {})
  <2>1. [[NoCounts EXCEPT !["output"] = lo] EXCEPT !["input"] = li] = Sizes(s)
    BY <1>1, <1>3, <1>4 DEF Sizes
  <2>. QED
    BY <1>9, <2>1 DEF Counted
<1>13. IsChannel(<<begin>>) /\ Leads(order, m, <<begin>>, m0)
  <2>1. Step(order, m, begin, m0)
    BY <1>6 DEF Step, Begins
  <2>2. NotAfter(order, m, m0)
    BY <1>6 DEF NotAfter, IsStage
  <2>. QED
    BY <1>5, <2>1, <2>2, LeadsOne
<1>14. IsChannel(<<co>>) /\ Leads(order, m2, <<co>>, m3)
  <2>1. m2.phase = "list" /\ m2.snapshot = s /\ m2.generation = g /\ m2.count = Sizes(s)
        /\ m2.got = {}
    <3> HIDE DEF m2
    <3>. QED
      BY <1>12 DEF Stage
  <2>2. Step(order, m2, co, m3)
    BY <1>1, <2>1 DEF Step, NamesDefaults
  <2>3. NotAfter(order, m2, m3)
    BY <2>1 DEF NotAfter, Stage
  <2>. QED
    BY <1>5, <1>11, <2>2, <2>3, LeadsOne
<1>15. IsChannel(<<ci>>) /\ Leads(order, m3, <<ci>>, m4)
  <2>1. m3.phase = "list" /\ m3.snapshot = s /\ m3.generation = g /\ m3.count = Sizes(s)
        /\ m3.got = {"output"}
    BY DEF Stage
  <2>2. {"output"} \cup {"input"} = Flows
    BY <1>1
  <2>3. Step(order, m3, ci, m4)
    BY <1>1, <2>1, <2>2 DEF Step, NamesDefaults
  <2>4. NotAfter(order, m3, m4)
    BY <2>1 DEF NotAfter, Stage
  <2>. QED
    BY <1>5, <2>3, <2>4, LeadsOne
<1>16. IsChannel(<<end>>) /\ Leads(order, m4, <<end>>, k)
  <2>1. m4.phase = "list" /\ m4.snapshot = s /\ m4.generation = g /\ m4.count = Sizes(s)
        /\ m4.got = Flows
    BY DEF Stage
  <2>2. Step(order, m4, end, k)
    BY <2>1 DEF Step, Ends
  <2>3. NotAfter(order, m4, k)
    BY <2>1 DEF NotAfter, Stage
  <2>. QED
    BY <1>5, <2>2, <2>3, LeadsOne
<1>17. IsChannel(output) /\ IsChannel(input)
  BY <1>1, <1>2, RecordFrames DEF ListFrames
<1>18. SyncFrames(s, g) = ((<<begin>> \o output) \o input) \o ((<<co>> \o <<ci>>) \o <<end>>)
  <2>1. (<<co>> \o <<ci>>) \o <<end>> = <<co, ci, end>>
    BY ThreeFrames
  <2>. QED
    BY <2>1 DEF SyncFrames, Sizes
<1> HIDE DEF m0, m1, m2, m3, m4, k, begin, output, input, co, ci, end
<1>19. IsChannel(<<begin>> \o output) /\ Leads(order, m, <<begin>> \o output, m1)
  BY <1>8, <1>13, <1>17, LeadsJoined
<1>20. /\ IsChannel((<<begin>> \o output) \o input)
       /\ Leads(order, m, (<<begin>> \o output) \o input, m2)
  BY <1>11, <1>17, <1>19, LeadsJoined
<1>21. IsChannel(<<co>> \o <<ci>>) /\ Leads(order, m2, <<co>> \o <<ci>>, m4)
  BY <1>14, <1>15, LeadsJoined
<1>22. /\ IsChannel((<<co>> \o <<ci>>) \o <<end>>)
       /\ Leads(order, m2, (<<co>> \o <<ci>>) \o <<end>>, k)
  BY <1>16, <1>21, LeadsJoined
<1>. QED
  BY <1>18, <1>20, <1>22, LeadsJoined DEF k

-----------------------------------------------------------------------------
(* What a capture holds.                                                   *)

\* An enumeration lists endpoints: each place is taken by one (normalize_-
\* endpoints), because no two of them rank the same.
LEMMA EveryPlaceIsTaken ==
  ASSUME EndpointsFinite, NEW f \in Flows, NEW i \in 1..Cardinality(present[f])
  PROVE  \E e \in present[f] : Cardinality(Before(f, e)) = i - 1
<1> DEFINE P == present[f]
           n == Cardinality(P)
           T == 0..(n - 1)
           place == [e \in P |-> Cardinality(Before(f, e))]
<1>1. P \in SUBSET Ids /\ IsFiniteSet(P) /\ n \in Nat
  BY AudioAssumption, FS_Subset, FS_CardinalityType DEF EndpointsFinite
<1>2. \A e \in P : /\ IsFiniteSet(Before(f, e)) /\ Cardinality(Before(f, e)) \in Nat
                   /\ Cardinality(Before(f, e)) <= n - 1
  <2> TAKE e \in P
  <2>1. Rank[e] \in Nat
    BY <1>1, AudioAssumption
  <2>2. Before(f, e) \in SUBSET (P \ {e})
    BY <2>1 DEF Before
  <2>3. IsFiniteSet(P \ {e}) /\ Cardinality(P \ {e}) = n - 1
    BY <1>1, FS_RemoveElement
  <2>. QED
    BY <2>2, <2>3, FS_Subset, FS_CardinalityType
<1>3. place \in [P -> T]
  BY <1>1, <1>2
<1>4. ASSUME NEW a \in P, NEW b \in P, Rank[a] < Rank[b]
      PROVE  Cardinality(Before(f, a)) # Cardinality(Before(f, b))
  <2>1. Rank[a] \in Nat /\ Rank[b] \in Nat /\ \A d \in P : Rank[d] \in Nat
    BY <1>1, AudioAssumption
  <2>2. Before(f, a) \in SUBSET Before(f, b)
    BY <1>4, <2>1 DEF Before
  <2>3. a \in Before(f, b) /\ a \notin Before(f, a)
    BY <1>4, <2>1 DEF Before
  <2>. QED
    BY <1>2, <2>2, <2>3, FS_Subset
<1>5. \A a, b \in P : place[a] = place[b] => a = b
  <2> TAKE a, b \in P
  <2>1. Rank[a] \in Nat /\ Rank[b] \in Nat /\ (Rank[a] = Rank[b] => a = b)
    BY <1>1, AudioAssumption
  <2>2. a # b => Rank[a] < Rank[b] \/ Rank[b] < Rank[a]
    BY <2>1
  <2>. QED
    BY <1>4, <2>2
<1> HIDE DEF place
<1>6. place \in Injection(P, T)
  BY <1>3, <1>5 DEF Injection, IsInjective
<1>7. IsFiniteSet(T) /\ Cardinality(T) = n
  <2>1. 0 \in Int /\ n - 1 \in Int
    BY <1>1
  <2>2. IsFiniteSet(T) /\ Cardinality(T) = IF 0 > n - 1 THEN 0 ELSE (n - 1) - 0 + 1
    BY <2>1, FS_Interval
  <2>. QED
    BY <1>1, <2>2
<1>8. place \in Surjection(P, T)
  BY <1>6, <1>7, FS_Injection
<1>9. i - 1 \in T
  BY <1>1
<1>10. PICK e \in P : place[e] = i - 1
  BY <1>8, <1>9 DEF Surjection
<1>. QED
  BY <1>10 DEF place

\* An enumeration is a short list of endpoints.
LEMMA EnumeratedIsShort ==
  ASSUME EndpointsFinite, NEW f \in Flows
  PROVE  /\ IsChannel(Enumerated(f)) /\ Len(Enumerated(f)) <= ListLimit
         /\ \A i \in 1..Len(Enumerated(f)) : Enumerated(f)[i] \in Names
<1> DEFINE n == Count(f)
<1>1. IsFiniteSet(present[f]) /\ present[f] \in SUBSET Ids
  BY AudioAssumption, FS_Subset DEF EndpointsFinite
<1>2. n \in Nat /\ n <= ListLimit /\ n <= Cardinality(present[f])
  BY <1>1, FS_CardinalityType, AudioAssumption DEF Count
<1>3. IsChannel(Enumerated(f)) /\ DOMAIN Enumerated(f) = 1..n
  BY EnumeratedIsChannel DEF Enumerated
<1>4. Len(Enumerated(f)) = n
  BY <1>2, <1>3 DEF IsChannel
<1>5. ASSUME NEW i \in 1..n
      PROVE  Enumerated(f)[i] \in present[f]
  <2>1. i \in 1..Cardinality(present[f])
    BY <1>1, <1>2, FS_CardinalityType
  <2>2. \E e \in present[f] : Cardinality(Before(f, e)) = i - 1
    BY <2>1, EveryPlaceIsTaken
  <2>3. Enumerated(f)[i] = CHOOSE e \in present[f] : Cardinality(Before(f, e)) = i - 1
    BY DEF Enumerated
  <2>. QED
    BY <2>2, <2>3
<1>. QED
  BY <1>1, <1>2, <1>3, <1>4, <1>5, SessionAssumption

\* A capture reads the lists before the defaults, and the defaults it gets
\* are places in the lists it has.
CaptureInv ==
  /\ reads \in 0..8
  /\ Sendable(capture)
  /\ capture.handles = [f \in Flows |-> capture.handles[f]]
  /\ reads < 2 => \A f \in Flows : capture.handles[f] = NoRoles

LEMMA NothingCaptured ==
  ASSUME capture' = NoSnapshot, reads' = 0
  PROVE  CaptureInv'
<1>1. ListLimit \in Nat
  BY AudioAssumption
<1>2. \A f \in Flows : NoSnapshot.list[f] = <<>> /\ NoSnapshot.handles[f] = NoRoles
  BY DEF NoSnapshot
<1>3. NoRoles \in [Roles -> 0..0]
  BY DEF NoRoles, NoHandle
<1>. QED
  BY <1>1, <1>2, <1>3, EmptyIsChannel DEF CaptureInv, Sendable, NoSnapshot

LEMMA HandleInList ==
  ASSUME NEW list, IsChannel(list), NEW id
  PROVE  HandleIn(list, id) \in 0..Len(list)
<1>1. DOMAIN list = 1..Len(list) /\ Len(list) \in Nat
  BY DEF IsChannel
<1>2. CASE \E i \in DOMAIN list : list[i] = id
  <2>1. HandleIn(list, id) \in DOMAIN list
    BY <1>2 DEF HandleIn
  <2>. QED
    BY <1>1, <2>1
<1>3. CASE ~\E i \in DOMAIN list : list[i] = id
  BY <1>1, <1>3 DEF HandleIn, NoHandle
<1>. QED
  BY <1>2, <1>3

LEMMA CaptureStepKeeps ==
  ASSUME CaptureInv, CaptureShape, EndpointsFinite, CaptureStep
  PROVE  CaptureInv'
<1> DEFINE f == ReadOrder[reads + 1][2]
<1>1. Len(ReadOrder) = 8 /\ reads \in 0..7 /\ reads' = reads + 1
  BY DEF CaptureStep, ReadOrder, CaptureInv
<1>2. CASE reads < 2
  <2>1. ReadOrder[reads + 1][1] = "list" /\ f \in Flows
    <3>1. reads = 0 \/ reads = 1
      BY <1>1, <1>2
    <3>. QED
      BY <3>1 DEF ReadOrder, Flows
  <2>2. capture' = [capture EXCEPT !.list[f] = Enumerated(f)]
    BY <2>1 DEF CaptureStep
  <2> HIDE DEF f
  <2>3. /\ capture'.handles = capture.handles
        /\ capture'.list = [g \in Flows |-> IF g = f THEN Enumerated(f) ELSE capture.list[g]]
    BY <2>2 DEF CaptureShape
  <2>4. \A g \in Flows : capture'.handles[g] = NoRoles
    BY <1>2, <2>3 DEF CaptureInv
  <2>5. Sendable(capture')
    <3> SUFFICES ASSUME NEW g \in Flows
                 PROVE  /\ IsChannel(capture'.list[g]) /\ Len(capture'.list[g]) <= ListLimit
                        /\ \A i \in 1..Len(capture'.list[g]) : capture'.list[g][i] \in Names
                        /\ capture'.handles[g] \in [Roles -> 0..Len(capture'.list[g])]
      BY DEF Sendable
    <3>1. /\ IsChannel(capture'.list[g]) /\ Len(capture'.list[g]) <= ListLimit
          /\ \A i \in 1..Len(capture'.list[g]) : capture'.list[g][i] \in Names
      <4>1. CASE g = f
        BY <2>1, <2>3, <4>1, EnumeratedIsShort
      <4>2. CASE g # f
        BY <2>3, <4>2 DEF CaptureInv, Sendable
      <4>. QED
        BY <4>1, <4>2
    <3>2. NoRoles \in [Roles -> 0..Len(capture'.list[g])]
      BY <3>1 DEF NoRoles, NoHandle, IsChannel
    <3>. QED
      BY <2>4, <3>1, <3>2
  <2>. QED
    BY <1>1, <2>3, <2>4, <2>5 DEF CaptureInv
<1>3. CASE ~(reads < 2)
  <2> DEFINE what == ReadOrder[reads + 1][1]
             d == defaults[f][what]
             h == HandleIn(capture.list[f], d)
  <2>1. what \in Roles /\ what # "list" /\ f \in Flows
    <3>1. reads \in 2..7
      BY <1>1, <1>3
    <3>. QED
      BY <3>1 DEF ReadOrder, Flows, Roles
  <2>2. capture' = [capture EXCEPT !.defaults[f][what] = d, !.handles[f][what] = h]
    BY <2>1 DEF CaptureStep
  <2>3. h \in 0..Len(capture.list[f])
    BY <2>1, HandleInList DEF CaptureInv, Sendable
  <2> HIDE DEF f, what, h, d
  <2>4. /\ capture'.list = capture.list
        /\ capture'.handles = [capture.handles EXCEPT ![f][what] = h]
    BY <2>2 DEF CaptureShape
  <2>5. /\ capture'.handles = [g \in Flows |-> capture'.handles[g]]
        /\ \A g \in Flows : capture'.handles[g] \in [Roles -> 0..Len(capture.list[g])]
    <3>1. /\ capture.handles = [g \in Flows |-> capture.handles[g]]
          /\ \A g \in Flows : capture.handles[g] \in [Roles -> 0..Len(capture.list[g])]
      BY DEF CaptureInv, Sendable
    <3>2. [capture.handles[f] EXCEPT ![what] = h] \in [Roles -> 0..Len(capture.list[f])]
      BY <2>1, <2>3, <3>1
    <3>3. /\ capture'.handles = [g \in Flows |->
              IF g = f THEN [capture.handles[f] EXCEPT ![what] = h] ELSE capture.handles[g]]
      BY <2>1, <2>4, <3>1
    <3>. QED
      BY <3>1, <3>2, <3>3
  <2>6. ~(reads' < 2)
    BY <1>1, <1>3
  <2>. QED
    BY <1>1, <2>4, <2>5, <2>6 DEF CaptureInv, Sendable
<1>. QED
  BY <1>2, <1>3

-----------------------------------------------------------------------------
(* The firmware at a stage.                                                *)

Entry(list, i)   == [handle |-> i, name |-> list[i]]
Entries(list, n) == [i \in 1..n |-> Entry(list, i)]

ReadSoFar(m, f) ==
  [endpoints |-> Entries(m.snapshot.list[f], m.count[f]),
   current |-> IF f \in m.got THEN m.snapshot.handles[f] ELSE NoRoles,
   currentHandle |-> NoHandle, candidateHandle |-> NoHandle]

\* A sync in progress holds what has been read of the list, and there is none
\* between two lists.
Reads(m) ==
  /\ m.phase = "between" => ~syncInProgress
  /\ syncInProgress =>
       /\ pending = [generation |-> m.generation,
                     flow |-> [f \in Flows |-> ReadSoFar(m, f)]]
       /\ expected = Sizes(m.snapshot)

\* The list on display is the last one read, or one of an earlier generation.
Displays(m) ==
  ready =>
    /\ active.generation \in Nat /\ active.generation <= m.generation
    /\ active.generation = m.generation =>
         /\ m.phase = "between"
         /\ \A f \in Flows : /\ Shown(f) = m.snapshot.list[f]
                              /\ active.flow[f].current = m.snapshot.handles[f]

ActiveShape ==
  /\ active = [generation |-> active.generation, flow |-> active.flow]
  /\ active.flow = [f \in Flows |-> active.flow[f]]
  /\ \A f \in Flows :
       active.flow[f] = [endpoints |-> active.flow[f].endpoints,
                         current |-> active.flow[f].current,
                         currentHandle |-> active.flow[f].currentHandle,
                         candidateHandle |-> active.flow[f].candidateHandle]

LEMMA EntriesFacts ==
  ASSUME NEW list, NEW n \in Nat
  PROVE  /\ Len(Entries(list, n)) = n /\ DOMAIN Entries(list, n) = 1..n
         /\ \A i \in 1..n : Entries(list, n)[i].handle = i /\ Entries(list, n)[i].name = list[i]
         /\ Append(Entries(list, n), Entry(list, n + 1)) = Entries(list, n + 1)
<1> DEFINE S == {Entry(list, i) : i \in 1..(n + 1)}
           c == Entries(list, n)
           d == Entries(list, n + 1)
           e == Entry(list, n + 1)
<1>1. /\ c = [i \in 1..n |-> Entry(list, i)]
      /\ d = [i \in 1..(n + 1) |-> Entry(list, i)]
  BY DEF Entries
<1>2. \A i \in 1..n : c[i].handle = i /\ c[i].name = list[i] /\ c[i] = d[i]
  BY <1>1 DEF Entry
<1>3. e \in S /\ \A i \in 1..(n + 1) : Entry(list, i) \in S
  OBVIOUS
<1>4. c \in Seq(S) /\ d \in Seq(S) /\ Len(c) = n /\ Len(d) = n + 1
      /\ DOMAIN c = 1..n /\ DOMAIN d = 1..(n + 1) /\ d[n + 1] = e
  <2> HIDE DEF S, c, d
  <2>1. \A i \in 1..n : i \in 1..(n + 1)
    OBVIOUS
  <2>2. d = [i \in 1..(n + 1) |-> d[i]] /\ \A i \in 1..(n + 1) : d[i] \in S
    BY <1>1, <1>3
  <2>3. c = [i \in 1..n |-> c[i]] /\ \A i \in 1..n : c[i] \in S
    BY <1>1, <1>3, <2>1
  <2>. QED
    BY <1>1, <2>2, <2>3
<1> HIDE DEF S, c, d, e
<1>5. Append(c, e) \in Seq(S) /\ Len(Append(c, e)) = n + 1
      /\ \A i \in 1..(n + 1) : Append(c, e)[i] = IF i = n + 1 THEN e ELSE c[i]
  BY <1>3, <1>4
<1>6. \A i \in 1..(n + 1) : Append(c, e)[i] = d[i]
  <2>1. \A i \in 1..(n + 1) : i # n + 1 => i \in 1..n
    OBVIOUS
  <2>. QED
    BY <1>2, <1>4, <1>5, <2>1
<1>7. Append(c, e) = d
  <2> DEFINE a == Append(c, e)
  <2> HIDE DEF a
  <2>3. a \in Seq(S) /\ Len(a) = n + 1
    BY <1>5 DEF a
  <2>1. a = [i \in 1..(n + 1) |-> a[i]] /\ d = [i \in 1..(n + 1) |-> d[i]]
    BY <1>4, <2>3
  <2>2. \A i \in 1..(n + 1) : a[i] = d[i]
    BY <1>6 DEF a
  <2>. QED
    BY <2>1, <2>2 DEF a
<1>. QED
  BY <1>2, <1>4, <1>7 DEF c, d, e

LEMMA NoEntries == ASSUME NEW list PROVE Entries(list, 0) = <<>>
<1>1. 1..0 = {}
  OBVIOUS
<1>. QED
  BY <1>1 DEF Entries

-----------------------------------------------------------------------------
(* What the firmware makes of each frame.                                  *)

Tolerable == {"None", "Busy", "NoSyncStarted", lastError}

LEMMA BeginRead ==
  ASSUME NEW order, NEW m, NEW n, NEW e, IsStage(m), IsStage(n), Begins(order, m, e, n),
         Reads(m), BeginSync(e.generation, e.counts)
  PROVE  /\ Reads(n)' /\ lastError' \in Tolerable
         /\ order = "rising" /\ Displays(m) => Displays(n)'
<1>1. /\ e.generation = n.generation /\ e.counts = Sizes(n.snapshot)
      /\ n.phase = "list" /\ n.count = NoCounts /\ n.got = {}
  BY DEF Begins, SyncBegin, Stage
<1>2. n.generation \in Nat \ {0} /\ Sendable(n.snapshot)
  BY <1>1 DEF IsStage
<1>3. ~syncInProgress
  BY DEF Reads, Begins
<1>4. \A f \in Flows : ~(e.counts[f] > MaxEndpoints)
  <2> TAKE f \in Flows
  <2>1. e.counts[f] = Len(n.snapshot.list[f])
    BY <1>1 DEF Sizes
  <2>2. /\ Len(n.snapshot.list[f]) \in Nat /\ Len(n.snapshot.list[f]) <= ListLimit
        /\ ListLimit \in Nat /\ MaxEndpoints \in Nat /\ ListLimit <= MaxEndpoints
    BY <1>2, AudioAssumption, ConstantsAssumption, SessionAssumption
    DEF Sendable, IsChannel
  <2>. QED
    BY <2>1, <2>2
<1>5. BeginSyncError(e.generation, e.counts) \in {"None", "Busy"}
  BY <1>1, <1>2, <1>3, <1>4 DEF BeginSyncError
<1>6. UNCHANGED <<active, ready>>
  BY DEF BeginSync, Refuse, modeVars
<1>7. order = "rising" /\ Displays(m) => Displays(n)'
  BY <1>6 DEF Displays, Begins, IsStage, Shown
<1>8. CASE BeginSyncError(e.generation, e.counts) = "Busy"
  <2>1. lastError' = "Busy" /\ ~syncInProgress'
    BY <1>3, <1>8 DEF BeginSync, Refuse, modeVars
  <2>. QED
    BY <1>7, <2>1 DEF Reads, Tolerable
<1>9. CASE BeginSyncError(e.generation, e.counts) = "None"
  <2>1. /\ pending' = [EmptySnapshot EXCEPT !.generation = e.generation]
        /\ expected' = e.counts /\ lastError' = "None"
    BY <1>9 DEF BeginSync
  <2>2. \A f \in Flows : ReadSoFar(n, f) = EmptyFlow
    BY <1>1, NoEntries DEF ReadSoFar, EmptyFlow, NoCounts
  <2>3. pending' = [generation |-> n.generation, flow |-> [f \in Flows |-> EmptyFlow]]
    BY <1>1, <2>1 DEF EmptySnapshot
  <2>4. [f \in Flows |-> ReadSoFar(n, f)] = [f \in Flows |-> EmptyFlow]
    BY <2>2
  <2>. QED
    BY <1>1, <1>7, <2>1, <2>3, <2>4 DEF Reads, Tolerable
<1>. QED
  BY <1>5, <1>8, <1>9

LEMMA EndpointRead ==
  ASSUME NEW m, NEW n, NEW e, IsStage(m), IsStage(n), NEW f \in Flows,
         Lengthens(m, e, n, f), Reads(m), AddEndpoint(e.flow, e.handle, e.name)
  PROVE  Reads(n)' /\ lastError' \in Tolerable /\ (Displays(m) => Displays(n)')
<1> DEFINE list == m.snapshot.list[f]
           c == m.count[f]
<1>1. /\ e.flow = f /\ e.handle = c + 1 /\ e.name = list[c + 1]
      /\ n.phase = "list" /\ n.snapshot = m.snapshot /\ n.generation = m.generation
      /\ n.got = m.got /\ n.count = [m.count EXCEPT ![f] = c + 1] /\ m.phase = "list"
  BY DEF Lengthens, EndpointRecord, Stage
<1>2. m.count \in [Flows -> Nat] /\ c \in Nat /\ c < Len(list) /\ Sendable(m.snapshot)
  BY <1>1 DEF IsStage, Lengthens
<1>3. UNCHANGED <<active, ready, syncInProgress, expected>>
  BY DEF AddEndpoint, Refuse, modeVars, syncVars
<1>4. Displays(m) => Displays(n)'
  BY <1>1, <1>3 DEF Displays, Shown
<1>5. CASE ~syncInProgress
  <2>1. lastError' = "NoSyncStarted"
    BY <1>5 DEF AddEndpoint, AddEndpointError, Refuse
  <2>. QED
    BY <1>1, <1>3, <1>4, <1>5, <2>1 DEF Reads, Tolerable
<1>6. CASE syncInProgress
  <2>1. /\ pending = [generation |-> m.generation,
                     flow |-> [g \in Flows |-> ReadSoFar(m, g)]]
        /\ expected = Sizes(m.snapshot)
    BY <1>6 DEF Reads
  <2>2. pending.flow[f] = ReadSoFar(m, f)
    BY <2>1
  <2>3. pending.flow[f].endpoints = Entries(list, c)
    BY <2>2 DEF ReadSoFar
  <2>4. /\ Len(Entries(list, c)) = c /\ DOMAIN Entries(list, c) = 1..c
        /\ \A i \in 1..c : Entries(list, c)[i].handle = i
        /\ Append(Entries(list, c), Entry(list, c + 1)) = Entries(list, c + 1)
    <3> HIDE DEF c, list
    <3>1. c \in Nat
      BY <1>2
    <3>. QED
      BY <3>1, EntriesFacts, ZenonT(60)
  <2>5. ~Lists(pending.flow[f], c + 1)
    <3>1. HandlesOf(pending.flow[f]) = {Entries(list, c)[i].handle : i \in 1..c}
      BY <2>3, <2>4 DEF HandlesOf
    <3>2. c + 1 \notin HandlesOf(pending.flow[f])
      BY <1>2, <2>4, <3>1
    <3>. QED
      BY <3>2 DEF Lists
  <2>6. ~(Len(pending.flow[f].endpoints) >= MaxEndpoints)
    <3>1. /\ Len(list) <= ListLimit /\ ListLimit \in Nat /\ MaxEndpoints \in Nat
          /\ ListLimit <= MaxEndpoints /\ Len(list) \in Nat
      BY <1>2, AudioAssumption, ConstantsAssumption, SessionAssumption
      DEF Sendable, IsChannel
    <3>. QED
      BY <1>2, <2>3, <2>4, <3>1
  <2>7. list[c + 1] \in Names /\ c + 1 # NoHandle
    <3>1. c + 1 \in 1..Len(list)
      BY <1>2 DEF Sendable, IsChannel
    <3>. QED
      BY <1>2, <3>1 DEF Sendable, NoHandle
  <2>8. AddEndpointError(e.flow, e.handle, e.name) = "None"
    BY <1>1, <1>6, <2>5, <2>6, <2>7, ConstantsAssumption DEF AddEndpointError
  <2>9. /\ pending' = [pending EXCEPT !.flow[f].endpoints =
                        Append(@, [handle |-> c + 1, name |-> list[c + 1]])]
        /\ UNCHANGED lastError
    BY <1>1, <2>8 DEF AddEndpoint, Refuse
  <2>10. [handle |-> c + 1, name |-> list[c + 1]] = Entry(list, c + 1)
    BY DEF Entry
  <2>11. pending' = [generation |-> m.generation,
           flow |-> [g \in Flows |->
                      IF g = f THEN [ReadSoFar(m, f) EXCEPT !.endpoints = Entries(list, c + 1)]
                      ELSE ReadSoFar(m, g)]]
    <3> DEFINE l == Entries(list, c + 1)
    <3> HIDE DEF l
    <3>1. pending' = [pending EXCEPT !.flow[f].endpoints = l]
      BY <2>3, <2>4, <2>9, <2>10 DEF l
    <3>. QED
      BY <2>1, <3>1 DEF l
  <2>12. \A g \in Flows :
           ReadSoFar(n, g) =
             IF g = f THEN [ReadSoFar(m, f) EXCEPT !.endpoints = Entries(list, c + 1)]
             ELSE ReadSoFar(m, g)
    <3> TAKE g \in Flows
    <3>1. CASE g = f
      BY <1>1, <1>2, <3>1 DEF ReadSoFar
    <3>2. CASE g # f
      BY <1>1, <1>2, <3>2 DEF ReadSoFar
    <3>. QED
      BY <3>1, <3>2
  <2>13. pending' = [generation |-> n.generation,
                     flow |-> [g \in Flows |-> ReadSoFar(n, g)]]
    BY <1>1, <2>11, <2>12
  <2>. QED
    BY <1>1, <1>3, <1>4, <2>1, <2>9, <2>13 DEF Reads, Tolerable
<1>. QED
  BY <1>5, <1>6

LEMMA DefaultsRead ==
  ASSUME NEW m, NEW n, NEW e, IsStage(m), IsStage(n), NEW f \in Flows,
         NamesDefaults(m, e, n, f), Reads(m), SetCurrent(e.flow, e.handles)
  PROVE  Reads(n)' /\ lastError' \in Tolerable /\ (Displays(m) => Displays(n)')
<1>1. /\ e.flow = f /\ e.handles = m.snapshot.handles[f] /\ m.phase = "list"
      /\ n.phase = "list" /\ n.snapshot = m.snapshot /\ n.generation = m.generation
      /\ n.got = m.got \cup {f} /\ n.count = m.count
  BY DEF NamesDefaults, CurrentHandles, Stage
<1>2. UNCHANGED <<active, ready, syncInProgress, expected>>
  BY DEF SetCurrent, Refuse, modeVars, syncVars
<1>3. Displays(m) => Displays(n)'
  BY <1>1, <1>2 DEF Displays, Shown
<1>4. CASE ~syncInProgress
  <2>1. lastError' = "NoSyncStarted"
    BY <1>4 DEF SetCurrent, Refuse
  <2>. QED
    BY <1>1, <1>2, <1>3, <1>4, <2>1 DEF Reads, Tolerable
<1>5. CASE syncInProgress
  <2>1. /\ pending = [generation |-> m.generation,
                     flow |-> [g \in Flows |-> ReadSoFar(m, g)]]
        /\ expected = Sizes(m.snapshot)
    BY <1>5 DEF Reads
  <2>2. /\ pending' = [pending EXCEPT !.flow[f].current = m.snapshot.handles[f]]
        /\ UNCHANGED lastError
    BY <1>1, <1>5 DEF SetCurrent
  <2>3. pending' = [generation |-> m.generation,
           flow |-> [g \in Flows |->
                      IF g = f THEN [ReadSoFar(m, f) EXCEPT !.current = m.snapshot.handles[f]]
                      ELSE ReadSoFar(m, g)]]
    <3> DEFINE l == m.snapshot.handles[f]
    <3> HIDE DEF l
    <3>1. pending' = [pending EXCEPT !.flow[f].current = l]
      BY <2>2 DEF l
    <3>. QED
      BY <2>1, <3>1 DEF l
  <2>4. \A g \in Flows :
           ReadSoFar(n, g) =
             IF g = f THEN [ReadSoFar(m, f) EXCEPT !.current = m.snapshot.handles[f]]
             ELSE ReadSoFar(m, g)
    BY <1>1 DEF ReadSoFar
  <2>5. pending' = [generation |-> n.generation,
                    flow |-> [g \in Flows |-> ReadSoFar(n, g)]]
    BY <1>1, <2>3, <2>4
  <2>. QED
    BY <1>1, <1>2, <1>3, <2>1, <2>2, <2>5 DEF Reads, Tolerable
<1>. QED
  BY <1>4, <1>5

\* A list that was received whole has nothing to be refused for.
LEMMA WholeListIsValid ==
  ASSUME NEW m, IsStage(m), m.phase = "list", m.count = Sizes(m.snapshot), m.got = Flows,
         syncInProgress, Reads(m), NEW f \in Flows
  PROVE  /\ pending.flow[f] = ReadSoFar(m, f) /\ pending.generation = m.generation
         /\ FlowError(pending.flow[f], expected[f]) = "None"
<1> DEFINE list == m.snapshot.list[f]
           l == Len(list)
           h == m.snapshot.handles[f]
           fs == pending.flow[f]
<1>1. IsChannel(list) /\ l \in Nat /\ h \in [Roles -> 0..l]
  BY DEF IsStage, Sendable, IsChannel
<1>2. /\ pending = [generation |-> m.generation,
                   flow |-> [g \in Flows |-> ReadSoFar(m, g)]]
      /\ expected = Sizes(m.snapshot)
  BY DEF Reads
<1>3. fs = ReadSoFar(m, f) /\ expected[f] = l /\ m.count[f] = l
  BY <1>2 DEF Sizes
<1>4. fs.endpoints = Entries(list, l) /\ fs.current = h
  BY <1>3 DEF ReadSoFar
<1>5. /\ Len(Entries(list, l)) = l /\ DOMAIN Entries(list, l) = 1..l
      /\ \A i \in 1..l : Entries(list, l)[i].handle = i
  <2> HIDE DEF list, l
  <2>. QED
    BY <1>1, EntriesFacts
<1>6. \A r \in Roles : fs.current[r] # NoHandle => Lists(fs, fs.current[r])
  <2> SUFFICES ASSUME NEW r \in Roles, h[r] # NoHandle PROVE Lists(fs, h[r])
    BY <1>4
  <2>1. h[r] \in 1..l
    BY <1>1 DEF NoHandle
  <2>2. h[r] \in HandlesOf(fs)
    BY <1>4, <1>5, <2>1 DEF HandlesOf
  <2>. QED
    BY <2>2 DEF Lists
<1>7. Len(fs.endpoints) = expected[f]
  BY <1>3, <1>4, <1>5
<1>. QED
  BY <1>2, <1>3, <1>6, <1>7 DEF FlowError

LEMMA EndRead ==
  ASSUME NEW m, NEW n, NEW e, IsStage(m), IsStage(n), Ends(m, e, n), Reads(m), ActiveShape,
         CommitAccepted(e.generation) \/ CommitRejected(e.generation)
  PROVE  /\ Reads(n)' /\ lastError' \in Tolerable /\ (Displays(m) => Displays(n)')
         /\ ActiveShape'
<1>1. /\ e.generation = m.generation /\ m.phase = "list" /\ m.got = Flows
      /\ m.count = Sizes(m.snapshot)
      /\ n.phase = "between" /\ n.snapshot = m.snapshot /\ n.generation = m.generation
  BY DEF Ends, SyncEnd, Stage
<1>2. ~syncInProgress'
  BY DEF CommitAccepted, CommitRejected
<1>3. Reads(n)'
  BY <1>1, <1>2 DEF Reads
<1>4. CASE ~syncInProgress
  <2>1. CommitError(e.generation) = "NoSyncStarted"
    BY <1>4 DEF CommitError
  <2>2. CommitRejected(e.generation)
    BY <2>1 DEF CommitAccepted
  <2>3. UNCHANGED <<active, ready>> /\ lastError' = "NoSyncStarted"
    BY <2>1, <2>2 DEF CommitRejected
  <2>4. Displays(m) => Displays(n)'
    BY <1>1, <2>3 DEF Displays
  <2>5. ActiveShape'
    BY <2>3 DEF ActiveShape
  <2>. QED
    BY <1>3, <2>3, <2>4, <2>5 DEF Tolerable
<1>5. CASE syncInProgress
  <2>1. \A f \in Flows :
          /\ pending.flow[f] = ReadSoFar(m, f) /\ pending.generation = m.generation
          /\ FlowError(pending.flow[f], expected[f]) = "None"
    BY <1>1, <1>5, WholeListIsValid
  <2>2. CommitError(e.generation) = "None"
    <3>1. "output" \in Flows /\ "input" \in Flows
      BY DEF Flows
    <3>2. FlowsError = "None"
      BY <2>1, <3>1 DEF FlowsError
    <3>. QED
      BY <1>1, <1>5, <2>1, <3>1, <3>2 DEF CommitError
  <2>3. CommitAccepted(e.generation)
    BY <2>2 DEF CommitRejected
  <2>4. /\ active' = [pending EXCEPT !.flow = [f \in Flows |-> FinalizedFlow(f)]]
        /\ lastError' = "None"
    BY <2>3 DEF CommitAccepted
  <2>5. pending = [generation |-> m.generation, flow |-> [f \in Flows |-> ReadSoFar(m, f)]]
    BY <1>5 DEF Reads
  <2>6. active' = [generation |-> m.generation, flow |-> [f \in Flows |-> FinalizedFlow(f)]]
    <3> DEFINE l == [f \in Flows |-> FinalizedFlow(f)]
    <3> HIDE DEF l
    <3>1. active' = [pending EXCEPT !.flow = l]
      BY <2>4 DEF l
    <3>. QED
      BY <2>5, <3>1 DEF l
  <2>7. ASSUME NEW f \in Flows
        PROVE  FinalizedFlow(f) =
                 [endpoints |-> Entries(m.snapshot.list[f], m.count[f]),
                  current |-> m.snapshot.handles[f],
                  currentHandle |-> FinalizedFlow(f).currentHandle,
                  candidateHandle |-> FinalizedFlow(f).candidateHandle]
    <3> DEFINE es == Entries(m.snapshot.list[f], m.count[f])
               h == m.snapshot.handles[f]
    <3>1. pending.flow[f] = [endpoints |-> es, current |-> h,
                             currentHandle |-> NoHandle, candidateHandle |-> NoHandle]
      BY <1>1, <2>1 DEF ReadSoFar
    <3>2. \E a, b : FinalizedFlow(f) = [pending.flow[f] EXCEPT !.currentHandle = a,
                                                              !.candidateHandle = b]
      BY Zenon DEF FinalizedFlow, Finalized
    <3>3. PICK a, b : FinalizedFlow(f) = [pending.flow[f] EXCEPT !.currentHandle = a,
                                                               !.candidateHandle = b]
      BY <3>2
    <3> DEFINE ff == FinalizedFlow(f)
               fs == pending.flow[f]
    <3>6. /\ fs = [endpoints |-> es, current |-> h,
                   currentHandle |-> NoHandle, candidateHandle |-> NoHandle]
          /\ ff = [fs EXCEPT !.currentHandle = a, !.candidateHandle = b]
      BY <3>1, <3>3
    <3> HIDE DEF es, h, ff, fs
    <3>4. ff = [endpoints |-> es, current |-> h, currentHandle |-> a, candidateHandle |-> b]
      BY <3>6
    <3>5. ff = [endpoints |-> es, current |-> h, currentHandle |-> ff.currentHandle,
                candidateHandle |-> ff.candidateHandle]
      BY <3>4
    <3>. QED
      BY <3>5 DEF es, h, ff
  <2>8. ActiveShape'
    <3>1. \A f \in Flows : active'.flow[f] = FinalizedFlow(f)
      BY <2>6
    <3>2. \A f \in Flows :
            active'.flow[f] = [endpoints |-> active'.flow[f].endpoints,
                               current |-> active'.flow[f].current,
                               currentHandle |-> active'.flow[f].currentHandle,
                               candidateHandle |-> active'.flow[f].candidateHandle]
      BY <2>7, <3>1
    <3>3. /\ active' = [generation |-> active'.generation, flow |-> active'.flow]
          /\ active'.flow = [f \in Flows |-> active'.flow[f]]
      BY <2>6
    <3>. QED
      BY <3>2, <3>3 DEF ActiveShape
  <2>9. Displays(n)'
    <3>1. active'.generation = m.generation /\ m.generation \in Nat
      BY <2>6 DEF IsStage
    <3>2. ASSUME NEW f \in Flows
          PROVE  Shown(f)' = m.snapshot.list[f] /\ active'.flow[f].current = m.snapshot.handles[f]
      <4> DEFINE list == m.snapshot.list[f]
                 es == Entries(list, Len(list))
      <4>1. active'.flow[f].endpoints = es /\ active'.flow[f].current = m.snapshot.handles[f]
        BY <1>1, <2>6, <2>7 DEF Sizes
      <4>2. IsChannel(list) /\ Len(list) \in Nat
        BY <1>1 DEF IsStage, Sendable, IsChannel
      <4>3. /\ DOMAIN es = 1..Len(list)
            /\ \A i \in 1..Len(list) : es[i].name = list[i]
        <5> HIDE DEF list
        <5>. QED
          BY <4>2, EntriesFacts
      <4> HIDE DEF es
      <4>4. [i \in DOMAIN es |-> es[i].name] = list
        BY <4>2, <4>3 DEF IsChannel
      <4>. QED
        BY <4>1, <4>4 DEF Shown
    <3>. QED
      BY <1>1, <3>1, <3>2 DEF Displays
  <2>. QED
    BY <1>3, <2>4, <2>8, <2>9 DEF Tolerable
<1>. QED
  BY <1>4, <1>5

-----------------------------------------------------------------------------
(* The frames under way lead from the stage the firmware is at to the one   *)
(* the host is at.                                                         *)

\* A generation was taken and its list is not sent yet.
Owes == pc = "capture" /\ purpose # "notified"

Writes(order, k) ==
  /\ k.phase = "between"
  /\ order = "rising" =>
       IF Owes THEN k.generation < hostGeneration
       ELSE k.generation = hostGeneration /\ k.snapshot = snapshot

Follows(order, m, k) ==
  /\ Leads(order, m, toDevice, k)
  /\ Reads(m) /\ (order = "rising" => Displays(m))
  /\ Writes(order, k)

StreamInv(order) ==
  /\ CaptureInv /\ ActiveShape
  /\ syncInProgress => connected
  /\ pc \notin {"down", "hello"} => hostGeneration \in Nat \ {0}
  /\ (link /\ pc = "hello") => ~syncInProgress /\ (toHost # <<>> => handshakeComplete)
  /\ (link /\ pc # "hello") => handshakeComplete /\ \E m, k : Follows(order, m, k)

LEMMA StreamInitially == ASSUME NEW order, SessionInit PROVE StreamInv(order)
<1> USE DEF SessionInit, SelectorInit, Init, LinkInit, HostInit, Idle
<1>1. CaptureInv
  <2>1. ListLimit \in Nat
    BY AudioAssumption
  <2>2. \A f \in Flows : NoSnapshot.list[f] = <<>> /\ NoSnapshot.handles[f] = NoRoles
    BY DEF NoSnapshot
  <2>3. NoRoles \in [Roles -> 0..0]
    BY DEF NoRoles, NoHandle
  <2>. QED
    BY <2>1, <2>2, <2>3, EmptyIsChannel DEF CaptureInv, Sendable, NoSnapshot
<1>2. ActiveShape
  BY DEF ActiveShape, EmptySnapshot, EmptyFlow
<1>. QED
  BY <1>1, <1>2 DEF StreamInv

\* Without a link nothing is under way.
LEMMA NoStream ==
  ASSUME NEW order, ~link', CaptureInv', ActiveShape', syncInProgress' => connected',
         pc' \notin {"down", "hello"} => hostGeneration' \in Nat \ {0}
  PROVE  StreamInv(order)'
  BY DEF StreamInv

\* A step that touches neither the frames nor the lists.
LEMMA StreamKept ==
  ASSUME NEW order, StreamInv(order), CaptureInv', ActiveShape',
         UNCHANGED <<link, toDevice, connected, handshakeComplete, ready, syncInProgress,
                     pending, expected, hostGeneration, snapshot>>,
         \A m : Displays(m) => Displays(m)',
         Owes' <=> Owes, toHost' # <<>> => toHost # <<>> \/ handshakeComplete,
         pc' = "hello" <=> pc = "hello", pc' = "down" <=> pc = "down"
  PROVE  StreamInv(order)'
<1>1. \A m, k : Follows(order, m, k) => Follows(order, m, k)'
  <2> TAKE m, k
  <2>1. Reads(m) => Reads(m)'
    BY DEF Reads
  <2>2. Writes(order, k) => Writes(order, k)'
    BY DEF Writes
  <2>3. Leads(order, m, toDevice, k) => Leads(order, m, toDevice, k)'
    BY DEF Leads, Through
  <2>. QED
    BY <2>1, <2>2, <2>3 DEF Follows
<1>2. (link /\ pc # "hello")' => handshakeComplete' /\ \E m, k : Follows(order, m, k)'
  BY <1>1 DEF StreamInv
<1>. QED
  BY <1>2 DEF StreamInv

LEMMA CaptureKept ==
  ASSUME CaptureInv, UNCHANGED <<reads, capture>>
  PROVE  CaptureInv'
  BY DEF CaptureInv, Sendable, IsChannel

LEMMA ActiveKept ==
  ASSUME UNCHANGED <<active, ready>>
  PROVE  (ActiveShape => ActiveShape') /\ \A m : Displays(m) => Displays(m)'
  BY DEF ActiveShape, Displays, Shown

LEMMA ActiveCleared ==
  ASSUME Clear
  PROVE  ActiveShape'
  BY DEF ActiveShape, Clear, EmptySnapshot, EmptyFlow

-----------------------------------------------------------------------------
(* Sessions, the host, the devices of the PC and the user.                 *)

LEMMA ConnectStream ==
  ASSUME NEW order, StreamInv(order), Connect
  PROVE  StreamInv(order)'
<1> USE DEF Connect, HostConnect, LinkOpens, deviceVars, vars, modeVars, selectorVars
<1>1. CaptureInv'
  BY CaptureKept DEF StreamInv
<1>2. ActiveShape'
  BY ActiveKept DEF StreamInv
<1>. QED
  BY <1>1, <1>2 DEF StreamInv

LEMMA BreaksStream ==
  ASSUME NEW order, StreamInv(order), LinkLost \/ GiveUp \/ ResetSelector
  PROVE  StreamInv(order)'
<1> USE DEF deviceVars, vars, modeVars, selectorVars, LinkCloses
<1>1. CASE LinkLost
  <2>1. CaptureInv' /\ ActiveShape'
    BY <1>1, CaptureKept, ActiveKept DEF LinkLost, hostVars, StreamInv
  <2>. QED
    BY <1>1, <2>1, NoStream DEF LinkLost, hostVars, StreamInv
<1>2. CASE GiveUp
  <2>1. CaptureInv' /\ ActiveShape' /\ pc' = "down" /\ ~link'
    BY <1>2, NothingCaptured, ActiveKept DEF GiveUp, HostGivesUp, SessionEnds, StreamInv
  <2>. QED
    BY <1>2, <2>1, NoStream DEF GiveUp, StreamInv
<1>3. CASE ResetSelector
  <2>1. PICK restarted \in BOOLEAN : Reconnect(restarted) \/ Restart(restarted)
    BY <1>3 DEF ResetSelector
  <2>2. Clear /\ ~link'
    BY <2>1 DEF Reconnect, Restart
  <2>3. CaptureInv' /\ ActiveShape' /\ ~syncInProgress'
    BY <1>3, <2>2, CaptureKept, ActiveCleared
    DEF ResetSelector, hostVars, StreamInv, Clear, SessionReset
  <2>. QED
    BY <1>3, <2>2, <2>3, NoStream DEF ResetSelector, hostVars, StreamInv
<1>. QED
  BY <1>1, <1>2, <1>3

LEMMA HelloResponseStream ==
  ASSUME NEW order, SessionInv, StreamInv(order), HostHelloResponse, UNCHANGED deviceVars
  PROVE  StreamInv(order)'
<1> USE DEF HostHelloResponse, StartCapture, deviceVars, vars, modeVars, syncVars, selectorVars
<1> DEFINE m == Stage("between", NoSnapshot, 0, NoCounts, {})
<1>1. CaptureInv' /\ ActiveShape'
  BY NothingCaptured, ActiveKept DEF StreamInv
<1>2. link /\ toDevice = <<>> /\ ~ready /\ ~syncInProgress /\ handshakeComplete
  BY DEF SessionInv, ChannelInv, Greeting, StreamInv
<1>3. IsStage(m) /\ m.phase = "between" /\ m.generation = 0
  BY DEF IsStage, Stage
<1> HIDE DEF m
<1>4. Leads(order, m, toDevice, m)'
  BY <1>2, <1>3, LeadsNowhere
<1>5. Reads(m)' /\ Displays(m)' /\ Writes(order, m)'
  BY <1>2, <1>3 DEF Reads, Displays, Writes, Owes
<1>6. Follows(order, m, m)'
  BY <1>4, <1>5 DEF Follows
<1>7. \E n, k : Follows(order, n, k)'
  BY <1>6
<1>. QED
  BY <1>1, <1>2, <1>7 DEF StreamInv

\* A capture is appended as one list, under a generation of its own.
LEMMA CaptureDoneStream ==
  ASSUME NEW order \in Orders, SessionInv, StreamInv(order), CaptureDone,
         UNCHANGED deviceVars, order = "rising" => hostGeneration # GenerationLimit
  PROVE  StreamInv(order)'
<1> USE DEF CaptureDone, deviceVars, vars, modeVars, syncVars, selectorVars
<1>1. CaptureInv' /\ ActiveShape'
  BY NothingCaptured, ActiveKept DEF StreamInv
<1>2. link /\ pc = "capture" /\ IsChannel(toDevice) /\ hostGeneration \in Nat \ {0}
      /\ pc' \in {"set", "loop"} /\ handshakeComplete /\ Sendable(capture)
  BY DEF SessionInv, ChannelInv, StreamInv, CaptureInv
<1>3. PICK m, k : Follows(order, m, k)
  BY <1>2 DEF StreamInv
<1>4. Reads(m)' /\ (order = "rising" => Displays(m)')
  BY <1>3, ActiveKept DEF Follows, Reads
<1>5. CASE purpose # "notified" \/ capture # snapshot
  <2>g. PICK g : g = CaptureGeneration
    OBVIOUS
  <2>n. PICK n : n = Stage("between", capture, g, Sizes(capture), Flows)
    OBVIOUS
  <2>1. /\ toDevice' = toDevice \o SyncFrames(capture, g)
        /\ hostGeneration' = g /\ snapshot' = capture
    BY <1>5, <2>g
  <2>2. g \in Nat \ {0}
    BY <1>2, <2>g DEF CaptureGeneration, NextGeneration
  <2>3. IsStage(k) /\ k.phase = "between"
    BY <1>2, <1>3, LeadsStages DEF Follows, Writes
  <2>4. order = "rising" => k.generation < g
    <3> SUFFICES ASSUME order = "rising" PROVE k.generation < g
      OBVIOUS
    <3>1. k.generation \in Nat
      BY <2>3 DEF IsStage
    <3>2. CASE purpose = "notified"
      <4>1. k.generation = hostGeneration /\ g = hostGeneration + 1
        BY <1>3, <2>g, <3>2 DEF Follows, Writes, Owes, CaptureGeneration, NextGeneration
      <4>. QED
        BY <1>2, <4>1
    <3>3. CASE purpose # "notified"
      BY <1>2, <1>3, <2>g, <3>3 DEF Follows, Writes, Owes, CaptureGeneration
    <3>. QED
      BY <3>2, <3>3
  <2>5. n.phase = "between" /\ n.generation = g /\ n.snapshot = capture
    BY <2>n DEF Stage
  <2>6. IsChannel(SyncFrames(capture, g)) /\ Leads(order, k, SyncFrames(capture, g), n)
    BY <1>2, <2>2, <2>3, <2>4, <2>n, SyncLeads
  <2>7. Leads(order, m, toDevice \o SyncFrames(capture, g), n)
    BY <1>2, <1>3, <2>6, LeadsJoined DEF Follows
  <2>8. Leads(order, m, toDevice, n)'
    BY <2>1, <2>7
  <2>9. Writes(order, n)'
    BY <1>2, <2>1, <2>5 DEF Writes, Owes
  <2>10. Follows(order, m, n)'
    BY <1>4, <2>8, <2>9 DEF Follows
  <2>11. \E i, j : Follows(order, i, j)'
    BY <2>10
  <2>. QED
    BY <1>1, <1>2, <2>1, <2>2, <2>11 DEF StreamInv
<1>6. CASE ~(purpose # "notified" \/ capture # snapshot)
  <2>1. UNCHANGED <<toDevice, hostGeneration, snapshot>>
    BY <1>6
  <2>2. Writes(order, k)'
    BY <1>2, <1>3, <1>6, <2>1 DEF Follows, Writes, Owes
  <2>3. Leads(order, m, toDevice, k)'
    BY <1>3, <2>1 DEF Follows
  <2>4. Follows(order, m, k)'
    BY <1>4, <2>2, <2>3 DEF Follows
  <2>5. \E i, j : Follows(order, i, j)'
    BY <2>4
  <2>. QED
    BY <1>1, <1>2, <2>1, <2>5 DEF StreamInv
<1>. QED
  BY <1>5, <1>6

\* A result is put behind the lists, and the list it leads to is owed.
LEMMA ReplyStream ==
  ASSUME NEW order \in Orders, SessionInv, StreamInv(order), pc \in {"set", "apply"}, link,
         NEW status, Reply(status), UNCHANGED deviceVars,
         order = "rising" => hostGeneration # GenerationLimit
  PROVE  StreamInv(order)'
<1> USE DEF Reply, StartCapture, deviceVars, vars, modeVars, syncVars, selectorVars
<1>1. CaptureInv' /\ ActiveShape'
  BY NothingCaptured, ActiveKept DEF StreamInv
<1>2. /\ IsChannel(toDevice) /\ hostGeneration \in Nat \ {0} /\ handshakeComplete
      /\ hostGeneration' = NextGeneration(hostGeneration)
      /\ pc' = "capture" /\ purpose' = "result" /\ UNCHANGED link
  BY DEF SessionInv, ChannelInv, StreamInv
<1>3. PICK m, k : Follows(order, m, k)
  BY <1>2 DEF StreamInv
<1> DEFINE e == SetResultFrame(setRequest.id, status, hostGeneration)
<1>4. Reads(m)' /\ (order = "rising" => Displays(m)')
  BY <1>3, ActiveKept DEF Follows, Reads
<1>5. IsStage(k) /\ k.phase = "between"
  BY <1>2, <1>3, LeadsStages DEF Follows, Writes
<1>6. e.type = "SET_RESULT" /\ toDevice' = Append(toDevice, e)
  BY DEF SetResultFrame
<1> HIDE DEF e
<1>7. IsChannel(<<e>>) /\ Leads(order, k, <<e>>, k)
  <2>1. Step(order, k, e, k)
    BY <1>5, <1>6 DEF Step, Passes
  <2>. QED
    BY <1>5, <2>1, NotAfterReflexive, LeadsOne
<1>8. toDevice' = toDevice \o <<e>>
  <2> DEFINE S == {toDevice[i] : i \in 1..Len(toDevice)} \cup {e}
  <2>1. toDevice \in Seq(S) /\ e \in S
    BY <1>2, ChannelIsSeq
  <2> HIDE DEF S
  <2>2. Append(toDevice, e) = toDevice \o <<e>>
    BY <2>1
  <2>. QED
    BY <1>6, <2>2
<1>9. Leads(order, m, toDevice, k)'
  <2>1. Leads(order, m, toDevice \o <<e>>, k)
    BY <1>2, <1>3, <1>7, LeadsJoined DEF Follows
  <2>. QED
    BY <1>8, <2>1
<1>10. hostGeneration' \in Nat \ {0}
  BY <1>2 DEF NextGeneration
<1>11. Writes(order, k)'
  <2>1. Owes' /\ ~Owes
    BY <1>2 DEF Owes
  <2>2. order = "rising" => k.generation < hostGeneration'
    BY <1>2, <1>3, <2>1 DEF Follows, Writes, NextGeneration
  <2>. QED
    BY <1>5, <2>1, <2>2 DEF Writes
<1>12. Follows(order, m, k)'
  BY <1>4, <1>9, <1>11 DEF Follows
<1>13. \E i, j : Follows(order, i, j)'
  BY <1>12
<1>. QED
  BY <1>1, <1>2, <1>10, <1>13 DEF StreamInv

LEMMA PollStream ==
  ASSUME NEW order, StreamInv(order), NEW receive \in BOOLEAN, NEW due \in BOOLEAN,
         Poll(receive, due), UNCHANGED deviceVars
  PROVE  StreamInv(order)'
<1> USE DEF Poll, StartCapture, deviceVars, vars, modeVars, syncVars, selectorVars
<1>1. CaptureInv'
  <2>1. CASE due
    BY <2>1, NothingCaptured
  <2>2. CASE ~due
    BY <2>2, CaptureKept DEF StreamInv
  <2>. QED
    BY <2>1, <2>2
<1>2. ActiveShape' /\ \A m : Displays(m) => Displays(m)'
  BY ActiveKept DEF StreamInv
<1>3. Owes' <=> Owes
  BY DEF Owes
<1>4. /\ toHost' # <<>> => toHost # <<>>
      /\ (pc' = "hello" <=> pc = "hello") /\ (pc' = "down" <=> pc = "down")
  <2>1. pc = "loop" /\ pc' \in {"capture", "set", "loop"}
    OBVIOUS
  <2>2. toHost' = <<>> \/ toHost' = toHost
    OBVIOUS
  <2>. QED
    BY <2>1, <2>2
<1>. QED
  BY <1>1, <1>2, <1>3, <1>4, StreamKept

LEMMA HostStream ==
  ASSUME NEW order \in Orders, SessionInv, StreamInv(order), Host,
         order = "rising" => hostGeneration # GenerationLimit
  PROVE  StreamInv(order)'
<1> USE DEF Host
<1>1. UNCHANGED deviceVars
  OBVIOUS
<1>2. ActiveShape' /\ \A m : Displays(m) => Displays(m)'
  BY <1>1, ActiveKept DEF StreamInv, deviceVars, vars, modeVars
<1>3. CASE HostHelloResponse
  BY <1>1, <1>3, HelloResponseStream
<1>4. ASSUME SessionEnds, ~link, UNCHANGED link
      PROVE  StreamInv(order)'
  <2>1. CaptureInv' /\ pc' = "down" /\ ~link'
    BY <1>4, NothingCaptured DEF SessionEnds
  <2>2. syncInProgress' => connected'
    BY <1>1 DEF StreamInv, deviceVars, vars, modeVars, selectorVars
  <2>. QED
    BY <1>2, <2>1, <2>2, NoStream
<1>5. CASE HostNoticesLoss
  BY <1>4, <1>5 DEF HostNoticesLoss, linkVars
<1>6. CASE CaptureStep
  <2>1. CaptureInv'
    BY <1>6, CaptureStepKeeps DEF SessionInv, HostInv, StreamInv
  <2>2. Owes' <=> Owes
    BY <1>6 DEF Owes, CaptureStep
  <2>. QED
    BY <1>1, <1>2, <1>6, <2>1, <2>2, StreamKept
    DEF CaptureStep, deviceVars, vars, modeVars, syncVars, selectorVars, linkVars
<1>7. CASE CaptureDone
  BY <1>1, <1>7, CaptureDoneStream
<1>8. CASE \E receive, due \in BOOLEAN : Poll(receive, due)
  BY <1>1, <1>8, PollStream
<1>9. CASE RejectStale
  BY <1>1, <1>9, ReplyStream DEF RejectStale
<1>10. CASE RejectHandle
  BY <1>1, <1>10, ReplyStream DEF RejectHandle
<1>11. CASE ResolveHandle
  <2>1. CaptureInv'
    BY <1>11, CaptureKept DEF ResolveHandle, StreamInv
  <2>2. Owes' <=> Owes
    BY <1>11 DEF Owes, ResolveHandle
  <2>3. pc = "set" /\ pc' = "apply"
    BY <1>11 DEF ResolveHandle
  <2>. QED
    BY <1>1, <1>2, <1>11, <2>1, <2>2, <2>3, StreamKept
    DEF ResolveHandle, deviceVars, vars, modeVars, syncVars, selectorVars, linkVars
<1>12. CASE \E reached \in RoleOutcomes : Apply(reached)
  <2>1. pc = "apply" /\ \/ link /\ \E status : Reply(status)
                        \/ ~link /\ SessionEnds /\ UNCHANGED linkVars
    BY <1>12 DEF Apply
  <2>2. CASE link /\ \E status : Reply(status)
    BY <1>1, <2>1, <2>2, ReplyStream
  <2>3. CASE ~link /\ SessionEnds /\ UNCHANGED linkVars
    BY <1>4, <2>3 DEF linkVars
  <2>. QED
    BY <2>1, <2>2, <2>3
<1>. QED
  BY <1>3, <1>5, <1>6, <1>7, <1>8, <1>9, <1>10, <1>11, <1>12 DEF HostStep

LEMMA WindowsStream ==
  ASSUME NEW order, StreamInv(order), Windows
  PROVE  StreamInv(order)'
<1> USE DEF Windows, deviceVars, vars, modeVars, syncVars, selectorVars, linkVars, hostVars
<1>1. CaptureInv' /\ ActiveShape' /\ \A m : Displays(m) => Displays(m)'
  BY CaptureKept, ActiveKept DEF StreamInv
<1>2. Owes' <=> Owes
  BY DEF Owes
<1>. QED
  BY <1>1, <1>2, StreamKept

\* A turn of the jog switch moves the choice and nothing else of the list.
LEMMA TurnKeeps ==
  ASSUME ActiveShape, NEW f \in Flows, NEW d, CycleCandidate(f, d)
  PROVE  ActiveShape' /\ \A m : Displays(m) => Displays(m)'
<1>1. CASE UNCHANGED vars
  BY <1>1, ActiveKept DEF vars, modeVars
<1>2. CASE CanCycle(f, d) /\ active' = [active EXCEPT !.flow[f] = Cycled(@, d)]
           /\ UNCHANGED modeVars
  <2>1. PICK h : Cycled(active.flow[f], d) = [active.flow[f] EXCEPT !.candidateHandle = h]
    BY Zenon DEF Cycled
  <2>2. active' = [active EXCEPT !.flow[f] = [active.flow[f] EXCEPT !.candidateHandle = h]]
    BY <1>2, <2>1
  <2>3. /\ active'.generation = active.generation
        /\ active' = [generation |-> active'.generation, flow |-> active'.flow]
        /\ active'.flow = [active.flow EXCEPT
                             ![f] = [active.flow[f] EXCEPT !.candidateHandle = h]]
    BY <2>2 DEF ActiveShape
  <2>4. \A g \in Flows :
          /\ active'.flow[g].endpoints = active.flow[g].endpoints
          /\ active'.flow[g].current = active.flow[g].current
          /\ active'.flow[g] = [endpoints |-> active'.flow[g].endpoints,
                                current |-> active'.flow[g].current,
                                currentHandle |-> active'.flow[g].currentHandle,
                                candidateHandle |-> active'.flow[g].candidateHandle]
    <3> TAKE g \in Flows
    <3>1. CASE g # f
      <4>1. active'.flow[g] = active.flow[g]
        BY <2>3, <3>1 DEF ActiveShape
      <4>. QED
        BY <4>1 DEF ActiveShape
    <3>2. CASE g = f
      <4>1. active'.flow[g] = [active.flow[g] EXCEPT !.candidateHandle = h]
        BY <2>3, <3>2 DEF ActiveShape
      <4> DEFINE x == active.flow[g]
                 y == active'.flow[g]
      <4>2. x = [endpoints |-> x.endpoints, current |-> x.current,
                 currentHandle |-> x.currentHandle, candidateHandle |-> x.candidateHandle]
            /\ y = [x EXCEPT !.candidateHandle = h]
        BY <4>1 DEF ActiveShape
      <4> HIDE DEF x, y
      <4>3. y = [endpoints |-> x.endpoints, current |-> x.current,
                 currentHandle |-> x.currentHandle, candidateHandle |-> h]
        BY <4>2
      <4>4. /\ y.endpoints = x.endpoints /\ y.current = x.current
            /\ y = [endpoints |-> y.endpoints, current |-> y.current,
                    currentHandle |-> y.currentHandle, candidateHandle |-> y.candidateHandle]
        BY <4>3
      <4>. QED
        BY <4>4 DEF x, y
    <3>. QED
      BY <3>1, <3>2
  <2>5. active'.flow = [g \in Flows |-> active'.flow[g]]
    <3> DEFINE a == active.flow
               b == active'.flow
               e == [a[f] EXCEPT !.candidateHandle = h]
    <3>1. b = [a EXCEPT ![f] = e]
      BY <2>3
    <3>2. a = [g \in Flows |-> a[g]]
      BY DEF ActiveShape
    <3> HIDE DEF a, b, e
    <3>3. b = [g \in Flows |-> b[g]]
      BY <3>1, <3>2
    <3>. QED
      BY <3>3 DEF b
  <2>6. ActiveShape'
    BY <2>3, <2>4, <2>5 DEF ActiveShape
  <2>7. \A g \in Flows : Shown(g)' = Shown(g)
    BY <2>4 DEF Shown
  <2>8. \A m : Displays(m) => Displays(m)'
    <3> SUFFICES ASSUME NEW m, Displays(m), ready' PROVE Displays(m)'
      BY DEF Displays
    <3>1. ready
      BY <1>2 DEF modeVars
    <3>2. /\ active.generation \in Nat /\ active.generation <= m.generation
          /\ active.generation = m.generation =>
               /\ m.phase = "between"
               /\ \A g \in Flows : /\ Shown(g) = m.snapshot.list[g]
                                    /\ active.flow[g].current = m.snapshot.handles[g]
      BY <3>1 DEF Displays
    <3>3. \A g \in Flows : Shown(g)' = Shown(g) /\ active'.flow[g].current = active.flow[g].current
      BY <2>4, <2>7
    <3> HIDE DEF Shown
    <3>. QED
      BY <2>3, <3>2, <3>3 DEF Displays
  <2>. QED
    BY <2>6, <2>8
<1>. QED
  BY <1>1, <1>2 DEF CycleCandidate

LEMMA UserStream ==
  ASSUME NEW order, SessionInv, StreamInv(order), User
  PROVE  StreamInv(order)'
<1> USE DEF User, deviceVars, vars, modeVars, syncVars, selectorVars, linkVars, hostVars
<1>1. UNCHANGED <<hostVars, link, toDevice, connected, handshakeComplete, ready,
                  syncInProgress, pending, expected>>
  BY DEF Turn, CycleCandidate, PressCenter, BeginSetRequest, BeginSetRequestAccepted, Refuse,
         PressCenterQueueFull, PressCenterDisconnected, ErrorExpires
<1>2. CaptureInv' /\ (Owes' <=> Owes)
  BY <1>1, CaptureKept DEF StreamInv, Owes
<1>3. ActiveShape' /\ \A m : Displays(m) => Displays(m)'
  <2>1. CASE \E f \in Flows, d \in {-1, 1} : Turn(f, d)
    BY <2>1, TurnKeeps DEF Turn, StreamInv
  <2>2. CASE UNCHANGED active
    BY <1>1, <2>2, ActiveKept DEF StreamInv
  <2>. QED
    BY <2>1, <2>2
    DEF PressCenter, BeginSetRequest, BeginSetRequestAccepted, Refuse,
        PressCenterQueueFull, PressCenterDisconnected, ErrorExpires
<1>4. toHost' # <<>> => toHost # <<>> \/ handshakeComplete
  BY DEF SessionInv, ScreenInv, Turn, PressCenter, PressCenterQueueFull,
         PressCenterDisconnected, ErrorExpires
<1>. QED
  BY <1>1, <1>2, <1>3, <1>4, StreamKept

-----------------------------------------------------------------------------
(* The firmware.                                                           *)

LEMMA EdgesStream ==
  ASSUME NEW order, SessionInv, StreamInv(order), UNCHANGED <<audioVars, hostVars>>,
         ConnectedEdge \/ DisconnectedEdge
  PROVE  StreamInv(order)' /\ lastError' = "None"
<1> USE DEF hostVars, linkVars, SessionReset
<1>1. CaptureInv' /\ UNCHANGED <<pc, hostGeneration>>
  BY CaptureKept DEF StreamInv
<1>2. CASE ConnectedEdge
  <2>1. ActiveShape' /\ ~syncInProgress' /\ lastError' = "None"
    BY <1>2, ActiveCleared DEF ConnectedEdge, Clear
  <2>2. pc = "hello" /\ toHost' = <<>> /\ UNCHANGED link
    BY <1>2 DEF ConnectedEdge, SessionInv, ChannelInv, AfterHello, Greeting
  <2>. QED
    BY <1>1, <2>1, <2>2 DEF StreamInv
<1>3. CASE DisconnectedEdge
  <2>1. ~link' /\ ~syncInProgress' /\ lastError' = "None"
    BY <1>3 DEF DisconnectedEdge, DisconnectSession
  <2>2. ActiveShape'
    BY <1>3 DEF DisconnectedEdge, DisconnectSession, StreamInv, ActiveShape
  <2>. QED
    BY <1>1, <2>1, <2>2, NoStream DEF StreamInv
<1>. QED
  BY <1>2, <1>3

LEMMA HelloStream ==
  ASSUME NEW order, SessionInv, StreamInv(order), UNCHANGED <<audioVars, hostVars>>, HandleHello
  PROVE  StreamInv(order)' /\ UNCHANGED lastError
<1> USE DEF HandleHello, Receive, hostVars, vars, modeVars, syncVars
<1>1. CaptureInv' /\ ActiveShape'
  BY CaptureKept, ActiveKept DEF StreamInv
<1>2. link /\ IsChannel(toDevice)
  BY DEF SessionInv, ChannelInv
<1>3. 1 \in InFlight(toDevice, "HELLO_REQ")
  BY <1>2, TakenInFlight DEF InFlight
<1>4. pc = "hello"
  BY <1>2, <1>3 DEF SessionInv, ChannelInv, AfterHello
<1>. QED
  BY <1>1, <1>2, <1>4 DEF StreamInv

\* What the frame that is read next means to the list on its way.
LEMMA FrameLeads ==
  ASSUME NEW order, SessionInv, StreamInv(order), connected, toDevice # <<>>,
         frame.type # "HELLO_REQ"
  PROVE  /\ link /\ pc # "hello" /\ handshakeComplete
         /\ \E m, n, k :
              /\ IsStage(m) /\ IsStage(n) /\ Step(order, m, frame, n)
              /\ Leads(order, n, Tail(toDevice), k) /\ Writes(order, k)
              /\ Reads(m) /\ (order = "rising" => Displays(m))
<1>1. link /\ IsChannel(toDevice)
  BY DEF SessionInv, ChannelInv
<1>2. pc # "hello"
  BY <1>1, HelloChannel DEF SessionInv, ChannelInv, Greeting, frame
<1>3. PICK m, k : Follows(order, m, k)
  BY <1>1, <1>2 DEF StreamInv
<1>4. PICK n : Step(order, m, frame, n) /\ IsStage(m) /\ IsStage(n)
               /\ Leads(order, n, Tail(toDevice), k)
  BY <1>1, <1>3, LeadsTaken DEF Follows, frame
<1>. QED
  BY <1>1, <1>2, <1>3, <1>4 DEF StreamInv, Follows

\* Once it is read, the rest leads on from there.
LEMMA FrameStream ==
  ASSUME NEW order, SessionInv, StreamInv(order), UNCHANGED hostVars, NEW type, Receive(type),
         link, pc # "hello", UNCHANGED handshakeComplete, ActiveShape', NEW n, NEW k,
         Leads(order, n, Tail(toDevice), k), Writes(order, k), Reads(n)',
         order = "rising" => Displays(n)'
  PROVE  StreamInv(order)'
<1> USE DEF hostVars, Receive
<1>1. CaptureInv'
  BY CaptureKept DEF StreamInv
<1>2. Leads(order, n, toDevice, k)'
  <2>1. toDevice' = Tail(toDevice)
    OBVIOUS
  <2>. QED
    BY <2>1
<1>3. Writes(order, k)'
  BY DEF Writes, Owes
<1>4. Follows(order, n, k)'
  BY <1>2, <1>3 DEF Follows
<1>5. \E i, j : Follows(order, i, j)'
  BY <1>4
<1>. QED
  BY <1>1, <1>5 DEF StreamInv

\* The type of a frame says which step it leads through.
LEMMA FrameStep ==
  ASSUME NEW order, NEW m, NEW e, NEW n, Step(order, m, e, n)
  PROVE  /\ e.type = "SYNC_BEGIN" => Begins(order, m, e, n)
         /\ e.type = "ENDPOINT" => \E f \in Flows : Lengthens(m, e, n, f)
         /\ e.type = "CURRENT" => \E f \in Flows : NamesDefaults(m, e, n, f)
         /\ e.type = "SYNC_END" => Ends(m, e, n)
         /\ e.type = "SET_RESULT" => Passes(m, e, n)
<1>1. CASE Begins(order, m, e, n)
  <2>1. e.type = "SYNC_BEGIN"
    BY <1>1 DEF Begins, SyncBegin
  <2>. QED
    BY <1>1, <2>1
<1>2. ASSUME NEW f \in Flows, Lengthens(m, e, n, f)
      PROVE  e.type = "ENDPOINT"
  BY <1>2 DEF Lengthens, EndpointRecord
<1>3. ASSUME NEW f \in Flows, NamesDefaults(m, e, n, f)
      PROVE  e.type = "CURRENT"
  BY <1>3 DEF NamesDefaults, CurrentHandles
<1>4. CASE Ends(m, e, n)
  <2>1. e.type = "SYNC_END"
    BY <1>4 DEF Ends, SyncEnd
  <2>. QED
    BY <1>4, <2>1
<1>5. CASE Passes(m, e, n)
  <2>1. e.type = "SET_RESULT"
    BY <1>5 DEF Passes
  <2>. QED
    BY <1>5, <2>1
<1>. QED
  BY <1>1, <1>2, <1>3, <1>4, <1>5 DEF Step

LEMMA HandledStream ==
  ASSUME NEW order, SessionInv, StreamInv(order), UNCHANGED <<audioVars, hostVars>>,
         HandleSyncBegin \/ HandleEndpoint \/ HandleCurrent \/ HandleSyncEnd \/ HandleSetResult
  PROVE  StreamInv(order)' /\ lastError' \in Tolerable
<1>1. \E type \in {"SYNC_BEGIN", "ENDPOINT", "CURRENT", "SYNC_END", "SET_RESULT"} :
        Receive(type)
  BY DEF HandleSyncBegin, HandleEndpoint, HandleCurrent, HandleSyncEnd, HandleSetResult
<1>2. PICK type \in {"SYNC_BEGIN", "ENDPOINT", "CURRENT", "SYNC_END", "SET_RESULT"} :
        Receive(type)
  BY <1>1
<1>3. connected /\ toDevice # <<>> /\ frame.type = type /\ frame.type # "HELLO_REQ"
  BY <1>2 DEF Receive, frame
<1>4. link /\ pc # "hello" /\ handshakeComplete
  BY <1>3, FrameLeads
<1>5. UNCHANGED handshakeComplete /\ UNCHANGED hostVars
  BY DEF HandleSyncBegin, HandleEndpoint, HandleCurrent, HandleSyncEnd, HandleSetResult
<1>6. PICK m, n, k :
        /\ IsStage(m) /\ IsStage(n) /\ Step(order, m, frame, n)
        /\ Leads(order, n, Tail(toDevice), k) /\ Writes(order, k)
        /\ Reads(m) /\ (order = "rising" => Displays(m))
  BY <1>3, FrameLeads
<1>7. SUFFICES /\ Reads(n)' /\ lastError' \in Tolerable /\ ActiveShape'
               /\ order = "rising" /\ Displays(m) => Displays(n)'
  BY <1>2, <1>4, <1>5, <1>6, FrameStream
<1>8. CASE HandleSyncBegin
  <2>1. BeginSync(frame.generation, frame.counts) /\ Begins(order, m, frame, n)
    BY <1>4, <1>6, <1>8, FrameStep DEF HandleSyncBegin, Receive, frame
  <2>2. ActiveShape'
    BY <2>1, ActiveKept DEF BeginSync, Refuse, modeVars, StreamInv
  <2>. QED
    BY <1>6, <2>1, <2>2, BeginRead
<1>9. CASE HandleEndpoint
  <2>1. AddEndpoint(frame.flow, frame.handle, frame.name)
        /\ \E f \in Flows : Lengthens(m, frame, n, f)
    BY <1>4, <1>6, <1>9, FrameStep DEF HandleEndpoint, Receive, frame
  <2>2. ActiveShape'
    BY <2>1, ActiveKept DEF AddEndpoint, Refuse, modeVars, StreamInv
  <2>. QED
    BY <1>6, <2>1, <2>2, EndpointRead
<1>10. CASE HandleCurrent
  <2>1. SetCurrent(frame.flow, frame.handles)
        /\ \E f \in Flows : NamesDefaults(m, frame, n, f)
    BY <1>4, <1>6, <1>10, FrameStep DEF HandleCurrent, Receive, frame
  <2>2. ActiveShape'
    BY <2>1, ActiveKept DEF SetCurrent, Refuse, modeVars, StreamInv
  <2>. QED
    BY <1>6, <2>1, <2>2, DefaultsRead
<1>11. CASE HandleSyncEnd
  <2>1. (CommitAccepted(frame.generation) \/ CommitRejected(frame.generation))
        /\ Ends(m, frame, n)
    BY <1>4, <1>6, <1>11, FrameStep DEF HandleSyncEnd, Receive, frame
  <2>. QED
    BY <1>6, <2>1, EndRead DEF StreamInv
<1>12. CASE HandleSetResult
  <2>1. FinishSetRequest(frame.id) /\ Passes(m, frame, n)
    BY <1>4, <1>6, <1>12, FrameStep DEF HandleSetResult, Receive, frame
  <2>2. setPending /\ frame.id = pendingRequestId
    <3>1. IsChannel(toDevice) /\ AfterHello /\ Head(toDevice).type = "SET_RESULT"
      BY <1>4, <1>12 DEF SessionInv, ChannelInv, HandleSetResult, Receive
    <3>2. Head(toDevice) = toDevice[1] /\ 1 \in Results
      BY <1>3, <3>1, TakenInFlight DEF Results, InFlight
    <3>3. Answered
      BY <3>1, <3>2 DEF AfterHello, Resting, Sending, Serving
    <3>. QED
      BY <3>2, <3>3 DEF Answered, frame
  <2>3. lastError' = "None" /\ UNCHANGED <<active, pending, expected, ready, syncInProgress>>
    BY <2>1, <2>2 DEF FinishSetRequest, syncVars
  <2>4. n = m
    BY <2>1 DEF Passes
  <2>5. Reads(n)'
    BY <1>6, <2>3, <2>4 DEF Reads
  <2>6. ActiveShape' /\ (Displays(m) => Displays(n)')
    BY <2>3, <2>4, ActiveKept DEF StreamInv
  <2>. QED
    BY <2>3, <2>5, <2>6 DEF Tolerable
<1>. QED
  BY <1>8, <1>9, <1>10, <1>11, <1>12

LEMMA DeviceStream ==
  ASSUME NEW order, SessionInv, StreamInv(order), Device
  PROVE  StreamInv(order)' /\ lastError' \in Tolerable
<1> USE DEF Device
<1>1. CASE ConnectedEdge \/ DisconnectedEdge
  BY <1>1, EdgesStream DEF Tolerable
<1>2. CASE HandleHello
  BY <1>2, HelloStream DEF Tolerable
<1>3. CASE HandleSyncBegin \/ HandleEndpoint \/ HandleCurrent \/ HandleSyncEnd \/ HandleSetResult
  BY <1>3, HandledStream
<1>. QED
  BY <1>1, <1>2, <1>3 DEF HandleFrame

-----------------------------------------------------------------------------
(* The theorems.                                                           *)

LEMMA StreamNext ==
  ASSUME NEW order \in Orders, SessionInv, StreamInv(order), [SessionNext]_sessionVars,
         order = "rising" => hostGeneration # GenerationLimit
  PROVE  StreamInv(order)'
<1>1. CASE Connect
  BY <1>1, ConnectStream
<1>2. CASE LinkLost \/ GiveUp \/ ResetSelector
  BY <1>2, BreaksStream
<1>3. CASE Host
  BY <1>3, HostStream
<1>4. CASE Device
  BY <1>4, DeviceStream
<1>5. CASE Windows
  BY <1>5, WindowsStream
<1>6. CASE User
  BY <1>6, UserStream
<1>7. CASE UNCHANGED sessionVars
  <2> USE <1>7 DEF sessionVars, deviceVars, vars, modeVars, syncVars, selectorVars, linkVars,
                   hostVars
  <2>1. CaptureInv' /\ ActiveShape' /\ \A m : Displays(m) => Displays(m)'
    BY CaptureKept, ActiveKept DEF StreamInv
  <2>2. Owes' <=> Owes
    BY DEF Owes
  <2>. QED
    BY <2>1, <2>2, StreamKept
<1>. QED
  BY <1>1, <1>2, <1>3, <1>4, <1>5, <1>6, <1>7 DEF SessionNext

\* Whatever the order of steps, requests and lost links, a frame of the host is
\* refused by the firmware only because a request is outstanding: every list
\* is announced with the counts it has, has no handle twice, and names defaults
\* that are in it.
THEOREM OnlyTheMomentIsRefused == SessionSpec => OnlyBusyRefusals
<1>1. SessionInit => StreamInv("any")
  BY StreamInitially
<1>2. SessionInv /\ StreamInv("any") /\ [SessionNext]_sessionVars => StreamInv("any")'
  BY StreamNext DEF Orders
<1>3. SessionInv /\ StreamInv("any")
        => [(Device /\ lastError' \notin {"None", lastError})
              => lastError' \in {"Busy", "NoSyncStarted"}]_sessionVars
  BY DeviceStream DEF Tolerable
<1>. QED
  BY <1>1, <1>2, <1>3, SessionAlways, PTL DEF SessionSpec, OnlyBusyRefusals

LEMMA StreamNamesSnapshot ==
  ASSUME SessionInv, StreamInv("rising")
  PROVE  GenerationNamesSnapshot
<1> SUFFICES ASSUME ready, link, active.generation = hostGeneration, NEW f \in Flows
             PROVE  Shown(f) = snapshot.list[f]
                    /\ active.flow[f].current = snapshot.handles[f]
  BY DEF GenerationNamesSnapshot
<1>1. pc # "hello" /\ IsChannel(toDevice)
  BY DEF SessionInv, ChannelInv, Greeting
<1>2. PICK m, k : Follows("rising", m, k)
  BY <1>1 DEF StreamInv
<1>3. IsStage(m) /\ IsStage(k) /\ NotAfter("rising", m, k)
  BY <1>1, <1>2, LeadsStages DEF Follows
<1>4. active.generation \in Nat /\ active.generation <= m.generation
  BY <1>2 DEF Follows, Displays
<1>5. m.generation <= k.generation /\ k.generation \in Nat /\ m.generation \in Nat
  BY <1>3 DEF NotAfter, IsStage
<1>6. ~Owes /\ k.generation = hostGeneration /\ k.snapshot = snapshot
  BY <1>2, <1>4, <1>5 DEF Follows, Writes
<1>7. m.generation = active.generation /\ m.snapshot = snapshot
  BY <1>3, <1>4, <1>5, <1>6 DEF NotAfter
<1>. QED
  BY <1>2, <1>7 DEF Follows, Displays

\* As long as the generations of a session have not come round (2^32 lists and
\* results), a list on the selector that carries the host's generation is the
\* list the host sent under it, whole, for any number of endpoints, audio
\* changes, requests and broken sessions.
THEOREM GenerationsNameSnapshots ==
  SessionSpec /\ [](hostGeneration # GenerationLimit) => []GenerationNamesSnapshot
<1>1. SessionInit => StreamInv("rising")
  BY StreamInitially
<1>2. SessionInv /\ StreamInv("rising") /\ hostGeneration # GenerationLimit
        /\ [SessionNext]_sessionVars => StreamInv("rising")'
  BY StreamNext DEF Orders
<1>3. SessionInv /\ StreamInv("rising") => GenerationNamesSnapshot
  BY StreamNamesSnapshot
<1>. QED
  BY <1>1, <1>2, <1>3, SessionAlways, PTL DEF SessionSpec
=============================================================================
