----------------------------- MODULE AudioSession -----------------------------
(***************************************************************************)
(* The whole system: the resident Windows program, the audio devices of    *)
(* the PC, the Bluetooth link, and the selector.                           *)
(***************************************************************************)
EXTENDS Selector, HostSession

CONSTANTS
  Budget,       \* bound on breaks (lost links, failed sessions, restarts of
  BreakWeight,  \* the selector), audio changes and presses together,
  ChangeWeight, \* each counted with its weight
  PressWeight,
  MaxPresses  \* bound on set requests of the user

ASSUME SessionAssumption ==
  /\ Names = Ids
  /\ Generations = 1..GenerationLimit
  /\ ListLimit <= MaxEndpoints /\ ListLimit <= MaxHandle
  /\ Budget \in Nat /\ BreakWeight \in Nat /\ ChangeWeight \in Nat /\ PressWeight \in Nat
  /\ MaxPresses \in Nat

VARIABLES breaks, presses

boundVars == <<breaks, presses>>
sessionVars == <<deviceVars, linkVars, audioVars, hostVars, boundVars>>

SessionInit ==
  /\ SelectorInit /\ LinkInit /\ AudioInit /\ HostInit
  /\ breaks = 0 /\ presses = 0

-----------------------------------------------------------------------------
\* The host waits at least a second before it connects again, the firmware
\* looks at the link every 10 ms: it has seen the old link go.
Connect ==
  /\ HostConnect
  /\ started /\ ~connected
  /\ UNCHANGED <<deviceVars, boundVars>>

Affordable(cost) ==
  BreakWeight * breaks + ChangeWeight * changes + PressWeight * presses + cost <= Budget
Break == Affordable(BreakWeight) /\ breaks' = breaks + 1

LinkLost ==
  /\ Break /\ link /\ LinkCloses
  /\ UNCHANGED <<deviceVars, audioVars, hostVars, presses>>

GiveUp ==
  /\ Break /\ HostGivesUp
  /\ UNCHANGED <<deviceVars, presses>>

ResetSelector ==
  /\ Break
  /\ \E restarted \in BOOLEAN : Reconnect(restarted) \/ Restart(restarted)
  /\ UNCHANGED <<audioVars, hostVars, presses>>

Host == HostStep /\ UNCHANGED <<deviceVars, boundVars>>

Device ==
  /\ ConnectedEdge \/ DisconnectedEdge \/ HandleFrame
  /\ UNCHANGED <<audioVars, hostVars, boundVars>>

Windows ==
  /\ (Affordable(ChangeWeight) /\ \E f \in Flows : AudioChange(f)) \/ Notify
  /\ UNCHANGED <<deviceVars, linkVars, hostVars, boundVars>>

User ==
  \/ /\ \E f \in Flows, d \in {-1, 1} : Turn(f, d)
     /\ UNCHANGED <<audioVars, hostVars, boundVars>>
  \/ /\ presses < MaxPresses /\ Affordable(PressWeight)
     /\ presses' = presses + 1
     /\ \E f \in Flows : PressCenter(f) \/ PressCenterQueueFull(f)
     /\ UNCHANGED <<audioVars, hostVars, breaks>>
  \/ /\ PressCenterDisconnected \/ ErrorExpires
     /\ UNCHANGED <<audioVars, hostVars, boundVars>>

SessionNext ==
  Connect \/ LinkLost \/ GiveUp \/ ResetSelector \/ Host \/ Device \/ Windows
  \/ User

SessionSpec == SessionInit /\ [][SessionNext]_sessionVars

\* Both programs poll forever and Windows delivers what it owes; nothing is
\* assumed of the user, of the audio devices or of the radio.
Fairness ==
  /\ WF_sessionVars(Connect)
  /\ WF_sessionVars(Host)
  /\ WF_sessionVars(\E due \in BOOLEAN : Poll(TRUE, due) /\ Host)
  /\ WF_sessionVars(\E receive \in BOOLEAN : Poll(receive, TRUE) /\ Host)
  /\ WF_sessionVars(Device)
  /\ WF_sessionVars(Notify /\ Windows)

FairSession == SessionSpec /\ Fairness

-----------------------------------------------------------------------------
(* Safety.                                                                 *)

\* The selector's list as host data: what it shows for each flow.
Shown(f) == [i \in DOMAIN active.flow[f].endpoints |->
               active.flow[f].endpoints[i].name]

InSession == link /\ connected /\ handshakeComplete

\* The screen says connected only after HELLO on this link, a list is usable
\* only then, and a request is only ever outstanding then.
ConnectedMeansHandshake ==
  /\ connectionStatus = "Connected" => connected /\ handshakeComplete
  /\ ready => connectionStatus = "Connected"

\* A list on the selector whose generation the host still holds is the list
\* the host sent under it, whole: lists and defaults of two syncs are never
\* mixed, also when a sync is refused, cut off by the link or follows a result.
GenerationNamesSnapshot ==
  (ready /\ link /\ active.generation = hostGeneration)
    => \A f \in Flows :
         /\ Shown(f) = snapshot.list[f]
         /\ active.flow[f].current = snapshot.handles[f]

\* Every result the host writes is for the request the selector waits for, and
\* at most one request is under way: in a queue, at the host, or answered.
InFlight(channel, type) ==
  {i \in DOMAIN channel : channel[i].type = type}

OneRequestUnderWay ==
  /\ Cardinality(InFlight(toHost, "SET_REQ")) + Len(inbox)
       + Cardinality(InFlight(toDevice, "SET_RESULT")) <= 1
  /\ (link /\ connected) =>
       \A i \in InFlight(toDevice, "SET_RESULT") :
         setPending /\ toDevice[i].id = pendingRequestId
  /\ (link /\ connected /\ setPending) =>
       Cardinality(InFlight(toHost, "SET_REQ")) + Len(inbox)
         + Cardinality(InFlight(toDevice, "SET_RESULT")) = 1

\* No frame of the host is refused by the firmware for what it contains: the
\* only refusals are of a list that arrives while a request is outstanding.
OnlyBusyRefusals ==
  [][(Device /\ lastError' \notin {"None", lastError})
       => lastError' \in {"Busy", "NoSyncStarted"}]_sessionVars

-----------------------------------------------------------------------------
(* Liveness.                                                               *)

\* The selector shows what Windows has.
Converged ==
  /\ ready
  /\ \A f \in Flows :
       /\ Shown(f) = Enumerated(f)
       /\ active.flow[f].current = RoleHandlesIn(Enumerated(f), defaults[f])

\* Once changes, presses and breaks are over, the selector comes to show what
\* Windows has and keeps showing it, unless its transport failed to start.
EventuallyConverged == <>[]started => <>[]Converged

\* Neither wait of the selector is forever: the firmware has no timeout of its
\* own, so a lost answer must end with the session.
RequestResolves == setPending ~> ~setPending
AwaitResolves   == awaitingSync ~> ~awaitingSync

-----------------------------------------------------------------------------
(* What the protocol document says and the code does not do.               *)

\* protocol.md section 6: checking the generation keeps a delayed request from
\* selecting another endpoint after the list was rebuilt.
RequestSelectsWhatWasShown ==
  (pc = "apply" /\ link) =>
    \E e \in {active.flow[setRequest.flow].endpoints[i] :
                i \in DOMAIN active.flow[setRequest.flow].endpoints} :
      e.handle = setRequest.handle /\ e.name = target

\* protocol.md sections 6 and 11: a handle is never given to another endpoint
\* within a connection, so keeping the candidate by its handle is safe.
HandleKeepsEndpoint ==
  [][(ready /\ ready' /\ active'.generation # active.generation) =>
       \A f \in Flows :
         \A i \in DOMAIN active.flow[f].endpoints,
            j \in DOMAIN active'.flow[f].endpoints :
           active.flow[f].endpoints[i].handle = active'.flow[f].endpoints[j].handle
             => active.flow[f].endpoints[i].name = active'.flow[f].endpoints[j].name
    ]_sessionVars
=============================================================================
