----------------------------- MODULE DeviceState -----------------------------
(***************************************************************************)
(* The selector's model of the PC: class DeviceState of the firmware       *)
(* (firmware/src/state/device_state.cpp).                                  *)
(*                                                                         *)
(* The class holds the list of audio endpoints last committed by the host  *)
(* (active), the list being received (pending), and four flags that say    *)
(* which operation is in flight.  Every operation is total: called at the  *)
(* wrong moment it records a StateError and changes nothing else.  The     *)
(* actions below are the public operations, called in any order; the       *)
(* modules that compose this one restrict the order to that of main.cpp.   *)
(***************************************************************************)
EXTENDS AudioTypes, Sequences

CONSTANTS
  Names,         \* friendly names of at most kMaximumEndpointNameLength bytes
  OversizedName, \* stands for every null or longer name
  MaxHandle,     \* handles are 1..MaxHandle (16 bits in the code)
  MaxGeneration, \* generations are 1..MaxGeneration (32 bits in the code)
  MaxEndpoints,  \* config::kMaximumEndpointsPerFlow
  MaxRequestId,  \* the last request id before it wraps (0xFFFFFFFF)
  (* What a caller may announce.                                           *)
  HandleChoices, \* the handles of the endpoints of each flow
  RoleChoices,   \* the defaults of the three roles
  CountChoices   \* the endpoint counts of the two flows

Handles     == 1..MaxHandle
AnyHandle   == {NoHandle} \cup Handles
Generations == 1..MaxGeneration
RequestIds  == 1..MaxRequestId
Endpoint    == [handle : Handles, name : Names]

RoleHandles == [Roles -> AnyHandle]

ASSUME ConstantsAssumption ==
  /\ OversizedName \notin Names
  /\ MaxHandle \in Nat \ {0}
  /\ MaxGeneration \in Nat \ {0}
  /\ MaxEndpoints \in Nat \ {0}
  /\ MaxRequestId \in Nat \ {0, 1}
  /\ HandleChoices \in [Flows -> SUBSET AnyHandle]
  /\ RoleChoices \subseteq RoleHandles
  /\ CountChoices \subseteq [Flows -> Nat]

FlowState == [endpoints : Seq(Endpoint), current : RoleHandles,
              currentHandle : AnyHandle, candidateHandle : AnyHandle]
Snapshot  == [generation : {0} \cup Generations, flow : [Flows -> FlowState]]

EmptyFlow     == [endpoints |-> <<>>, current |-> NoRoles,
                  currentHandle |-> NoHandle, candidateHandle |-> NoHandle]
EmptySnapshot == [generation |-> 0, flow |-> [f \in Flows |-> EmptyFlow]]
NoCounts      == [f \in Flows |-> 0]

StateErrors == {"None", "SyncAlreadyStarted", "NoSyncStarted", "InvalidCount",
                "InvalidHandle", "DuplicateHandle", "NameTooLong",
                "CountMismatch", "GenerationMismatch", "NotReady", "Busy",
                "UnexpectedRequestId"}

SetRequest == [flow : Flows, id : RequestIds, generation : Generations,
               handle : Handles]
NoRequest  == [flow |-> "output", id |-> 0, generation |-> 0, handle |-> 0]

VARIABLES
  active,           \* the committed list: what the screen shows
  pending,          \* the list a sync in progress has received so far
  expected,         \* endpoint counts announced by the sync in progress
  ready,            \* a list has been committed in this session
  syncInProgress,
  setPending,       \* a set request is waiting for its result
  awaitingSync,     \* a result came, the list it leads to did not
  pendingRequestId,
  nextRequestId,
  lastError,
  request           \* the request handed out and not yet finished

modeVars   == <<ready, syncInProgress, setPending, awaitingSync>>
syncVars   == <<pending, expected>>
requestVars == <<pendingRequestId, nextRequestId, request>>
vars == <<active, syncVars, modeVars, requestVars, lastError>>

-----------------------------------------------------------------------------
(* Reading a list.                                                         *)

HandlesOf(fs) == {fs.endpoints[i].handle : i \in DOMAIN fs.endpoints}

\* find(...) != nullptr
Lists(fs, h) == h # NoHandle /\ h \in HandlesOf(fs)

DisplayCurrentHandle(current) ==
  IF current["multimedia"] # NoHandle THEN current["multimedia"]
  ELSE IF current["console"] # NoHandle THEN current["console"]
  ELSE current["communications"]

\* Where the candidate stands in the list, if the list has it.
HasCandidate(fs) == fs.candidateHandle \in HandlesOf(fs)
CandidateIndex(fs) ==
  CHOOSE i \in DOMAIN fs.endpoints :
    fs.endpoints[i].handle = fs.candidateHandle

\* Mutant: LEFT stops at the first endpoint instead of wrapping around.
CycledIndexSaturating(fs, direction) ==
  LET count == Len(fs.endpoints)
      index == CandidateIndex(fs) - 1
  IN  IF ~HasCandidate(fs) \/ (direction < 0 /\ index = 0) THEN 0
      ELSE IF direction < 0 THEN index - 1
      ELSE (index + 1) % count

\* The index one step to the LEFT (direction < 0) or to the RIGHT.
CycledIndex(fs, direction) ==
  LET count == Len(fs.endpoints)
      index == CandidateIndex(fs) - 1
  IN  IF ~HasCandidate(fs) THEN 0
      ELSE IF direction < 0 THEN (index + count - 1) % count
      ELSE (index + 1) % count

Cycled(fs, direction) ==
  [fs EXCEPT !.candidateHandle =
     fs.endpoints[CycledIndex(fs, direction) + 1].handle]

-----------------------------------------------------------------------------
(* Receiving a list.                                                       *)

\* Mutant: the handles of the roles are not looked up in the list.
FlowErrorCountOnly(fs, count) ==
  IF Len(fs.endpoints) # count THEN "CountMismatch" ELSE "None"

\* What validateAndFinalizeFlow finds wrong with a received flow.
FlowError(fs, count) ==
  IF Len(fs.endpoints) # count THEN "CountMismatch"
  ELSE IF \E r \in Roles : fs.current[r] # NoHandle /\ ~Lists(fs, fs.current[r])
  THEN "InvalidHandle"
  ELSE "None"

\* Mutant: every new list starts at the current endpoint.
FinalizedForgettingChoice(fs, previous) ==
  LET current == DisplayCurrentHandle(fs.current)
  IN [fs EXCEPT
        !.currentHandle = current,
        !.candidateHandle = IF current # NoHandle THEN current
                            ELSE IF fs.endpoints # <<>> THEN fs.endpoints[1].handle
                            ELSE @]

\* A valid flow as it is committed: the candidate is kept while its handle is
\* still listed, then falls back to the current endpoint, then to the first.
Finalized(fs, previous) ==
  LET current == DisplayCurrentHandle(fs.current)
  IN [fs EXCEPT
        !.currentHandle = current,
        !.candidateHandle =
           IF Lists(fs, previous.candidateHandle)
             THEN previous.candidateHandle
           ELSE IF current # NoHandle THEN current
           ELSE IF fs.endpoints # <<>> THEN fs.endpoints[1].handle
           ELSE @]

FinalizedFlow(f) == Finalized(pending.flow[f], active.flow[f])

Init ==
  /\ active = EmptySnapshot
  /\ pending = EmptySnapshot
  /\ expected = NoCounts
  /\ ready = FALSE
  /\ syncInProgress = FALSE
  /\ setPending = FALSE
  /\ awaitingSync = FALSE
  /\ pendingRequestId = 0
  /\ nextRequestId = 1
  /\ lastError = "None"
  /\ request = NoRequest

\* fail(error): the call is refused.
Refuse(error) ==
  /\ lastError' = error
  /\ UNCHANGED <<active, syncVars, modeVars, requestVars>>

\* Mutant: a list is accepted while a request is outstanding.
BeginSyncErrorNotBusy(generation, counts) ==
  IF syncInProgress THEN "SyncAlreadyStarted"
  ELSE IF generation = 0 \/ \E f \in Flows : counts[f] > MaxEndpoints
  THEN "InvalidCount"
  ELSE "None"

BeginSyncError(generation, counts) ==
  IF syncInProgress THEN "SyncAlreadyStarted"
  ELSE IF setPending THEN "Busy"
  ELSE IF generation = 0 \/ \E f \in Flows : counts[f] > MaxEndpoints
  THEN "InvalidCount"
  ELSE "None"

BeginSync(generation, counts) ==
  LET error == BeginSyncError(generation, counts) IN
  \/ /\ error # "None"
     /\ Refuse(error)
  \/ /\ error = "None"
     /\ pending' = [EmptySnapshot EXCEPT !.generation = generation]
     /\ expected' = counts
     /\ syncInProgress' = TRUE
     /\ lastError' = "None"
     /\ UNCHANGED <<active, ready, setPending, awaitingSync, requestVars>>

AddEndpointError(f, handle, name) ==
  IF ~syncInProgress THEN "NoSyncStarted"
  ELSE IF handle = NoHandle THEN "InvalidHandle"
  ELSE IF name = OversizedName THEN "NameTooLong"
  ELSE IF Lists(pending.flow[f], handle) THEN "DuplicateHandle"
  ELSE IF Len(pending.flow[f].endpoints) >= MaxEndpoints THEN "InvalidCount"
  ELSE "None"

AddEndpoint(f, handle, name) ==
  LET error == AddEndpointError(f, handle, name) IN
  \/ /\ error # "None"
     /\ Refuse(error)
  \/ /\ error = "None"
     /\ pending' = [pending EXCEPT !.flow[f].endpoints =
                      Append(@, [handle |-> handle, name |-> name])]
     /\ UNCHANGED <<active, expected, modeVars, requestVars, lastError>>

SetCurrent(f, handles) ==
  \/ /\ ~syncInProgress
     /\ Refuse("NoSyncStarted")
  \/ /\ syncInProgress
     /\ pending' = [pending EXCEPT !.flow[f].current = handles]
     /\ UNCHANGED <<active, expected, modeVars, requestVars, lastError>>

\* Why commitSync(generation) would return false; the output flow is
\* validated before the input flow.
FlowsError ==
  LET output == FlowError(pending.flow["output"], expected["output"])
  IN  IF output # "None" THEN output
      ELSE FlowError(pending.flow["input"], expected["input"])

\* Mutant: the received flows are not validated.
CommitErrorUnvalidated(generation) ==
  IF ~syncInProgress THEN "NoSyncStarted"
  ELSE IF generation # pending.generation THEN "GenerationMismatch"
  ELSE "None"

CommitError(generation) ==
  IF ~syncInProgress THEN "NoSyncStarted"
  ELSE IF generation # pending.generation THEN "GenerationMismatch"
  ELSE FlowsError

\* Mutant: the list that was awaited does not end the wait.
CommitAcceptedStillAwaiting(generation) ==
  /\ CommitError(generation) = "None"
  /\ active' = [pending EXCEPT !.flow = [f \in Flows |-> FinalizedFlow(f)]]
  /\ pending' = EmptySnapshot
  /\ syncInProgress' = FALSE
  /\ ready' = TRUE
  /\ lastError' = "None"
  /\ UNCHANGED <<expected, setPending, awaitingSync, requestVars>>

CommitAccepted(generation) ==
  /\ CommitError(generation) = "None"
  /\ active' = [pending EXCEPT !.flow = [f \in Flows |-> FinalizedFlow(f)]]
  /\ pending' = EmptySnapshot
  /\ syncInProgress' = FALSE
  /\ ready' = TRUE
  /\ awaitingSync' = FALSE
  /\ lastError' = "None"
  /\ UNCHANGED <<expected, setPending, requestVars>>

\* A list that does not validate ends the sync; an output flow that did
\* validate before the input flow failed stays finalized in pending.
CommitInvalid(generation) ==
  /\ syncInProgress /\ generation = pending.generation /\ FlowsError # "None"
  /\ pending' = IF FlowError(pending.flow["output"], expected["output"]) = "None"
                THEN [pending EXCEPT !.flow["output"] = FinalizedFlow("output")]
                ELSE pending
  /\ syncInProgress' = FALSE
  /\ lastError' = FlowsError
  /\ UNCHANGED <<active, expected, ready, setPending, awaitingSync, requestVars>>

CommitSync(generation) ==
  \/ CommitAccepted(generation)
  \/ CommitInvalid(generation)
  \/ /\ CommitError(generation) \in {"NoSyncStarted", "GenerationMismatch"}
     /\ Refuse(CommitError(generation))

\* Mutant: cancelling a list also ends the wait for it.
CancelSyncAndWait ==
  /\ pending' = EmptySnapshot
  /\ syncInProgress' = FALSE
  /\ awaitingSync' = FALSE
  /\ UNCHANGED <<active, expected, ready, setPending, requestVars, lastError>>

CancelSync ==
  /\ pending' = EmptySnapshot
  /\ syncInProgress' = FALSE
  /\ UNCHANGED <<active, expected, ready, setPending, awaitingSync,
                 requestVars, lastError>>

\* Mutant: a list half received outlives the session.
SessionResetKeepsSync ==
  /\ pending' = EmptySnapshot
  /\ expected' = NoCounts
  /\ ready' = FALSE
  /\ setPending' = FALSE
  /\ awaitingSync' = FALSE
  /\ pendingRequestId' = 0
  /\ request' = NoRequest
  /\ lastError' = "None"
  /\ UNCHANGED syncInProgress

\* Mutant: a request outlives the session.
SessionResetKeepsRequest ==
  /\ pending' = EmptySnapshot
  /\ expected' = NoCounts
  /\ ready' = FALSE
  /\ syncInProgress' = FALSE
  /\ awaitingSync' = FALSE
  /\ lastError' = "None"
  /\ UNCHANGED <<setPending, pendingRequestId, request>>

\* The state both ways of ending a session leave behind.
SessionReset ==
  /\ pending' = EmptySnapshot
  /\ expected' = NoCounts
  /\ ready' = FALSE
  /\ syncInProgress' = FALSE
  /\ setPending' = FALSE
  /\ awaitingSync' = FALSE
  /\ pendingRequestId' = 0
  /\ request' = NoRequest
  /\ lastError' = "None"

\* The names stay on the screen; every session operation is invalidated.
DisconnectSession ==
  /\ SessionReset
  /\ UNCHANGED <<active, nextRequestId>>

\* A new transport connection: a new handle and generation namespace.
Clear ==
  /\ SessionReset
  /\ active' = EmptySnapshot
  /\ nextRequestId' = 1

-----------------------------------------------------------------------------
(* Choosing an endpoint.                                                   *)

\* Mutant: the candidate moves while a request is outstanding.
CanCycleWhilePending(f, direction) ==
  /\ ready /\ ~syncInProgress /\ ~awaitingSync
  /\ active.flow[f].endpoints # <<>>
  /\ direction # 0

CanCycle(f, direction) ==
  /\ ready /\ ~syncInProgress /\ ~setPending /\ ~awaitingSync
  /\ active.flow[f].endpoints # <<>>
  /\ direction # 0

CycleCandidate(f, direction) ==
  \/ /\ CanCycle(f, direction)
     /\ active' = [active EXCEPT !.flow[f] = Cycled(@, direction)]
     /\ UNCHANGED <<syncVars, modeVars, requestVars, lastError>>
  \/ /\ ~CanCycle(f, direction)
     /\ UNCHANGED vars

BeginSetRequestError(f) ==
  IF ~ready THEN "NotReady"
  ELSE IF syncInProgress \/ setPending \/ awaitingSync THEN "Busy"
  ELSE IF ~Lists(active.flow[f], active.flow[f].candidateHandle)
  THEN "InvalidHandle"
  ELSE "None"

\* Mutant: the id after the last one is 0, which means no request.
NextRequestIdThroughZero(id) == (id + 1) % (MaxRequestId + 1)

NextRequestId(id) == IF id = MaxRequestId THEN 1 ELSE id + 1

BeginSetRequestAccepted(f) ==
  /\ BeginSetRequestError(f) = "None"
  /\ request' = [flow |-> f, id |-> nextRequestId,
                 generation |-> active.generation,
                 handle |-> active.flow[f].candidateHandle]
  /\ pendingRequestId' = nextRequestId
  /\ setPending' = TRUE
  /\ nextRequestId' = NextRequestId(nextRequestId)
  /\ lastError' = "None"
  /\ UNCHANGED <<active, syncVars, ready, syncInProgress, awaitingSync>>

BeginSetRequest(f) ==
  \/ BeginSetRequestAccepted(f)
  \/ /\ BeginSetRequestError(f) # "None"
     /\ Refuse(BeginSetRequestError(f))

\* Mutant: a result with another id is refused, but ends the request.
FinishSetRequestAnyId(id) ==
  /\ setPending' = FALSE
  /\ awaitingSync' = (awaitingSync \/ setPending)
  /\ pendingRequestId' = 0
  /\ request' = NoRequest
  /\ lastError' = IF setPending /\ id = pendingRequestId THEN "None"
                  ELSE "UnexpectedRequestId"
  /\ UNCHANGED <<active, syncVars, ready, syncInProgress, nextRequestId>>

FinishSetRequest(id) ==
  \/ /\ ~(setPending /\ id = pendingRequestId)
     /\ Refuse("UnexpectedRequestId")
  \/ /\ setPending /\ id = pendingRequestId
     /\ setPending' = FALSE
     /\ awaitingSync' = TRUE
     /\ pendingRequestId' = 0
     /\ request' = NoRequest
     /\ lastError' = "None"
     /\ UNCHANGED <<active, syncVars, ready, syncInProgress, nextRequestId>>

\* The request was handed out but could not be queued for sending.
CancelSetRequest ==
  /\ setPending' = FALSE
  /\ pendingRequestId' = 0
  /\ request' = NoRequest
  /\ UNCHANGED <<active, syncVars, ready, syncInProgress, awaitingSync,
                 nextRequestId, lastError>>

-----------------------------------------------------------------------------
(* The class under an arbitrary caller.                                    *)

\* Calls that come from the host's messages.
SyncCall ==
  \/ \E g \in {0} \cup Generations, c \in CountChoices : BeginSync(g, c)
  \/ \E f \in Flows, n \in Names \cup {OversizedName} :
       \E h \in HandleChoices[f] : AddEndpoint(f, h, n)
  \/ \E f \in Flows, c \in RoleChoices : SetCurrent(f, c)
  \/ \E g \in Generations : CommitSync(g)
  \/ CancelSync

\* Calls that come from the jog switch, and the results they lead to.
SetCall ==
  \/ \E f \in Flows, d \in {-1, 0, 1} : CycleCandidate(f, d)
  \/ \E f \in Flows : BeginSetRequest(f)
  \/ \E id \in {0} \cup RequestIds : FinishSetRequest(id)
  \/ CancelSetRequest

\* Calls that come from the transport.
SessionCall == DisconnectSession \/ Clear

Next == SyncCall \/ SetCall \/ SessionCall

Spec == Init /\ [][Next]_vars
-----------------------------------------------------------------------------
(* What the class promises.                                                *)

\* Every field has its type; an announced list fits the endpoint array.
TypeOK ==
  /\ active \in Snapshot /\ pending \in Snapshot
  /\ \A f \in Flows : Len(pending.flow[f].endpoints) <= MaxEndpoints
  /\ expected \in [Flows -> 0..MaxEndpoints]
  /\ ready \in BOOLEAN /\ syncInProgress \in BOOLEAN
  /\ setPending \in BOOLEAN /\ awaitingSync \in BOOLEAN
  /\ pendingRequestId \in {0} \cup RequestIds
  /\ nextRequestId \in RequestIds
  /\ request \in SetRequest \cup {NoRequest}
  /\ lastError \in StateErrors

\* A request is never outstanding while a list is being received or awaited,
\* it has an id exactly while it is outstanding and is forgotten afterwards, and
\* every mode but receiving requires a committed list (the guards of beginSync
\* and beginSetRequest).
ModesExclusive ==
  /\ ~(setPending /\ (syncInProgress \/ awaitingSync))
  /\ setPending <=> pendingRequestId # 0
  /\ ~setPending => request = NoRequest
  /\ setPending \/ awaitingSync => ready
  /\ ready => active.generation # 0

\* A list that is being received has distinct handles, a generation, and no
\* candidate yet: what commitSync relies on when it finalizes the list.
Distinct(fs) ==
  \A i, j \in DOMAIN fs.endpoints :
    fs.endpoints[i].handle = fs.endpoints[j].handle => i = j

ReceivingFresh ==
  syncInProgress =>
    /\ pending.generation # 0
    /\ \A f \in Flows : /\ Distinct(pending.flow[f])
                        /\ pending.flow[f].candidateHandle = NoHandle

\* A flow that was committed is consistent: its handles are distinct, every
\* role and the shown current endpoint are listed, the current endpoint is the
\* one the roles select, and there is a candidate exactly if there is an
\* endpoint (commitSync, cycleCandidate).
WellFormed(fs) ==
  /\ Distinct(fs)
  /\ \A r \in Roles : fs.current[r] \in HandlesOf(fs) \cup {NoHandle}
  /\ fs.currentHandle = DisplayCurrentHandle(fs.current)
  /\ IF fs.endpoints = <<>> THEN fs.candidateHandle = NoHandle
     ELSE fs.candidateHandle \in HandlesOf(fs)

ActiveWellFormed == \A f \in Flows : WellFormed(active.flow[f])

\* The outstanding request names the generation on display and the candidate
\* the user saw when pressing: nothing that happens before its result may move
\* the list or the candidate under it (protocol.md section 8).
RequestNamesCommitted ==
  setPending =>
    /\ request.id = pendingRequestId
    /\ request.generation = active.generation
    /\ request.handle = active.flow[request.flow].candidateHandle
    /\ Lists(active.flow[request.flow], request.handle)

\* LEFT undoes RIGHT and RIGHT undoes LEFT on every committed list, also where
\* the index wraps around (cycleCandidate's modular step).
CyclingIsInvertible ==
  \A f \in Flows, d \in {-1, 1} :
    active.flow[f].endpoints # <<>> =>
      Cycled(Cycled(active.flow[f], d), -d) = active.flow[f]

\* The inductive invariant of the class.
Inv == TypeOK /\ ModesExclusive /\ ReceivingFresh /\ ActiveWellFormed
         /\ RequestNamesCommitted

\* The part of a flow that only the host decides.
Listing(fs) == [endpoints |-> fs.endpoints, current |-> fs.current,
                currentHandle |-> fs.currentHandle]

\* The list on display is replaced as a whole or not at all: by clear(), or by
\* exactly what one complete, valid sync received, at its announced size, and
\* never while a request is outstanding (protocol.md section 7).
ReplacesWholeList ==
  (\E f \in Flows : Listing(active'.flow[f]) # Listing(active.flow[f]))
    => \/ active' = EmptySnapshot
       \/ /\ syncInProgress /\ ~syncInProgress' /\ ~setPending
          /\ ready' /\ ~awaitingSync'
          /\ active'.generation = pending.generation
          /\ \A f \in Flows :
               /\ Len(active'.flow[f].endpoints) = expected[f]
               /\ active'.flow[f].endpoints = pending.flow[f].endpoints
               /\ active'.flow[f].current = pending.flow[f].current

ListReplacedWhole == [][ReplacesWholeList]_vars

\* A call that records an error leaves the committed list, the outstanding
\* request and the readiness of the session as they were (fail()).
RefusalIsHarmless ==
  lastError' \notin {"None", lastError} =>
    UNCHANGED <<active, ready, setPending, awaitingSync, requestVars>>

RefusedCallIsHarmless == [][RefusalIsHarmless]_vars

\* Once a session is ready, only its end makes it unready, and the wait for
\* the list after a result ends in a commit or with the session: a cancelled
\* or rejected sync does not let the user act on the old list.
WaitEndsInCommit ==
  awaitingSync /\ ~awaitingSync' =>
    \/ ~ready'
    \/ syncInProgress /\ active'.generation = pending.generation

AwaitedListArrives == [][WaitEndsInCommit]_vars

-----------------------------------------------------------------------------
(* The class implements the contract of SelectionContract.                 *)

Mode == IF setPending THEN "asking"
        ELSE IF awaitingSync THEN "awaiting"
        ELSE IF ready THEN "browsing" ELSE "offline"

Asked(r) == [flow |-> r.flow, handle |-> r.handle]

Selection == INSTANCE SelectionContract WITH
  mode    <- Mode,
  offered <- [f \in Flows |-> HandlesOf(active.flow[f])],
  choice  <- [f \in Flows |-> active.flow[f].candidateHandle],
  asked   <- Asked(request),
  NotAsked <- Asked(NoRequest)

\* What the rest of the firmware may rely on: whatever is called in whatever
\* order, the class offers whole lists, never moves a choice that is still
\* offered, and answers at most one question, about what was on offer.
ImplementsContract == Selection!Contract

=============================================================================
