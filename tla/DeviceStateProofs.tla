-------------------------- MODULE DeviceStateProofs --------------------------
(***************************************************************************)
(* The invariants and action properties of DeviceState, and that the class *)
(* implements SelectionContract, proved for every number of endpoints,     *)
(* handles, generations and request ids.                                   *)
(***************************************************************************)
EXTENDS DeviceState, TLAPS

-----------------------------------------------------------------------------
(* Lists.                                                                  *)

\* What is listed are endpoints, and their handles are handles.
LEMMA ListedType ==
  ASSUME NEW fs \in FlowState, NEW i \in DOMAIN fs.endpoints
  PROVE  /\ fs.endpoints[i] \in Endpoint
         /\ fs.endpoints[i].handle \in Handles
         /\ fs.endpoints[i].handle \in AnyHandle
<1>1. fs.endpoints \in Seq(Endpoint)
  BY DEF FlowState
<1>2. fs.endpoints[i] \in Endpoint
  BY <1>1
<1>. QED
  BY <1>2 DEF Endpoint, AnyHandle

\* A list that is not empty has a first endpoint.
LEMMA FirstListed ==
  ASSUME NEW fs \in FlowState, fs.endpoints # <<>>
  PROVE  1 \in DOMAIN fs.endpoints
<1>1. fs.endpoints \in Seq(Endpoint)
  BY DEF FlowState
<1>. QED
  BY <1>1

\* A remainder is smaller than what it is the remainder of.
LEMMA RemainderRange ==
  ASSUME NEW n \in Int, NEW k \in Nat \ {0}
  PROVE  n % k \in 0..(k - 1)
  BY SMT

\* Appending an endpoint to a received flow gives a flow.
LEMMA AppendType ==
  ASSUME NEW fs \in FlowState, NEW e \in Endpoint
  PROVE  /\ [fs EXCEPT !.endpoints = Append(@, e)] \in FlowState
         /\ Len(Append(fs.endpoints, e)) = Len(fs.endpoints) + 1
  BY DEF FlowState

\* Appending an endpoint whose handle is not listed keeps handles distinct.
LEMMA AppendDistinct ==
  ASSUME NEW fs \in FlowState, NEW e \in Endpoint,
         Distinct(fs), ~Lists(fs, e.handle), e.handle # NoHandle
  PROVE  Distinct([fs EXCEPT !.endpoints = Append(@, e)])
<1>1. fs.endpoints \in Seq(Endpoint)
  BY DEF FlowState
<1>2. \A i \in DOMAIN fs.endpoints : fs.endpoints[i].handle # e.handle
  BY DEF Lists, HandlesOf
<1>. QED
  BY <1>1, <1>2 DEF Distinct, FlowState

\* The handle the roles select is a handle or none.
LEMMA DisplayCurrentType ==
  ASSUME NEW c \in RoleHandles
  PROVE  DisplayCurrentHandle(c) \in AnyHandle
  BY DEF DisplayCurrentHandle, RoleHandles, Roles

\* A finalized flow is a flow with the same endpoints and roles.
LEMMA FinalizedType ==
  ASSUME NEW fs \in FlowState, NEW previous \in FlowState
  PROVE  /\ Finalized(fs, previous) \in FlowState
         /\ Finalized(fs, previous).endpoints = fs.endpoints
         /\ Finalized(fs, previous).current = fs.current
<1>1. DisplayCurrentHandle(fs.current) \in AnyHandle
  BY DisplayCurrentType DEF FlowState
<1>2. fs.endpoints # <<>> => fs.endpoints[1].handle \in AnyHandle
  BY FirstListed, ListedType
<1>. QED
  BY <1>1, <1>2 DEF Finalized, FlowState

\* Finalizing a valid received flow gives a well-formed one.
LEMMA FinalizedWellFormed ==
  ASSUME NEW fs \in FlowState, NEW previous \in FlowState, NEW count \in Nat,
         Distinct(fs), fs.candidateHandle = NoHandle,
         FlowError(fs, count) = "None"
  PROVE  WellFormed(Finalized(fs, previous))
<1> DEFINE fin == Finalized(fs, previous)
           cur == DisplayCurrentHandle(fs.current)
<1>1. \A r \in Roles : fs.current[r] \in HandlesOf(fs) \cup {NoHandle}
  BY DEF FlowError, Lists
<1>2. fin.endpoints = fs.endpoints /\ fin.current = fs.current /\ fin \in FlowState
  BY FinalizedType
<1>3. fin.currentHandle = cur
  BY DEF Finalized, FlowState
<1>4. cur \in HandlesOf(fs) \cup {NoHandle}
  BY <1>1 DEF DisplayCurrentHandle, Roles
<1>5. HandlesOf(fin) = HandlesOf(fs)
  BY <1>2 DEF HandlesOf
<1>6. IF fs.endpoints = <<>> THEN fin.candidateHandle = NoHandle
      ELSE fin.candidateHandle \in HandlesOf(fs)
  <2>1. fs.endpoints = <<>> => HandlesOf(fs) = {}
    BY DEF HandlesOf
  <2>2. fs.endpoints # <<>> => fs.endpoints[1].handle \in HandlesOf(fs)
    BY DEF HandlesOf, FlowState
  <2>3. fin.candidateHandle =
          IF Lists(fs, previous.candidateHandle) THEN previous.candidateHandle
          ELSE IF cur # NoHandle THEN cur
          ELSE IF fs.endpoints # <<>> THEN fs.endpoints[1].handle
          ELSE fs.candidateHandle
    BY DEF Finalized, FlowState
  <2>. QED
    BY <2>1, <2>2, <2>3, <1>4 DEF Lists
<1>. QED
  BY <1>1, <1>2, <1>3, <1>5, <1>6 DEF WellFormed, Distinct

\* The cycled index is an index of the list.
LEMMA CycledIndexRange ==
  ASSUME NEW fs \in FlowState, NEW direction \in Int, fs.endpoints # <<>>
  PROVE  CycledIndex(fs, direction) + 1 \in DOMAIN fs.endpoints
<1> DEFINE count == Len(fs.endpoints)
           index == CandidateIndex(fs) - 1
<1>1. count \in Nat \ {0} /\ DOMAIN fs.endpoints = 1..count
  BY DEF FlowState
<1>2. HasCandidate(fs) => CandidateIndex(fs) \in DOMAIN fs.endpoints
  BY DEF HasCandidate, HandlesOf, CandidateIndex
<1>3. \A n \in Int : n % count \in 0..(count - 1)
  <2> HIDE DEF count
  <2>. QED
    BY <1>1, RemainderRange
<1>. QED
  <2>1. CASE ~HasCandidate(fs)
    BY <2>1, <1>1 DEF CycledIndex
  <2>2. CASE HasCandidate(fs)
    <3>1. index \in Int
      BY <2>2, <1>1, <1>2
    <3>2. (index + count - 1) \in Int /\ (index + 1) \in Int
      BY <3>1, <1>1
    <3>3. CycledIndex(fs, direction) \in 0..(count - 1)
      BY <2>2, <3>2, <1>3 DEF CycledIndex
    <3>. QED
      BY <3>3, <1>1
  <2>. QED
    BY <2>1, <2>2

\* Cycling moves the candidate within the list and changes nothing else.
LEMMA CycledWellFormed ==
  ASSUME NEW fs \in FlowState, NEW direction \in Int,
         fs.endpoints # <<>>, WellFormed(fs)
  PROVE  Cycled(fs, direction) \in FlowState /\ WellFormed(Cycled(fs, direction))
<1> DEFINE h == fs.endpoints[CycledIndex(fs, direction) + 1].handle
           cyc == Cycled(fs, direction)
<1>1. CycledIndex(fs, direction) + 1 \in DOMAIN fs.endpoints
  BY CycledIndexRange
<1>2. h \in HandlesOf(fs)
  BY <1>1 DEF HandlesOf
<1>3. h \in AnyHandle
  BY <1>1, ListedType
<1>4. cyc = [fs EXCEPT !.candidateHandle = h]
  BY DEF Cycled
<1>5. /\ cyc.endpoints = fs.endpoints /\ cyc.current = fs.current
      /\ cyc.currentHandle = fs.currentHandle /\ cyc.candidateHandle = h
  BY <1>4 DEF FlowState
<1>6. cyc \in FlowState
  BY <1>3, <1>4 DEF FlowState
<1>7. HandlesOf(cyc) = HandlesOf(fs)
  BY <1>5 DEF HandlesOf
<1>. QED
  BY <1>2, <1>5, <1>6, <1>7 DEF WellFormed, Distinct

-----------------------------------------------------------------------------
(* Initial state, and the steps that change no list.                       *)

\* Nothing is listed in an empty flow, and it is consistent.
LEMMA EmptyFlowWellFormed ==
  /\ EmptyFlow \in FlowState /\ WellFormed(EmptyFlow)
  /\ EmptyFlow.endpoints = <<>> /\ Distinct(EmptyFlow)
  /\ EmptyFlow.candidateHandle = NoHandle
<1>1. EmptyFlow \in FlowState
  BY DEF EmptyFlow, FlowState, NoRoles, RoleHandles, AnyHandle
<1>2. HandlesOf(EmptyFlow) = {}
  BY DEF HandlesOf, EmptyFlow
<1>3. DisplayCurrentHandle(NoRoles) = NoHandle
  BY DEF DisplayCurrentHandle, NoRoles, Roles
<1>. QED
  BY <1>1, <1>2, <1>3 DEF WellFormed, Distinct, EmptyFlow, NoRoles

\* The empty snapshot is a snapshot whose flows are empty.
LEMMA EmptySnapshotType ==
  /\ EmptySnapshot \in Snapshot
  /\ EmptySnapshot.generation = 0
  /\ \A f \in Flows : /\ EmptySnapshot.flow[f] = EmptyFlow
                      /\ Len(EmptySnapshot.flow[f].endpoints) <= MaxEndpoints
<1>1. /\ EmptySnapshot \in Snapshot
      /\ EmptySnapshot.generation = 0
      /\ \A f \in Flows : EmptySnapshot.flow[f] = EmptyFlow
  BY EmptyFlowWellFormed DEF EmptySnapshot, Snapshot
<1>2. Len(EmptyFlow.endpoints) <= MaxEndpoints
  BY EmptyFlowWellFormed, ConstantsAssumption
<1>3. \A f \in Flows : Len(EmptySnapshot.flow[f].endpoints) <= MaxEndpoints
  BY <1>1, <1>2, Zenon
<1>. QED
  BY <1>1, <1>3

LEMMA InitInv == Init => Inv
<1> SUFFICES ASSUME Init PROVE Inv
  OBVIOUS
<1>1. TypeOK
  <2>1. \A f \in Flows : Len(pending.flow[f].endpoints) <= MaxEndpoints
    BY EmptySnapshotType DEF Init
  <2>2. NoCounts \in [Flows -> 0..MaxEndpoints]
    BY ConstantsAssumption DEF NoCounts
  <2>3. 1 \in RequestIds
    BY ConstantsAssumption DEF RequestIds
  <2>4. active \in Snapshot /\ pending \in Snapshot
    BY EmptySnapshotType DEF Init
  <2>. QED
    BY <2>1, <2>2, <2>3, <2>4 DEF Init, TypeOK, StateErrors
<1>2. ModesExclusive /\ ReceivingFresh /\ RequestNamesCommitted
  BY DEF Init, ModesExclusive, ReceivingFresh, RequestNamesCommitted
<1>3. ActiveWellFormed
  BY EmptySnapshotType, EmptyFlowWellFormed DEF Init, ActiveWellFormed
<1>. QED
  BY <1>1, <1>2, <1>3 DEF Inv

\* A refused call changes nothing but the error.
LEMMA RefuseInv ==
  ASSUME Inv, NEW e \in StateErrors, Refuse(e)
  PROVE  Inv'
<1> USE DEF Inv, Refuse, syncVars, modeVars, requestVars
<1>1. TypeOK'
  BY DEF TypeOK
<1>2. ModesExclusive' /\ ReceivingFresh' /\ ActiveWellFormed' /\ RequestNamesCommitted'
  BY DEF ModesExclusive, ReceivingFresh, ActiveWellFormed, RequestNamesCommitted
<1>. QED
  BY <1>1, <1>2

LEMMA StutterInv == ASSUME Inv, UNCHANGED vars PROVE Inv'
<1> USE DEF Inv, vars, syncVars, modeVars, requestVars
<1>1. TypeOK'
  BY DEF TypeOK
<1>2. ModesExclusive' /\ ReceivingFresh' /\ ActiveWellFormed' /\ RequestNamesCommitted'
  BY DEF ModesExclusive, ReceivingFresh, ActiveWellFormed, RequestNamesCommitted
<1>. QED
  BY <1>1, <1>2

-----------------------------------------------------------------------------
(* Receiving a list.                                                       *)

LEMMA BeginSyncInv ==
  ASSUME Inv, NEW g \in {0} \cup Generations, NEW c \in CountChoices,
         BeginSync(g, c)
  PROVE  Inv'
<1>1. CASE BeginSyncError(g, c) # "None"
  <2>1. BeginSyncError(g, c) \in StateErrors
    BY DEF BeginSyncError, StateErrors
  <2>. QED
    BY <1>1, <2>1, RefuseInv DEF BeginSync
<1>2. CASE BeginSyncError(g, c) = "None"
  <2>1. /\ pending' = [EmptySnapshot EXCEPT !.generation = g]
        /\ expected' = c /\ syncInProgress' = TRUE /\ lastError' = "None"
        /\ UNCHANGED <<active, ready, setPending, awaitingSync, requestVars>>
    BY <1>2 DEF BeginSync
  <2>2. ~setPending /\ g # 0 /\ \A f \in Flows : ~(c[f] > MaxEndpoints)
    BY <1>2 DEF BeginSyncError
  <2>3. c \in [Flows -> 0..MaxEndpoints]
    BY <2>2, ConstantsAssumption
  <2>4. /\ pending' \in Snapshot /\ pending'.generation = g
        /\ \A f \in Flows : pending'.flow[f] = EmptyFlow
    BY <2>1, EmptySnapshotType DEF Snapshot
  <2>5. TypeOK'
    <3>1. \A f \in Flows : Len(pending'.flow[f].endpoints) <= MaxEndpoints
      BY <2>4, EmptyFlowWellFormed, ConstantsAssumption
    <3>. QED
      BY <2>1, <2>3, <2>4, <3>1 DEF Inv, TypeOK, StateErrors, requestVars
  <2>6. ModesExclusive'
    BY <2>1, <2>2 DEF Inv, ModesExclusive, requestVars
  <2>7. ReceivingFresh'
    BY <2>2, <2>4, EmptyFlowWellFormed DEF ReceivingFresh
  <2>8. ActiveWellFormed' /\ RequestNamesCommitted'
    BY <2>1 DEF Inv, ActiveWellFormed, RequestNamesCommitted, requestVars
  <2>. QED
    BY <2>5, <2>6, <2>7, <2>8 DEF Inv
<1>. QED
  BY <1>1, <1>2

LEMMA AddEndpointInv ==
  ASSUME Inv, NEW f \in Flows, NEW n \in Names \cup {OversizedName},
         NEW h \in HandleChoices[f], AddEndpoint(f, h, n)
  PROVE  Inv'
<1> DEFINE e == [handle |-> h, name |-> n]
           fs == pending.flow[f]
           added == [fs EXCEPT !.endpoints = Append(@, e)]
<1>1. CASE AddEndpointError(f, h, n) # "None"
  <2>1. AddEndpointError(f, h, n) \in StateErrors
    BY DEF AddEndpointError, StateErrors
  <2>. QED
    BY <1>1, <2>1, RefuseInv DEF AddEndpoint
<1>2. CASE AddEndpointError(f, h, n) = "None"
  <2>1. /\ pending' = [pending EXCEPT !.flow[f].endpoints = Append(@, e)]
        /\ UNCHANGED <<active, expected, modeVars, requestVars, lastError>>
    BY <1>2 DEF AddEndpoint
  <2>2. /\ syncInProgress /\ h # NoHandle /\ n # OversizedName /\ ~Lists(fs, h)
        /\ ~(Len(fs.endpoints) >= MaxEndpoints)
    BY <1>2 DEF AddEndpointError
  <2>3. e \in Endpoint /\ e.handle = h
    BY <2>2, ConstantsAssumption DEF Endpoint, AnyHandle
  <2>4. pending \in Snapshot /\ fs \in FlowState
    BY DEF Inv, TypeOK, Snapshot
  <2>5. added \in FlowState /\ Len(added.endpoints) = Len(fs.endpoints) + 1
    <3>1. added.endpoints = Append(fs.endpoints, e)
      BY <2>4 DEF FlowState
    <3>. QED
      BY <2>3, <2>4, <3>1, AppendType
  <2>6. pending' = [pending EXCEPT !.flow = [@ EXCEPT ![f] = added]]
    BY <2>1, <2>4 DEF Snapshot
  <2>7. /\ pending' \in Snapshot /\ pending'.generation = pending.generation
        /\ pending'.flow[f] = added
        /\ \A g \in Flows : g # f => pending'.flow[g] = pending.flow[g]
    <3> HIDE DEF added, fs
    <3>. QED
      BY <2>4, <2>5, <2>6 DEF Snapshot
  <2>8. TypeOK'
    <3>1. Len(added.endpoints) <= MaxEndpoints
      <4>1. Len(fs.endpoints) \in Nat /\ MaxEndpoints \in Nat
        BY <2>4, ConstantsAssumption DEF FlowState
      <4> HIDE DEF added, fs
      <4>. QED
        BY <2>2, <2>5, <4>1
    <3>2. \A g \in Flows : Len(pending'.flow[g].endpoints) <= MaxEndpoints
      <4> HIDE DEF added, fs
      <4>. QED
        BY <2>7, <3>1 DEF Inv, TypeOK
    <3>. QED
      BY <2>1, <2>7, <3>2 DEF Inv, TypeOK, modeVars, requestVars
  <2>9. ReceivingFresh'
    <3>1. Distinct(added) /\ added.candidateHandle = NoHandle
      <4>1. Distinct(fs) /\ fs.candidateHandle = NoHandle
        BY <2>2 DEF Inv, ReceivingFresh
      <4>2. Distinct(added)
        <5> HIDE DEF fs, e
        <5>. QED
          BY <2>2, <2>3, <2>4, <4>1, AppendDistinct
      <4>. QED
        BY <2>4, <4>1, <4>2 DEF FlowState
    <3> HIDE DEF added
    <3>. QED
      BY <2>1, <2>2, <2>7, <3>1 DEF Inv, ReceivingFresh, modeVars
  <2>10. ModesExclusive' /\ ActiveWellFormed' /\ RequestNamesCommitted'
    BY <2>1 DEF Inv, ModesExclusive, ActiveWellFormed, RequestNamesCommitted,
                modeVars, requestVars
  <2>. QED
    BY <2>8, <2>9, <2>10 DEF Inv
<1>. QED
  BY <1>1, <1>2

LEMMA SetCurrentInv ==
  ASSUME Inv, NEW f \in Flows, NEW c \in RoleChoices, SetCurrent(f, c)
  PROVE  Inv'
<1> DEFINE fs == pending.flow[f]
           set == [fs EXCEPT !.current = c]
<1>1. CASE ~syncInProgress
  BY <1>1, RefuseInv DEF SetCurrent, StateErrors
<1>2. CASE syncInProgress
  <2>1. /\ pending' = [pending EXCEPT !.flow[f].current = c]
        /\ UNCHANGED <<active, expected, modeVars, requestVars, lastError>>
    BY <1>2 DEF SetCurrent
  <2>2. pending \in Snapshot /\ fs \in FlowState /\ c \in RoleHandles
    BY ConstantsAssumption DEF Inv, TypeOK, Snapshot
  <2>3. /\ set \in FlowState /\ set.endpoints = fs.endpoints
        /\ set.candidateHandle = fs.candidateHandle
    BY <2>2 DEF FlowState
  <2>4. pending' = [pending EXCEPT !.flow = [@ EXCEPT ![f] = set]]
    BY <2>1, <2>2 DEF Snapshot
  <2>5. /\ pending' \in Snapshot /\ pending'.generation = pending.generation
        /\ pending'.flow[f] = set
        /\ \A g \in Flows : g # f => pending'.flow[g] = pending.flow[g]
    <3> HIDE DEF set, fs
    <3>. QED
      BY <2>2, <2>3, <2>4 DEF Snapshot
  <2>6. /\ \A g \in Flows : /\ pending'.flow[g].endpoints = pending.flow[g].endpoints
                            /\ pending'.flow[g].candidateHandle
                                 = pending.flow[g].candidateHandle
    <3> HIDE DEF set
    <3>. QED
      BY <2>3, <2>5
  <2>7. TypeOK'
    BY <2>1, <2>5, <2>6 DEF Inv, TypeOK, modeVars, requestVars
  <2>8. ReceivingFresh'
    BY <2>1, <2>5, <2>6 DEF Inv, ReceivingFresh, Distinct, modeVars
  <2>9. ModesExclusive' /\ ActiveWellFormed' /\ RequestNamesCommitted'
    BY <2>1 DEF Inv, ModesExclusive, ActiveWellFormed, RequestNamesCommitted,
                modeVars, requestVars
  <2>. QED
    BY <2>7, <2>8, <2>9 DEF Inv
<1>. QED
  BY <1>1, <1>2

\* What a commit puts on display is well-formed and is what was received.
LEMMA CommittedFlow ==
  ASSUME Inv, NEW g \in Generations, CommitAccepted(g), NEW f \in Flows
  PROVE  /\ FinalizedFlow(f) \in FlowState
         /\ WellFormed(FinalizedFlow(f))
         /\ FinalizedFlow(f).endpoints = pending.flow[f].endpoints
         /\ FinalizedFlow(f).current = pending.flow[f].current
         /\ Len(pending.flow[f].endpoints) = expected[f]
<1>1. syncInProgress /\ FlowsError = "None"
  BY DEF CommitAccepted, CommitError
<1>2. FlowError(pending.flow[f], expected[f]) = "None"
  BY <1>1 DEF FlowsError, Flows
<1>3. /\ pending.flow[f] \in FlowState /\ active.flow[f] \in FlowState
      /\ expected[f] \in Nat
  BY DEF Inv, TypeOK, Snapshot
<1>4. Distinct(pending.flow[f]) /\ pending.flow[f].candidateHandle = NoHandle
  BY <1>1 DEF Inv, ReceivingFresh
<1>5. WellFormed(FinalizedFlow(f))
  BY <1>2, <1>3, <1>4, FinalizedWellFormed DEF FinalizedFlow
<1>6. Len(pending.flow[f].endpoints) = expected[f]
  BY <1>2 DEF FlowError
<1>. QED
  BY <1>3, <1>5, <1>6, FinalizedType DEF FinalizedFlow

\* A commit shows the generation and the flows that were received.
LEMMA CommittedSnapshot ==
  ASSUME Inv, NEW g \in Generations, CommitAccepted(g)
  PROVE  /\ active' \in Snapshot
         /\ active'.generation = pending.generation
         /\ \A f \in Flows : active'.flow[f] = FinalizedFlow(f)
<1>1. pending \in Snapshot
  BY DEF Inv, TypeOK
<1>2. active' = [pending EXCEPT !.flow = [f \in Flows |-> FinalizedFlow(f)]]
  BY DEF CommitAccepted
<1>3. [f \in Flows |-> FinalizedFlow(f)] \in [Flows -> FlowState]
  BY CommittedFlow
<1>. QED
  BY <1>1, <1>2, <1>3 DEF Snapshot

LEMMA CommitAcceptedInv ==
  ASSUME Inv, NEW g \in Generations, CommitAccepted(g)
  PROVE  Inv'
<1>1. /\ pending' = EmptySnapshot /\ syncInProgress' = FALSE /\ ready' = TRUE
      /\ awaitingSync' = FALSE /\ lastError' = "None"
      /\ UNCHANGED <<expected, setPending, requestVars>>
  BY DEF CommitAccepted
<1>2. syncInProgress
  BY DEF CommitAccepted, CommitError
<1>3. TypeOK'
  <2>3. \A f \in Flows : Len(pending'.flow[f].endpoints) <= MaxEndpoints
    BY <1>1, EmptySnapshotType
  <2>4. active' \in Snapshot /\ pending' \in Snapshot
    BY <1>1, CommittedSnapshot, EmptySnapshotType
  <2>. QED
    BY <1>1, <2>3, <2>4 DEF Inv, TypeOK, StateErrors, requestVars
<1>4. ModesExclusive'
  BY <1>1, <1>2, CommittedSnapshot
  DEF Inv, ModesExclusive, ReceivingFresh, requestVars
<1>5. ReceivingFresh'
  BY <1>1 DEF ReceivingFresh
<1>6. ActiveWellFormed'
  BY CommittedFlow, CommittedSnapshot DEF ActiveWellFormed
<1>7. RequestNamesCommitted'
  BY <1>1, <1>2 DEF Inv, ModesExclusive, RequestNamesCommitted
<1>. QED
  BY <1>3, <1>4, <1>5, <1>6, <1>7 DEF Inv

LEMMA CommitSyncInv ==
  ASSUME Inv, NEW g \in Generations, CommitSync(g)
  PROVE  Inv'
<1>1. CASE CommitAccepted(g)
  BY <1>1, CommitAcceptedInv
<1>2. CASE CommitInvalid(g)
  <2> DEFINE out == FinalizedFlow("output")
  <2>1. /\ syncInProgress' = FALSE /\ lastError' = FlowsError
        /\ UNCHANGED <<active, expected, ready, setPending, awaitingSync, requestVars>>
    BY <1>2 DEF CommitInvalid
  <2>2. /\ pending \in Snapshot /\ out \in FlowState
        /\ out.endpoints = pending.flow["output"].endpoints
    BY FinalizedType DEF Inv, TypeOK, Snapshot, FinalizedFlow, Flows
  <2>3. /\ pending' \in Snapshot
        /\ \A f \in Flows : pending'.flow[f].endpoints = pending.flow[f].endpoints
    <3>1. CASE pending' = pending
      BY <2>2, <3>1
    <3>2. CASE pending' = [pending EXCEPT !.flow["output"] = out]
      <4> HIDE DEF out
      <4>. QED
        BY <2>2, <3>2 DEF Snapshot
    <3>. QED
      BY <1>2, <3>1, <3>2 DEF CommitInvalid
  <2>4. FlowsError \in StateErrors
    BY DEF FlowsError, FlowError, StateErrors
  <2>5. TypeOK'
    BY <2>1, <2>3, <2>4 DEF Inv, TypeOK, requestVars
  <2>6. ModesExclusive' /\ ReceivingFresh' /\ ActiveWellFormed' /\ RequestNamesCommitted'
    BY <2>1 DEF Inv, ModesExclusive, ReceivingFresh, ActiveWellFormed,
                RequestNamesCommitted, requestVars
  <2>. QED
    BY <2>5, <2>6 DEF Inv
<1>3. CASE Refuse(CommitError(g)) /\ CommitError(g) \in {"NoSyncStarted", "GenerationMismatch"}
  BY <1>3, RefuseInv DEF StateErrors
<1>. QED
  BY <1>1, <1>2, <1>3 DEF CommitSync

\* An empty pending list has its type.
LEMMA EmptyPendingType ==
  ASSUME pending' = EmptySnapshot
  PROVE  /\ pending' \in Snapshot
         /\ \A f \in Flows : Len(pending'.flow[f].endpoints) <= MaxEndpoints
  BY EmptySnapshotType

LEMMA CancelSyncInv == ASSUME Inv, CancelSync PROVE Inv'
<1> USE DEF Inv, CancelSync, requestVars
<1>1. TypeOK'
  BY EmptyPendingType DEF TypeOK
<1>2. ModesExclusive' /\ ReceivingFresh' /\ ActiveWellFormed' /\ RequestNamesCommitted'
  BY DEF ModesExclusive, ReceivingFresh, ActiveWellFormed, RequestNamesCommitted
<1>. QED
  BY <1>1, <1>2

-----------------------------------------------------------------------------
(* Ending a session.                                                       *)

\* Whatever a session leaves in active, the reset state satisfies the rest.
LEMMA SessionResetInv ==
  ASSUME Inv, SessionReset, nextRequestId' \in RequestIds,
         active' \in Snapshot, ActiveWellFormed'
  PROVE  Inv'
<1>1. NoCounts \in [Flows -> 0..MaxEndpoints]
  BY ConstantsAssumption DEF NoCounts
<1>2. TypeOK'
  BY <1>1, EmptyPendingType DEF SessionReset, TypeOK, StateErrors
<1>3. ModesExclusive' /\ ReceivingFresh' /\ RequestNamesCommitted'
  BY DEF SessionReset, ModesExclusive, ReceivingFresh, RequestNamesCommitted
<1>. QED
  BY <1>2, <1>3 DEF Inv

LEMMA DisconnectSessionInv == ASSUME Inv, DisconnectSession PROVE Inv'
  BY SessionResetInv DEF DisconnectSession, Inv, TypeOK, ActiveWellFormed

LEMMA ClearInv == ASSUME Inv, Clear PROVE Inv'
<1>1. nextRequestId' \in RequestIds
  BY ConstantsAssumption DEF Clear, RequestIds
<1>2. active' \in Snapshot
  BY EmptySnapshotType DEF Clear
<1>3. ActiveWellFormed'
  BY EmptySnapshotType, EmptyFlowWellFormed DEF Clear, ActiveWellFormed
<1>. QED
  BY <1>1, <1>2, <1>3, SessionResetInv DEF Clear

-----------------------------------------------------------------------------
(* Choosing an endpoint.                                                   *)

LEMMA CycleCandidateInv ==
  ASSUME Inv, NEW f \in Flows, NEW d \in {-1, 0, 1}, CycleCandidate(f, d)
  PROVE  Inv'
<1>1. CASE UNCHANGED vars
  BY <1>1, StutterInv
<1>2. CASE /\ CanCycle(f, d)
           /\ active' = [active EXCEPT !.flow[f] = Cycled(@, d)]
           /\ UNCHANGED <<syncVars, modeVars, requestVars, lastError>>
  <2> DEFINE fs == active.flow[f]
             cyc == Cycled(fs, d)
  <2>1. active \in Snapshot /\ fs \in FlowState /\ WellFormed(fs) /\ d \in Int
    BY DEF Inv, TypeOK, Snapshot, ActiveWellFormed
  <2>2. fs.endpoints # <<>> /\ ~setPending
    BY <1>2 DEF CanCycle
  <2>3. cyc \in FlowState /\ WellFormed(cyc)
    <3> HIDE DEF fs
    <3>. QED
      BY <2>1, <2>2, CycledWellFormed
  <2>4. /\ active' \in Snapshot /\ active'.generation = active.generation
        /\ active'.flow[f] = cyc
        /\ \A g \in Flows : g # f => active'.flow[g] = active.flow[g]
    <3>1. active' = [active EXCEPT !.flow = [@ EXCEPT ![f] = cyc]]
      BY <1>2, <2>1 DEF Snapshot
    <3> HIDE DEF fs, cyc
    <3>. QED
      BY <2>1, <2>3, <3>1 DEF Snapshot
  <2>5. TypeOK'
    BY <1>2, <2>4 DEF Inv, TypeOK, syncVars, modeVars, requestVars
  <2>6. ActiveWellFormed'
    <3> HIDE DEF cyc, fs
    <3>. QED
      BY <2>3, <2>4 DEF Inv, ActiveWellFormed
  <2>7. ModesExclusive' /\ ReceivingFresh' /\ RequestNamesCommitted'
    BY <1>2, <2>2, <2>4 DEF Inv, ModesExclusive, ReceivingFresh,
       RequestNamesCommitted, syncVars, modeVars, requestVars
  <2>. QED
    BY <2>5, <2>6, <2>7 DEF Inv
<1>. QED
  BY <1>1, <1>2 DEF CycleCandidate

LEMMA BeginSetRequestInv ==
  ASSUME Inv, NEW f \in Flows, BeginSetRequest(f)
  PROVE  Inv'
<1>1. CASE BeginSetRequestError(f) # "None"
  <2>1. BeginSetRequestError(f) \in StateErrors
    BY DEF BeginSetRequestError, StateErrors
  <2>2. Refuse(BeginSetRequestError(f))
    BY <1>1 DEF BeginSetRequest, BeginSetRequestAccepted
  <2>. QED
    BY <2>1, <2>2, RefuseInv
<1>2. CASE BeginSetRequestError(f) = "None"
  <2> DEFINE h == active.flow[f].candidateHandle
             req == [flow |-> f, id |-> nextRequestId,
                     generation |-> active.generation, handle |-> h]
  <2>1. /\ request' = req /\ pendingRequestId' = nextRequestId
        /\ setPending' = TRUE /\ lastError' = "None"
        /\ nextRequestId' = NextRequestId(nextRequestId)
        /\ UNCHANGED <<active, syncVars, ready, syncInProgress, awaitingSync>>
    BY <1>2 DEF BeginSetRequest, BeginSetRequestAccepted
  <2>2. ready /\ ~syncInProgress /\ ~awaitingSync /\ Lists(active.flow[f], h)
    BY <1>2 DEF BeginSetRequestError
  <2>3. h \in Handles /\ active.generation \in Generations
    <3>1. active \in Snapshot /\ active.flow[f] \in FlowState
      BY DEF Inv, TypeOK, Snapshot
    <3>2. active.generation \in Generations
      BY <2>2, <3>1 DEF Inv, ModesExclusive, Snapshot
    <3>3. h \in AnyHandle /\ h # NoHandle
      BY <2>2, <3>1 DEF FlowState, Lists
    <3>. QED
      BY <3>2, <3>3 DEF AnyHandle
  <2>4. nextRequestId \in RequestIds /\ nextRequestId # 0
    BY ConstantsAssumption DEF Inv, TypeOK, RequestIds
  <2>5. nextRequestId' \in RequestIds
    BY <2>1, <2>4, ConstantsAssumption DEF RequestIds, NextRequestId
  <2>6. req \in SetRequest
    BY <2>3, <2>4 DEF SetRequest
  <2>7. TypeOK'
    <3> HIDE DEF req
    <3>. QED
      BY <2>1, <2>4, <2>5, <2>6 DEF Inv, TypeOK, StateErrors, syncVars
  <2>8. ModesExclusive' /\ ReceivingFresh' /\ ActiveWellFormed'
    BY <2>1, <2>2, <2>4 DEF Inv, ModesExclusive, ReceivingFresh,
       ActiveWellFormed, syncVars
  <2>9. RequestNamesCommitted'
    BY <2>1, <2>2 DEF RequestNamesCommitted
  <2>. QED
    BY <2>7, <2>8, <2>9 DEF Inv
<1>. QED
  BY <1>1, <1>2

LEMMA FinishSetRequestInv ==
  ASSUME Inv, NEW id \in {0} \cup RequestIds, FinishSetRequest(id)
  PROVE  Inv'
<1>1. CASE Refuse("UnexpectedRequestId")
  BY <1>1, RefuseInv DEF StateErrors
<1>2. CASE ~Refuse("UnexpectedRequestId")
  <2>1. /\ setPending /\ setPending' = FALSE /\ awaitingSync' = TRUE
        /\ pendingRequestId' = 0 /\ request' = NoRequest /\ lastError' = "None"
        /\ UNCHANGED <<active, syncVars, ready, syncInProgress, nextRequestId>>
    BY <1>2 DEF FinishSetRequest
  <2>2. TypeOK'
    BY <2>1 DEF Inv, TypeOK, StateErrors, syncVars
  <2>3. ModesExclusive' /\ ReceivingFresh' /\ ActiveWellFormed' /\ RequestNamesCommitted'
    BY <2>1 DEF Inv, ModesExclusive, ReceivingFresh, ActiveWellFormed,
                RequestNamesCommitted, syncVars
  <2>. QED
    BY <2>2, <2>3 DEF Inv
<1>. QED
  BY <1>1, <1>2

LEMMA CancelSetRequestInv == ASSUME Inv, CancelSetRequest PROVE Inv'
<1> USE DEF Inv, CancelSetRequest, syncVars
<1>1. TypeOK'
  BY DEF TypeOK
<1>2. ModesExclusive' /\ ReceivingFresh' /\ ActiveWellFormed' /\ RequestNamesCommitted'
  BY DEF ModesExclusive, ReceivingFresh, ActiveWellFormed, RequestNamesCommitted
<1>. QED
  BY <1>1, <1>2

-----------------------------------------------------------------------------
(* The invariant, and what follows from it.                                *)

\* Every operation keeps the invariant.
LEMMA NextInv == Inv /\ [Next]_vars => Inv'
<1> SUFFICES ASSUME Inv, [Next]_vars PROVE Inv'
  OBVIOUS
<1>1. ASSUME NEW g \in {0} \cup Generations, NEW c \in CountChoices, BeginSync(g, c)
      PROVE  Inv'
  BY <1>1, BeginSyncInv
<1>2. ASSUME NEW f \in Flows, NEW n \in Names \cup {OversizedName},
             NEW h \in HandleChoices[f], AddEndpoint(f, h, n)
      PROVE  Inv'
  BY <1>2, AddEndpointInv
<1>3. ASSUME NEW f \in Flows, NEW c \in RoleChoices, SetCurrent(f, c)
      PROVE  Inv'
  BY <1>3, SetCurrentInv
<1>4. ASSUME NEW g \in Generations, CommitSync(g)
      PROVE  Inv'
  BY <1>4, CommitSyncInv
<1>5. CASE CancelSync
  BY <1>5, CancelSyncInv
<1>6. ASSUME NEW f \in Flows, NEW d \in {-1, 0, 1}, CycleCandidate(f, d)
      PROVE  Inv'
  BY <1>6, CycleCandidateInv
<1>7. ASSUME NEW f \in Flows, BeginSetRequest(f)
      PROVE  Inv'
  BY <1>7, BeginSetRequestInv
<1>8. ASSUME NEW id \in {0} \cup RequestIds, FinishSetRequest(id)
      PROVE  Inv'
  BY <1>8, FinishSetRequestInv
<1>9. CASE CancelSetRequest
  BY <1>9, CancelSetRequestInv
<1>10. CASE DisconnectSession
  BY <1>10, DisconnectSessionInv
<1>11. CASE Clear
  BY <1>11, ClearInv
<1>12. CASE UNCHANGED vars
  BY <1>12, StutterInv
<1>. QED
  BY <1>1, <1>2, <1>3, <1>4, <1>5, <1>6, <1>7, <1>8, <1>9, <1>10, <1>11, <1>12
  DEF Next, SyncCall, SetCall, SessionCall

\* The inductive invariant holds of the class under every caller.
THEOREM Invariance == Spec => []Inv
  BY InitInv, NextInv, PTL DEF Spec

\* Every field keeps its type, and a list in the making fits its array
\* (addEndpoint's capacity check, beginSync's count check).
THEOREM TypeCorrect == Spec => []TypeOK
<1>1. Inv => TypeOK
  BY DEF Inv
<1>. QED
  BY <1>1, Invariance, PTL

\* The in-flight flags never contradict each other, whatever is called when.
THEOREM ModesAreExclusive == Spec => []ModesExclusive
<1>1. Inv => ModesExclusive
  BY DEF Inv
<1>. QED
  BY <1>1, Invariance, PTL

\* What is on display is always a consistent list: commitSync checks enough,
\* and the cycled candidate never leaves the list.
THEOREM DisplayIsWellFormed == Spec => []ActiveWellFormed
<1>1. Inv => ActiveWellFormed
  BY DEF Inv
<1>. QED
  BY <1>1, Invariance, PTL

\* While a request is outstanding, the screen still shows the list and the
\* candidate the request names.
THEOREM RequestsNameWhatIsShown == Spec => []RequestNamesCommitted
<1>1. Inv => RequestNamesCommitted
  BY DEF Inv
<1>. QED
  BY <1>1, Invariance, PTL

-----------------------------------------------------------------------------
(* What a single step may do.                                              *)

\* Every call either stutters, is refused, moves the candidate, or is one of
\* the operations that succeed; only the calls named here touch the wait.
LEMMA WaitStep == Inv /\ [Next]_vars => [WaitEndsInCommit]_vars
<1> SUFFICES ASSUME Inv, Next PROVE WaitEndsInCommit
  OBVIOUS
<1> USE DEF WaitEndsInCommit, Refuse, modeVars
<1>1. ASSUME NEW g \in {0} \cup Generations, NEW c \in CountChoices, BeginSync(g, c)
      PROVE  WaitEndsInCommit
  BY <1>1 DEF BeginSync
<1>2. ASSUME NEW f \in Flows, NEW n \in Names \cup {OversizedName},
             NEW h \in HandleChoices[f], AddEndpoint(f, h, n)
      PROVE  WaitEndsInCommit
  BY <1>2 DEF AddEndpoint
<1>3. ASSUME NEW f \in Flows, NEW c \in RoleChoices, SetCurrent(f, c)
      PROVE  WaitEndsInCommit
  BY <1>3 DEF SetCurrent
<1>4. ASSUME NEW g \in Generations, CommitSync(g)
      PROVE  WaitEndsInCommit
  <2>1. CASE CommitAccepted(g)
    BY <2>1, CommittedSnapshot DEF CommitAccepted, CommitError
  <2>2. CASE ~CommitAccepted(g)
    BY <1>4, <2>2 DEF CommitSync, CommitInvalid
  <2>. QED
    BY <2>1, <2>2
<1>5. CASE CancelSync
  BY <1>5 DEF CancelSync
<1>6. ASSUME NEW f \in Flows, NEW d \in {-1, 0, 1}, CycleCandidate(f, d)
      PROVE  WaitEndsInCommit
  BY <1>6 DEF CycleCandidate, vars
<1>7. ASSUME NEW f \in Flows, BeginSetRequest(f)
      PROVE  WaitEndsInCommit
  BY <1>7 DEF BeginSetRequest, BeginSetRequestAccepted
<1>8. ASSUME NEW id \in {0} \cup RequestIds, FinishSetRequest(id)
      PROVE  WaitEndsInCommit
  BY <1>8 DEF FinishSetRequest
<1>9. CASE CancelSetRequest
  BY <1>9 DEF CancelSetRequest
<1>10. CASE DisconnectSession \/ Clear
  BY <1>10 DEF DisconnectSession, Clear, SessionReset
<1>. QED
  BY <1>1, <1>2, <1>3, <1>4, <1>5, <1>6, <1>7, <1>8, <1>9, <1>10
  DEF Next, SyncCall, SetCall, SessionCall

\* After a result, the user can act again only on a newly committed list or in
\* a new session: cancelSync and a rejected commit keep awaitingSync_.
THEOREM WaitIsForAList == Spec => AwaitedListArrives
  BY Invariance, WaitStep, PTL DEF Spec, AwaitedListArrives

\* fail() is the only thing a refused call does to what matters.
LEMMA RefusalStep == Inv /\ [Next]_vars => [RefusalIsHarmless]_vars
<1> SUFFICES ASSUME Inv, Next PROVE RefusalIsHarmless
  OBVIOUS
<1> USE DEF RefusalIsHarmless, Refuse, modeVars
<1>1. ASSUME NEW g \in {0} \cup Generations, NEW c \in CountChoices, BeginSync(g, c)
      PROVE  RefusalIsHarmless
  BY <1>1 DEF BeginSync
<1>2. ASSUME NEW f \in Flows, NEW n \in Names \cup {OversizedName},
             NEW h \in HandleChoices[f], AddEndpoint(f, h, n)
      PROVE  RefusalIsHarmless
  BY <1>2 DEF AddEndpoint
<1>3. ASSUME NEW f \in Flows, NEW c \in RoleChoices, SetCurrent(f, c)
      PROVE  RefusalIsHarmless
  BY <1>3 DEF SetCurrent
<1>4. ASSUME NEW g \in Generations, CommitSync(g)
      PROVE  RefusalIsHarmless
  BY <1>4 DEF CommitSync, CommitAccepted, CommitInvalid
<1>5. CASE CancelSync
  BY <1>5 DEF CancelSync
<1>6. ASSUME NEW f \in Flows, NEW d \in {-1, 0, 1}, CycleCandidate(f, d)
      PROVE  RefusalIsHarmless
  BY <1>6 DEF CycleCandidate, vars
<1>7. ASSUME NEW f \in Flows, BeginSetRequest(f)
      PROVE  RefusalIsHarmless
  BY <1>7 DEF BeginSetRequest, BeginSetRequestAccepted
<1>8. ASSUME NEW id \in {0} \cup RequestIds, FinishSetRequest(id)
      PROVE  RefusalIsHarmless
  BY <1>8 DEF FinishSetRequest
<1>9. CASE CancelSetRequest
  BY <1>9 DEF CancelSetRequest
<1>10. CASE DisconnectSession \/ Clear
  BY <1>10 DEF DisconnectSession, Clear, SessionReset
<1>. QED
  BY <1>1, <1>2, <1>3, <1>4, <1>5, <1>6, <1>7, <1>8, <1>9, <1>10
  DEF Next, SyncCall, SetCall, SessionCall

\* A call that sets a new error leaves the display and the request alone.
THEOREM RefusalsAreHarmless == Spec => RefusedCallIsHarmless
  BY Invariance, RefusalStep, PTL DEF Spec, RefusedCallIsHarmless

\* Only a commit and clear() change what is listed; cycling changes the
\* candidate, which is not part of the listing.
LEMMA ReplaceStep == Inv /\ [Next]_vars => [ReplacesWholeList]_vars
<1> SUFFICES ASSUME Inv, Next PROVE ReplacesWholeList
  OBVIOUS
<1> USE DEF ReplacesWholeList, Refuse
<1>1. ASSUME NEW g \in {0} \cup Generations, NEW c \in CountChoices, BeginSync(g, c)
      PROVE  ReplacesWholeList
  BY <1>1 DEF BeginSync
<1>2. ASSUME NEW f \in Flows, NEW n \in Names \cup {OversizedName},
             NEW h \in HandleChoices[f], AddEndpoint(f, h, n)
      PROVE  ReplacesWholeList
  BY <1>2 DEF AddEndpoint
<1>3. ASSUME NEW f \in Flows, NEW c \in RoleChoices, SetCurrent(f, c)
      PROVE  ReplacesWholeList
  BY <1>3 DEF SetCurrent
<1>4. ASSUME NEW g \in Generations, CommitSync(g)
      PROVE  ReplacesWholeList
  <2>1. CASE CommitAccepted(g)
    <3>1. syncInProgress /\ ~setPending
      BY <2>1 DEF CommitAccepted, CommitError, Inv, ModesExclusive
    <3>2. ~syncInProgress' /\ ready' /\ ~awaitingSync'
      BY <2>1 DEF CommitAccepted
    <3>3. active'.generation = pending.generation
      BY <2>1, CommittedSnapshot
    <3>4. \A f \in Flows :
            /\ Len(active'.flow[f].endpoints) = expected[f]
            /\ active'.flow[f].endpoints = pending.flow[f].endpoints
            /\ active'.flow[f].current = pending.flow[f].current
      <4>1. \A f \in Flows :
              /\ active'.flow[f].endpoints = pending.flow[f].endpoints
              /\ active'.flow[f].current = pending.flow[f].current
              /\ Len(pending.flow[f].endpoints) = expected[f]
        BY <2>1, CommittedSnapshot, CommittedFlow
      <4>. QED
        BY <4>1, Zenon
    <3>. QED
      BY <3>1, <3>2, <3>3, <3>4
  <2>2. CASE ~CommitAccepted(g)
    BY <1>4, <2>2 DEF CommitSync, CommitInvalid
  <2>. QED
    BY <2>1, <2>2
<1>5. CASE CancelSync
  BY <1>5 DEF CancelSync
<1>6. ASSUME NEW f \in Flows, NEW d \in {-1, 0, 1}, CycleCandidate(f, d)
      PROVE  ReplacesWholeList
  <2>1. CASE UNCHANGED vars
    BY <2>1 DEF vars
  <2>2. CASE active' = [active EXCEPT !.flow[f] = Cycled(@, d)]
    <3> DEFINE cyc == Cycled(active.flow[f], d)
    <3>1. active \in Snapshot
      BY DEF Inv, TypeOK
    <3>2. active.flow[f] \in FlowState
      BY <3>1 DEF Snapshot
    <3>3. Listing(cyc) = Listing(active.flow[f])
      BY <3>2 DEF Cycled, Listing, FlowState
    <3>4. active' = [active EXCEPT !.flow = [@ EXCEPT ![f] = cyc]]
      BY <2>2, <3>1 DEF Snapshot
    <3>5. \A k \in Flows : active'.flow[k] = IF k = f THEN cyc ELSE active.flow[k]
      <4> HIDE DEF cyc
      <4>. QED
        BY <3>1, <3>4 DEF Snapshot
    <3>6. \A k \in Flows : Listing(active'.flow[k]) = Listing(active.flow[k])
      BY <3>3, <3>5
    <3>. QED
      BY <3>6
  <2>. QED
    BY <1>6, <2>1, <2>2 DEF CycleCandidate
<1>7. ASSUME NEW f \in Flows, BeginSetRequest(f)
      PROVE  ReplacesWholeList
  BY <1>7 DEF BeginSetRequest, BeginSetRequestAccepted
<1>8. ASSUME NEW id \in {0} \cup RequestIds, FinishSetRequest(id)
      PROVE  ReplacesWholeList
  BY <1>8 DEF FinishSetRequest
<1>9. CASE CancelSetRequest
  BY <1>9 DEF CancelSetRequest
<1>10. CASE DisconnectSession \/ Clear
  BY <1>10 DEF DisconnectSession, Clear
<1>. QED
  BY <1>1, <1>2, <1>3, <1>4, <1>5, <1>6, <1>7, <1>8, <1>9, <1>10
  DEF Next, SyncCall, SetCall, SessionCall

\* What the screen lists is replaced by one complete, valid list of the
\* announced size or by nothing, and never while a request is outstanding.
THEOREM DisplayIsReplacedWhole == Spec => ListReplacedWhole
  BY Invariance, ReplaceStep, PTL DEF Spec, ListReplacedWhole

-----------------------------------------------------------------------------
(* The class implements SelectionContract, and turning the jog switch back *)
(* undoes turning it.                                                      *)

\* The mode depends on three flags, the rest on the list and the request.
LEMMA ContractStutter ==
  ASSUME UNCHANGED <<active, ready, setPending, awaitingSync, request>>
  PROVE  UNCHANGED Selection!contractVars
  BY DEF Selection!contractVars, Mode, HandlesOf, Asked

\* The handles of a committed flow are handles.
LEMMA HandlesType ==
  ASSUME NEW fs \in FlowState
  PROVE  HandlesOf(fs) \subseteq Handles /\ NoHandle \notin HandlesOf(fs)
         /\ (HandlesOf(fs) = {} <=> fs.endpoints = <<>>)
<1>1. \A i \in DOMAIN fs.endpoints : fs.endpoints[i].handle \in Handles
  BY ListedType
<1>2. NoHandle \notin Handles
  BY DEF NoHandle, Handles
<1>3. fs.endpoints # <<>> => fs.endpoints[1].handle \in HandlesOf(fs)
  BY FirstListed DEF HandlesOf
<1>4. fs.endpoints = <<>> => HandlesOf(fs) = {}
  BY DEF HandlesOf
<1>5. HandlesOf(fs) \subseteq Handles
  BY <1>1 DEF HandlesOf
<1>. QED
  BY <1>2, <1>3, <1>4, <1>5

LEMMA ActiveFlowType == ASSUME Inv, NEW f \in Flows PROVE active.flow[f] \in FlowState
  BY DEF Inv, TypeOK, Snapshot

-----------------------------------------------------------------------------
(* The steps of the contract.                                              *)

\* An accepted commit offers the list it received.
LEMMA CommitOffers ==
  ASSUME Inv, NEW g \in Generations, CommitAccepted(g)
  PROVE  Selection!Offer
<1> DEFINE new(f) == active'.flow[f]
           old(f) == active.flow[f]
<1>1. /\ ready' = TRUE /\ awaitingSync' = FALSE
      /\ setPending' = setPending /\ request' = request
  BY DEF CommitAccepted, requestVars
<1>2. ~setPending
  BY DEF CommitAccepted, CommitError, Inv, ModesExclusive
<1>3. Mode # "asking" /\ Mode' = "browsing"
  BY <1>1, <1>2 DEF Mode
<1>4. Inv'
  BY CommitAcceptedInv
<1>5. \A f \in Flows : new(f) \in FlowState /\ WellFormed(new(f))
  BY <1>4 DEF Inv, TypeOK, Snapshot, ActiveWellFormed
<1>6. \A f \in Flows : HandlesOf(new(f)) \in SUBSET Handles
  BY <1>5, HandlesType
<1>7. ASSUME NEW f \in Flows
      PROVE  new(f).candidateHandle \in IF HandlesOf(new(f)) = {} THEN {NoHandle}
                                        ELSE HandlesOf(new(f))
  BY <1>5, HandlesType DEF WellFormed
<1>8. ASSUME NEW f \in Flows, old(f).candidateHandle \in HandlesOf(new(f))
      PROVE  new(f).candidateHandle = old(f).candidateHandle
  <2>1. new(f) = Finalized(pending.flow[f], old(f))
    BY CommittedSnapshot DEF FinalizedFlow
  <2>2. new(f).endpoints = pending.flow[f].endpoints
    BY CommittedSnapshot, CommittedFlow
  <2>3. Lists(pending.flow[f], old(f).candidateHandle)
    BY <1>5, <1>8, <2>2, HandlesType DEF Lists, HandlesOf
  <2>4. pending.flow[f] \in FlowState
    BY DEF Inv, TypeOK, Snapshot
  <2>. QED
    BY <2>1, <2>3, <2>4 DEF Finalized, FlowState
<1>9. \A f \in Flows : new(f).candidateHandle \in Handles \cup {NoHandle}
  BY <1>6, <1>7
<1>. QED
  BY <1>1, <1>3, <1>6, <1>7, <1>8, <1>9 DEF Selection!Offer, Asked

\* The jog switch moves the choice to another offered endpoint.
LEMMA CycleTurns ==
  ASSUME Inv, NEW f \in Flows, NEW d \in {-1, 0, 1}, CanCycle(f, d),
         active' = [active EXCEPT !.flow[f] = Cycled(@, d)],
         UNCHANGED <<syncVars, modeVars, requestVars, lastError>>
  PROVE  Selection!Turn(f)
<1> DEFINE fs == active.flow[f]
           h == fs.endpoints[CycledIndex(fs, d) + 1].handle
<1>1. fs \in FlowState /\ fs.endpoints # <<>>
  BY ActiveFlowType DEF CanCycle
<1>2. h \in HandlesOf(fs)
  BY <1>1, CycledIndexRange DEF HandlesOf
<1>3. active'.flow = [active.flow EXCEPT ![f] = [fs EXCEPT !.candidateHandle = h]]
  BY DEF Inv, TypeOK, Snapshot, Cycled
<1>4. active.flow \in [Flows -> FlowState]
  BY DEF Inv, TypeOK, Snapshot
<1>5. \A k \in Flows : /\ active'.flow[k].endpoints = active.flow[k].endpoints
                       /\ active'.flow[k].candidateHandle =
                            IF k = f THEN h ELSE active.flow[k].candidateHandle
  <2> HIDE DEF h
  <2>1. \A k \in Flows : active'.flow[k] =
          IF k = f THEN [fs EXCEPT !.candidateHandle = h] ELSE active.flow[k]
    BY <1>3, <1>4
  <2>2. /\ [fs EXCEPT !.candidateHandle = h].endpoints = fs.endpoints
        /\ [fs EXCEPT !.candidateHandle = h].candidateHandle = h
    BY <1>1 DEF FlowState
  <2>3. /\ active'.flow[f].endpoints = fs.endpoints
        /\ active'.flow[f].candidateHandle = h
    BY <2>1, <2>2
  <2>4. \A k \in Flows : k # f => active'.flow[k] = active.flow[k]
    BY <2>1
  <2>. QED
    BY <2>3, <2>4
<1>6. [k \in Flows |-> active'.flow[k].candidateHandle]
        = [[k \in Flows |-> active.flow[k].candidateHandle] EXCEPT ![f] = h]
  BY <1>5
<1>7. [k \in Flows |-> HandlesOf(active'.flow[k])]
        = [k \in Flows |-> HandlesOf(active.flow[k])]
  BY <1>5 DEF HandlesOf
<1>8. Mode = "browsing" /\ Mode' = "browsing" /\ request' = request
  BY DEF Mode, CanCycle, modeVars, requestVars
<1>. QED
  BY <1>2, <1>6, <1>7, <1>8 DEF Selection!Turn, Asked

LEMMA SetRequestAsks ==
  ASSUME Inv, NEW f \in Flows, BeginSetRequestAccepted(f)
  PROVE  Selection!Ask(f)
<1>1. /\ ready /\ ~setPending /\ ~awaitingSync
      /\ active.flow[f].candidateHandle \in HandlesOf(active.flow[f])
  BY DEF BeginSetRequestAccepted, BeginSetRequestError, Lists
<1>2. /\ setPending' = TRUE /\ active' = active
      /\ request'.flow = f
      /\ request'.handle = active.flow[f].candidateHandle
  BY DEF BeginSetRequestAccepted
<1>3. Mode = "browsing" /\ Mode' = "asking"
  BY <1>1, <1>2 DEF Mode
<1>. QED
  BY <1>1, <1>2, <1>3 DEF Selection!Ask, HandlesOf, Asked

LEMMA FinishAnswers ==
  ASSUME Inv, NEW id \in {0} \cup RequestIds, FinishSetRequest(id),
         ~Refuse("UnexpectedRequestId")
  PROVE  Selection!Answer
<1>1. /\ setPending /\ setPending' = FALSE /\ awaitingSync' = TRUE
      /\ request' = NoRequest /\ active' = active
  BY DEF FinishSetRequest
<1>2. Mode = "asking" /\ Mode' = "awaiting"
  BY <1>1 DEF Mode
<1>. QED
  BY <1>1, <1>2 DEF Selection!Answer, Asked, NoRequest, NoHandle, HandlesOf

LEMMA CancelWithdraws ==
  ASSUME Inv, CancelSetRequest
  PROVE  [Selection!Withdraw]_(Selection!contractVars)
<1>1. /\ setPending' = FALSE /\ request' = NoRequest
      /\ UNCHANGED <<active, ready, awaitingSync>>
  BY DEF CancelSetRequest
<1>2. CASE setPending
  <2>1. Mode = "asking" /\ Mode' = "browsing"
    BY <1>1, <1>2 DEF Mode, Inv, ModesExclusive
  <2>. QED
    BY <1>1, <2>1 DEF Selection!Withdraw, Asked, NoRequest,
                      NoHandle, HandlesOf
<1>3. CASE ~setPending
  <2>1. request = NoRequest
    BY <1>3 DEF Inv, ModesExclusive
  <2>. QED
    BY <1>1, <1>3, <2>1, ContractStutter DEF Inv, TypeOK
<1>. QED
  BY <1>2, <1>3

LEMMA ResetEnds ==
  ASSUME SessionReset, active' \in {active, EmptySnapshot}
  PROVE  Selection!End
<1>1. Mode' = "offline" /\ request' = NoRequest
  BY DEF SessionReset, Mode
<1>2. CASE active' = active
  BY <1>1, <1>2 DEF Selection!End, Asked, NoRequest, NoHandle, HandlesOf
<1>3. CASE active' = EmptySnapshot
  <2>1. \A f \in Flows : /\ active'.flow[f].candidateHandle = NoHandle
                         /\ HandlesOf(active'.flow[f]) = {}
    BY <1>3, EmptySnapshotType, EmptyFlowWellFormed, HandlesType
  <2>. QED
    BY <1>1, <2>1 DEF Selection!End, Asked, NoRequest, NoHandle
<1>. QED
  BY <1>2, <1>3

LEMMA ContractInitial == Init => Selection!ContractInit
<1> SUFFICES ASSUME Init PROVE Selection!ContractInit
  OBVIOUS
<1>1. \A f \in Flows : /\ active.flow[f].candidateHandle = NoHandle
                       /\ HandlesOf(active.flow[f]) = {}
  BY EmptySnapshotType, EmptyFlowWellFormed, HandlesType DEF Init
<1>. QED
  BY <1>1 DEF Init, Selection!ContractInit, Asked, NoRequest,
              NoHandle, Mode

\* Every call is a step of the contract or invisible to it.
LEMMA ContractStep ==
  Inv /\ [Next]_vars => [Selection!ContractNext]_(Selection!contractVars)
<1> DEFINE Promised == [Selection!ContractNext]_(Selection!contractVars)
<1> SUFFICES ASSUME Inv, [Next]_vars PROVE Promised
  OBVIOUS
<1> USE DEF Refuse, modeVars, syncVars, requestVars
<1>1. ASSUME NEW g \in {0} \cup Generations, NEW c \in CountChoices, BeginSync(g, c)
      PROVE  Promised
  BY <1>1, ContractStutter DEF BeginSync
<1>2. ASSUME NEW f \in Flows, NEW n \in Names \cup {OversizedName},
             NEW h \in HandleChoices[f], AddEndpoint(f, h, n)
      PROVE  Promised
  BY <1>2, ContractStutter DEF AddEndpoint
<1>3. ASSUME NEW f \in Flows, NEW c \in RoleChoices, SetCurrent(f, c)
      PROVE  Promised
  BY <1>3, ContractStutter DEF SetCurrent
<1>4. ASSUME NEW g \in Generations, CommitSync(g)
      PROVE  Promised
  <2>1. CASE CommitAccepted(g)
    BY <2>1, CommitOffers DEF Selection!ContractNext
  <2>2. CASE ~CommitAccepted(g)
    BY <1>4, <2>2, ContractStutter DEF CommitSync, CommitInvalid
  <2>. QED
    BY <2>1, <2>2
<1>5. CASE CancelSync
  BY <1>5, ContractStutter DEF CancelSync
<1>6. ASSUME NEW f \in Flows, NEW d \in {-1, 0, 1}, CycleCandidate(f, d)
      PROVE  Promised
  <2>1. CASE CanCycle(f, d)
    BY <1>6, <2>1, CycleTurns DEF CycleCandidate, Selection!ContractNext
  <2>2. CASE ~CanCycle(f, d)
    BY <1>6, <2>2, ContractStutter DEF CycleCandidate, vars
  <2>. QED
    BY <2>1, <2>2
<1>7. ASSUME NEW f \in Flows, BeginSetRequest(f)
      PROVE  Promised
  <2>1. CASE BeginSetRequestAccepted(f)
    BY <2>1, SetRequestAsks DEF Selection!ContractNext
  <2>2. CASE ~BeginSetRequestAccepted(f)
    BY <1>7, <2>2, ContractStutter DEF BeginSetRequest
  <2>. QED
    BY <2>1, <2>2
<1>8. ASSUME NEW id \in {0} \cup RequestIds, FinishSetRequest(id)
      PROVE  Promised
  <2>1. CASE Refuse("UnexpectedRequestId")
    BY <2>1, ContractStutter
  <2>2. CASE ~Refuse("UnexpectedRequestId")
    BY <1>8, <2>2, FinishAnswers DEF Selection!ContractNext
  <2>. QED
    BY <2>1, <2>2
<1>9. CASE CancelSetRequest
  BY <1>9, CancelWithdraws DEF Selection!ContractNext
<1>10. CASE DisconnectSession
  BY <1>10, ResetEnds DEF DisconnectSession, Selection!ContractNext
<1>11. CASE Clear
  BY <1>11, ResetEnds DEF Clear, Selection!ContractNext
<1>12. CASE UNCHANGED vars
  BY <1>12, ContractStutter DEF vars
<1>. QED
  BY <1>1, <1>2, <1>3, <1>4, <1>5, <1>6, <1>7, <1>8, <1>9, <1>10, <1>11, <1>12
  DEF Next, SyncCall, SetCall, SessionCall

\* The class is an implementation of the contract, whatever its callers do and
\* however long the lists are.
THEOREM ClassImplementsContract == Spec => ImplementsContract
  BY ContractInitial, ContractStep, Invariance, PTL
  DEF Spec, ImplementsContract, Selection!Contract

-----------------------------------------------------------------------------
(* The modular step of cycleCandidate.                                     *)

\* One step on and one step back, around a ring of n places.
LEMMA StepAndBack ==
  ASSUME NEW n \in Nat \ {0}, NEW i \in 0..(n - 1)
  PROVE  /\ (i + 1) % n = IF i = n - 1 THEN 0 ELSE i + 1
         /\ (i + n - 1) % n = IF i = 0 THEN n - 1 ELSE i - 1
  BY SMT

\* In a well-formed flow the candidate's index is the one of its handle.
LEMMA CandidateIndexIs ==
  ASSUME NEW fs \in FlowState, Distinct(fs), NEW i \in DOMAIN fs.endpoints,
         fs.candidateHandle = fs.endpoints[i].handle
  PROVE  HasCandidate(fs) /\ CandidateIndex(fs) = i
  BY DEF HasCandidate, HandlesOf, CandidateIndex, Distinct

\* A cycled flow is the same flow with the candidate at another index.
LEMMA CycledIs ==
  ASSUME NEW fs \in FlowState, Distinct(fs), NEW i \in DOMAIN fs.endpoints,
         fs.candidateHandle = fs.endpoints[i].handle, NEW d \in {-1, 1}
  PROVE  LET n == Len(fs.endpoints)
             j == IF d < 0 THEN IF i = 1 THEN n ELSE i - 1
                  ELSE IF i = n THEN 1 ELSE i + 1
         IN  /\ j \in DOMAIN fs.endpoints
             /\ Cycled(fs, d) = [fs EXCEPT !.candidateHandle = fs.endpoints[j].handle]
<1> DEFINE n == Len(fs.endpoints)
           j == IF d < 0 THEN IF i = 1 THEN n ELSE i - 1
                ELSE IF i = n THEN 1 ELSE i + 1
<1>1. n \in Nat /\ DOMAIN fs.endpoints = 1..n /\ i \in 1..n
  BY DEF FlowState
<1>2. HasCandidate(fs) /\ CandidateIndex(fs) = i
  BY CandidateIndexIs
<1>3. /\ (i - 1 + 1) % n = IF i = n THEN 0 ELSE i
      /\ (i - 1 + n - 1) % n = IF i = 1 THEN n - 1 ELSE i - 2
  <2> DEFINE m == i - 1
  <2>1. n \in Nat \ {0} /\ m \in 0..(n - 1)
    BY <1>1
  <2>2. /\ (m + 1) % n = IF m = n - 1 THEN 0 ELSE m + 1
        /\ (m + n - 1) % n = IF m = 0 THEN n - 1 ELSE m - 1
    BY <2>1, StepAndBack
  <2>. QED
    BY <1>1, <2>2
<1>4. CycledIndex(fs, d) + 1 = j
  <2>1. CycledIndex(fs, d) = IF d < 0 THEN (i - 1 + n - 1) % n ELSE (i - 1 + 1) % n
    BY <1>2 DEF CycledIndex
  <2>2. CASE d < 0
    BY <1>1, <1>3, <2>1, <2>2
  <2>3. CASE ~(d < 0)
    <3>1. CycledIndex(fs, d) = (i - 1 + 1) % n
      BY <2>1, <2>3
    <3>2. CycledIndex(fs, d) = IF i = n THEN 0 ELSE i
      BY <1>3, <3>1
    <3>3. j = IF i = n THEN 1 ELSE i + 1
      BY <2>3
    <3>. QED
      BY <1>1, <3>2, <3>3
  <2>. QED
    BY <2>2, <2>3
<1>5. j \in 1..n
  BY <1>1
<1>. QED
  BY <1>1, <1>4, <1>5 DEF Cycled

\* Turning there and back shows the same candidate again.
LEMMA CycledTwice ==
  ASSUME NEW fs \in FlowState, WellFormed(fs), fs.endpoints # <<>>, NEW d \in {-1, 1}
  PROVE  Cycled(Cycled(fs, d), -d) = fs
<1>1. PICK i \in DOMAIN fs.endpoints : fs.candidateHandle = fs.endpoints[i].handle
  BY DEF WellFormed, HandlesOf
<1>2. Distinct(fs)
  BY DEF WellFormed
<1> DEFINE n == Len(fs.endpoints)
           j == IF d < 0 THEN IF i = 1 THEN n ELSE i - 1
                ELSE IF i = n THEN 1 ELSE i + 1
           k == IF -d < 0 THEN IF j = 1 THEN n ELSE j - 1
                ELSE IF j = n THEN 1 ELSE j + 1
           moved == [fs EXCEPT !.candidateHandle = fs.endpoints[j].handle]
<1>3. n \in Nat /\ DOMAIN fs.endpoints = 1..n /\ i \in 1..n
  BY DEF FlowState
<1>4. j \in DOMAIN fs.endpoints /\ Cycled(fs, d) = moved
  BY <1>1, <1>2, CycledIs
<1>5. /\ moved \in FlowState /\ moved.endpoints = fs.endpoints
      /\ moved.candidateHandle = moved.endpoints[j].handle
  BY <1>4, ListedType DEF FlowState
<1>6. Distinct(moved)
  BY <1>2, <1>5 DEF Distinct
<1>7. -d \in {-1, 1}
  OBVIOUS
<1>8. Cycled(moved, -d) = [moved EXCEPT !.candidateHandle = moved.endpoints[k].handle]
  <2> HIDE DEF moved, j
  <2>. QED
    BY <1>4, <1>5, <1>6, <1>7, CycledIs
<1>9. k = i
  BY <1>3
<1>10. [moved EXCEPT !.candidateHandle = fs.endpoints[i].handle] = fs
  BY <1>1 DEF FlowState
<1>. QED
  BY <1>4, <1>5, <1>8, <1>9, <1>10

\* LEFT undoes RIGHT and RIGHT undoes LEFT on every list of every length.
THEOREM TurningBackUndoes == Spec => []CyclingIsInvertible
<1>1. Inv => CyclingIsInvertible
  BY ActiveFlowType, CycledTwice DEF Inv, ActiveWellFormed, CyclingIsInvertible
<1>. QED
  BY <1>1, Invariance, PTL

=============================================================================
