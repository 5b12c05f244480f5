--------------------------- MODULE SetDefaultProofs ---------------------------
(***************************************************************************)
(* The result of a set request is accurate for any endpoints and any limit *)
(* of the list, whichever of its calls fail.                               *)
(***************************************************************************)
EXTENDS SetDefault, TLAPS

\* A round of reads nobody disturbed agrees with the devices so far.
ReadsAreCurrent ==
  pc \in {"compare", "verify"} /\ ~disturbed =>
    \A r \in Roles \ remaining : read[r] = default[r]

\* While defaults are compared by handle, only the target has the handle.
HandleNamesTarget ==
  pc = "compare" =>
    /\ handle # NoHandle
    /\ \A e \in DOMAIN list : list[e] = handle => e = target

\* The inductive invariant.
SetInv ==
  /\ active \in SUBSET Ids
  /\ target \in Ids \cup {NoId}
  /\ remaining \in SUBSET Roles
  /\ default \in [Roles -> Ids \cup {NoId}]
  /\ read \in [Roles -> Ids \cup {NoId}]
  /\ found \in SUBSET Ids
  /\ pc \in {"list", "states"} => handle # NoHandle
  /\ ReadsAreCurrent
  /\ HandleNamesTarget
  /\ ResultIsAccurate

LEMMA RemainingRoles ==
  ASSUME NEW S \in SUBSET Roles, S # {}
  PROVE  FirstOf(S) \in S /\ FirstOf(S) \in Roles
  BY DEF FirstOf, Roles

LEMMA SetInitially == Init => SetInv
<1> SUFFICES ASSUME Init PROVE SetInv
  OBVIOUS
<1>1. default \in [Roles -> Ids \cup {NoId}] /\ read \in [Roles -> Ids \cup {NoId}]
  BY DEF Init, NothingRead
<1>2. QED
  BY <1>1 DEF Init, SetInv, ReadsAreCurrent, HandleNamesTarget, ResultIsAccurate

\* If the reads are current, matching handles mean that every role is set.
LEMMA MatchIsTruth ==
  ASSUME SetInv, pc = "compare", remaining = {}, ~disturbed, AllRolesMatch
  PROVE  AllRolesAre(target)
<1> SUFFICES ASSUME NEW r \in Roles PROVE default[r] = target
  BY DEF AllRolesAre
<1>1. read[r] = default[r]
  BY DEF SetInv, ReadsAreCurrent
<1>2. HandleOf(read[r]) = handle /\ handle # NoHandle
  BY DEF AllRolesMatch, SetInv, HandleNamesTarget
<1>3. read[r] \in DOMAIN list /\ list[read[r]] = handle
  BY <1>2 DEF HandleOf
<1>4. QED
  BY <1>1, <1>3 DEF SetInv, HandleNamesTarget

\* No step breaks the invariant.
LEMMA SetStep == SetInv /\ [Next]_vars => SetInv'
<1> SUFFICES ASSUME SetInv, [Next]_vars PROVE SetInv'
  OBVIOUS
<1> USE DEF SetInv, ReadsAreCurrent, HandleNamesTarget, ResultIsAccurate
<1>1. CASE UNCHANGED vars
  BY <1>1 DEF vars, worldVars, requestVars, AllRolesAre
<1>2. CASE Disturb
  <2>1. default' \in [Roles -> Ids \cup {NoId}]
    BY <1>2 DEF Disturb
  <2>2. QED
    BY <1>2, <2>1 DEF Disturb, requestVars
<1>3. CASE Begin
  BY <1>3 DEF Begin, worldVars, NoHandle
<1>4. CASE Enumerate
  BY <1>4 DEF Enumerate, worldVars
<1>5. CASE ReadEndpoints
  <2>1. NothingRead \in [Roles -> Ids \cup {NoId}]
    BY DEF NothingRead
  <2>2. /\ DOMAIN list' \in SUBSET Ids
        /\ \A d, e \in DOMAIN list' : list'[d] = list'[e] => d = e
    BY <1>5 DEF ReadEndpoints, Lists, Numbered
  <2>3. CASE pc' = "compare"
    BY <1>5, <2>1, <2>2, <2>3 DEF ReadEndpoints, Round, Answer, worldVars
  <2>4. CASE pc' = "done"
    BY <1>5, <2>4 DEF ReadEndpoints, Round, Answer, worldVars
  <2>5. QED
    BY <1>5, <2>3, <2>4 DEF ReadEndpoints, Round, Answer
<1>6. CASE CallFails
  BY <1>6 DEF CallFails, Answer, worldVars, requestVars
<1>7. CASE ReadRole
  <2> DEFINE first == FirstOf(remaining)
  <2>1. first \in remaining /\ first \in Roles
    BY <1>7, RemainingRoles DEF ReadRole
  <2>2. /\ read' = [read EXCEPT ![first] = default[first]]
        /\ remaining' = remaining \ {first}
        /\ UNCHANGED <<active, default, pc, handle, found, list, target, disturbed>>
        /\ pc \in {"compare", "verify"}
    BY <1>7 DEF ReadRole, worldVars, requestVars
  <2> HIDE DEF first
  <2>3. read' \in [Roles -> Ids \cup {NoId}]
    BY <2>1, <2>2
  <2>4. ReadsAreCurrent'
    BY <2>1, <2>2
  <2>5. QED
    BY <2>2, <2>3, <2>4
<1>8. CASE Compared
  <2>1. CASE AllRolesMatch
    <3>1. pc' = "done" /\ status' = "SUCCESS"
          /\ UNCHANGED <<active, default, found, target, remaining, read, disturbed>>
          /\ pc = "compare" /\ remaining = {}
      BY <1>8, <2>1 DEF Compared, Answer, worldVars, requestVars
    <3>2. ~disturbed => AllRolesAre(target)
      BY <2>1, <3>1, MatchIsTruth
    <3>3. QED
      BY <3>1, <3>2 DEF AllRolesAre
  <2>2. CASE ~AllRolesMatch
    <3>1. CASE target \in usable
      BY <1>8, <2>2, <3>1 DEF Compared, Round, worldVars, requestVars, NothingRead
    <3>2. CASE target \notin usable
      BY <1>8, <2>2, <3>2 DEF Compared, Answer, worldVars, requestVars
    <3>3. QED
      BY <3>1, <3>2
  <2>3. QED
    BY <2>1, <2>2
<1>9. ASSUME NEW done \in BOOLEAN, NEW reported \in BOOLEAN, SetRole(done, reported)
      PROVE SetInv'
  <2>1. /\ pc = "write" /\ pc' = "write" /\ remaining' \in SUBSET Roles
        /\ UNCHANGED <<active, found, target, read>>
    BY <1>9 DEF SetRole, requestVars
  <2>2. default' \in [Roles -> Ids \cup {NoId}]
    <3>1. CASE done
      BY <1>9, <3>1 DEF SetRole
    <3>2. CASE ~done
      BY <1>9, <3>2 DEF SetRole
    <3>3. QED
      BY <3>1, <3>2
  <2>3. QED
    BY <2>1, <2>2
<1>10. CASE Written
  BY <1>10 DEF Written, Round, worldVars, requestVars, NothingRead
<1>11. CASE Verified
  <2>1. /\ pc = "verify" /\ remaining = {} /\ pc' = "done" /\ status' = Outcome
        /\ UNCHANGED <<active, default, found, target, remaining, read, disturbed>>
    BY <1>11 DEF Verified, Answer, worldVars, requestVars
  <2>2. ~disturbed => \A r \in Roles : read[r] = default[r]
    BY <2>1
  <2>3. QED
    BY <2>1, <2>2 DEF Outcome, AllRolesAre
<1>12. CASE Sent
  BY <1>12 DEF Sent, worldVars, NothingRead
<1>13. QED
  BY <1>1, <1>2, <1>3, <1>4, <1>5, <1>6, <1>7, <1>8, <1>9, <1>10, <1>11, <1>12
  DEF Next

\* A SET_RESULT says what was the case when the roles were read
\* (handle_set_request, evaluate_set_outcome, protocol_result).
THEOREM AccurateResults == Spec => []ResultIsAccurate
<1>1. SetInv => ResultIsAccurate
  BY DEF SetInv
<1>2. QED
  BY <1>1, SetInitially, SetStep, PTL DEF Spec
=============================================================================
