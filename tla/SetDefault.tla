------------------------------ MODULE SetDefault ------------------------------
(***************************************************************************)
(* How the host carries out one set request (windows/src/main.rs,          *)
(* handle_set_request; windows/src/audio/mod.rs, set_default_all_roles):   *)
(* a list, three reads, three writes and three reads again, none of them   *)
(* atomic and each of them fallible, while the user and other programs go  *)
(* on changing the devices.  HostSession does the same in two steps.       *)
(*                                                                         *)
(* One data flow; the generation of the request has been accepted.         *)
(***************************************************************************)
EXTENDS AudioTypes, FiniteSets

CONSTANTS
  Ids,      \* endpoint ids
  NoId,
  ListLimit \* MAXIMUM_ENDPOINTS_PER_FLOW

ASSUME SetDefaultAssumption ==
  /\ NoId \notin Ids
  /\ ListLimit \in Nat \ {0}

VARIABLES
  active,    \* the active endpoints
  default,   \* the default endpoint of each role
  pc,        \* idle, list, states, compare, write, verify or done
  handle,    \* of the request
  found,     \* the endpoints Windows enumerated
  list,      \* the handles given to them
  usable,    \* those whose state was read as active
  target,    \* the endpoint the request was resolved to
  remaining, \* roles the present round of calls has still to do
  read,      \* what the present round of reads returned
  failed,    \* failed_roles
  status,    \* of the SET_RESULT
  disturbed  \* history: somebody else changed something during the round

worldVars == <<active, default>>
requestVars == <<handle, found, list, usable, target>>
vars == <<worldVars, pc, requestVars, remaining, read, failed, status, disturbed>>

NoList == [e \in {} |-> NoHandle]
NothingRead == [r \in Roles |-> NoId]

Init ==
  /\ active \in SUBSET Ids
  /\ default \in [Roles -> active \cup {NoId}]
  /\ pc = "idle"
  /\ handle = NoHandle
  /\ found = {} /\ list = NoList /\ usable = {} /\ target = NoId
  /\ remaining = {} /\ read = NothingRead /\ failed = {}
  /\ status = "none"
  /\ disturbed = FALSE

-----------------------------------------------------------------------------
(* Everybody else.                                                         *)

\* The user gives some roles another endpoint, or endpoints come and go, and
\* Windows moves the roles that lost theirs.
Disturb ==
  /\ active' \in SUBSET Ids
  /\ default' \in [Roles -> active' \cup {NoId}]
  /\ worldVars' # worldVars
  /\ disturbed' = TRUE
  /\ UNCHANGED <<pc, requestVars, remaining, read, failed, status>>

-----------------------------------------------------------------------------
(* The request.                                                            *)

Begin ==
  /\ pc = "idle"
  /\ handle' \in 1..(ListLimit + 1)
  /\ pc' = "list"
  /\ UNCHANGED <<worldVars, found, list, usable, target, remaining, read, failed,
                 status, disturbed>>

Round(next) ==
  /\ pc' = next
  /\ remaining' = Roles
  /\ read' = NothingRead
  /\ disturbed' = FALSE

Answer(s) ==
  /\ pc' = "done"
  /\ status' = s

\* normalize_endpoints: the endpoints are put into an order that does not
\* matter here, cut to the limit and numbered from 1.
Numbered(S) ==
  {l \in [S -> 1..Cardinality(S)] : \A a, b \in S : l[a] = l[b] => a = b}

Lists ==
  UNION {Numbered(S) : S \in
    {T \in SUBSET found :
       /\ Cardinality(T) <= ListLimit
       /\ Cardinality(T) < ListLimit => T = found}}

\* enumerate_active: first the collection ...
Enumerate ==
  /\ pc = "list"
  /\ pc' = "states"
  /\ found' = active
  /\ UNCHANGED <<worldVars, handle, list, usable, target, remaining, read, failed,
                 status, disturbed>>

\* ... then each endpoint of it, which may have become inactive.
ReadEndpoints ==
  /\ pc = "states"
  /\ list' \in Lists
  /\ usable' = DOMAIN list' \cap active
  /\ \/ \E e \in DOMAIN list' :
          /\ list'[e] = handle
          /\ target' = e
          /\ Round("compare")
          /\ UNCHANGED status
     \/ /\ \A e \in DOMAIN list' : list'[e] # handle
        /\ Answer("INVALID_HANDLE")
        /\ UNCHANGED <<target, remaining, read, disturbed>>
  /\ UNCHANGED <<worldVars, handle, found, failed>>

\* default_endpoints: Console, Multimedia, Communications in this order.
FirstOf(S) ==
  IF "console" \in S THEN "console"
  ELSE IF "multimedia" \in S THEN "multimedia" ELSE "communications"

ReadRole ==
  /\ pc \in {"compare", "verify"} /\ remaining # {}
  /\ read' = [read EXCEPT ![FirstOf(remaining)] = default[FirstOf(remaining)]]
  /\ remaining' = remaining \ {FirstOf(remaining)}
  /\ UNCHANGED <<worldVars, pc, requestVars, failed, status, disturbed>>

\* The handle of a default that is not in the list is 0.
HandleOf(id) == IF id \in DOMAIN list THEN list[id] ELSE NoHandle

AllRolesMatch == \A r \in Roles : HandleOf(read[r]) = handle

\* A failure ends the request with AUDIO_API_FAILURE: of the enumeration, of a
\* read, or of PolicyConfig::new.
CallFails ==
  /\ \/ pc \in {"list", "states"}
     \/ pc \in {"compare", "verify"} /\ remaining # {}
     \/ pc = "compare" /\ ~AllRolesMatch /\ target \in usable
  /\ Answer("API_FAILURE")
  /\ UNCHANGED <<worldVars, requestVars, remaining, read, failed, disturbed>>

Compared ==
  /\ pc = "compare" /\ remaining = {}
  /\ \/ /\ AllRolesMatch
        /\ Answer("SUCCESS")
        /\ UNCHANGED <<remaining, read, failed, disturbed>>
     \/ /\ ~AllRolesMatch /\ target \notin usable
        /\ Answer("API_FAILURE")
        /\ UNCHANGED <<remaining, read, failed, disturbed>>
     \/ /\ ~AllRolesMatch /\ target \in usable
        /\ Round("write")
        /\ failed' = {}
        /\ UNCHANGED status
  /\ UNCHANGED <<worldVars, requestVars>>

\* PolicyConfig::set_default_endpoint, an undocumented interface: the role may
\* be set or not, and an error reported or not.
SetRole(done, reported) ==
  /\ pc = "write" /\ remaining # {}
  /\ done => target \in active
  /\ default' = IF done THEN [default EXCEPT ![FirstOf(remaining)] = target]
                ELSE default
  /\ failed' = IF reported THEN failed \cup {FirstOf(remaining)} ELSE failed
  /\ remaining' = remaining \ {FirstOf(remaining)}
  /\ UNCHANGED <<active, pc, requestVars, read, status, disturbed>>

Written ==
  /\ pc = "write" /\ remaining = {}
  /\ Round("verify")
  /\ UNCHANGED <<worldVars, requestVars, failed, status>>

\* Mutant: what the calls reported decides, not what was read back.
OutcomeOfCalls == IF failed = {} THEN "SUCCESS" ELSE "API_FAILURE"

\* evaluate_set_outcome and protocol_result.
Outcome ==
  IF \A r \in Roles : read[r] = target THEN "SUCCESS"
  ELSE IF failed = {} THEN "VERIFY_FAILURE" ELSE "API_FAILURE"

Verified ==
  /\ pc = "verify" /\ remaining = {}
  /\ Answer(Outcome)
  /\ UNCHANGED <<worldVars, requestVars, remaining, read, failed, disturbed>>

\* The session goes on.
Sent ==
  /\ pc = "done"
  /\ pc' = "idle"
  /\ handle' = NoHandle
  /\ found' = {} /\ list' = NoList /\ usable' = {} /\ target' = NoId
  /\ remaining' = {} /\ read' = NothingRead /\ failed' = {}
  /\ status' = "none"
  /\ disturbed' = FALSE
  /\ UNCHANGED worldVars

Next ==
  \/ Disturb \/ Begin \/ Enumerate \/ ReadEndpoints \/ CallFails
  \/ ReadRole \/ Compared
  \/ \E done, reported \in BOOLEAN : SetRole(done, reported)
  \/ Written \/ Verified \/ Sent

Spec == Init /\ [][Next]_vars

-----------------------------------------------------------------------------
\* Types.
TypeOK ==
  /\ active \in SUBSET Ids
  /\ default \in [Roles -> active \cup {NoId}]
  /\ pc \in {"idle", "list", "states", "compare", "write", "verify", "done"}
  /\ handle \in 0..(ListLimit + 1)
  /\ found \in SUBSET Ids /\ usable \in SUBSET found
  /\ list \in UNION {[S -> 1..ListLimit] : S \in SUBSET Ids}
  /\ target \in Ids \cup {NoId}
  /\ remaining \in SUBSET Roles
  /\ read \in [Roles -> Ids \cup {NoId}]
  /\ failed \in SUBSET Roles
  /\ status \in {"none", "SUCCESS", "INVALID_HANDLE", "API_FAILURE", "VERIFY_FAILURE"}
  /\ disturbed \in BOOLEAN

AllRolesAre(id) == \A r \in Roles : default[r] = id

\* The result tells the truth, whichever calls failed, silently or not: unless
\* somebody interfered while the roles were read, SUCCESS is answered only if
\* every role has the requested endpoint, and a failed verification only if one
\* has not.
ResultIsAccurate ==
  pc = "done" /\ ~disturbed =>
    /\ status = "SUCCESS" => AllRolesAre(target)
    /\ status = "VERIFY_FAILURE" => ~AllRolesAre(target)
=============================================================================
