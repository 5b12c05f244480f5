----------------------------- MODULE WindowsAudio -----------------------------
(***************************************************************************)
(* The audio devices of the PC as windows/src/audio sees them: the active  *)
(* endpoints, the default of each role, and the change callbacks.  Windows *)
(* is not part of the program: its side is modelled from what AudioService *)
(* and NotificationClient rely on.                                         *)
(***************************************************************************)
EXTENDS AudioTypes, Sequences, FiniteSets

CONSTANTS
  Ids,           \* endpoint ids
  NoId,
  Rank,          \* position of each id in the order of normalize_endpoints
  Plugged,       \* the endpoints that can exist in each flow
  RoleOutcomes,  \* which roles one attempt to set the default may reach
  ListLimit,     \* MAXIMUM_ENDPOINTS_PER_FLOW
  MaxChanges     \* bound on what happens to the audio devices on their own

ASSUME AudioAssumption ==
  /\ IsFiniteSet(Ids) /\ NoId \notin Ids
  /\ Rank \in [Ids -> Nat]
  /\ \A a, b \in Ids : Rank[a] = Rank[b] => a = b
  /\ Plugged \in [Flows -> SUBSET Ids]
  /\ RoleOutcomes \subseteq SUBSET Roles
  /\ ListLimit \in Nat \ {0}
  /\ MaxChanges \in Nat

VARIABLES
  present,   \* the active endpoints of each flow
  defaults,  \* the default endpoint of each flow and role
  callback,  \* Windows owes NotificationClient a callback
  queued,    \* the subscription's channel holds an event
  changes

audioVars == <<present, defaults, callback, queued, changes>>

NoDefaults == [r \in Roles |-> NoId]

AudioInit ==
  /\ \E p \in [Flows -> SUBSET Ids] :
       /\ \A f \in Flows : p[f] \subseteq Plugged[f]
       /\ present = p
  /\ defaults \in [Flows -> {[r \in Roles |-> e] : e \in Ids \cup {NoId}}]
  /\ \A f \in Flows : \A r \in Roles : defaults[f][r] \in present[f] \cup {NoId}
  /\ callback = FALSE
  /\ queued = FALSE
  /\ changes = 0

-----------------------------------------------------------------------------
(* What AudioService reads.                                                *)

\* enumerate_active and normalize_endpoints: sorted, cut to the limit; the
\* handle of an endpoint is its position, given anew by every enumeration.
Before(f, e) == {d \in present[f] : Rank[d] < Rank[e]}
Count(f) == IF Cardinality(present[f]) < ListLimit THEN Cardinality(present[f])
            ELSE ListLimit
Enumerated(f) ==
  [i \in 1..Count(f) |->
     CHOOSE e \in present[f] : Cardinality(Before(f, e)) = i - 1]

HandleIn(list, id) ==
  IF \E i \in DOMAIN list : list[i] = id
  THEN CHOOSE i \in DOMAIN list : list[i] = id
  ELSE NoHandle

\* The handles default_endpoints gives to the defaults of a flow.
RoleHandlesIn(list, ids) == [r \in Roles |-> HandleIn(list, ids[r])]

-----------------------------------------------------------------------------
(* What happens to the devices.                                            *)

\* Endpoints come and go and the user picks another default in Windows, which
\* always has its default among the active endpoints.
AudioChange(f) ==
  /\ changes < MaxChanges
  /\ changes' = changes + 1
  /\ \E p \in SUBSET Plugged[f] :
       /\ present' = [present EXCEPT ![f] = p]
       /\ \E e \in p \cup {NoId} :
            defaults' = [defaults EXCEPT ![f] = [r \in Roles |-> e]]
  /\ <<present, defaults>>' # <<present, defaults>>
  /\ callback' = TRUE
  /\ UNCHANGED queued

\* NotificationClient::publish, on a thread of Windows.
Notify ==
  /\ callback
  /\ callback' = FALSE
  /\ queued' = TRUE
  /\ UNCHANGED <<present, defaults, changes>>

\* set_default_all_roles: the roles that could be set, all of them or fewer.
SetDefaults(f, id, reached) ==
  /\ defaults' = [defaults EXCEPT ![f] =
                    [r \in Roles |-> IF r \in reached THEN id ELSE @[r]]]
  /\ callback' = (callback \/ reached # {})
  /\ UNCHANGED <<present, queued, changes>>
=============================================================================
