--------------------------- MODULE SelectionContract ---------------------------
(***************************************************************************)
(* What the selector's state promises to the rest of the firmware: it      *)
(* offers endpoints, holds one choice per flow among them, and lets the    *)
(* user ask for a choice, one at a time, never for something that was not  *)
(* offered when it was asked.                                              *)
(***************************************************************************)
CONSTANTS Flows, Handles, NoHandle, NotAsked

VARIABLES
  mode,     \* "offline", "browsing", "asking" or "awaiting"
  offered,  \* the handles on display
  choice,   \* the candidate of each flow
  asked     \* what the user asked for while mode = "asking"

contractVars == <<mode, offered, choice, asked>>

ContractInit ==
  /\ mode = "offline"
  /\ offered = [f \in Flows |-> {}]
  /\ choice = [f \in Flows |-> NoHandle]
  /\ asked = NotAsked

\* A new list is offered as a whole, never while an answer is due; a choice
\* that is still on offer stays, and there is none exactly if nothing is offered.
Offer ==
  /\ mode # "asking" /\ mode' = "browsing"
  /\ offered' \in [Flows -> SUBSET Handles]
  /\ \A f \in Flows :
       /\ choice'[f] \in IF offered'[f] = {} THEN {NoHandle} ELSE offered'[f]
       /\ choice[f] \in offered'[f] => choice'[f] = choice[f]
  /\ choice' \in [Flows -> Handles \cup {NoHandle}]
  /\ UNCHANGED asked

Turn(f) ==
  /\ mode = "browsing"
  /\ \E h \in offered[f] : choice' = [choice EXCEPT ![f] = h]
  /\ UNCHANGED <<mode, offered, asked>>

Ask(f) ==
  /\ mode = "browsing" /\ mode' = "asking"
  /\ choice[f] \in offered[f]
  /\ asked' = [flow |-> f, handle |-> choice[f]]
  /\ UNCHANGED <<offered, choice>>

Answer ==
  /\ mode = "asking" /\ mode' = "awaiting"
  /\ asked' = NotAsked
  /\ UNCHANGED <<offered, choice>>

Withdraw ==
  /\ mode = "asking" /\ mode' = "browsing"
  /\ asked' = NotAsked
  /\ UNCHANGED <<offered, choice>>

\* The names may stay on display, but nothing can be done with them.
End ==
  /\ mode' = "offline" /\ asked' = NotAsked
  /\ \/ UNCHANGED <<offered, choice>>
     \/ /\ offered' = [f \in Flows |-> {}]
        /\ choice' = [f \in Flows |-> NoHandle]

ContractNext ==
  \/ Offer \/ Answer \/ Withdraw \/ End
  \/ \E f \in Flows : Turn(f) \/ Ask(f)

Contract == ContractInit /\ [][ContractNext]_contractVars
=============================================================================
