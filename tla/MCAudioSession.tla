---------------------------- MODULE MCAudioSession ----------------------------
(* Two output endpoints, no input endpoint.                                  *)
EXTENDS AudioSession

CONSTANTS a, b
MCRank    == [e \in Ids |-> IF e = a THEN 1 ELSE 2]
MCPlugged == [output |-> {a, b}, input |-> {}]
MCOutcomes == {{}, Roles}
NoChoices == [f \in Flows |-> {}]
=============================================================================
