------------------------------ MODULE AudioTypes ------------------------------
(***************************************************************************)
(* What both programs and the wire have in common: the two data flows, the *)
(* three default roles, and the handles that stand for endpoints.          *)
(***************************************************************************)
EXTENDS Integers

Flows == {"output", "input"}
Roles == {"console", "multimedia", "communications"}

NoHandle == 0
NoRoles  == [r \in Roles |-> NoHandle]
=============================================================================
