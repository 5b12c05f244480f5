---------------------------- MODULE MCDeviceState ----------------------------
(* Model values for DeviceState.  The class keeps the two flows apart, so the *)
(* instance has output lists of two out of three endpoints, in any order, and *)
(* no input endpoint; the second count does not fit the endpoint array, the   *)
(* first agrees with a list of two only, and a third endpoint finds it full.  *)
EXTENDS DeviceState

SplitRoles   == [NoRoles EXCEPT !["console"] = 2, !["communications"] = 1]
ListHandles  == [output |-> 1..3, input |-> {}]
ListRoles    == {SplitRoles}
ListCounts   == { [output |-> 2, input |-> 0], [output |-> 0, input |-> 3] }
=============================================================================
