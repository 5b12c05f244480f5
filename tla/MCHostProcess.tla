---------------------------- MODULE MCHostProcess ----------------------------
(* Paired devices that lead to the selector, lead elsewhere, or nowhere.     *)
EXTENDS HostProcess

MCSelector == PairedDevice("AudioSelector", TRUE, "serial port")
MCPairedLists ==
  { <<MCSelector>>,
    <<PairedDevice("AudioSelector", FALSE, "none"), MCSelector>>,
    <<PairedDevice("unreadable", TRUE, "none"), MCSelector>>,
    <<PairedDevice("AudioSelector", TRUE, "error")>> }
=============================================================================
