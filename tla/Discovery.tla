------------------------------ MODULE Discovery ------------------------------
(***************************************************************************)
(* find_paired_device and connect_audio_selector of                        *)
(* windows/src/bluetooth/mod.rs, as far as they decide whom to connect to: *)
(* a walk over the paired devices in the order Windows gives them.         *)
(***************************************************************************)
EXTENDS Sequences, Integers

\* A paired device: its name ("unreadable" when it is not UTF-16), whether it
\* is authenticated, and what asking for its services gives.
PairedDevice(name, authenticated, services) ==
  [name |-> name, authenticated |-> authenticated, services |-> services]

\* is_target_device
IsTarget(device) == device.authenticated /\ device.name = "AudioSelector"

\* The device the walk stops at: a name that cannot be read ends it in an
\* error, whoever it belongs to.
StopsAt(devices) ==
  {i \in DOMAIN devices :
     /\ IsTarget(devices[i]) \/ devices[i].name = "unreadable"
     /\ \A j \in 1..i - 1 :
          ~IsTarget(devices[j]) /\ devices[j].name # "unreadable"}

\* has_serial_port_service: two calls, the number of services and then their
\* list, which may be another by then; either may report an error, and then,
\* as without the service, there is nothing to connect to.
FindsSerialPort(devices) ==
  \E i \in StopsAt(devices) :
    IsTarget(devices[i]) /\ devices[i].services = "serial port"
=============================================================================
