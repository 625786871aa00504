------------------------------ MODULE Registry ------------------------------
(***************************************************************************)
(* What the thread that answers requests may rely on about the map         *)
(* Bridge::devices, although it traverses the map without the mutex        *)
(* (Bridge::findDeviceById) and takes an element out with at() afterwards: *)
(* an entry is never removed or replaced while the process lives, and a    *)
(* new one appears only while the mutex is free.                           *)
(***************************************************************************)
CONSTANTS
  Port,       \* serial port names, the keys of the map
  Device,     \* what can be plugged in
  NoDevice    \* no entry, or nothing plugged in

VARIABLES
  devices,        \* the map: which device was identified on each port
  mutex_devices   \* "free", or "request" while the request thread has it

vars == <<devices, mutex_devices>>

Empty == [p \in Port |-> NoDevice]

Init ==
  /\ devices = Empty
  /\ mutex_devices = "free"

Lock ==
  /\ mutex_devices = "free"
  /\ mutex_devices' = "request"
  /\ UNCHANGED devices

Unlock ==
  /\ mutex_devices = "request"
  /\ mutex_devices' = "free"
  /\ UNCHANGED devices

Register(p, d) ==
  /\ mutex_devices = "free"
  /\ devices[p] = NoDevice
  /\ devices' = [devices EXCEPT ![p] = d]
  /\ UNCHANGED mutex_devices

\* The process dies and the map with it.
Crash ==
  /\ devices' = Empty
  /\ mutex_devices' = "free"

Next ==
  \/ Lock
  \/ Unlock
  \/ \E p \in Port, d \in Device : Register(p, d)
  \/ Crash

Spec == Init /\ [][Next]_vars

=============================================================================
