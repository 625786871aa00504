-------------------------- MODULE MCDeviceRegistry --------------------------
(***************************************************************************)
(* Instances of DeviceRegistry for TLC: a uThing and a modem, on ports of  *)
(* the two kinds that are scanned by default.                              *)
(***************************************************************************)
EXTENDS DeviceRegistry

CONSTANTS acm0, acm1, usb0, voc, modem

\* The names of the ports.
MCPortBase ==
  [p \in Port |-> IF p = usb0 THEN "/dev/ttyUSB" ELSE "/dev/ttyACM"]
MCPortNumber == [p \in Port |-> IF p = acm1 THEN 1 ELSE 0]

MCUThing == Device \ {modem}

MCChannelOf == [d \in Device |-> d]

\* The configuration of the file, and what setConfig makes of it.
MCLoaded == [devNameBase |-> "", maxDevices |-> 1]
MCOnlyLoaded == {MCLoaded}
MCMalformed == {"/dev/tty["}
MCConfigs == {MCLoaded, [MCLoaded EXCEPT !.devNameBase = "/dev/ttyACM"],
              [MCLoaded EXCEPT !.devNameBase = "/dev/tty["]}
=============================================================================
