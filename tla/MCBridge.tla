------------------------------ MODULE MCBridge ------------------------------
(***************************************************************************)
(* An instance of Bridge for TLC.                                          *)
(***************************************************************************)
EXTENDS Bridge

CONSTANTS p1, p2, d1, d2, ch1, ch2

MCPortSeq == <<p1, p2>>
MCChannelOf == [d \in Device |-> IF d = d1 THEN ch1 ELSE ch2]
MCPortBase == [p \in Port |-> "/dev/ttyACM"]
MCPortNumber == [p \in Port |-> IF p = p1 THEN 0 ELSE 1]
MCLoaded == [devNameBase |-> "", maxDevices |-> 1]
MCMalformed == {"/dev/tty["}
MCConfigs == {MCLoaded, [MCLoaded EXCEPT !.devNameBase = "/dev/ttyUSB"],
              [MCLoaded EXCEPT !.devNameBase = "/dev/tty["]}

Ask(k, ch) == [request |-> k, channelID |-> ch]
MCAsks ==
  [c \in Client |->
     {Ask("getDevices", NoChannel), Ask("getStatistics", NoChannel), Ask("setConfig", NoChannel),
      Ask("queryDevice", ch1), Ask("queryDevice", NoChannel)}]
=============================================================================
