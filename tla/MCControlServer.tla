-------------------------- MODULE MCControlServer --------------------------
(***************************************************************************)
(* Instances of ControlServer for TLC: ports, two devices with their       *)
(* channels, and the requests that each run needs.                         *)
(***************************************************************************)
EXTENDS ControlServer

CONSTANTS p1, p2, d1, d2, ch1, ch2, c1, c2

MCPortSeq == <<p1, p2>>
MCChannelOf == [d \in Device |-> IF d = d1 THEN ch1 ELSE ch2]

Ask(k, ch) == [request |-> k, channelID |-> ch]

\* One client lists devices, sends commands and what is no JSON text; the other
\* queries one device or all, and asks what the handler does not know.
MCAsks ==
  [c \in Client |->
     IF c = c1 THEN {Ask("getDevices", NoChannel), Ask("sendCommand", ch1),
                     Ask("unparsable", NoChannel)}
     ELSE {Ask("queryDevice", ch1), Ask("getStatistics", NoChannel),
           Ask("unknown", NoChannel)}]

MCListOnly == [c \in Client |-> {Ask("getDevices", NoChannel)}]
=============================================================================
