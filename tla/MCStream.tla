------------------------------ MODULE MCStream ------------------------------
(***************************************************************************)
(* Instances of Stream for TLC: two channels whose names differ in the     *)
(* last character or before, and texts with and without a separator.       *)
(***************************************************************************)
EXTENDS Stream

CONSTANTS voc2, voc3, mnl, all, one

MCChar == {"#", "/sensor", "s", "/", "uThing::VOC_914", "uThing::MNL_C4C",
           "2", "3", "5", "{1}", "{2", "}"}

MCNameOf ==
  [ch \in Channel |-> CASE ch = voc2 -> <<"uThing::VOC_914", "2">>
                        [] ch = voc3 -> <<"uThing::VOC_914", "3">>
                        [] ch = mnl  -> <<"uThing::MNL_C4C", "5">>]

MCText == [n \in Line |-> IF n % 2 = 1 THEN <<"{1}">> ELSE <<"{2", "#", "}">>]

\* One consumer asks for all sensors, as consumer.cpp does, the other for the
\* channel that its comment names.
MCAsked ==
  [c \in Consumer |-> IF c = all THEN <<"/sensor", "s">>
                      ELSE <<"/sensor", "s", "/", "uThing::VOC_914", "2">>]

\* No file of use, and one that moves a socket away.
MCFiles == {<<>>, [streamSockUrl |-> "tcp://localhost:8000"]}
MCDefaultsOnly == {<<>>}
=============================================================================
