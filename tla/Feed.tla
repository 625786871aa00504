-------------------------------- MODULE Feed --------------------------------
(***************************************************************************)
(* What the subscribers of uBridge can rely on: each hears lines that were *)
(* really sent, of channels it is interested in, every line at most once   *)
(* and all of them in the order in which they were sent.  It may miss any  *)
(* of them.                                                                *)
(***************************************************************************)
EXTENDS Naturals, Sequences

CONSTANTS
  Channel,
  Consumer,
  Interest         \* the channels that each consumer is to hear

VARIABLES
  made,            \* the channel of each line sent, in order
  heard            \* the numbers of the lines each consumer heard, in order

vars == <<made, heard>>

Init ==
  /\ made = <<>>
  /\ heard = [c \in Consumer |-> <<>>]

Send ==
  /\ \E ch \in Channel : made' = Append(made, ch)
  /\ UNCHANGED heard

Hear(c) ==
  /\ \E n \in 1 .. Len(made) :
       /\ made[n] \in Interest[c]
       /\ \A k \in 1 .. Len(heard[c]) : heard[c][k] < n
       /\ heard' = [heard EXCEPT ![c] = Append(@, n)]
  /\ UNCHANGED made

Next == Send \/ \E c \in Consumer : Hear(c)

Spec == Init /\ [][Next]_vars

=============================================================================
