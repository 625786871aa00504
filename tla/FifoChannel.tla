----------------------------- MODULE FifoChannel -----------------------------
(***************************************************************************)
(* What the threads of uBridge rely on when they hand messages to each     *)
(* other through a TQueue: a channel that loses nothing, repeats nothing   *)
(* and keeps the order in which the messages were sent.                    *)
(***************************************************************************)
EXTENDS Naturals, Sequences

CONSTANT Message          \* what can be sent

VARIABLES sent,           \* every message sent so far, in order
          received        \* every message received so far, in order

vars == <<sent, received>>

Init ==
  /\ sent = <<>>
  /\ received = <<>>

Send ==
  /\ \E m \in Message : sent' = Append(sent, m)
  /\ UNCHANGED received

Receive ==
  /\ Len(received) < Len(sent)
  /\ received' = Append(received, sent[Len(received) + 1])
  /\ UNCHANGED sent

Next == Send \/ Receive

\* What has been sent is received in the end.
Spec == Init /\ [][Next]_vars /\ WF_vars(Receive)

=============================================================================
