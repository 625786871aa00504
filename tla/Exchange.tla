------------------------------ MODULE Exchange ------------------------------
(***************************************************************************)
(* What the request thread can rely on when it queries a uThing: there is  *)
(* one query at a time, and it returns the reply to it, a reply to an      *)
(* older query that none returned before, a measurement that arrived       *)
(* while it ran, or an error.                                              *)
(***************************************************************************)
EXTENDS Naturals

VARIABLES
  measured,   \* number of measurements that arrived
  queries,    \* number of queries begun
  busy,       \* is a query running?
  since,      \* measurements arrived when the last query began
  result,     \* what the last query returned
  answers     \* what queries returned so far, without the errors

vars == <<measured, queries, busy, since, result, answers>>

Error          == [kind |-> "error", n |-> 0]
Reply(m)       == [kind |-> "reply", n |-> m]
Measurement(m) == [kind |-> "data", n |-> m]

Init ==
  /\ measured = 0
  /\ queries = 0
  /\ busy = FALSE
  /\ since = 0
  /\ result = Error
  /\ answers = {}

Measure ==
  /\ measured' = measured + 1
  /\ UNCHANGED <<queries, busy, since, result, answers>>

\* A query begins; on a port that is gone it fails at once.
Begin ==
  /\ ~busy
  /\ queries' = queries + 1
  /\ since' = measured
  /\ \/ busy' = TRUE /\ UNCHANGED result
     \/ busy' = FALSE /\ result' = Error
  /\ UNCHANGED <<measured, answers>>

Replies == {Reply(m) : m \in 1 .. queries}
New(r)  == \A a \in answers : a.kind = "reply" => a.n < r.n

FreshMeasurements == {Measurement(m) : m \in since + 1 .. measured}

End ==
  /\ busy
  /\ busy' = FALSE
  /\ \/ result' = Error /\ UNCHANGED answers
     \/ /\ result' \in {r \in Replies : New(r)} \cup FreshMeasurements
        /\ answers' = answers \cup {result'}
  /\ UNCHANGED <<measured, queries, since>>

Next == Measure \/ Begin \/ End

Spec == Init /\ [][Next]_vars

=============================================================================
