----------------------------- MODULE UthingPort -----------------------------
(***************************************************************************)
(* The serial port of one registered uThing (uDevice.cpp): the device      *)
(* sends measurements and replies, the relay thread reads them for the     *)
(* stream, and the request thread, which holds mutex_devices meanwhile,    *)
(* writes a query and reads the reply from the same port.  No lock orders  *)
(* the two readers.                                                        *)
(*                                                                         *)
(* A line is known by its kind and its number: the n-th measurement, or    *)
(* the reply to the n-th query.  It may arrive in two parts; what is left  *)
(* of a line whose first part was read or discarded is a fragment, which   *)
(* no parser accepts.  The statistics (_messagesSent, _messagesReceived,   *)
(* _lastUpTime) are left out.                                              *)
(***************************************************************************)
EXTENDS Naturals, Sequences

CONSTANTS
  BatchSize,        \* lines read in a row before the relay thread sleeps
  MaxMeasurements,  \* bound: measurements that arrive
  MaxQueries        \* bound: queries of the request thread

ASSUME BoundsAssumption ==
  /\ BatchSize \in Nat \ {0}
  /\ MaxMeasurements \in Nat
  /\ MaxQueries \in Nat

VARIABLES
  live,       \* is the device still there?
  measured,   \* number of measurements that arrived
  inbox,      \* queries that the device has not answered yet
  rest,       \* is the second part of a line still to come?
  rx,         \* received and not yet read: lines [kind, n, part]
  tx,         \* the query written and not yet transmitted, or 0
  rPc,        \* relay thread: "poll", "batch", "read" or "ended"
  batch,      \* index i of its loop
  spoiled,    \* does its ReadLine() have a piece of a line that was torn?
  qPc,        \* request thread: "idle", "write" or "await"
  queries,    \* number of queries begun
  dirty,      \* does ReadLine() of the query have such a piece?
  since,      \* history: measurements arrived when the last query began
  result,     \* what the last query returned
  published,  \* history: lines pushed to the queue, in order
  consumed,   \* history: lines that queries returned
  returned,   \* history: measurements arrived when the last query returned
  slow        \* history: did the relay thread lose a slow line since?

deviceVars == <<live, measured, inbox, rest>>
relayVars  == <<rPc, batch, spoiled, published>>
queryVars  == <<qPc, queries, dirty, since, result, consumed, returned>>
vars == <<deviceVars, rx, tx, relayVars, queryVars, slow>>

Line(k, m, p) == [kind |-> k, n |-> m, part |-> p]
Error == [kind |-> "error", n |-> 0, part |-> "whole"]

\* ReadLine() needs the end of the line: a first part alone has none.
Complete == rx # <<>> /\ Head(rx).part # "first"

\* Bugs the checks must find: time-outs of an empty port only, and of a port
\* whose device is gone only.
TimedOutEmpty == rx = <<>>
TimedOutGone == ~live

\* What ReadLine() leaves, and when it gives up.
Unread == Tail(rx)
TimedOut == ~Complete

-----------------------------------------------------------------------------
Init ==
  /\ live = TRUE
  /\ measured = 0
  /\ inbox = <<>>
  /\ rest = FALSE
  /\ rx = <<>>
  /\ tx = 0
  /\ rPc = "poll"
  /\ batch = 0
  /\ spoiled = FALSE
  /\ qPc = "idle"
  /\ queries = 0
  /\ dirty = FALSE
  /\ since = 0
  /\ result = Error
  /\ published = <<>>
  /\ consumed = {}
  /\ returned = 0
  /\ slow = FALSE

-----------------------------------------------------------------------------
(* The device and the driver of the port. *)

\* A line arrives whole, or its first part does.
Arrive(k, m) ==
  \/ rx' = Append(rx, Line(k, m, "whole")) /\ UNCHANGED rest
  \/ rx' = Append(rx, Line(k, m, "first")) /\ rest' = TRUE

Measure ==
  /\ live /\ ~rest
  /\ measured < MaxMeasurements
  /\ measured' = measured + 1
  /\ Arrive("data", measured')
  /\ UNCHANGED <<live, inbox, tx, relayVars, queryVars, slow>>

AnswerQuery ==
  /\ live /\ ~rest
  /\ inbox # <<>>
  /\ inbox' = Tail(inbox)
  /\ Arrive("reply", Head(inbox))
  /\ UNCHANGED <<live, measured, tx, relayVars, queryVars, slow>>

\* The second part completes the first one, or is a fragment without it.
ArriveRest ==
  /\ rest
  /\ rest' = FALSE
  /\ LET last == Len(rx)
     IN  rx' = IF last > 0 /\ rx[last].part = "first"
               THEN [rx EXCEPT ![last].part = "whole"]
               ELSE Append(rx, Line("data", 0, "second"))
  /\ UNCHANGED <<live, measured, inbox, tx, relayVars, queryVars, slow>>

Transmit ==
  /\ tx # 0
  /\ inbox' = Append(inbox, tx)
  /\ tx' = 0
  /\ UNCHANGED <<live, measured, rest, rx, relayVars, queryVars, slow>>

\* The device is pulled out: every call on the port fails from now on.
Unplug ==
  /\ live
  /\ live' = FALSE
  /\ inbox' = <<>>
  /\ rest' = FALSE
  /\ rx' = <<>>
  /\ tx' = 0
  /\ UNCHANGED <<measured, relayVars, queryVars, slow>>

-----------------------------------------------------------------------------
(* The relay thread. *)

\* Nothing to read: FlushOutputBuffer(), meant to provoke an error when the
\* device is gone, discards what is not transmitted yet.
relayPoll ==
  /\ live
  /\ rPc = "poll"
  /\ \/ /\ rx # <<>>
        /\ rPc' = "batch"
        /\ batch' = 0
        /\ UNCHANGED tx
     \/ /\ rx = <<>>
        /\ tx' = 0
        /\ UNCHANGED <<rPc, batch>>
  /\ UNCHANGED <<deviceVars, rx, spoiled, published, queryVars, slow>>

\* Bugs the checks must find: the batch is one line too long; its last line is
\* read and not pushed; the port is flushed after a line that does not parse.
InBatchLonger == batch <= BatchSize
PushedButLast ==
  IF batch + 1 = BatchSize THEN published ELSE Append(published, Head(rx))

ResumedEmpty == <<>>

InBatch == batch < BatchSize
Pushed == Append(published, Head(rx))
Resumed == Unread

relayBatch ==
  /\ live
  /\ rPc = "batch"
  /\ rPc' = IF InBatch /\ rx # <<>> THEN "read" ELSE "poll"
  /\ UNCHANGED <<deviceVars, rx, tx, batch, spoiled, published, queryVars, slow>>

\* A whole line is parsed, labelled and pushed, whatever it is; a fragment, or
\* a line behind the piece of another, leaves the batch by an exception of the
\* parser.
relayRead ==
  /\ live
  /\ rPc = "read"
  /\ Complete
  /\ spoiled' = FALSE
  /\ \/ /\ Head(rx).part = "whole" /\ ~spoiled
        /\ rx' = Unread
        /\ published' = Pushed
        /\ batch' = batch + 1
        /\ rPc' = "batch"
     \/ /\ Head(rx).part = "second" \/ spoiled
        /\ rx' = Resumed
        /\ rPc' = "poll"
        /\ UNCHANGED <<published, batch>>
  /\ UNCHANGED <<deviceVars, tx, queryVars, slow>>

\* ReadTimeout after 10 ms: the other reader was faster, or the rest of the
\* line is late.  What was read of it is lost, unless the query has it.
relayTimeout ==
  /\ live
  /\ rPc = "read"
  /\ TimedOut
  /\ rPc' = "poll"
  /\ spoiled' = FALSE
  /\ \/ rx' = <<>>
     \/ qPc = "await" /\ UNCHANGED rx
  /\ slow' = (slow \/ rx' # rx)
  /\ UNCHANGED <<deviceVars, tx, batch, published, queryVars>>

\* Bug the checks must find: loss of the device noticed only while reading.
NoticedReading == ~live /\ rPc \in {"batch", "read"}

Noticed == ~live /\ rPc # "ended"

\* Any call on the port fails; the handler takes mutex_devices, which a query
\* in progress holds, and the thread ends.
relayLost ==
  /\ Noticed
  /\ qPc = "idle"
  /\ rPc' = "ended"
  /\ UNCHANGED <<deviceVars, rx, tx, batch, spoiled, published, queryVars, slow>>

-----------------------------------------------------------------------------
(* Uthing::query() in the request thread. *)

Return(r) ==
  /\ qPc' = "idle"
  /\ result' = r
  /\ consumed' = IF r = Error THEN consumed ELSE consumed \cup {r}
  /\ returned' = measured
  /\ slow' = FALSE

NoReturn == UNCHANGED <<result, consumed, returned, slow>>

\* Bug the checks must find: only the output is flushed before the query.
FlushOutputOnly == tx' = 0 /\ UNCHANGED rx

FlushIOBuffers == tx' = 0 /\ rx' = <<>>

\* Both directions are discarded before the query is written.  The relay thread
\* may have read a piece of what is discarded; a line of which it has all that
\* arrived so far counts as discarded too.
queryBegin ==
  /\ qPc = "idle"
  /\ queries < MaxQueries
  /\ queries' = queries + 1
  /\ since' = measured
  /\ dirty' = FALSE
  /\ \/ /\ live
        /\ qPc' = "write"
        /\ FlushIOBuffers
        /\ \/ UNCHANGED spoiled
           \/ rPc = "read" /\ rx # <<>> /\ spoiled' = TRUE
        /\ NoReturn
     \/ /\ ~live
        /\ Return(Error)
        /\ UNCHANGED <<rx, tx, spoiled>>
  /\ UNCHANGED <<deviceVars, rPc, batch, published>>

queryWrite ==
  /\ qPc = "write"
  /\ \/ live /\ qPc' = "await" /\ tx' = queries /\ NoReturn
     \/ ~live /\ Return(Error) /\ UNCHANGED tx
  /\ UNCHANGED <<deviceVars, rx, relayVars, queries, dirty, since>>

\* The next line is returned, be it the reply or not; a fragment is an error.
queryRead ==
  /\ qPc = "await"
  /\ Complete
  /\ rx' = Unread
  /\ Return(IF Head(rx).part = "whole" /\ ~dirty THEN Head(rx) ELSE Error)
  /\ UNCHANGED <<deviceVars, tx, relayVars, queries, dirty, since>>

\* No complete line within 1.5 s, or the device is gone.  What was read of a
\* line is lost, unless the relay thread has it.
queryTimeout ==
  /\ qPc = "await"
  /\ TimedOut
  /\ \/ rx' = <<>>
     \/ rPc = "read" /\ UNCHANGED rx
  /\ Return(Error)
  /\ UNCHANGED <<deviceVars, tx, relayVars, queries, dirty, since>>

\* Both threads are inside ReadLine(), which reads byte by byte: they share
\* out one line, and its end goes to one of them, whose parser rejects it; the
\* other one reads on with the piece it has.
tornRead ==
  /\ rPc = "read" /\ qPc = "await"
  /\ Complete
  /\ rx' = Unread
  /\ \/ /\ Return(Error)
        /\ spoiled' = TRUE
        /\ UNCHANGED <<rPc, dirty>>
     \/ /\ rPc' = "poll"
        /\ spoiled' = FALSE
        /\ dirty' = TRUE
        /\ UNCHANGED qPc /\ NoReturn
  /\ UNCHANGED <<deviceVars, tx, batch, published, queries, since>>

-----------------------------------------------------------------------------
DeviceStep == Measure \/ AnswerQuery \/ ArriveRest \/ Transmit \/ Unplug
RelayStep  == relayPoll \/ relayBatch \/ relayRead \/ relayTimeout \/ relayLost
QueryStep  == queryWrite \/ queryRead \/ queryTimeout

Next == DeviceStep \/ RelayStep \/ queryBegin \/ QueryStep \/ tornRead

\* Both threads run and both time-outs end; the mutex is not fair.  Nothing is
\* assumed of the device.
Fairness ==
  /\ WF_vars(RelayStep \/ tornRead)
  /\ WF_vars(QueryStep \/ tornRead)
  /\ SF_vars(relayLost)

Spec == Init /\ [][Next]_vars /\ Fairness

-----------------------------------------------------------------------------
Lines == [kind : {"data", "reply", "error"}, n : Nat, part : {"whole", "first", "second"}]

\* The variables have their types; only the last line received can lack its
\* end, and then the rest is still to come.
TypeOK ==
  /\ live \in BOOLEAN /\ rest \in BOOLEAN /\ dirty \in BOOLEAN
  /\ spoiled \in BOOLEAN /\ slow \in BOOLEAN
  /\ measured \in 0 .. MaxMeasurements
  /\ inbox \in Seq(1 .. MaxQueries)
  /\ rx \in Seq(Lines)
  /\ \A i \in 1 .. Len(rx) : rx[i].part = "first" => i = Len(rx) /\ rest
  /\ tx \in 0 .. MaxQueries
  /\ rPc \in {"poll", "batch", "read", "ended"}
  /\ batch \in 0 .. BatchSize
  /\ qPc \in {"idle", "write", "await"}
  /\ queries \in 0 .. MaxQueries
  /\ since \in 0 .. measured /\ returned \in 0 .. measured
  /\ result \in Lines
  /\ published \in Seq(Lines)
  /\ consumed \subseteq Lines

\* Until a query flushes the port or a line comes too slowly, every
\* measurement is published or waits to be, whatever the batches.
QuietPortLossless ==
  live /\ queries = 0 /\ ~slow =>
     LET all == published \o rx
     IN  Len(all) = measured /\ \A i \in 1 .. measured : all[i].n = i

\* A query that returned has spoiled at most the next measurement, whatever it
\* left in the port and in the other reader: of those that arrive later, each
\* is published or waits to be, until one comes too slowly.
Among(m, lines) ==
  \E i \in 1 .. Len(lines) :
     lines[i].kind = "data" /\ lines[i].n = m /\ lines[i].part # "second"

QuerySpoilsOneLine ==
  live /\ qPc = "idle" /\ ~slow =>
     \A m \in returned + 2 .. measured : Among(m, published) \/ Among(m, rx)

\* A query never returns a measurement that arrived before it began: what the
\* relay thread had not read yet is not mistaken for its reply.
AnswerIsFresh == qPc = "idle" /\ result.kind = "data" => result.n > since

\* What a query returns is what the request thread relies on: the reply to it,
\* an older reply that was late and that no query had, a measurement that
\* arrived meanwhile, or an error, whatever the two readers do to each other.
Shown(l) == [kind |-> l.kind, n |-> l.n]
Asked == INSTANCE Exchange WITH busy    <- qPc # "idle",
                                result  <- Shown(result),
                                answers <- {Shown(l) : l \in consumed}
ImplementsExchange == Asked!Spec

\* A query comes to its end, and with it the mutex is free again, whatever the
\* device and the relay thread do.
QueryReturns == qPc # "idle" ~> qPc = "idle"

\* The relay thread of a device that was pulled out ends.
RelayEnds == ~live ~> rPc = "ended"

\* Whatever arrives is read or discarded in the end; nothing stays in the port.
PortDrains == rx # <<>> ~> rx = <<>>

-----------------------------------------------------------------------------
(* What a comment says and the code does not do. *)

\* ubridge.cpp:197-199: the response to a command is caught by the query, so
\* that it is not "forwarded as data".
ReplyNotForwarded ==
  \A i \in 1 .. Len(published) : published[i].kind = "data"

=============================================================================
