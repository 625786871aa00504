-------------------------- MODULE UthingPortProofs --------------------------
(***************************************************************************)
(* What holds of UthingPort for any number of measurements and queries and *)
(* for batches of any size.                                                *)
(***************************************************************************)
EXTENDS UthingPort, SequenceFacts, TLAPS

-----------------------------------------------------------------------------
(***************************************************************************)
(* Types.  The index of the relay thread's loop is below the size of the   *)
(* batch whenever it reads.                                                *)
(***************************************************************************)
LoopInv == rPc = "read" => batch < BatchSize

\* What Return() needs and leaves.
LEMMA ReturnTyped ==
  ASSUME TypeOK, NEW r \in Lines, Return(r)
  PROVE  /\ qPc' = "idle" /\ result' \in Lines /\ consumed' \subseteq Lines
         /\ returned' = measured /\ slow' \in BOOLEAN
<1>1. slow' \in BOOLEAN
  BY Zenon DEF Return
<1> QED
  BY <1>1 DEF TypeOK, Return

\* Lines are made of a kind, a number and a part.
LEMMA LinesAreTyped ==
  /\ Error \in Lines
  /\ \A m \in Nat, k \in {"data", "reply"}, p \in {"whole", "first", "second"} :
       Line(k, m, p) \in Lines
BY DEF Error, Line, Lines

\* An arriving line keeps the types of rx and rest.
LEMMA ArriveTyped ==
  ASSUME TypeOK, ~ rest, NEW k \in {"data", "reply"}, NEW m \in Nat, Arrive(k, m)
  PROVE  /\ rx' \in Seq(Lines)
         /\ rest' \in BOOLEAN
         /\ \A i \in 1 .. Len(rx') : rx'[i].part = "first" => i = Len(rx') /\ rest'
<1>0. ASSUME NEW l \in Lines, rx' = Append(rx, l)
      PROVE  /\ rx' \in Seq(Lines) /\ Len(rx') = Len(rx) + 1 /\ rx'[Len(rx')] = l
             /\ \A i \in 1 .. Len(rx') : i # Len(rx') => rx'[i].part # "first"
  <2>1. rx \in Seq(Lines) /\ \A i \in 1 .. Len(rx) : rx[i].part # "first"
    BY DEF TypeOK
  <2>2. /\ rx' \in Seq(Lines) /\ Len(rx') = Len(rx) + 1 /\ Len(rx) \in Nat
        /\ \A i \in 1 .. Len(rx) : rx'[i] = rx[i]
        /\ rx'[Len(rx) + 1] = l
    BY <1>0, <2>1, AppendToSeq
  <2>3. ASSUME NEW i \in 1 .. Len(rx'), i # Len(rx') PROVE rx'[i].part # "first"
    <3>1. i \in 1 .. Len(rx)
      BY <2>2, <2>3
    <3> QED
      BY <2>1, <2>2, <3>1
  <2> QED
    BY <2>2, <2>3
<1>1. CASE rx' = Append(rx, Line(k, m, "whole")) /\ UNCHANGED rest
  <2>1. Line(k, m, "whole") \in Lines /\ Line(k, m, "whole").part = "whole"
    BY LinesAreTyped DEF Line
  <2> HIDE DEF Line
  <2>2. \A i \in 1 .. Len(rx') : rx'[i].part # "first"
    BY <1>0, <1>1, <2>1
  <2> QED
    BY <1>0, <1>1, <2>1, <2>2 DEF TypeOK
<1>2. CASE rx' = Append(rx, Line(k, m, "first")) /\ rest' = TRUE
  <2>1. Line(k, m, "first") \in Lines
    BY LinesAreTyped
  <2>2. /\ rx' \in Seq(Lines)
        /\ \A i \in 1 .. Len(rx') : i # Len(rx') => rx'[i].part # "first"
    BY <1>0, <1>2, <2>1
  <2> QED
    BY <1>2, <2>2
<1> QED
  BY <1>1, <1>2 DEF Arrive

\* So does reading the front line.
LEMMA TailTyped ==
  ASSUME TypeOK, rx # <<>>
  PROVE  /\ Tail(rx) \in Seq(Lines)
         /\ Head(rx) \in Lines
         /\ \A i \in 1 .. Len(Tail(rx)) : Tail(rx)[i].part = "first" => i = Len(Tail(rx)) /\ rest
BY TailOfSeq DEF TypeOK

\* Giving up on a line takes what there is of it out of the port or leaves it.
LEMMA GivenUpTyped ==
  ASSUME TypeOK, rx' = <<>> \/ rx' = rx, UNCHANGED rest
  PROVE  /\ rx' \in Seq(Lines)
         /\ \A i \in 1 .. Len(rx') : rx'[i].part = "first" => i = Len(rx') /\ rest'
<1>1. CASE rx' = <<>>
  BY <1>1
<1>2. CASE rx' = rx
  BY <1>2 DEF TypeOK
<1> QED
  BY <1>1, <1>2

\* And the second part of a line, which completes the first one if it is there.
LEMMA RestTyped ==
  ASSUME TypeOK, ArriveRest
  PROVE  /\ rx' \in Seq(Lines)
         /\ \A i \in 1 .. Len(rx') : rx'[i].part # "first"
<1>1. CASE Len(rx) > 0 /\ rx[Len(rx)].part = "first"
  <2>1. rx' = [rx EXCEPT ![Len(rx)].part = "whole"]
    BY <1>1 DEF ArriveRest
  <2>2. Len(rx) \in 1 .. Len(rx) /\ rx[Len(rx)] \in Lines
    BY <1>1 DEF TypeOK
  <2>3. /\ [rx[Len(rx)] EXCEPT !.part = "whole"] \in Lines
        /\ [rx[Len(rx)] EXCEPT !.part = "whole"].part = "whole"
    BY <2>2 DEF Lines
  <2>4. rx' = [rx EXCEPT ![Len(rx)] = [rx[Len(rx)] EXCEPT !.part = "whole"]]
    BY <2>1
  <2> QED
    BY <2>2, <2>3, <2>4 DEF TypeOK
<1>2. CASE ~ (Len(rx) > 0 /\ rx[Len(rx)].part = "first")
  <2>1. rx' = Append(rx, Line("data", 0, "second"))
    BY <1>2 DEF ArriveRest
  <2>2. Line("data", 0, "second") \in Lines /\ Line("data", 0, "second").part = "second"
    BY LinesAreTyped DEF Line
  <2> QED
    BY <1>2, <2>1, <2>2, AppendToSeq DEF TypeOK
<1> QED
  BY <1>1, <1>2

\* Every step keeps the types and the index of the loop.
LEMMA TypedStep == TypeOK /\ LoopInv /\ [Next]_vars => TypeOK' /\ LoopInv'
<1> SUFFICES ASSUME TypeOK, LoopInv, [Next]_vars PROVE TypeOK' /\ LoopInv'
  OBVIOUS
<1>0. Error \in Lines
  BY LinesAreTyped
<1> DEFINE FirstIsLast == \A i \in 1 .. Len(rx) : rx[i].part = "first" => i = Len(rx) /\ rest
<1> USE BoundsAssumption DEF TypeOK, LoopInv, deviceVars, relayVars, queryVars
<1>1. CASE Measure
  <2>1. measured + 1 \in Nat /\ measured' = measured + 1 /\ Arrive("data", measured + 1) /\ ~ rest
    BY <1>1 DEF Measure
  <2>2. rx' \in Seq(Lines) /\ rest' \in BOOLEAN /\ FirstIsLast'
    BY <2>1, ArriveTyped
  <2> QED
    BY <1>1, <2>2 DEF Measure
<1>2. CASE AnswerQuery
  <2>1. Head(inbox) \in Nat /\ Tail(inbox) \in Seq(1 .. MaxQueries)
    BY <1>2, TailOfSeq DEF AnswerQuery
  <2>2. rx' \in Seq(Lines) /\ rest' \in BOOLEAN /\ FirstIsLast'
    BY <1>2, <2>1, ArriveTyped DEF AnswerQuery
  <2> QED
    BY <1>2, <2>1, <2>2 DEF AnswerQuery
<1>3. CASE ArriveRest
  <2>1. rx' \in Seq(Lines) /\ FirstIsLast'
    BY <1>3, RestTyped
  <2> QED
    BY <1>3, <2>1 DEF ArriveRest
<1>4. CASE Transmit
  <2>1. inbox' \in Seq(1 .. MaxQueries)
    BY <1>4, AppendToSeq DEF Transmit
  <2> QED
    BY <1>4, <2>1 DEF Transmit
<1>5. CASE Unplug
  <2>1. rx' \in Seq(Lines) /\ FirstIsLast' /\ inbox' \in Seq(1 .. MaxQueries)
    BY <1>5 DEF Unplug
  <2>2. live' \in BOOLEAN /\ rest' \in BOOLEAN
    BY <1>5, Zenon DEF Unplug
  <2>4. tx' \in 0 .. MaxQueries
    BY <1>5 DEF Unplug
  <2>3. UNCHANGED measured /\ UNCHANGED relayVars /\ UNCHANGED queryVars /\ UNCHANGED slow
    BY <1>5 DEF Unplug
  <2> QED
    BY <2>1, <2>2, <2>3, <2>4
<1>6. CASE relayPoll
  BY <1>6 DEF relayPoll
<1>7. CASE relayBatch
  BY <1>7 DEF relayBatch, InBatch
<1>8. CASE relayRead
  <2>0. rx # <<>> /\ rx' = Tail(rx) /\ UNCHANGED rest
    BY <1>8 DEF relayRead, Complete, Unread, Resumed
  <2>1. rx' \in Seq(Lines) /\ FirstIsLast' /\ Head(rx) \in Lines
    BY <2>0, TailTyped
  <2>2. published' \in Seq(Lines)
    <3>1. published' = Append(published, Head(rx)) \/ UNCHANGED published
      BY <1>8 DEF relayRead, Unread, Pushed, Resumed
    <3>2. Append(published, Head(rx)) \in Seq(Lines)
      BY <2>1, AppendToSeq
    <3> QED
      BY <3>1, <3>2
  <2>3. rPc' \in {"poll", "batch"} /\ batch' \in 0 .. BatchSize
    BY <1>8 DEF relayRead, Unread, Pushed, Resumed
  <2> QED
    BY <1>8, <2>1, <2>2, <2>3 DEF relayRead, Unread, Pushed, Resumed
<1>9. CASE relayTimeout
  <2>1. (rx' = <<>> \/ rx' = rx) /\ UNCHANGED rest
    BY <1>9 DEF relayTimeout
  <2>2. rx' \in Seq(Lines) /\ FirstIsLast'
    BY <2>1, GivenUpTyped
  <2>3. slow' \in BOOLEAN
    BY <1>9, Zenon DEF relayTimeout
  <2> QED
    BY <1>9, <2>2, <2>3 DEF relayTimeout
<1>10. CASE relayLost
  BY <1>10 DEF relayLost, Noticed
<1>11. CASE queryBegin
  <2>1. rx' \in Seq(Lines) /\ FirstIsLast'
    <3>1. UNCHANGED rest
      BY <1>11 DEF queryBegin, FlushIOBuffers
    <3>2. CASE rx' = <<>>
      BY <3>2
    <3>3. CASE rx' = rx
      BY <3>1, <3>3
    <3> QED
      BY <1>11, <3>2, <3>3 DEF queryBegin, FlushIOBuffers
  <2>2. result' \in Lines /\ consumed' \subseteq Lines /\ qPc' \in {"idle", "write"}
    BY <1>0, <1>11 DEF queryBegin, Return, NoReturn
  <2>3. queries' \in 0 .. MaxQueries /\ since' = measured /\ tx' \in 0 .. MaxQueries
    BY <1>11 DEF queryBegin, FlushIOBuffers
  <2>4. dirty' \in BOOLEAN /\ spoiled' \in BOOLEAN /\ slow' \in BOOLEAN
    BY <1>11, Zenon DEF queryBegin, Return, NoReturn
  <2>5. returned' = measured \/ UNCHANGED returned
    BY <1>11 DEF queryBegin, Return, NoReturn
  <2>6. UNCHANGED deviceVars /\ UNCHANGED <<rPc, batch, published>>
    BY <1>11 DEF queryBegin
  <2> QED
    BY <2>1, <2>2, <2>3, <2>4, <2>5, <2>6
<1>12. CASE queryWrite
  <2>1. UNCHANGED deviceVars /\ UNCHANGED relayVars /\ UNCHANGED <<rx, queries, dirty, since>>
    BY <1>12 DEF queryWrite
  <2>2. CASE qPc' = "await" /\ tx' = queries /\ NoReturn
    BY <2>1, <2>2 DEF NoReturn
  <2>3. CASE Return(Error) /\ UNCHANGED tx
    <3>1. /\ qPc' = "idle" /\ result' \in Lines /\ consumed' \subseteq Lines
          /\ returned' = measured /\ slow' \in BOOLEAN
      BY <1>0, <2>3, ReturnTyped
    <3> QED
      BY <2>1, <2>3, <3>1
  <2> QED
    BY <1>12, <2>2, <2>3 DEF queryWrite
<1>13. CASE queryRead
  <2>1. rx' = Tail(rx) /\ rx' \in Seq(Lines) /\ FirstIsLast' /\ Head(rx) \in Lines
    BY <1>13, TailTyped DEF queryRead, Complete, Unread
  <2>2. /\ qPc' = "idle" /\ result' \in Lines /\ consumed' \subseteq Lines
        /\ returned' = measured /\ slow' \in BOOLEAN
    BY <1>0, <1>13, <2>1, ReturnTyped DEF queryRead, Unread
  <2>3. UNCHANGED deviceVars /\ UNCHANGED relayVars /\ UNCHANGED <<tx, queries, dirty, since>>
    BY <1>13 DEF queryRead
  <2> QED
    BY <2>1, <2>2, <2>3
<1>14. CASE queryTimeout
  <2>1. (rx' = <<>> \/ rx' = rx) /\ UNCHANGED rest
    BY <1>14 DEF queryTimeout
  <2>2. rx' \in Seq(Lines) /\ FirstIsLast'
    BY <2>1, GivenUpTyped
  <2>3. /\ qPc' = "idle" /\ result' \in Lines /\ consumed' \subseteq Lines
        /\ returned' = measured /\ slow' \in BOOLEAN
    BY <1>0, <1>14, ReturnTyped DEF queryTimeout
  <2>4. UNCHANGED deviceVars /\ UNCHANGED relayVars /\ UNCHANGED <<tx, queries, dirty, since>>
    BY <1>14 DEF queryTimeout
  <2> QED
    BY <2>2, <2>3, <2>4
<1>15. CASE tornRead
  <2>1. rx' = Tail(rx) /\ rx' \in Seq(Lines) /\ FirstIsLast'
    BY <1>15, TailTyped DEF tornRead, Complete, Unread
  <2>2. UNCHANGED deviceVars /\ UNCHANGED <<tx, batch, published, queries, since>>
    BY <1>15 DEF tornRead
  <2>3. CASE Return(Error) /\ spoiled' = TRUE /\ UNCHANGED <<rPc, dirty>>
    <3>1. /\ qPc' = "idle" /\ result' \in Lines /\ consumed' \subseteq Lines
          /\ returned' = measured /\ slow' \in BOOLEAN
      BY <1>0, <2>3, ReturnTyped
    <3>2. spoiled' \in BOOLEAN
      BY <2>3, Zenon
    <3> QED
      BY <2>1, <2>2, <2>3, <3>1, <3>2
  <2>4. CASE rPc' = "poll" /\ spoiled' = FALSE /\ dirty' = TRUE /\ UNCHANGED qPc /\ NoReturn
    BY <2>1, <2>2, <2>4 DEF NoReturn
  <2> QED
    BY <1>15, <2>3, <2>4 DEF tornRead
<1>16. CASE UNCHANGED vars
  BY <1>16 DEF vars
<1> QED
  BY <1>1, <1>2, <1>3, <1>4, <1>5, <1>6, <1>7, <1>8, <1>9, <1>10, <1>11,
     <1>12, <1>13, <1>14, <1>15, <1>16 DEF Next, DeviceStep, RelayStep, QueryStep

\* The invariants of the types hold in every state.
LEMMA Typed == Spec => [](TypeOK /\ LoopInv)
<1>1. ASSUME Init PROVE TypeOK /\ LoopInv
  <2>1. \A S : <<>> \in Seq(S)
    OBVIOUS
  <2>2. result \in Lines
    BY <1>1, LinesAreTyped DEF Init
  <2>3. \A i \in 1 .. Len(rx) : rx[i].part = "first" => i = Len(rx) /\ rest
    BY <1>1 DEF Init
  <2>4. inbox \in Seq(1 .. MaxQueries) /\ rx \in Seq(Lines) /\ published \in Seq(Lines)
    BY <1>1, <2>1 DEF Init
  <2>5. /\ live \in BOOLEAN /\ rest \in BOOLEAN /\ dirty \in BOOLEAN
        /\ spoiled \in BOOLEAN /\ slow \in BOOLEAN
    BY <1>1, Zenon DEF Init
  <2>6. /\ measured \in 0 .. MaxMeasurements /\ since \in 0 .. measured /\ returned \in 0 .. measured
        /\ tx \in 0 .. MaxQueries /\ queries \in 0 .. MaxQueries /\ batch \in 0 .. BatchSize
    BY <1>1, BoundsAssumption DEF Init
  <2>7. rPc = "poll" /\ qPc = "idle" /\ consumed = {}
    BY <1>1 DEF Init
  <2> QED
    BY <2>2, <2>3, <2>4, <2>5, <2>6, <2>7 DEF TypeOK, LoopInv
<1> QED
  BY <1>1, TypedStep, PTL DEF Spec

\* The variables have their types, and only the last line can be incomplete.
THEOREM TypeCorrect == Spec => []TypeOK
BY Typed, PTL

-----------------------------------------------------------------------------
(***************************************************************************)
(* What each step does to the lines in the port.                           *)
(***************************************************************************)
Arrived(k, m) ==
  /\ Len(rx') = Len(rx) + 1
  /\ \A i \in 1 .. Len(rx) : rx'[i] = rx[i]
  /\ rx'[Len(rx) + 1].kind = k /\ rx'[Len(rx) + 1].n = m

Completed ==
  /\ Len(rx') = Len(rx)
  /\ \A i \in 1 .. Len(rx) :
        /\ rx'[i].kind = rx[i].kind /\ rx'[i].n = rx[i].n
        /\ rx'[i].part = "second" <=> rx[i].part = "second"

FrontRead ==
  /\ Len(rx) \in Nat \ {0}
  /\ Len(rx') = Len(rx) - 1
  /\ \A i \in 1 .. Len(rx') : rx'[i] = rx[i + 1] /\ i + 1 \in 1 .. Len(rx)
  /\ Head(rx) = rx[1] /\ 1 \in 1 .. Len(rx)

\* A measurement or a reply arrives behind the lines that are there.
LEMMA ArriveAppends ==
  ASSUME TypeOK, NEW k \in {"data", "reply"}, NEW m \in Nat, Arrive(k, m)
  PROVE  Arrived(k, m) /\ rx'[Len(rx) + 1].part \in {"whole", "first"}
<1>1. PICK p \in {"whole", "first"} : rx' = Append(rx, Line(k, m, p))
  BY DEF Arrive
<1>2. Line(k, m, p) \in Lines
  BY LinesAreTyped
<1>3. Line(k, m, p).kind = k /\ Line(k, m, p).n = m /\ Line(k, m, p).part = p
  BY DEF Line
<1> QED
  BY <1>1, <1>2, <1>3, AppendToSeq DEF TypeOK, Arrived

\* The second part completes the last line or arrives as a fragment.
LEMMA RestCompletes ==
  ASSUME TypeOK, ArriveRest
  PROVE  \/ Len(rx) > 0 /\ rx[Len(rx)].part = "first" /\ Completed
         \/ /\ ~ (Len(rx) > 0 /\ rx[Len(rx)].part = "first")
            /\ Arrived("data", 0) /\ rx'[Len(rx) + 1].part = "second"
<1>1. CASE Len(rx) > 0 /\ rx[Len(rx)].part = "first"
  <2>1. rx' = [rx EXCEPT ![Len(rx)] = [rx[Len(rx)] EXCEPT !.part = "whole"]]
    BY <1>1 DEF ArriveRest
  <2>2. Len(rx) \in 1 .. Len(rx) /\ rx[Len(rx)] \in Lines
    BY <1>1 DEF TypeOK
  <2> DEFINE whole == [rx[Len(rx)] EXCEPT !.part = "whole"]
  <2>3. whole.kind = rx[Len(rx)].kind /\ whole.n = rx[Len(rx)].n /\ whole.part = "whole"
    BY <2>2 DEF Lines
  <2> HIDE DEF whole
  <2>4. Len(rx') = Len(rx) /\ \A i \in 1 .. Len(rx) : rx'[i] = IF i = Len(rx) THEN whole ELSE rx[i]
    BY <2>1, <2>2 DEF TypeOK, whole
  <2> QED
    BY <1>1, <2>3, <2>4 DEF Completed
<1>2. CASE ~ (Len(rx) > 0 /\ rx[Len(rx)].part = "first")
  <2>1. rx' = Append(rx, Line("data", 0, "second"))
    BY <1>2 DEF ArriveRest
  <2>2. Line("data", 0, "second") \in Lines
    BY LinesAreTyped
  <2> QED
    BY <1>2, <2>1, <2>2, AppendToSeq DEF TypeOK, Line, Arrived
<1> QED
  BY <1>1, <1>2

\* A reader takes the front line and the others move up.
LEMMA ReadTakesFront ==
  ASSUME TypeOK, Complete, rx' = Tail(rx)
  PROVE  FrontRead
BY TailOfSeq DEF TypeOK, Complete, FrontRead

\* Which steps do which of these.
LEMMA PortSteps ==
  ASSUME TypeOK, [Next]_vars
  PROVE  \/ Measure /\ Arrived("data", measured + 1)
         \/ AnswerQuery /\ Arrived("reply", Head(inbox))
         \/ ArriveRest
         \/ (relayRead \/ queryRead \/ tornRead) /\ FrontRead
         \/ (Unplug \/ relayTimeout \/ queryTimeout \/ queryBegin) /\ rx' = <<>>
         \/ (relayTimeout \/ queryTimeout \/ (queryBegin /\ ~ live)) /\ rx' = rx
         \/ (Transmit \/ relayPoll \/ relayBatch \/ relayLost \/ queryWrite) /\ rx' = rx
         \/ UNCHANGED vars
<1>1. CASE Measure
  <2>1. measured + 1 \in Nat /\ Arrive("data", measured + 1)
    BY <1>1 DEF Measure, TypeOK
  <2> QED
    BY <1>1, <2>1, ArriveAppends
<1>2. CASE AnswerQuery
  <2>1. inbox \in Seq(1 .. MaxQueries) /\ inbox # <<>> /\ Arrive("reply", Head(inbox))
    BY <1>2 DEF AnswerQuery, TypeOK
  <2>2. Head(inbox) \in 1 .. MaxQueries
    BY <2>1, TailOfSeq, Zenon
  <2> QED
    BY <1>2, <2>1, <2>2, BoundsAssumption, ArriveAppends
<1>3. CASE relayRead \/ queryRead \/ tornRead
  BY <1>3, ReadTakesFront DEF relayRead, queryRead, tornRead, Unread, Pushed, Resumed
<1>4. CASE Unplug \/ relayTimeout \/ queryTimeout
  <2>1. Unplug => rx' = <<>>
    BY DEF Unplug
  <2>2. relayTimeout => rx' = <<>> \/ rx' = rx
    BY DEF relayTimeout
  <2>3. queryTimeout => rx' = <<>> \/ rx' = rx
    BY DEF queryTimeout
  <2> QED
    BY <1>4, <2>1, <2>2, <2>3
<1>5. CASE queryBegin
  BY <1>5 DEF queryBegin, FlushIOBuffers
<1>6. CASE Transmit \/ relayPoll \/ relayBatch \/ relayLost \/ queryWrite
  BY <1>6 DEF Transmit, relayPoll, relayBatch, relayLost, queryWrite, InBatch, Noticed
<1> QED
  BY <1>1, <1>2, <1>3, <1>4, <1>5, <1>6 DEF Next, DeviceStep, RelayStep, QueryStep

-----------------------------------------------------------------------------
(***************************************************************************)
(* A query begins with an empty port, so while it runs every measurement   *)
(* that is there arrived after it began.                                   *)
(***************************************************************************)
PendingInv ==
  qPc # "idle" => \A i \in 1 .. Len(rx) :
                     rx[i].kind = "data" /\ rx[i].part # "second" => rx[i].n > since

FreshInv == PendingInv /\ AnswerIsFresh

\* What is in the port stays as new as the query wants it.
LEMMA PendingStep ==
  ASSUME TypeOK, FreshInv, [Next]_vars
  PROVE  PendingInv'
<1> SUFFICES ASSUME qPc' # "idle"
             PROVE  \A i \in 1 .. Len(rx') :
                      rx'[i].kind = "data" /\ rx'[i].part # "second" => rx'[i].n > since'
  BY DEF PendingInv
<1>1. Len(rx) \in Nat /\ measured \in Nat /\ since \in 0 .. measured
  BY DEF TypeOK
<1>2. ASSUME rx' = <<>> PROVE \A i \in 1 .. Len(rx') : FALSE
  BY <1>2
<1>3. ASSUME ~ (queryBegin \/ rx' = <<>>) PROVE qPc # "idle" /\ since' = since
  BY <1>3 DEF Next, DeviceStep, RelayStep, QueryStep, vars, deviceVars, relayVars, queryVars,
              Measure, AnswerQuery, ArriveRest, Transmit, Unplug, relayPoll, relayBatch,
              relayRead, relayTimeout, relayLost, queryWrite, queryRead, queryTimeout,
              tornRead, InBatch, Unread, Pushed, Resumed, TimedOut, Noticed
<1>4. ~ (queryBegin /\ rx' # <<>>)
  BY DEF queryBegin, Return, FlushIOBuffers
<1>5. CASE Measure /\ Arrived("data", measured + 1) /\ rx' # <<>>
  BY <1>1, <1>3, <1>4, <1>5 DEF FreshInv, PendingInv, Arrived
<1>6. CASE AnswerQuery /\ Arrived("reply", Head(inbox)) /\ rx' # <<>>
  BY <1>1, <1>3, <1>4, <1>6 DEF FreshInv, PendingInv, Arrived
<1>7. CASE ArriveRest /\ rx' # <<>>
  <2>1. CASE Completed
    BY <1>1, <1>3, <1>4, <1>7, <2>1 DEF FreshInv, PendingInv, Completed
  <2>2. CASE Arrived("data", 0) /\ rx'[Len(rx) + 1].part = "second"
    BY <1>1, <1>3, <1>4, <1>7, <2>2 DEF FreshInv, PendingInv, Arrived
  <2> QED
    BY <1>7, <2>1, <2>2, RestCompletes
<1>8. CASE FrontRead /\ rx' # <<>>
  BY <1>1, <1>3, <1>4, <1>8 DEF FreshInv, PendingInv, FrontRead
<1>9. CASE rx' = rx /\ rx' # <<>>
  BY <1>1, <1>3, <1>4, <1>9 DEF FreshInv, PendingInv
<1>10. UNCHANGED vars => rx' = rx
  BY DEF vars
<1> QED
  BY <1>2, <1>5, <1>6, <1>7, <1>8, <1>9, <1>10, PortSteps

\* What a query returns was in the port while it ran.
LEMMA ResultStep ==
  ASSUME TypeOK, FreshInv, [Next]_vars
  PROVE  AnswerIsFresh'
<1>1. CASE UNCHANGED <<result, since>> /\ qPc' = qPc
  BY <1>1 DEF FreshInv, AnswerIsFresh
<1>2. CASE result' = Error
  BY <1>2 DEF AnswerIsFresh, Error
<1>3. CASE qPc' # "idle"
  BY <1>3 DEF AnswerIsFresh
<1>4. CASE queryRead /\ result' = Head(rx) /\ Head(rx).part = "whole"
  <2>1. qPc # "idle" /\ since' = since /\ FrontRead
    BY <1>4, ReadTakesFront DEF queryRead, Unread
  <2>2. Head(rx).kind = "data" => Head(rx).n > since
    BY <1>4, <2>1 DEF FreshInv, PendingInv, FrontRead
  <2> QED
    BY <1>4, <2>1, <2>2 DEF AnswerIsFresh
<1>5. CASE queryRead /\ result' # Error
  BY <1>4, <1>5 DEF queryRead, Return, Unread
<1>6. CASE queryBegin \/ queryWrite \/ queryTimeout \/ tornRead
  BY <1>1, <1>2, <1>3, <1>6 DEF queryBegin, queryWrite, queryTimeout, tornRead, Return,
      FlushIOBuffers, TimedOut, Unread
<1>7. CASE DeviceStep \/ RelayStep \/ UNCHANGED vars
  BY <1>1, <1>7 DEF DeviceStep, RelayStep, vars, queryVars, Measure, AnswerQuery, ArriveRest,
                    Transmit, Unplug, relayPoll, relayBatch, relayRead, relayTimeout,
                    relayLost, InBatch, Unread, Pushed, Resumed, TimedOut, Noticed
<1> QED
  BY <1>2, <1>5, <1>6, <1>7 DEF Next, QueryStep

\* Both hold in every state.
LEMMA Fresh == Spec => []FreshInv
<1>1. Init => FreshInv
  BY DEF Init, FreshInv, PendingInv, AnswerIsFresh, Error
<1>2. TypeOK /\ FreshInv /\ [Next]_vars => FreshInv'
  BY PendingStep, ResultStep DEF FreshInv
<1> QED
  BY <1>1, <1>2, TypeCorrect, PTL DEF Spec

\* A query never returns a measurement that arrived before it began.
THEOREM AnswersFresh == Spec => []AnswerIsFresh
<1>1. FreshInv => AnswerIsFresh
  BY DEF FreshInv
<1> QED
  BY <1>1, Fresh, PTL

-----------------------------------------------------------------------------
(***************************************************************************)
(* Before the first query and the first time-out inside a line, only       *)
(* measurements are on their way, and a line without its end is the last.  *)
(***************************************************************************)
Quiet == live /\ queries = 0 /\ ~ slow

NoQueryInv == queries = 0 => qPc = "idle" /\ inbox = <<>> /\ tx = 0 /\ ~ spoiled

PartsInv ==
  /\ rest => Len(rx) > 0 /\ rx[Len(rx)].part = "first"
  /\ \A i \in 1 .. Len(rx) : rx[i].part # "second"

NumbersInv ==
  /\ Len(published) + Len(rx) = measured
  /\ \A i \in 1 .. Len(published) : published[i].n = i
  /\ \A i \in 1 .. Len(rx) : rx[i].n = Len(published) + i

QuietInv == NoQueryInv /\ (Quiet => PartsInv /\ NumbersInv)

\* A measurement gets the next number.
LEMMA QuietMeasure ==
  ASSUME TypeOK, PartsInv, NumbersInv, Measure
  PROVE  PartsInv' /\ NumbersInv'
<1>1. /\ ~ rest /\ measured' = measured + 1 /\ UNCHANGED published
      /\ Len(rx) \in Nat /\ Len(published) \in Nat /\ measured + 1 \in Nat
  BY DEF Measure, relayVars, TypeOK
<1>2. Arrive("data", measured + 1)
  BY DEF Measure
<1>3. Arrived("data", measured + 1) /\ rx'[Len(rx) + 1].part \in {"whole", "first"}
  BY <1>1, <1>2, ArriveAppends
<1>4. PartsInv'
  <2>1. rest' => rx'[Len(rx) + 1].part = "first"
    <3>1. rest' => rx' = Append(rx, Line("data", measured + 1, "first"))
      BY <1>1, <1>2 DEF Arrive
    <3>2. Append(rx, Line("data", measured + 1, "first"))[Len(rx) + 1].part = "first"
      BY <1>1, AppendToSeq, LinesAreTyped DEF TypeOK, Line
    <3> QED
      BY <3>1, <3>2
  <2> QED
    BY <1>1, <1>3, <2>1 DEF PartsInv, Arrived
<1>5. NumbersInv'
  <2>1. \A i \in 1 .. Len(rx') : i \in 1 .. Len(rx) \/ i = Len(rx) + 1
    BY <1>1, <1>3 DEF Arrived
  <2>2. rx'[Len(rx) + 1].n = Len(published) + (Len(rx) + 1)
    BY <1>1, <1>3 DEF Arrived, NumbersInv
  <2>3. \A i \in 1 .. Len(rx) : rx'[i].n = Len(published) + i
    BY <1>3 DEF Arrived, NumbersInv
  <2>4. Len(published) + Len(rx') = measured + 1
    BY <1>1, <1>3 DEF Arrived, NumbersInv
  <2>5. \A i \in 1 .. Len(rx') : rx'[i].n = Len(published) + i
    BY <2>1, <2>2, <2>3
  <2> QED
    BY <1>1, <2>4, <2>5 DEF NumbersInv
<1> QED
  BY <1>4, <1>5

\* So does the rest of a line complete the line that is there.
LEMMA QuietRest ==
  ASSUME TypeOK, PartsInv, NumbersInv, ArriveRest
  PROVE  PartsInv' /\ NumbersInv'
<1>1. rest /\ ~ rest' /\ UNCHANGED <<published, measured>>
  BY DEF ArriveRest, relayVars
<1>2. Completed
  BY <1>1, RestCompletes DEF PartsInv
<1> QED
  BY <1>1, <1>2 DEF PartsInv, NumbersInv, Completed

\* What the relay thread reads it publishes.
LEMMA QuietRead ==
  ASSUME TypeOK, PartsInv, NumbersInv, relayRead, ~ spoiled
  PROVE  PartsInv' /\ NumbersInv'
<1>1. FrontRead /\ UNCHANGED <<rest, measured>> /\ rx[1].part # "first" /\ Head(rx) = rx[1]
  BY ReadTakesFront DEF relayRead, Complete, deviceVars, FrontRead, Unread, Pushed, Resumed
<1>2. PartsInv'
  BY <1>1 DEF PartsInv, FrontRead
<1>3. published' = Append(published, rx[1])
  BY <1>1 DEF relayRead, PartsInv, FrontRead, Unread, Pushed, Resumed
<1>4. published \in Seq(Lines) /\ rx[1] \in Lines
  BY <1>1 DEF TypeOK, FrontRead
<1>5. /\ Len(published) \in Nat
      /\ Len(published') = Len(published) + 1
      /\ \A i \in 1 .. Len(published) : published'[i] = published[i]
      /\ published'[Len(published) + 1] = rx[1]
  BY <1>3, <1>4, AppendToSeq
<1>6. NumbersInv'
  <2>1. \A i \in 1 .. Len(published') : i \in 1 .. Len(published) \/ i = Len(published) + 1
    BY <1>5
  <2>2. rx[1].n = Len(published) + 1
    BY <1>1 DEF NumbersInv, FrontRead
  <2>3. \A i \in 1 .. Len(published') : published'[i].n = i
    BY <1>5, <2>1, <2>2 DEF NumbersInv
  <2>4. \A i \in 1 .. Len(rx') : rx'[i].n = Len(published) + (i + 1)
    BY <1>1 DEF NumbersInv, FrontRead
  <2>5. \A i \in 1 .. Len(rx') : rx'[i].n = Len(published') + i
    <3>1. \A i \in 1 .. Len(rx') : Len(published) + (i + 1) = Len(published') + i
      BY <1>5
    <3> QED
      BY <2>4, <3>1
  <2>6. Len(published') + Len(rx') = measured
    BY <1>1, <1>5 DEF NumbersInv, FrontRead
  <2> QED
    BY <1>1, <2>3, <2>5, <2>6 DEF NumbersInv
<1> QED
  BY <1>2, <1>6

\* Before the first query nothing is asked, torn or discarded.
LEMMA NoQueryStep == TypeOK /\ NoQueryInv /\ [Next]_vars => NoQueryInv'
<1> SUFFICES ASSUME TypeOK, NoQueryInv, [Next]_vars, queries' = 0
             PROVE  (qPc = "idle" /\ inbox = <<>> /\ tx = 0 /\ ~ spoiled)'
  BY DEF NoQueryInv
<1>1. ~ queryBegin
  BY DEF queryBegin, TypeOK
<1>2. queries = 0
  BY <1>1 DEF Next, DeviceStep, RelayStep, QueryStep, vars, queryVars, Measure, AnswerQuery,
              ArriveRest, Transmit, Unplug, relayPoll, relayBatch, relayRead, relayTimeout,
              relayLost, queryWrite, queryRead, queryTimeout, tornRead
<1>3. qPc = "idle" /\ inbox = <<>> /\ tx = 0 /\ ~ spoiled
  BY <1>2 DEF NoQueryInv
<1>4. ~ (QueryStep \/ tornRead \/ AnswerQuery \/ Transmit)
  BY <1>3 DEF QueryStep, queryWrite, queryRead, queryTimeout, tornRead, AnswerQuery, Transmit
<1> QED
  BY <1>1, <1>3, <1>4 DEF Next, DeviceStep, RelayStep, vars, deviceVars, relayVars, queryVars,
     Measure, ArriveRest, Unplug, relayPoll, relayBatch, relayRead, relayTimeout, relayLost

\* No other step of a quiet port changes what there is to publish.
LEMMA QuietStep == TypeOK /\ QuietInv /\ [Next]_vars => QuietInv'
<1> SUFFICES ASSUME TypeOK, QuietInv, [Next]_vars, Quiet'
             PROVE  (PartsInv /\ NumbersInv)'
  BY NoQueryStep DEF QuietInv
<1>1. ~ (queryBegin \/ Unplug)
  BY DEF Quiet, queryBegin, Unplug, TypeOK
<1>2. live /\ queries = 0
  BY <1>1 DEF Quiet, Next, DeviceStep, RelayStep, QueryStep, vars, deviceVars, queryVars, Measure,
              AnswerQuery, ArriveRest, Transmit, relayPoll, relayBatch, relayRead, relayTimeout,
              relayLost, queryWrite, queryRead, queryTimeout, tornRead
<1>3. qPc = "idle" /\ inbox = <<>> /\ tx = 0 /\ ~ spoiled
  BY <1>2 DEF QuietInv, NoQueryInv
<1>4. ~ (queryBegin \/ QueryStep \/ tornRead \/ AnswerQuery \/ Transmit \/ Unplug \/ relayLost)
  BY <1>1, <1>2, <1>3 DEF QueryStep, queryWrite, queryRead, queryTimeout, tornRead, AnswerQuery,
                          Transmit, relayLost, Noticed
<1>10. ~ slow
  BY <1>4 DEF Quiet, Next, DeviceStep, RelayStep, vars, Measure, ArriveRest, relayPoll, relayBatch,
              relayRead, relayTimeout
<1>11. PartsInv /\ NumbersInv
  BY <1>2, <1>10 DEF QuietInv, Quiet
<1>5. CASE Measure
  BY <1>5, <1>11, QuietMeasure
<1>6. CASE ArriveRest
  BY <1>6, <1>11, QuietRest
<1>7. CASE relayRead
  BY <1>3, <1>7, <1>11, QuietRead
<1>8. CASE relayTimeout \/ relayPoll \/ relayBatch \/ UNCHANGED vars
  <2>1. UNCHANGED <<rx, rest, measured, published>>
    <3>1. relayTimeout => rx' = rx
      BY DEF relayTimeout, Quiet
    <3> QED
      BY <1>8, <3>1 DEF relayTimeout, relayPoll, relayBatch, vars, deviceVars, relayVars
  <2> QED
    BY <1>11, <2>1 DEF PartsInv, NumbersInv
<1> QED
  BY <1>4, <1>5, <1>6, <1>7, <1>8 DEF Next, DeviceStep, RelayStep

\* Until a query flushes the port or a line comes too slowly, every measurement
\* is published or waits to be, in order, whatever the size of the batches.
THEOREM QuietLosesNothing == Spec => []QuietPortLossless
<1>1. ASSUME Init PROVE QuietInv
  BY <1>1 DEF Init, QuietInv, NoQueryInv, PartsInv, NumbersInv
<1>2. ASSUME TypeOK, QuietInv PROVE QuietPortLossless
  <2>1. published \in Seq(Lines) /\ rx \in Seq(Lines)
    BY <1>2 DEF TypeOK
  <2>2. /\ Len(published \o rx) = Len(published) + Len(rx)
        /\ \A i \in 1 .. Len(published) + Len(rx) :
              (published \o rx)[i] = IF i <= Len(published) THEN published[i]
                                     ELSE rx[i - Len(published)]
    BY <2>1
  <2>3. ASSUME Quiet, NEW i \in 1 .. measured PROVE (published \o rx)[i].n = i
    <3>1. Len(published) \in Nat /\ Len(rx) \in Nat /\ measured \in Nat
      BY <1>2, <2>1 DEF TypeOK
    <3>2. NumbersInv
      BY <1>2, <2>3 DEF QuietInv
    <3>3. CASE i <= Len(published)
      BY <2>2, <3>1, <3>2, <3>3 DEF NumbersInv
    <3>4. CASE i > Len(published)
      <4>1. i - Len(published) \in 1 .. Len(rx)
        BY <3>1, <3>2, <3>4 DEF NumbersInv
      <4>2. rx[i - Len(published)].n = Len(published) + (i - Len(published))
        BY <3>2, <4>1 DEF NumbersInv
      <4> QED
        BY <2>2, <3>1, <3>2, <3>4, <4>2 DEF NumbersInv
    <3>5. i <= Len(published) \/ i > Len(published)
      BY <3>1
    <3> QED
      BY <3>3, <3>4, <3>5, Zenon
  <2> QED
    BY <1>2, <2>2, <2>3 DEF QuietInv, QuietPortLossless, NumbersInv, Quiet
<1> QED
  BY <1>1, <1>2, QuietStep, TypeCorrect, PTL DEF Spec

-----------------------------------------------------------------------------
(***************************************************************************)
(* Numbers only grow along the way of a line: from the request thread over *)
(* the transmitter, the device and the port to the reader that takes it.   *)
(* So a line that was taken cannot come again.                             *)
(***************************************************************************)

\* Query n is older than the one being written and the one to transmit.
Behind(n) ==
  /\ n <= queries
  /\ qPc = "write" => n < queries
  /\ tx # 0 => n < tx

BehindNext(n) ==
  /\ n <= queries'
  /\ qPc' = "write" => n < queries'
  /\ tx' # 0 => n < tx'

\* The measurement has arrived, the reply belongs to a query already answered.
Known(l) ==
  /\ l.kind = "data" => l.n <= measured
  /\ l.kind = "reply" => Behind(l.n) /\ \A k \in 1 .. Len(inbox) : l.n < inbox[k]

InboxInv ==
  /\ tx <= queries
  /\ qPc = "write" => tx = 0
  /\ \A k \in 1 .. Len(inbox) : Behind(inbox[k])
  /\ \A j, k \in 1 .. Len(inbox) : j < k => inbox[j] < inbox[k]

\* A query that is behind stays behind.
LEMMA BehindStep ==
  ASSUME TypeOK, [Next]_vars, NEW n \in Nat, Behind(n)
  PROVE  BehindNext(n)
<1>0. queries \in Nat /\ tx \in Nat
  BY DEF TypeOK
<1>1. CASE UNCHANGED <<queries, qPc, tx>>
  BY <1>1 DEF Behind, BehindNext
<1>2. CASE UNCHANGED <<queries, qPc>> /\ tx' = 0
  BY <1>2 DEF Behind, BehindNext
<1>3. CASE UNCHANGED <<queries, tx>> /\ qPc' = "idle"
  BY <1>3 DEF Behind, BehindNext
<1>4. CASE queryBegin
  BY <1>0, <1>4 DEF queryBegin, Return, Behind, BehindNext, FlushIOBuffers
<1>5. CASE queryWrite
  BY <1>0, <1>5 DEF queryWrite, Return, Behind, BehindNext
<1>6. CASE DeviceStep \/ RelayStep \/ UNCHANGED vars
  BY <1>1, <1>2, <1>6 DEF DeviceStep, RelayStep, vars, queryVars, Measure, AnswerQuery, ArriveRest,
     Transmit, Unplug, relayPoll, relayBatch, relayRead, relayTimeout, relayLost, InBatch,
     Unread, Pushed, Resumed, TimedOut, Noticed
<1>7. CASE queryRead \/ queryTimeout \/ tornRead
  BY <1>1, <1>3, <1>7 DEF queryRead, queryTimeout, tornRead, Return, Unread, TimedOut
<1> QED
  BY <1>4, <1>5, <1>6, <1>7 DEF Next, QueryStep

\* What each step does to the queries that the device has.
LEMMA InboxSteps ==
  ASSUME TypeOK, [Next]_vars
  PROVE  \/ UNCHANGED inbox
         \/ inbox' = <<>>
         \/ Transmit /\ inbox' = Append(inbox, tx)
         \/ AnswerQuery /\ inbox # <<>> /\ inbox' = Tail(inbox)
BY DEF Next, DeviceStep, RelayStep, QueryStep, vars, deviceVars, Measure, AnswerQuery,
       ArriveRest, Transmit, Unplug, relayPoll, relayBatch, relayRead, relayTimeout,
       relayLost, queryBegin, queryWrite, queryRead, queryTimeout, tornRead, InBatch, Unread,
       Pushed, Resumed, TimedOut, Noticed, FlushIOBuffers

\* Queries are numbers.
LEMMA InboxTyped == TypeOK => inbox \in Seq(Nat) /\ tx \in Nat /\ Len(inbox) \in Nat
<1> SUFFICES ASSUME TypeOK PROVE inbox \in Seq(Nat) /\ tx \in Nat /\ Len(inbox) \in Nat
  OBVIOUS
<1>1. inbox \in Seq(1 .. MaxQueries)
  BY DEF TypeOK
<1>2. \A k \in 1 .. Len(inbox) : inbox[k] \in Nat
  BY <1>1, BoundsAssumption
<1> QED
  BY <1>1, <1>2 DEF TypeOK

\* The queries stay in order.
LEMMA InboxStep ==
  ASSUME TypeOK, InboxInv, [Next]_vars
  PROVE  InboxInv'
<1>1. (qPc = "write" => tx = 0)'
  BY DEF InboxInv, Next, DeviceStep, RelayStep, QueryStep, vars, queryVars, Measure, AnswerQuery,
         ArriveRest, Transmit, Unplug, relayPoll, relayBatch, relayRead, relayTimeout,
         relayLost, queryBegin, queryWrite, queryRead, queryTimeout, tornRead, Return, InBatch,
         Unread, Pushed, Resumed, TimedOut, Noticed, FlushIOBuffers
<1>2. tx' <= queries'
  <2>1. queries \in Nat /\ tx \in Nat /\ tx <= queries
    BY DEF TypeOK, InboxInv
  <2> QED
    BY <2>1 DEF Next, DeviceStep, RelayStep, QueryStep, vars, queryVars, Measure, AnswerQuery,
         ArriveRest, Transmit, Unplug, relayPoll, relayBatch, relayRead, relayTimeout,
         relayLost, queryBegin, queryWrite, queryRead, queryTimeout, tornRead, Return, InBatch,
         Unread, Pushed, Resumed, TimedOut, Noticed, FlushIOBuffers
<1>3. /\ inbox \in Seq(Nat) /\ Len(inbox) \in Nat /\ tx \in Nat
      /\ \A k \in 1 .. Len(inbox) : inbox[k] \in Nat
  BY InboxTyped
<1>4. \A k \in 1 .. Len(inbox) : BehindNext(inbox[k])
  BY <1>3, BehindStep DEF InboxInv
<1>5. /\ \A k \in 1 .. Len(inbox) : tx # 0 => inbox[k] < tx
      /\ \A j, k \in 1 .. Len(inbox) : j < k => inbox[j] < inbox[k]
      /\ tx <= queries /\ (qPc = "write" => tx = 0)
  BY DEF InboxInv, Behind
<1>6. SUFFICES /\ \A k \in 1 .. Len(inbox') : BehindNext(inbox'[k])
               /\ \A j, k \in 1 .. Len(inbox') : j < k => inbox'[j] < inbox'[k]
  BY <1>1, <1>2, <1>6 DEF InboxInv, Behind, BehindNext
<1>7. CASE UNCHANGED inbox
  BY <1>4, <1>5, <1>7
<1>8. CASE inbox' = <<>>
  BY <1>8
<1>9. CASE Transmit /\ inbox' = Append(inbox, tx)
  <2>1. tx # 0 /\ tx' = 0 /\ queries' = queries /\ qPc' = qPc
    BY <1>9 DEF Transmit, queryVars
  <2>2. BehindNext(tx)
    BY <1>5, <2>1 DEF BehindNext
  <2>3. /\ Len(inbox') = Len(inbox) + 1 /\ inbox'[Len(inbox) + 1] = tx
        /\ \A k \in 1 .. Len(inbox) : inbox'[k] = inbox[k]
        /\ \A k \in 1 .. Len(inbox') : k \in 1 .. Len(inbox) \/ k = Len(inbox) + 1
    BY <1>3, <1>9, AppendToSeq
  <2>4. \A k \in 1 .. Len(inbox') : BehindNext(inbox'[k])
    BY <1>4, <2>2, <2>3
  <2>5. ASSUME NEW j \in 1 .. Len(inbox'), NEW k \in 1 .. Len(inbox'), j < k
        PROVE  inbox'[j] < inbox'[k]
    <3>1. j \in 1 .. Len(inbox) /\ inbox'[j] = inbox[j]
      BY <1>3, <2>3, <2>5
    <3>2. CASE k \in 1 .. Len(inbox)
      BY <1>5, <2>3, <2>5, <3>1, <3>2
    <3>3. CASE k = Len(inbox) + 1
      BY <1>5, <2>1, <2>3, <3>1, <3>3
    <3> QED
      BY <2>3, <3>2, <3>3
  <2> QED
    BY <2>4, <2>5
<1>10. CASE inbox # <<>> /\ inbox' = Tail(inbox)
  <2>1. /\ Len(inbox') = Len(inbox) - 1
        /\ \A k \in 1 .. Len(inbox') : inbox'[k] = inbox[k + 1] /\ k + 1 \in 1 .. Len(inbox)
    BY <1>3, <1>10, TailOfSeq
  <2>2. \A k \in 1 .. Len(inbox') : BehindNext(inbox'[k])
    BY <1>4, <2>1
  <2>3. ASSUME NEW j \in 1 .. Len(inbox'), NEW k \in 1 .. Len(inbox'), j < k
        PROVE  inbox'[j] < inbox'[k]
    <3>1. j + 1 \in 1 .. Len(inbox) /\ k + 1 \in 1 .. Len(inbox) /\ j + 1 < k + 1
      BY <1>3, <2>1, <2>3
    <3>2. inbox[j + 1] < inbox[k + 1]
      BY <1>5, <3>1
    <3> QED
      BY <2>1, <3>2
  <2> QED
    BY <2>2, <2>3
<1> QED
  BY <1>7, <1>8, <1>9, <1>10, InboxSteps

KnownNext(l) ==
  /\ l.kind = "data" => l.n <= measured'
  /\ l.kind = "reply" => BehindNext(l.n) /\ \A k \in 1 .. Len(inbox') : l.n < inbox'[k]

\* What is known stays known.
LEMMA KnownStep ==
  ASSUME TypeOK, InboxInv, [Next]_vars, NEW l \in Lines, Known(l)
  PROVE  KnownNext(l)
<1>1. l.n \in Nat
  BY DEF Lines
<1>2. measured \in Nat /\ (measured' = measured \/ measured' = measured + 1)
  BY DEF TypeOK, Next, DeviceStep, RelayStep, QueryStep, vars, deviceVars, Measure, AnswerQuery,
         ArriveRest, Transmit, Unplug, relayPoll, relayBatch, relayRead, relayTimeout,
         relayLost, queryBegin, queryWrite, queryRead, queryTimeout, tornRead, InBatch, Unread,
         Pushed, Resumed, TimedOut, Noticed, FlushIOBuffers
<1>3. l.kind = "data" => l.n <= measured'
  BY <1>1, <1>2 DEF Known
<1>4. ASSUME l.kind = "reply" PROVE \A k \in 1 .. Len(inbox') : l.n < inbox'[k]
  <2>1. Behind(l.n) /\ \A k \in 1 .. Len(inbox) : l.n < inbox[k]
    BY <1>4 DEF Known
  <2>2. inbox \in Seq(Nat) /\ Len(inbox) \in Nat /\ tx \in Nat
    BY InboxTyped
  <2>3. CASE UNCHANGED inbox
    BY <2>1, <2>3
  <2>4. CASE inbox' = <<>>
    BY <2>4
  <2>5. CASE Transmit /\ inbox' = Append(inbox, tx)
    <3>1. l.n < tx
      BY <2>1, <2>5 DEF Transmit, Behind
    <3>2. /\ inbox'[Len(inbox) + 1] = tx
          /\ \A k \in 1 .. Len(inbox) : inbox'[k] = inbox[k]
          /\ \A k \in 1 .. Len(inbox') : k \in 1 .. Len(inbox) \/ k = Len(inbox) + 1
      BY <2>2, <2>5, AppendToSeq
    <3> QED
      BY <2>1, <3>1, <3>2
  <2>6. CASE inbox # <<>> /\ inbox' = Tail(inbox)
    <3>1. \A k \in 1 .. Len(inbox') : inbox'[k] = inbox[k + 1] /\ k + 1 \in 1 .. Len(inbox)
      BY <2>2, <2>6, TailOfSeq
    <3> QED
      BY <2>1, <3>1
  <2> QED
    BY <2>3, <2>4, <2>5, <2>6, InboxSteps
<1>5. l.kind = "reply" => BehindNext(l.n)
  BY <1>1, BehindStep DEF Known
<1> QED
  BY <1>3, <1>4, <1>5 DEF KnownNext

-----------------------------------------------------------------------------
(***************************************************************************)
(* The lines in the port are newer than those that were taken.             *)
(***************************************************************************)
Taken == consumed \cup {published[i] : i \in 1 .. Len(published)}

\* Line l is older than what comes out of the port from now on.
Older(l) ==
  \A i \in 1 .. Len(rx) : rx[i].part # "second" /\ rx[i].kind = l.kind => l.n < rx[i].n

TakenInv == \A l \in Taken : Known(l) /\ Older(l)

PortInv ==
  /\ \A i \in 1 .. Len(rx) : rx[i].part # "second" => Known(rx[i])
  /\ \A i, j \in 1 .. Len(rx) :
       i < j /\ rx[i].part # "second" /\ rx[j].part # "second" /\ rx[i].kind = rx[j].kind
         => rx[i].n < rx[j].n

UsedInv == InboxInv /\ TakenInv /\ PortInv

\* The line that arrives is newer than all that are known.
LEMMA NewestArrives ==
  ASSUME TypeOK, InboxInv, NEW l \in Lines, Known(l)
  PROVE  /\ Measure /\ l.kind = "data" => l.n < measured + 1
         /\ AnswerQuery /\ l.kind = "reply" => l.n < Head(inbox)
<1>1. l.n \in Nat /\ measured \in Nat
  BY DEF Lines, TypeOK
<1>2. AnswerQuery => inbox # <<>>
  BY DEF AnswerQuery
<1>3. inbox # <<>> => 1 \in 1 .. Len(inbox) /\ Head(inbox) = inbox[1]
  BY InboxTyped, TailOfSeq
<1> QED
  BY <1>1, <1>2, <1>3 DEF Known

OlderNext(l) ==
  \A i \in 1 .. Len(rx') : rx'[i].part # "second" /\ rx'[i].kind = l.kind => l.n < rx'[i].n

\* What is older than all that is in the port stays so.
LEMMA OlderStep ==
  ASSUME TypeOK, InboxInv, [Next]_vars, NEW l \in Lines, Known(l), Older(l)
  PROVE  OlderNext(l)
<1>1. Len(rx) \in Nat
  BY DEF TypeOK
<1>2. CASE Measure /\ Arrived("data", measured + 1)
  BY <1>1, <1>2, NewestArrives DEF Older, OlderNext, Arrived
<1>3. CASE AnswerQuery /\ Arrived("reply", Head(inbox))
  BY <1>1, <1>3, NewestArrives DEF Older, OlderNext, Arrived
<1>4. CASE ArriveRest
  <2>1. CASE Completed
    BY <2>1 DEF Older, OlderNext, Completed
  <2>2. CASE Arrived("data", 0) /\ rx'[Len(rx) + 1].part = "second"
    BY <1>1, <2>2 DEF Older, OlderNext, Arrived
  <2> QED
    BY <1>4, <2>1, <2>2, RestCompletes
<1>5. CASE FrontRead
  BY <1>5 DEF Older, OlderNext, FrontRead
<1>6. CASE rx' = <<>>
  BY <1>6 DEF OlderNext
<1>7. CASE rx' = rx
  BY <1>7 DEF Older, OlderNext
<1> QED
  BY <1>2, <1>3, <1>4, <1>5, <1>6, <1>7, PortSteps DEF vars

\* The front line is older than those behind it.
LEMMA FrontIsOlder ==
  ASSUME TypeOK, PortInv, FrontRead, Head(rx).part = "whole"
  PROVE  Head(rx) \in Lines /\ Known(Head(rx)) /\ OlderNext(Head(rx))
<1>1. Head(rx) = rx[1] /\ 1 \in 1 .. Len(rx) /\ rx[1] \in Lines
  BY DEF FrontRead, TypeOK
<1>2. Known(Head(rx))
  BY <1>1 DEF PortInv
<1>3. ASSUME NEW i \in 1 .. Len(rx'), rx'[i].part # "second", rx'[i].kind = rx[1].kind
      PROVE  rx[1].n < rx'[i].n
  <2>1. rx'[i] = rx[i + 1] /\ i + 1 \in 1 .. Len(rx) /\ 1 < i + 1
    BY <1>3 DEF FrontRead
  <2>2. rx[1].part # "second"
    BY <1>1
  <2> QED
    BY <1>1, <1>3, <2>1, <2>2 DEF PortInv
<1> QED
  BY <1>1, <1>2, <1>3 DEF OlderNext

\* The line that arrives is known, and newer than all in the port.
LEMMA PortAppend ==
  ASSUME TypeOK, InboxInv, PortInv, [Next]_vars,
         NEW k \in {"data", "reply"}, NEW m \in Nat, Arrived(k, m),
         \A l \in Lines : Known(l) /\ l.kind = k /\ rx'[Len(rx) + 1].part # "second" => l.n < m,
         rx'[Len(rx) + 1].part # "second" => KnownNext(rx'[Len(rx) + 1])
  PROVE  /\ \A i \in 1 .. Len(rx') : rx'[i].part # "second" => KnownNext(rx'[i])
         /\ \A i, j \in 1 .. Len(rx') :
              i < j /\ rx'[i].part # "second" /\ rx'[j].part # "second" /\ rx'[i].kind = rx'[j].kind
                => rx'[i].n < rx'[j].n
<1>1. Len(rx) \in Nat /\ \A i \in 1 .. Len(rx) : rx[i] \in Lines
  BY DEF TypeOK
<1>2. \A i \in 1 .. Len(rx') : i \in 1 .. Len(rx) \/ i = Len(rx) + 1
  BY <1>1 DEF Arrived
<1>3. \A i \in 1 .. Len(rx) : rx[i].part # "second" => Known(rx[i]) /\ KnownNext(rx[i])
  BY <1>1, KnownStep DEF PortInv
<1>4. \A i \in 1 .. Len(rx') : rx'[i].part # "second" => KnownNext(rx'[i])
  BY <1>2, <1>3 DEF Arrived
<1>5. ASSUME NEW i \in 1 .. Len(rx'), NEW j \in 1 .. Len(rx'), i < j,
             rx'[i].part # "second", rx'[j].part # "second", rx'[i].kind = rx'[j].kind
      PROVE  rx'[i].n < rx'[j].n
  <2>1. i \in 1 .. Len(rx) /\ rx'[i] = rx[i]
    BY <1>1, <1>2, <1>5 DEF Arrived
  <2>2. CASE j \in 1 .. Len(rx)
    BY <1>5, <2>1, <2>2 DEF PortInv, Arrived
  <2>3. CASE j = Len(rx) + 1
    BY <1>1, <1>3, <1>5, <2>1, <2>3 DEF Arrived
  <2> QED
    BY <1>2, <2>2, <2>3
<1> QED
  BY <1>4, <1>5

\* Every step leaves the lines in the port known and in order.
LEMMA PortStep ==
  ASSUME TypeOK, InboxInv, PortInv, [Next]_vars
  PROVE  PortInv'
<1> DEFINE InOrder == \A i, j \in 1 .. Len(rx') :
               i < j /\ rx'[i].part # "second" /\ rx'[j].part # "second" /\ rx'[i].kind = rx'[j].kind
                 => rx'[i].n < rx'[j].n
           AllKnown == \A i \in 1 .. Len(rx') : rx'[i].part # "second" => KnownNext(rx'[i])
<1>1. SUFFICES AllKnown /\ InOrder
  BY <1>1 DEF PortInv, Known, KnownNext, Behind, BehindNext
<1>2. Len(rx) \in Nat /\ measured \in Nat /\ \A i \in 1 .. Len(rx) : rx[i] \in Lines
  BY DEF TypeOK
<1>3. \A i \in 1 .. Len(rx) : rx[i].part # "second" => KnownNext(rx[i])
  BY <1>2, KnownStep DEF PortInv
<1>4. CASE Measure /\ Arrived("data", measured + 1)
  <2>1. KnownNext(rx'[Len(rx) + 1])
    BY <1>2, <1>4 DEF Measure, Arrived, KnownNext
  <2>2. \A l \in Lines : Known(l) /\ l.kind = "data" => l.n < measured + 1
    BY <1>4, NewestArrives
  <2> HIDE DEF AllKnown, InOrder
  <2> QED
    BY <1>2, <1>4, <2>1, <2>2, PortAppend DEF AllKnown, InOrder
<1>5. CASE AnswerQuery /\ Arrived("reply", Head(inbox))
  <2>1. inbox # <<>> /\ inbox' = Tail(inbox)
    BY <1>5 DEF AnswerQuery
  <2>2. /\ Head(inbox) = inbox[1] /\ 1 \in 1 .. Len(inbox) /\ inbox[1] \in Nat
        /\ \A k \in 1 .. Len(inbox') : inbox'[k] = inbox[k + 1] /\ k + 1 \in 1 .. Len(inbox) /\ 1 < k + 1
    BY <2>1, InboxTyped, TailOfSeq
  <2>3. BehindNext(Head(inbox))
    BY <2>2, BehindStep DEF InboxInv
  <2>4. \A k \in 1 .. Len(inbox') : Head(inbox) < inbox'[k]
    BY <2>2 DEF InboxInv
  <2>5. KnownNext(rx'[Len(rx) + 1])
    BY <1>5, <2>3, <2>4 DEF Arrived, KnownNext
  <2>6. \A l \in Lines : Known(l) /\ l.kind = "reply" => l.n < Head(inbox)
    BY <1>5, NewestArrives
  <2> HIDE DEF AllKnown, InOrder
  <2> QED
    BY <1>5, <2>2, <2>5, <2>6, PortAppend DEF AllKnown, InOrder
<1>6. CASE ArriveRest
  <2>1. CASE Completed
    <3>1. AllKnown
      BY <1>3, <2>1 DEF Completed, KnownNext
    <3>2. InOrder
      BY <2>1 DEF Completed, PortInv
    <3> QED
      BY <3>1, <3>2
  <2>2. CASE Arrived("data", 0) /\ rx'[Len(rx) + 1].part = "second"
    <3> HIDE DEF AllKnown, InOrder
    <3> QED
      BY <2>2, PortAppend DEF AllKnown, InOrder
  <2> QED
    BY <1>6, <2>1, <2>2, RestCompletes
<1>7. CASE FrontRead
  <2>1. AllKnown
    BY <1>3, <1>7 DEF FrontRead
  <2>2. ASSUME NEW i \in 1 .. Len(rx'), NEW j \in 1 .. Len(rx'), i < j,
               rx'[i].part # "second", rx'[j].part # "second", rx'[i].kind = rx'[j].kind
        PROVE  rx'[i].n < rx'[j].n
    <3>1. /\ i + 1 \in 1 .. Len(rx) /\ j + 1 \in 1 .. Len(rx) /\ i + 1 < j + 1
          /\ rx'[i] = rx[i + 1] /\ rx'[j] = rx[j + 1]
      BY <1>2, <1>7, <2>2 DEF FrontRead
    <3> QED
      BY <2>2, <3>1 DEF PortInv
  <2> QED
    BY <2>1, <2>2
<1>8. CASE rx' = <<>>
  BY <1>8
<1>9. CASE rx' = rx
  BY <1>3, <1>9 DEF PortInv
<1> HIDE DEF AllKnown, InOrder
<1> QED
  BY <1>4, <1>5, <1>6, <1>7, <1>8, <1>9, PortSteps DEF vars

\* Only a line that a reader took joins those that were taken.
LEMMA TakenSteps ==
  ASSUME TypeOK, [Next]_vars
  PROVE  \/ UNCHANGED <<published, consumed>>
         \/ /\ FrontRead /\ Head(rx).part = "whole"
            /\ \/ published' = Append(published, Head(rx)) /\ UNCHANGED consumed
               \/ consumed' = consumed \cup {Head(rx)} /\ UNCHANGED published
<1>1. CASE relayRead
  BY <1>1, ReadTakesFront DEF relayRead, queryVars, Unread, Pushed, Resumed
<1>2. CASE queryRead
  BY <1>2, ReadTakesFront DEF queryRead, Return, relayVars, Unread
<1>3. CASE queryBegin \/ queryWrite \/ queryTimeout \/ tornRead
  BY <1>3 DEF queryBegin, queryWrite, queryTimeout, tornRead, Return, NoReturn, relayVars
<1>4. CASE DeviceStep \/ relayPoll \/ relayBatch \/ relayTimeout \/ relayLost \/ UNCHANGED vars
  BY <1>4 DEF DeviceStep, vars, relayVars, queryVars, Measure, AnswerQuery, ArriveRest,
              Transmit, Unplug, relayPoll, relayBatch, relayTimeout, relayLost, InBatch,
              TimedOut, Noticed
<1> QED
  BY <1>1, <1>2, <1>3, <1>4 DEF Next, RelayStep, QueryStep

\* The lines taken are lines.
LEMMA TakenTyped ==
  ASSUME TypeOK
  PROVE  /\ Taken \subseteq Lines
         /\ \A i \in 1 .. Len(published) : published[i] \in Taken
         /\ published \in Seq(Lines) /\ Len(published) \in Nat
BY DEF TypeOK, Taken

\* Lines that were taken stay older than those in the port.
LEMMA TakenStep ==
  ASSUME TypeOK, UsedInv, [Next]_vars
  PROVE  TakenInv'
<1>1. \A l \in Taken : KnownNext(l) /\ OlderNext(l)
  BY TakenTyped, KnownStep, OlderStep DEF UsedInv, TakenInv
<1>2. SUFFICES \A l \in Taken' : KnownNext(l) /\ OlderNext(l)
  BY <1>2 DEF TakenInv, Known, KnownNext, Behind, BehindNext, Older, OlderNext
<1>3. CASE UNCHANGED <<published, consumed>>
  BY <1>1, <1>3 DEF Taken
<1>4. CASE FrontRead /\ Head(rx).part = "whole" /\ Taken' = Taken \cup {Head(rx)}
  <2>1. KnownNext(Head(rx)) /\ OlderNext(Head(rx))
    BY <1>4, FrontIsOlder, KnownStep DEF UsedInv
  <2> QED
    BY <1>1, <1>4, <2>1
<1>5. ASSUME published' = Append(published, Head(rx)), UNCHANGED consumed, FrontRead
      PROVE  Taken' = Taken \cup {Head(rx)}
  <2>1. Head(rx) \in Lines
    BY <1>5 DEF TypeOK, FrontRead
  <2>2. /\ Len(published) \in Nat /\ Len(published') = Len(published) + 1
        /\ \A i \in 1 .. Len(published) : published'[i] = published[i]
        /\ published'[Len(published) + 1] = Head(rx)
    BY <1>5, <2>1, TakenTyped, AppendToSeq
  <2> QED
    BY <1>5, <2>2 DEF Taken
<1>6. ASSUME consumed' = consumed \cup {Head(rx)}, UNCHANGED published
      PROVE  Taken' = Taken \cup {Head(rx)}
  BY <1>6 DEF Taken
<1> QED
  BY <1>3, <1>4, <1>5, <1>6, TakenSteps

\* What is in the port is newer than what was taken, in every state.
LEMMA Used == Spec => []UsedInv
<1>1. ASSUME Init PROVE UsedInv
  <2>1. Taken = {}
    BY <1>1 DEF Init, Taken
  <2> QED
    BY <1>1, <2>1 DEF Init, UsedInv, InboxInv, TakenInv, PortInv
<1>2. TypeOK /\ UsedInv /\ [Next]_vars => UsedInv'
  BY InboxStep, PortStep, TakenStep DEF UsedInv
<1> QED
  BY <1>1, <1>2, TypeCorrect, PTL DEF Spec

-----------------------------------------------------------------------------
(***************************************************************************)
(* After a query the relay thread may have a piece of a torn line.  Until  *)
(* it gives up or spoils a line with it, it reads nothing else, so all     *)
(* that arrived after the query is still in the port.                      *)
(***************************************************************************)
After == live /\ qPc = "idle" /\ ~ slow

SpoilInv ==
  After => /\ \A m \in returned + 1 .. measured : spoiled => Among(m, rx)
           /\ \A m \in returned + 2 .. measured : Among(m, published) \/ Among(m, rx)

\* A measurement is still in the port after a step that brings or completes one.
LEMMA AmongGrows ==
  ASSUME TypeOK, NEW m, Among(m, rx),
         Completed \/ \E k, l : Arrived(k, l)
  PROVE  Among(m, rx')
<1>1. PICK i \in 1 .. Len(rx) : rx[i].kind = "data" /\ rx[i].n = m /\ rx[i].part # "second"
  BY DEF Among
<1>2. CASE Completed
  BY <1>1, <1>2 DEF Among, Completed
<1>3. CASE \E k, l : Arrived(k, l)
  <2>1. i \in 1 .. Len(rx') /\ rx'[i] = rx[i]
    BY <1>1, <1>3 DEF Arrived, TypeOK
  <2> QED
    BY <1>1, <2>1 DEF Among
<1> QED
  BY <1>2, <1>3

\* Reading takes only the front line.
LEMMA AmongRead ==
  ASSUME TypeOK, NEW m, Among(m, rx), FrontRead
  PROVE  Among(m, rx') \/ (rx[1].kind = "data" /\ rx[1].n = m /\ rx[1].part # "second")
<1>1. PICK i \in 1 .. Len(rx) : rx[i].kind = "data" /\ rx[i].n = m /\ rx[i].part # "second"
  BY DEF Among
<1>2. CASE i = 1
  BY <1>1, <1>2
<1>3. CASE i # 1
  <2>1. i - 1 \in 1 .. Len(rx') /\ rx'[i - 1] = rx[i]
    BY <1>1, <1>3 DEF FrontRead
  <2> QED
    BY <1>1, <2>1 DEF Among
<1> QED
  BY <1>2, <1>3

\* What the relay thread does with the line that it takes.
LEMMA SpoilRead ==
  ASSUME TypeOK, PortInv, SpoilInv, After, relayRead
  PROVE  \A m \in returned + 2 .. measured : Among(m, published') \/ Among(m, rx')
<1> SUFFICES ASSUME NEW m \in returned + 2 .. measured
             PROVE  Among(m, published') \/ Among(m, rx')
  OBVIOUS
<1>1. FrontRead /\ Len(rx) \in Nat /\ returned \in Nat /\ measured \in Nat /\ m \in Nat
  BY ReadTakesFront DEF relayRead, Unread, Resumed, TypeOK
<1>2. Among(m, published) \/ Among(m, rx)
  BY DEF SpoilInv
<1>3. CASE Head(rx).part = "whole" /\ ~ spoiled
  <2>1. published' = Append(published, rx[1]) /\ rx[1] \in Lines /\ published \in Seq(Lines)
    BY <1>1, <1>3 DEF relayRead, Pushed, FrontRead, TypeOK
  <2>2. /\ Len(published) \in Nat /\ Len(published') = Len(published) + 1
        /\ \A i \in 1 .. Len(published) : published'[i] = published[i]
        /\ published'[Len(published) + 1] = rx[1]
    BY <2>1, AppendToSeq
  <2>3. CASE Among(m, published)
    BY <2>2, <2>3 DEF Among
  <2>4. CASE Among(m, rx)
    <3>1. Among(m, rx') \/ (rx[1].kind = "data" /\ rx[1].n = m /\ rx[1].part # "second")
      BY <1>1, <2>4, AmongRead
    <3> QED
      BY <2>2, <3>1 DEF Among
  <2> QED
    BY <1>2, <2>3, <2>4
<1>4. CASE spoiled
  <2>1. UNCHANGED published
    BY <1>4 DEF relayRead
  <2>2. Among(m, rx) /\ Among(returned + 1, rx)
    BY <1>1, <1>4 DEF SpoilInv
  <2>3. PICK j \in 1 .. Len(rx) :
          rx[j].kind = "data" /\ rx[j].n = returned + 1 /\ rx[j].part # "second"
    BY <2>2 DEF Among
  <2>4. ~ (rx[1].kind = "data" /\ rx[1].n = m /\ rx[1].part # "second")
    <3>1. SUFFICES ASSUME rx[1].kind = "data" /\ rx[1].n = m /\ rx[1].part # "second" PROVE FALSE
      OBVIOUS
    <3>2. 1 < j /\ 1 \in 1 .. Len(rx)
      BY <1>1, <2>3, <3>1
    <3>3. rx[1].n < rx[j].n
      BY <2>3, <3>1, <3>2 DEF PortInv
    <3> QED
      BY <1>1, <2>3, <3>1, <3>3
  <2> QED
    BY <1>1, <2>1, <2>2, <2>4, AmongRead
<1>5. CASE Head(rx).part = "second" /\ ~ spoiled
  <2>1. UNCHANGED published
    BY <1>5 DEF relayRead
  <2>2. rx[1].part = "second"
    BY <1>1, <1>5 DEF FrontRead
  <2> QED
    BY <1>1, <1>2, <2>1, <2>2, AmongRead
<1> QED
  BY <1>3, <1>4, <1>5 DEF relayRead

\* A measurement that arrives is in the port.
LEMMA SpoilMeasure ==
  ASSUME TypeOK, SpoilInv, After, Measure
  PROVE  SpoilInv'
<1>1. /\ Arrived("data", measured + 1) /\ rx'[Len(rx) + 1].part \in {"whole", "first"}
      /\ measured' = measured + 1 /\ UNCHANGED <<published, spoiled, returned>>
      /\ measured \in Nat /\ returned \in Nat /\ Len(rx) \in Nat
  <2>1. measured + 1 \in Nat /\ Arrive("data", measured + 1)
    BY DEF Measure, TypeOK
  <2> QED
    BY <2>1, ArriveAppends DEF Measure, relayVars, queryVars, TypeOK
<1>2. Among(measured + 1, rx')
  BY <1>1 DEF Among, Arrived
<1>3. \A m : Among(m, rx) => Among(m, rx')
  BY <1>1, AmongGrows
<1>4. ASSUME NEW m \in returned' + 1 .. measured', spoiled' PROVE Among(m, rx')
  <2>1. m = measured + 1 \/ m \in returned + 1 .. measured
    BY <1>1
  <2> QED
    BY <1>1, <1>2, <1>3, <1>4, <2>1 DEF SpoilInv
<1>5. ASSUME NEW m \in returned' + 2 .. measured' PROVE Among(m, published') \/ Among(m, rx')
  <2>1. m = measured + 1 \/ m \in returned + 2 .. measured
    BY <1>1
  <2> QED
    BY <1>1, <1>2, <1>3, <2>1 DEF SpoilInv
<1> QED
  BY <1>4, <1>5 DEF SpoilInv

\* Every step leaves after a query what the relay thread will find.
LEMMA SpoilStep ==
  ASSUME TypeOK, PortInv, SpoilInv, [Next]_vars
  PROVE  SpoilInv'
<1> SUFFICES ASSUME After' PROVE SpoilInv'
  BY DEF SpoilInv
<1>1. CASE queryBegin \/ QueryStep \/ tornRead
  <2>1. UNCHANGED measured /\ returned' = measured
    BY <1>1 DEF After, queryBegin, QueryStep, queryWrite, queryRead, queryTimeout, tornRead,
                Return, deviceVars
  <2>2. measured \in Nat
    BY DEF TypeOK
  <2> QED
    BY <2>1, <2>2 DEF SpoilInv
<1>2. CASE DeviceStep \/ RelayStep \/ UNCHANGED vars
  <2>1. ~ Unplug
    BY DEF After, Unplug
  <2>2. After /\ UNCHANGED returned
    <3>1. live /\ qPc = "idle" /\ UNCHANGED returned
      BY <1>2, <2>1 DEF After, DeviceStep, RelayStep, vars, deviceVars, queryVars, Measure,
         AnswerQuery, ArriveRest, Transmit, relayPoll, relayBatch, relayRead, relayTimeout, relayLost
    <3>2. relayTimeout => ~ slow
      BY Zenon DEF After, relayTimeout
    <3>3. ~ relayTimeout => UNCHANGED slow
      BY <1>2, <2>1 DEF DeviceStep, RelayStep, vars, Measure,
         AnswerQuery, ArriveRest, Transmit, relayPoll, relayBatch, relayRead, relayLost
    <3> QED
      BY <3>1, <3>2, <3>3 DEF After
  <2>3. CASE Measure
    BY <2>2, <2>3, SpoilMeasure
  <2>4. CASE AnswerQuery \/ ArriveRest
    <3>1. UNCHANGED <<measured, published, spoiled>>
      BY <2>4 DEF AnswerQuery, ArriveRest, relayVars
    <3>2. ASSUME AnswerQuery PROVE Arrived("reply", Head(inbox))
      <4>1. Arrive("reply", Head(inbox)) /\ inbox # <<>>
        BY <3>2 DEF AnswerQuery
      <4>2. Head(inbox) \in Nat
        BY <4>1, InboxTyped, TailOfSeq
      <4> QED
        BY <4>1, <4>2, ArriveAppends
    <3>3. \A m : Among(m, rx) => Among(m, rx')
      BY <2>4, <3>2, AmongGrows, RestCompletes
    <3> QED
      BY <2>2, <3>1, <3>3 DEF SpoilInv
  <2>5. CASE relayRead
    <3>1. spoiled' = FALSE /\ UNCHANGED measured
      BY <2>5 DEF relayRead, deviceVars
    <3> QED
      BY <2>2, <2>5, <3>1, SpoilRead DEF SpoilInv
  <2>6. CASE relayTimeout
    <3>1. rx' = rx
      BY <2>6, Zenon DEF After, relayTimeout
    <3>2. spoiled' = FALSE /\ UNCHANGED <<measured, published>>
      BY <2>6 DEF relayTimeout, deviceVars
    <3> QED
      BY <2>2, <3>1, <3>2 DEF SpoilInv
  <2>7. CASE Transmit \/ relayPoll \/ relayBatch \/ relayLost \/ UNCHANGED vars
    <3>1. UNCHANGED <<rx, measured, published, spoiled>>
      BY <2>7 DEF Transmit, relayPoll, relayBatch, relayLost, vars, deviceVars, relayVars
    <3> QED
      BY <2>2, <3>1 DEF SpoilInv
  <2> QED
    BY <1>2, <2>1, <2>3, <2>4, <2>5, <2>6, <2>7 DEF DeviceStep, RelayStep
<1> QED
  BY <1>1, <1>2 DEF Next

\* A query that returned has spoiled at most the next measurement, whatever it
\* left in the port and in the relay thread.
THEOREM OneLineSpoiled == Spec => []QuerySpoilsOneLine
<1>1. ASSUME Init PROVE SpoilInv
  BY <1>1 DEF Init, SpoilInv
<1>2. TypeOK /\ UsedInv /\ SpoilInv /\ [Next]_vars => SpoilInv'
  BY SpoilStep DEF UsedInv
<1>3. SpoilInv => QuerySpoilsOneLine
  BY DEF SpoilInv, After, QuerySpoilsOneLine
<1> QED
  BY <1>1, <1>2, <1>3, TypeCorrect, Used, PTL DEF Spec

-----------------------------------------------------------------------------
(***************************************************************************)
(* The port implements the exchange of queries and answers that the        *)
(* request thread relies on.                                               *)
(***************************************************************************)

\* What arrives is a measurement or the reply to a query; those count from 1.
ReplyInv ==
  \A i \in 1 .. Len(rx) : rx[i].kind # "error" /\ (rx[i].kind = "reply" => rx[i].n > 0)

\* Only queries are answered.
LEMMA ReplyStep ==
  ASSUME TypeOK, ReplyInv, [Next]_vars
  PROVE  ReplyInv'
<1>0. Len(rx) \in Nat
  BY DEF TypeOK
<1>1. CASE Measure /\ Arrived("data", measured + 1)
  BY <1>0, <1>1 DEF ReplyInv, Arrived
<1>2. CASE AnswerQuery /\ Arrived("reply", Head(inbox))
  <2>1. Head(inbox) > 0
    <3>1. inbox \in Seq(1 .. MaxQueries) /\ inbox # <<>>
      BY <1>2 DEF AnswerQuery, TypeOK
    <3>2. Head(inbox) \in 1 .. MaxQueries
      BY <3>1, TailOfSeq, Zenon
    <3> QED
      BY <3>2, BoundsAssumption
  <2> QED
    BY <1>0, <1>2, <2>1 DEF ReplyInv, Arrived
<1>3. CASE ArriveRest
  <2>1. CASE Completed
    BY <1>0, <2>1 DEF ReplyInv, Completed
  <2>2. CASE Arrived("data", 0)
    BY <1>0, <2>2 DEF ReplyInv, Arrived
  <2> QED
    BY <1>3, <2>1, <2>2, RestCompletes
<1>4. CASE FrontRead
  BY <1>4 DEF ReplyInv, FrontRead
<1>5. CASE rx' = <<>> \/ rx' = rx
  BY <1>5 DEF ReplyInv
<1>6. UNCHANGED vars => rx' = rx
  BY DEF vars
<1> QED
  BY <1>1, <1>2, <1>3, <1>4, <1>5, <1>6, PortSteps

\* No reply has number 0 in any state.
LEMMA RepliesNumbered == Spec => []ReplyInv
<1>1. Init => ReplyInv
  BY DEF Init, ReplyInv
<1>2. TypeOK /\ ReplyInv /\ [Next]_vars => ReplyInv'
  BY ReplyStep
<1> QED
  BY <1>1, <1>2, TypeCorrect, PTL DEF Spec

\* The line that a query returns is a reply to it or to an older query, newer
\* than every reply returned before, or a measurement that arrived meanwhile.
LEMMA FrontIsAnswer ==
  ASSUME TypeOK, FreshInv, UsedInv, ReplyInv, qPc # "idle", FrontRead, Head(rx).part = "whole"
  PROVE  Shown(Head(rx)) \in {r \in Asked!Replies : Asked!New(r)} \cup Asked!FreshMeasurements
<1>1. /\ Head(rx) \in Lines /\ Known(Head(rx))
      /\ Head(rx) = rx[1] /\ 1 \in 1 .. Len(rx) /\ rx[1].part # "second"
  <2>1. Head(rx) = rx[1] /\ 1 \in 1 .. Len(rx)
    BY DEF FrontRead
  <2>2. rx[1] \in Lines /\ rx[1].part # "second"
    BY <2>1 DEF TypeOK
  <2>3. Known(rx[1])
    BY <2>1, <2>2 DEF UsedInv, PortInv
  <2> QED
    BY <2>1, <2>2, <2>3
<1>2. /\ Head(rx).kind \in {"data", "reply"} /\ Head(rx).n \in Nat
      /\ queries \in Nat /\ measured \in Nat /\ since \in Nat
  <2>1. Head(rx).kind \in {"data", "reply", "error"} /\ Head(rx).n \in Nat
    BY <1>1 DEF Lines
  <2>2. Head(rx).kind # "error"
    BY <1>1 DEF ReplyInv
  <2> QED
    BY <2>1, <2>2 DEF TypeOK
<1>3. CASE Head(rx).kind = "data"
  <2>1. Head(rx).n \in since + 1 .. measured
    BY <1>1, <1>2, <1>3 DEF Known, FreshInv, PendingInv
  <2>2. Shown(Head(rx)) = Asked!Measurement(Head(rx).n)
    BY <1>3 DEF Shown, Asked!Measurement
  <2> QED
    BY <2>1, <2>2 DEF Asked!FreshMeasurements
<1>4. CASE Head(rx).kind = "reply"
  <2>1. Head(rx).n \in 1 .. queries
    BY <1>1, <1>2, <1>4 DEF Known, Behind, ReplyInv
  <2>2. Shown(Head(rx)) = Asked!Reply(Head(rx).n)
    BY <1>4 DEF Shown, Asked!Reply
  <2>3. \A l \in consumed : l.kind = "reply" => l.n < Head(rx).n
    BY <1>1, <1>4 DEF UsedInv, TakenInv, Taken, Older
  <2>4. Asked!New(Shown(Head(rx)))
    BY <2>3 DEF Asked!New, Shown
  <2> QED
    BY <2>1, <2>2, <2>4 DEF Asked!Replies
<1> QED
  BY <1>2, <1>3, <1>4

\* A query that returns an error, and one that returns a line, end an exchange.
LEMMA ReturnEnds ==
  ASSUME qPc # "idle", UNCHANGED <<measured, queries, since>>, NEW r, Return(r),
         r = Error \/ /\ r # Error
                      /\ Shown(r) \in {a \in Asked!Replies : Asked!New(a)}
                                        \cup Asked!FreshMeasurements
  PROVE  Asked!End
<1>1. qPc' = "idle" /\ result' = r
  BY DEF Return
<1>2. CASE r = Error
  BY <1>1, <1>2 DEF Return, Asked!End, Shown, Error, Asked!Error
<1>3. CASE r # Error
  <2>1. {Shown(l) : l \in consumed'} = {Shown(l) : l \in consumed} \cup {Shown(r)}
    BY <1>3 DEF Return
  <2> QED
    BY <1>1, <1>3, <2>1 DEF Asked!End
<1> QED
  BY <1>2, <1>3

\* Each step of the port is a step of the exchange or none.
LEMMA ExchangeStep ==
  ASSUME TypeOK, FreshInv, UsedInv, ReplyInv, [Next]_vars
  PROVE  [Asked!Next]_(Asked!vars)
<1>1. CASE Measure
  BY <1>1 DEF Measure, queryVars, Asked!Next, Asked!Measure
<1>2. CASE queryBegin
  BY <1>2 DEF queryBegin, Return, NoReturn, deviceVars, Shown, Error,
              Asked!Next, Asked!Begin, Asked!Error
<1>3. CASE queryRead
  <2>1. qPc # "idle" /\ FrontRead /\ UNCHANGED <<measured, queries, since>>
    BY <1>3, ReadTakesFront DEF queryRead, Unread, deviceVars
  <2>2. CASE Head(rx).part = "whole" /\ ~ dirty
    <3>1. Return(Head(rx))
      BY <1>3, <2>2 DEF queryRead
    <3> QED
      BY <2>1, <2>2, <3>1, FrontIsAnswer, ReturnEnds DEF Asked!Next
  <2>3. CASE ~ (Head(rx).part = "whole" /\ ~ dirty)
    <3>1. Return(Error)
      BY <1>3, <2>3 DEF queryRead
    <3> QED
      BY <2>1, <3>1, ReturnEnds DEF Asked!Next
  <2> QED
    BY <2>2, <2>3
<1>4. CASE (queryWrite \/ queryTimeout \/ tornRead) /\ Return(Error)
  <2>1. qPc # "idle" /\ UNCHANGED <<measured, queries, since>>
    BY <1>4 DEF queryWrite, queryTimeout, tornRead, deviceVars
  <2> QED
    BY <1>4, <2>1, ReturnEnds DEF Asked!Next
<1>5. CASE UNCHANGED <<measured, queries, since, result, consumed>> /\ (qPc' # "idle" <=> qPc # "idle")
  BY <1>5 DEF Asked!vars, Shown
<1>6. CASE queryWrite \/ queryTimeout \/ tornRead
  BY <1>4, <1>5, <1>6 DEF queryWrite, queryTimeout, tornRead, NoReturn, deviceVars
<1>7. CASE AnswerQuery \/ ArriveRest \/ Transmit \/ Unplug \/ RelayStep \/ UNCHANGED vars
  BY <1>5, <1>7 DEF RelayStep, vars, deviceVars, queryVars, AnswerQuery, ArriveRest, Transmit,
                    Unplug, relayPoll, relayBatch, relayRead, relayTimeout, relayLost
<1> QED
  BY <1>1, <1>2, <1>3, <1>6, <1>7 DEF Next, DeviceStep, QueryStep

\* What a query returns is what the request thread relies on.
THEOREM QueriesAnswered == Spec => ImplementsExchange
<1>1. Init => Asked!Init
  BY DEF Init, Asked!Init, Shown, Error, Asked!Error
<1>2. TypeOK /\ FreshInv /\ UsedInv /\ ReplyInv /\ [Next]_vars => [Asked!Next]_(Asked!vars)
  BY ExchangeStep
<1> QED
  BY <1>1, <1>2, TypeCorrect, Fresh, Used, RepliesNumbered, PTL
     DEF Spec, ImplementsExchange, Asked!Spec
=============================================================================
