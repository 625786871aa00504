---------------------------- MODULE StreamProofs ----------------------------
(***************************************************************************)
(* What holds of Stream for any number of channels, lines and consumers,   *)
(* and for ways of any depth.                                              *)
(***************************************************************************)
EXTENDS Stream, SequenceFacts

-----------------------------------------------------------------------------
(***************************************************************************)
(* Texts: a message is cut where topic and data were put together.         *)
(***************************************************************************)
\* Topics are texts without a separator.
LEMMA TopicTyped ==
  ASSUME NEW n \in Line, made \in Seq(Channel), n <= Len(made)
  PROVE  Topic(n) \in Seq(Char) /\ Topic(n) \in Seq(Char \ {"#"})
<1>1. made[n] \in Channel
  BY DEF Line
<1>2. NameOf[made[n]] \in Seq(Char \ {"#"}) /\ NameOf[made[n]] \in Seq(Char)
  BY <1>1, TextsAssumption
<1>3. /\ <<"/sensor", "s", "/">> \in Seq(Char \ {"#"})
      /\ <<"/sensor", "s", "/">> \in Seq(Char)
  BY BaseAssumption
<1> QED
  BY <1>2, <1>3, ConcatOfSeqs DEF Topic

\* The first separator of a message stands between its topic and its data.
LEMMA SplitWhole ==
  ASSUME NEW n \in Line, made \in Seq(Channel), n <= Len(made)
  PROVE  splitMessage(n) = [line |-> n, topic |-> Topic(n), data |-> Text[n]]
<1> DEFINE t == Topic(n)
           h == <<"#">>
           d == Text[n]
           msg == (t \o h) \o d
<1>1. t \in Seq(Char) /\ Len(t) \in Nat /\ \A k \in 1 .. Len(t) : t[k] # "#"
  <2>1. t \in Seq(Char) /\ t \in Seq(Char \ {"#"})
    BY TopicTyped
  <2>2. \A k \in 1 .. Len(t) : t[k] \in Char \ {"#"}
    BY <2>1
  <2> QED
    BY <2>1, <2>2
<1>h. h \in Seq(Char) /\ Len(h) = 1 /\ h[1] = "#" /\ 1 \in 1 .. Len(h)
  BY TextsAssumption
<1>d. d \in Seq(Char)
  BY TextsAssumption DEF Line
<1> HIDE DEF t, h, d
<1>2. /\ (t \o h) \in Seq(Char)
      /\ Len(t) \in Nat
      /\ Len(t \o h) = Len(t) + 1
      /\ \A i \in 1 .. Len(t) : (t \o h)[i] = t[i]
      /\ (t \o h)[Len(t) + 1] = "#"
  <2>0. t \in Seq(Char) /\ h \in Seq(Char)
    BY <1>1, <1>h
  <2>1. /\ (t \o h) \in Seq(Char) /\ Len(t) \in Nat /\ Len(t \o h) = Len(t) + Len(h)
        /\ \A i \in 1 .. Len(t) : (t \o h)[i] = t[i]
        /\ \A i \in 1 .. Len(h) : (t \o h)[Len(t) + i] = h[i]
    BY <2>0, ConcatOfSeqs
  <2> QED
    BY <1>h, <2>1
<1>3. /\ msg \in Seq(Char)
      /\ Len(d) \in Nat
      /\ Len(msg) = Len(t) + 1 + Len(d)
      /\ \A i \in 1 .. Len(t) + 1 : msg[i] = (t \o h)[i]
  <2>1. /\ msg \in Seq(Char) /\ Len(d) \in Nat /\ Len(msg) = Len(t \o h) + Len(d)
        /\ \A i \in 1 .. Len(t \o h) : msg[i] = (t \o h)[i]
    BY <1>d, <1>2, ConcatOfSeqs
  <2> QED
    BY <1>2, <2>1
<1> HIDE DEF msg
<1>4. /\ Len(t) + 1 \in 1 .. Len(msg)
      /\ msg[Len(t) + 1] = "#"
      /\ \A k \in 1 .. Len(t) : msg[k] # "#"
  <2>1. Len(t) + 1 \in 1 .. Len(msg) /\ msg[Len(t) + 1] = (t \o h)[Len(t) + 1]
    BY <1>2, <1>3
  <2>2. ASSUME NEW k \in 1 .. Len(t)
        PROVE  msg[k] = t[k]
    BY <1>2, <1>3
  <2> QED
    BY <1>1, <1>2, <2>1, <2>2
<1>5. ASSUME NEW k \in 1 .. Len(msg),
             msg[k] = "#" /\ \A j \in 1 .. k - 1 : msg[j] # "#"
      PROVE  k = Len(t) + 1
  BY <1>2, <1>3, <1>4, <1>5
<1>6. Separator(msg) = Len(t) + 1
  BY <1>2, <1>4, <1>5 DEF Separator
<1>7. SubSeq(msg, Len(t) + 2, Len(msg)) = d
  <2>1. SubSeq(msg, Len(t \o h) + 1, Len(msg)) = d
    BY <1>d, <1>2, PartsOfConcat DEF msg
  <2>2. Len(t \o h) + 1 = Len(t) + 2
    BY <1>2
  <2> QED
    BY <2>1, <2>2
<1>8. SubSeq(msg, 1, Len(t)) = t
  <2>0. msg \in Seq(Char) /\ Len(t) \in Nat /\ Len(t) <= Len(msg)
    BY <1>2, <1>3
  <2>1. /\ SubSeq(msg, 1, Len(t)) \in Seq(Char) /\ Len(SubSeq(msg, 1, Len(t))) = Len(t)
        /\ \A i \in 1 .. Len(t) : SubSeq(msg, 1, Len(t))[i] = msg[i]
    BY <2>0, PrefixOfSeq
  <2>2. \A i \in 1 .. Len(t) : SubSeq(msg, 1, Len(t))[i] = t[i]
    <3>1. \A i \in 1 .. Len(t) : i \in 1 .. Len(t) + 1 /\ msg[i] = t[i]
      BY <2>0, <1>2, <1>3
    <3> QED
      BY <2>1, <3>1
  <2>3. t \in Seq(Char)
    BY <1>1
  <2> QED
    BY <2>1, <2>2, <2>3, SeqEqual
<1>9. Wire(n) = msg
  <2>1. (t \o h) \o d = t \o (h \o d)
    <3>1. t \in Seq(Char) /\ h \in Seq(Char) /\ d \in Seq(Char)
      BY <1>1, <1>h, <1>d
    <3> QED
      BY <3>1, ConcatAssociative, SMTT(20)
  <2> QED
    BY <2>1 DEF Wire, msg, t, h, d
<1>10. /\ Separator(Wire(n)) - 1 = Len(t)
       /\ Separator(Wire(n)) + 1 = Len(t) + 2
  BY <1>1, <1>6, <1>9
<1> QED
  BY <1>7, <1>8, <1>9, <1>10 DEF splitMessage, t, d

-----------------------------------------------------------------------------
(***************************************************************************)
(* The way to a consumer.                                                  *)
(***************************************************************************)
\* Each element of the sequence is larger than those before it.
Increasing(q) == \A i, j \in 1 .. Len(q) : i < j => q[i] < q[j]

\* A message that is sent to a consumer is put behind the others or dropped,
\* and at most one of the others is dropped for it.
LEMMA QueuedFits ==
  ASSUME NEW q \in Seq(Line), Len(q) <= Depth, NEW n \in Line, NEW oldest \in BOOLEAN
  PROVE  /\ Queued(q, n, oldest) \in Seq(Line)
         /\ Len(Queued(q, n, oldest)) <= Depth
         /\ Dropped(q, n, oldest) \subseteq Line
<1>1. CASE Len(q) < Depth
  BY <1>1, BoundsAssumption, AppendToSeq DEF Queued, Dropped
<1>2. CASE ~(Len(q) < Depth)
  <2>1. q # <<>> /\ Len(q) = Depth
    BY <1>2, BoundsAssumption
  <2>2. Tail(q) \in Seq(Line) /\ Len(Tail(q)) = Depth - 1 /\ Head(q) \in Line
    BY <2>1, TailOfSeq
  <2>3. Append(Tail(q), n) \in Seq(Line) /\ Len(Append(Tail(q), n)) = Depth
    BY <2>2, AppendToSeq, BoundsAssumption
  <2>4. CASE oldest
    BY <1>2, <2>2, <2>3, <2>4, BoundsAssumption DEF Queued, Dropped
  <2>5. CASE ~oldest
    BY <1>2, <2>1, <2>5 DEF Queued, Dropped
  <2> QED
    BY <2>4, <2>5
<1> QED
  BY <1>1, <1>2

\* No element is lost without being counted as dropped.
LEMMA QueuedKeeps ==
  ASSUME NEW q \in Seq(Line), Len(q) <= Depth, NEW n \in Line, NEW oldest \in BOOLEAN
  PROVE  \A m \in RangeOf(q) \cup {n} :
            m \in RangeOf(Queued(q, n, oldest)) \cup Dropped(q, n, oldest)
<1>1. CASE Len(q) < Depth
  <2> DEFINE r == Append(q, n)
  <2>1. /\ Len(q) \in Nat /\ Len(r) = Len(q) + 1
        /\ \A i \in 1 .. Len(q) : r[i] = q[i]
        /\ r[Len(q) + 1] = n
    BY AppendToSeq
  <2> HIDE DEF r
  <2>2. \A m \in RangeOf(q) \cup {n} : \E i \in 1 .. Len(r) : r[i] = m
    BY <2>1 DEF RangeOf
  <2>3. Queued(q, n, oldest) = r
    BY <1>1 DEF Queued, r
  <2> QED
    BY <2>2, <2>3 DEF RangeOf
<1>2. CASE ~(Len(q) < Depth) /\ oldest
  <2> DEFINE r == Append(Tail(q), n)
  <2>1. q # <<>>
    BY <1>2, BoundsAssumption
  <2>2. /\ Tail(q) \in Seq(Line) /\ Len(q) \in Nat /\ Len(Tail(q)) = Len(q) - 1
        /\ \A i \in 1 .. Len(Tail(q)) : Tail(q)[i] = q[i + 1]
        /\ Head(q) = q[1]
    BY <2>1, TailOfSeq
  <2>3. /\ Len(r) = Len(q)
        /\ \A i \in 1 .. Len(q) - 1 : r[i] = q[i + 1]
        /\ r[Len(q)] = n
    BY <2>1, <2>2, AppendToSeq
  <2> HIDE DEF r
  <2>4. ASSUME NEW m \in RangeOf(q) \cup {n}, m # Head(q)
        PROVE  \E i \in 1 .. Len(r) : r[i] = m
    <3>1. CASE m = n
      BY <3>1, <2>1, <2>2, <2>3
    <3>2. CASE m # n
      <4>1. PICK k \in 1 .. Len(q) : q[k] = m
        BY <3>2, <2>4 DEF RangeOf
      <4>2. k # 1
        BY <4>1, <2>2, <2>4
      <4>3. k - 1 \in 1 .. Len(q) - 1 /\ r[k - 1] = q[k]
        BY <4>1, <4>2, <2>2, <2>3
      <4>4. k - 1 \in 1 .. Len(r)
        BY <4>3, <2>2, <2>3
      <4> QED
        BY <4>1, <4>3, <4>4
    <3> QED
      BY <3>1, <3>2
  <2>5. Queued(q, n, oldest) = r /\ Dropped(q, n, oldest) = {Head(q)}
    BY <1>2 DEF Queued, Dropped, r
  <2> QED
    BY <2>4, <2>5 DEF RangeOf
<1>3. CASE ~(Len(q) < Depth) /\ ~oldest
  BY <1>3 DEF Queued, Dropped
<1> QED
  BY <1>1, <1>2, <1>3

\* The elements come from where they should, and stay in their order.
LEMMA QueuedInOrder ==
  ASSUME NEW q \in Seq(Line), Len(q) <= Depth, NEW n \in Line, NEW oldest \in BOOLEAN,
         Increasing(q), \A k \in 1 .. Len(q) : q[k] < n
  PROVE  LET r == Queued(q, n, oldest)
         IN  /\ Increasing(r)
             /\ \A k \in 1 .. Len(r) : r[k] = n \/ \E i \in 1 .. Len(q) : r[k] = q[i]
<1>n. n \in Nat
  BY BoundsAssumption DEF Line
<1>1. CASE Len(q) < Depth
  <2> DEFINE r == Append(q, n)
  <2>1. /\ Len(q) \in Nat /\ Len(r) = Len(q) + 1
        /\ \A i \in 1 .. Len(q) : r[i] = q[i]
        /\ r[Len(q) + 1] = n
    BY AppendToSeq
  <2> HIDE DEF r
  <2>2. Increasing(r) /\ \A k \in 1 .. Len(r) : r[k] = n \/ \E i \in 1 .. Len(q) : r[k] = q[i]
    BY <2>1 DEF Increasing
  <2>3. Queued(q, n, oldest) = r
    BY <1>1 DEF Queued, r
  <2> QED
    BY <2>2, <2>3
<1>2. CASE ~(Len(q) < Depth) /\ oldest
  <2> DEFINE r == Append(Tail(q), n)
  <2>1. q # <<>>
    BY <1>2, BoundsAssumption
  <2>2. /\ Tail(q) \in Seq(Line) /\ Len(q) \in Nat \ {0} /\ Len(Tail(q)) = Len(q) - 1
        /\ \A i \in 1 .. Len(Tail(q)) : Tail(q)[i] = q[i + 1]
    BY <2>1, TailOfSeq
  <2>3. /\ Len(r) = Len(q)
        /\ \A i \in 1 .. Len(q) - 1 : r[i] = q[i + 1]
        /\ r[Len(q)] = n
    BY <2>1, <2>2, AppendToSeq
  <2> HIDE DEF r
  <2>4. \A k \in 1 .. Len(r) : r[k] = n \/ \E i \in 1 .. Len(q) : r[k] = q[i]
    BY <2>2, <2>3
  <2>5. ASSUME NEW i \in 1 .. Len(r), NEW j \in 1 .. Len(r), i < j
        PROVE  r[i] < r[j]
    <3>1. i \in 1 .. Len(q) - 1 /\ i + 1 \in 1 .. Len(q) /\ r[i] = q[i + 1]
      BY <2>2, <2>3, <2>5
    <3>2. CASE j = Len(q)
      BY <3>1, <3>2, <2>3
    <3>3. CASE j # Len(q)
      <4>0. Len(q) \in Nat /\ j \in 1 .. Len(q)
        BY <2>2, <2>3
      <4>1. j \in 1 .. Len(q) - 1
        BY <3>3, <4>0
      <4>2. j + 1 \in 1 .. Len(q) /\ r[j] = q[j + 1]
        BY <4>1, <2>2, <2>3
      <4> QED
        BY <3>1, <4>1, <4>2, <2>5 DEF Increasing
    <3> QED
      BY <3>2, <3>3
  <2>6. Queued(q, n, oldest) = r
    BY <1>2 DEF Queued, r
  <2> QED
    BY <2>4, <2>5, <2>6 DEF Increasing
<1>3. CASE ~(Len(q) < Depth) /\ ~oldest
  <2>1. Queued(q, n, oldest) = q
    BY <1>3 DEF Queued
  <2> QED
    BY <2>1
<1> QED
  BY <1>1, <1>2, <1>3

-----------------------------------------------------------------------------
(***************************************************************************)
(* The inductive invariant: the numbers of the lines grow from what the    *)
(* callbacks got, over the ways, the main loop and the queue, to the line  *)
(* that is made next.                                                      *)
(***************************************************************************)
\* The queue holds lines in the order they were made, after the one in hand.
QueueInOrder ==
  /\ inMessage <= Len(made)
  /\ \A k \in 1 .. Len(inboundQ) : inboundQ[k] <= Len(made) /\ inMessage < inboundQ[k]
  /\ Increasing(inboundQ)

\* What was published was made, before what is in hand and in the queue.
StreamedBefore ==
  \A n \in streamed :
     /\ n <= Len(made)
     /\ inMessage # 0 => n < inMessage
     /\ \A k \in 1 .. Len(inboundQ) : n < inboundQ[k]

\* What is on its way was published, for this consumer, and is in order.
WaysInOrder ==
  \A c \in Consumer :
     /\ Increasing(buffer[c])
     /\ \A k \in 1 .. Len(buffer[c]) : buffer[c][k] \in streamed /\ Wants(c, buffer[c][k])

\* What a callback got was published, before all that is on its way.
HeardBefore ==
  \A c \in Consumer : \A k \in 1 .. Len(got[c]) :
     /\ got[c][k].line \in streamed
     /\ \A j \in 1 .. Len(buffer[c]) : got[c][k].line < buffer[c][j]

IInv == TypeOK /\ QueueInOrder /\ StreamedBefore /\ WaysInOrder /\ HeardBefore /\ MessagesWhole

LEMMA Initially == Init => IInv
<1> SUFFICES ASSUME Init PROVE IInv
  OBVIOUS
<1>1. TypeOK
  <2>1. got \in [Consumer -> Seq([line : Line, topic : Seq(Char), data : Seq(Char)])]
    BY DEF Init
  <2>2. /\ buffer \in [Consumer -> Seq(Line)]
        /\ \A c \in Consumer : Len(buffer[c]) <= Depth
        /\ made \in Seq(Channel) /\ Len(made) <= MaxLines
        /\ inboundQ \in Seq(Line)
    BY BoundsAssumption DEF Init
  <2>3. /\ phase \in [Consumer -> Phases]
        /\ connected \in [Consumer -> BOOLEAN]
        /\ missed \in [Consumer -> SUBSET Line]
        /\ up \in BOOLEAN /\ DOMAIN listening = Sockets
        /\ inMessage \in Line \cup {0} /\ streamed \subseteq Line
    BY DEF Init, Phases
  <2> QED
    BY <2>1, <2>2, <2>3 DEF TypeOK
<1>2. QueueInOrder /\ StreamedBefore /\ WaysInOrder /\ HeardBefore /\ MessagesWhole
  BY DEF Init, QueueInOrder, StreamedBefore, WaysInOrder, HeardBefore, MessagesWhole, Increasing
<1> QED
  BY <1>1, <1>2 DEF IInv

\* An action that leaves the lines, the ways and what the callbacks got alone.
LEMMA LeavesWays ==
  ASSUME IInv, UNCHANGED <<made, streamed, buffer, got>>
  PROVE  WaysInOrder' /\ HeardBefore' /\ MessagesWhole'
<1>1. WaysInOrder'
  BY DEF IInv, WaysInOrder, Wants, Topic, Increasing
<1>2. HeardBefore'
  BY DEF IInv, HeardBefore
<1>3. MessagesWhole'
  BY DEF IInv, MessagesWhole, Topic
<1> QED
  BY <1>1, <1>2, <1>3

\* An action that leaves the bridge and what it published alone.
LEMMA LeavesBridge ==
  ASSUME IInv, UNCHANGED <<made, inboundQ, inMessage, streamed>>
  PROVE  QueueInOrder' /\ StreamedBefore'
<1>1. QueueInOrder'
  BY DEF IInv, QueueInOrder, Increasing
<1>2. StreamedBefore'
  BY DEF IInv, StreamedBefore
<1> QED
  BY <1>1, <1>2

LEMMA StartStep == IInv /\ Start => IInv'
<1> SUFFICES ASSUME IInv, Start PROVE IInv'
  OBVIOUS
<1>1. UNCHANGED <<inboundQ, inMessage, made, streamed, phase, subVars, got>>
  BY DEF Start
<1>2. up' \in BOOLEAN /\ DOMAIN listening' = Sockets
  BY DEF Start
<1>3. TypeOK'
  BY <1>1, <1>2 DEF IInv, TypeOK, subVars
<1> QED
  BY <1>1, <1>3, LeavesWays, LeavesBridge DEF IInv, subVars

LEMMA dialStep == ASSUME NEW c \in Consumer, IInv, dial(c) PROVE IInv'
<1>1. UNCHANGED <<bridgeVars, made, streamed, subVars, got>>
  BY DEF dial
<1>2. phase' \in [Consumer -> Phases]
  BY DEF dial, IInv, TypeOK, Phases, After
<1>3. TypeOK'
  BY <1>1, <1>2 DEF IInv, TypeOK, subVars, bridgeVars
<1> QED
  BY <1>1, <1>3, LeavesWays, LeavesBridge DEF IInv, subVars, bridgeVars

LEMMA requestStep == ASSUME NEW c \in Consumer, IInv, request(c) PROVE IInv'
<1>1. UNCHANGED <<bridgeVars, made, streamed, subVars, got>>
  BY DEF request
<1>2. \A p \in DOMAIN After : After[p] \in Phases
  BY DEF Phases, After
<1>3. phase' \in [Consumer -> Phases]
  BY <1>2 DEF request, IInv, TypeOK
<1>4. TypeOK'
  BY <1>1, <1>3 DEF IInv, TypeOK, subVars, bridgeVars
<1> QED
  BY <1>1, <1>4, LeavesWays, LeavesBridge DEF IInv, subVars, bridgeVars

LEMMA subscribeStep == ASSUME NEW c \in Consumer, IInv, subscribe(c) PROVE IInv'
<1>1. UNCHANGED <<bridgeVars, made, streamed, buffer, missed, got>>
  BY DEF subscribe
<1>2. phase' \in [Consumer -> Phases] /\ connected' \in [Consumer -> BOOLEAN]
  <2>1. connected' \in [Consumer -> BOOLEAN]
    BY DEF subscribe, IInv, TypeOK, Reachable
  <2>2. phase' \in [Consumer -> Phases]
    BY DEF subscribe, IInv, TypeOK, Phases
  <2> QED
    BY <2>1, <2>2
<1>3. TypeOK'
  BY <1>1, <1>2 DEF IInv, TypeOK, bridgeVars
<1> QED
  BY <1>1, <1>3, LeavesWays, LeavesBridge DEF IInv, bridgeVars

LEMMA ReconnectStep == ASSUME NEW c \in Consumer, IInv, Reconnect(c) PROVE IInv'
<1>1. UNCHANGED <<bridgeVars, made, streamed, phase, buffer, missed, got>>
  BY DEF Reconnect
<1>2. connected' \in [Consumer -> BOOLEAN]
  BY DEF Reconnect, IInv, TypeOK
<1>3. TypeOK'
  BY <1>1, <1>2 DEF IInv, TypeOK, bridgeVars
<1> QED
  BY <1>1, <1>3, LeavesWays, LeavesBridge DEF IInv, bridgeVars

\* The end of the bridge cuts the ways, and empties the queue.
LEMMA CrashStep == IInv /\ Crash => IInv'
<1> SUFFICES ASSUME IInv, Crash PROVE IInv'
  OBVIOUS
<1>1. PICK kept \in [Consumer -> 0 .. Depth] :
        /\ \A c \in Consumer : kept[c] <= Len(buffer[c])
        /\ buffer' = [c \in Consumer |-> SubSeq(buffer[c], 1, kept[c])]
        /\ missed' = [c \in Consumer |->
                        missed[c] \cup {buffer[c][k] : k \in kept[c] + 1 .. Len(buffer[c])}]
  BY DEF Crash
<1>2. /\ up' = FALSE /\ listening' = [s \in Sockets |-> NotListening]
      /\ inboundQ' = <<>> /\ inMessage' = 0
      /\ connected' = [c \in Consumer |-> FALSE]
      /\ UNCHANGED <<made, streamed, phase, got>>
  BY DEF Crash
<1>3. ASSUME NEW c \in Consumer
      PROVE  /\ buffer[c] \in Seq(Line) /\ Len(buffer[c]) \in Nat
             /\ buffer'[c] \in Seq(Line) /\ Len(buffer'[c]) = kept[c] /\ kept[c] \in Nat
             /\ kept[c] <= Len(buffer[c]) /\ Len(buffer'[c]) <= Depth
             /\ \A i \in 1 .. Len(buffer'[c]) :
                   i \in 1 .. Len(buffer[c]) /\ buffer'[c][i] = buffer[c][i]
             /\ missed'[c] \subseteq Line
  <2>1. buffer[c] \in Seq(Line) /\ missed[c] \subseteq Line
    BY DEF IInv, TypeOK
  <2>2. kept[c] \in Nat /\ kept[c] <= Len(buffer[c]) /\ kept[c] <= Depth
    BY <1>1, BoundsAssumption
  <2>3. /\ SubSeq(buffer[c], 1, kept[c]) \in Seq(Line)
        /\ Len(buffer[c]) \in Nat
        /\ Len(SubSeq(buffer[c], 1, kept[c])) = kept[c]
        /\ \A i \in 1 .. kept[c] : SubSeq(buffer[c], 1, kept[c])[i] = buffer[c][i]
    BY <2>1, <2>2, PrefixOfSeq
  <2>4. buffer'[c] = SubSeq(buffer[c], 1, kept[c])
    BY <1>1
  <2>5. missed'[c] \subseteq Line
    <3>1. \A k \in kept[c] + 1 .. Len(buffer[c]) : buffer[c][k] \in Line
      BY <2>1, <2>2
    <3> QED
      BY <1>1, <2>1, <3>1
  <2> QED
    BY <2>1, <2>2, <2>3, <2>4, <2>5
<1>4. TypeOK'
  <2>1. buffer' \in [Consumer -> Seq(Line)] /\ \A c \in Consumer : Len(buffer'[c]) <= Depth
    BY <1>1, <1>3
  <2>2. missed' \in [Consumer -> SUBSET Line]
    BY <1>1, <1>3
  <2>3. connected' \in [Consumer -> BOOLEAN] /\ inboundQ' \in Seq(Line) /\ DOMAIN listening' = Sockets
    BY <1>2
  <2> QED
    BY <1>2, <2>1, <2>2, <2>3 DEF IInv, TypeOK
<1>5. QueueInOrder'
  <2>1. Len(made) \in Nat
    BY DEF IInv, TypeOK
  <2> QED
    BY <1>2, <2>1 DEF QueueInOrder, Increasing
<1>6. StreamedBefore'
  BY <1>2 DEF IInv, StreamedBefore
<1>7. WaysInOrder'
  <2> SUFFICES ASSUME NEW c \in Consumer
               PROVE  /\ Increasing(buffer'[c])
                      /\ \A k \in 1 .. Len(buffer'[c]) :
                            buffer'[c][k] \in streamed /\ Wants(c, buffer'[c][k])
    BY <1>2 DEF WaysInOrder, Wants, Topic
  <2>1. /\ Increasing(buffer[c])
        /\ \A k \in 1 .. Len(buffer[c]) : buffer[c][k] \in streamed /\ Wants(c, buffer[c][k])
    BY DEF IInv, WaysInOrder
  <2>2. \A i \in 1 .. Len(buffer'[c]) :
           i \in 1 .. Len(buffer[c]) /\ buffer'[c][i] = buffer[c][i]
    BY <1>3
  <2>3. Increasing(buffer'[c])
    BY <2>1, <2>2 DEF Increasing
  <2> QED
    BY <2>1, <2>2, <2>3
<1>8. HeardBefore'
  <2>1. ASSUME NEW c \in Consumer, NEW i \in 1 .. Len(buffer'[c])
        PROVE  i \in 1 .. Len(buffer[c]) /\ buffer'[c][i] = buffer[c][i]
    BY <1>3
  <2> QED
    BY <1>2, <2>1 DEF IInv, HeardBefore
<1>9. MessagesWhole'
  BY <1>2 DEF IInv, MessagesWhole, Topic
<1> QED
  BY <1>4, <1>5, <1>6, <1>7, <1>8, <1>9 DEF IInv

\* What is in the queue was made, after the line in hand.
LEMMA InQueue ==
  ASSUME IInv, NEW k \in 1 .. Len(inboundQ)
  PROVE  /\ inboundQ[k] \in Line /\ inboundQ[k] \in Nat
         /\ inboundQ[k] <= Len(made) /\ inMessage < inboundQ[k]
<1>1. inboundQ \in Seq(Line)
  BY DEF IInv, TypeOK
<1>2. inboundQ[k] \in Line
  BY <1>1
<1>3. inboundQ[k] \in Nat
  BY <1>2 DEF Line
<1>4. inboundQ[k] <= Len(made) /\ inMessage < inboundQ[k]
  BY DEF IInv, QueueInOrder
<1> QED
  BY <1>2, <1>3, <1>4

\* A new line does not change what the earlier ones are.
LEMMA MadeGrows ==
  ASSUME made \in Seq(Channel), NEW ch \in Channel, made' = Append(made, ch),
         NEW n \in Line, n <= Len(made)
  PROVE  Topic(n)' = Topic(n) /\ \A c \in Consumer : Wants(c, n)' = Wants(c, n)
<1>1. made'[n] = made[n]
  BY AppendToSeq DEF Line
<1> QED
  BY <1>1 DEF Topic, Wants

\* The line that is made is the largest.
LEMMA LabelStep == ASSUME NEW ch \in Channel, IInv, Label(ch) PROVE IInv'
<1> DEFINE new == Len(made) + 1
<1>1. /\ UNCHANGED <<up, listening, inMessage, streamed, phase, subVars, got>>
      /\ made' = Append(made, ch) /\ inboundQ' = Append(inboundQ, Len(made'))
      /\ Len(made) < MaxLines
  BY DEF Label
<1>2. made \in Seq(Channel) /\ inboundQ \in Seq(Line)
  BY DEF IInv, TypeOK
<1>3. made' \in Seq(Channel) /\ Len(made) \in Nat /\ Len(made') = new /\ new \in Line
  BY <1>1, <1>2, AppendToSeq, BoundsAssumption DEF Line
<1>4. /\ inboundQ' \in Seq(Line) /\ Len(inboundQ) \in Nat /\ Len(inboundQ') = Len(inboundQ) + 1
      /\ \A i \in 1 .. Len(inboundQ) : inboundQ'[i] = inboundQ[i]
      /\ inboundQ'[Len(inboundQ) + 1] = new
  BY <1>1, <1>2, <1>3, AppendToSeq
<1>m. inMessage \in Nat /\ inMessage <= Len(made) /\ streamed \subseteq Line
  BY DEF IInv, TypeOK, QueueInOrder, Line
<1>q. \A k \in 1 .. Len(inboundQ) :
        inboundQ[k] \in Nat /\ inboundQ[k] <= Len(made) /\ inMessage < inboundQ[k]
  BY <1>2, InQueue
<1>5. TypeOK'
  <2>1. made' \in Seq(Channel) /\ Len(made') <= MaxLines
    BY <1>1, <1>3, BoundsAssumption
  <2> QED
    BY <1>1, <1>4, <2>1 DEF IInv, TypeOK, subVars
<1> HIDE DEF new
<1>6. QueueInOrder'
  <2>0. new \in Nat /\ new = Len(made) + 1 /\ Len(made) \in Nat
    BY <1>3 DEF new
  <2>1. inMessage' <= Len(made')
    BY <1>1, <1>3, <1>m, <2>0
  <2>2. ASSUME NEW k \in 1 .. Len(inboundQ')
        PROVE  inboundQ'[k] <= Len(made') /\ inMessage' < inboundQ'[k]
    <3>1. CASE k \in 1 .. Len(inboundQ)
      BY <1>1, <1>3, <1>4, <1>q, <2>0, <3>1
    <3>2. CASE k = Len(inboundQ) + 1
      BY <1>1, <1>3, <1>4, <1>m, <2>0, <3>2
    <3> QED
      BY <1>4, <3>1, <3>2
  <2>3. Increasing(inboundQ')
    <3>1. \A k \in 1 .. Len(inboundQ) : inboundQ[k] < new
      BY <1>q, <2>0
    <3>2. Increasing(inboundQ)
      BY DEF IInv, QueueInOrder
    <3> QED
      BY <1>4, <3>1, <3>2 DEF Increasing
  <2> QED
    BY <2>1, <2>2, <2>3 DEF QueueInOrder
<1>7. StreamedBefore'
  <2> SUFFICES ASSUME NEW n \in streamed
               PROVE  /\ n <= Len(made')
                      /\ inMessage # 0 => n < inMessage
                      /\ \A k \in 1 .. Len(inboundQ') : n < inboundQ'[k]
    BY <1>1 DEF StreamedBefore
  <2>1. /\ n <= Len(made) /\ n \in Nat
        /\ inMessage # 0 => n < inMessage
        /\ \A k \in 1 .. Len(inboundQ) : n < inboundQ[k]
    BY <1>m DEF IInv, StreamedBefore, Line
  <2>2. n < new /\ n <= Len(made')
    BY <2>1, <1>3 DEF new
  <2> QED
    BY <1>4, <2>1, <2>2
<1>8. ASSUME NEW n \in streamed
      PROVE  Topic(n)' = Topic(n) /\ \A c \in Consumer : Wants(c, n)' = Wants(c, n)
  <2>1. n \in Line /\ n <= Len(made)
    BY <1>m DEF IInv, StreamedBefore
  <2> QED
    BY <1>1, <1>2, <2>1, MadeGrows
<1>9. WaysInOrder'
  BY <1>1, <1>8 DEF IInv, WaysInOrder, Increasing, subVars
<1>10. HeardBefore'
  BY <1>1 DEF IInv, HeardBefore, subVars
<1>11. MessagesWhole'
  BY <1>1, <1>8 DEF IInv, MessagesWhole, HeardBefore
<1> QED
  BY <1>5, <1>6, <1>7, <1>9, <1>10, <1>11 DEF IInv

\* The main loop takes the smallest line of the queue.
LEMMA popInboundStep == IInv /\ popInbound => IInv'
<1> SUFFICES ASSUME IInv, popInbound PROVE IInv'
  OBVIOUS
<1>1. /\ UNCHANGED <<up, listening, made, streamed, phase, subVars, got>>
      /\ inMessage = 0 /\ inboundQ # <<>>
      /\ inMessage' = Head(inboundQ) /\ inboundQ' = Tail(inboundQ)
  BY DEF popInbound, Popped
<1>2. inboundQ \in Seq(Line)
  BY DEF IInv, TypeOK
<1>3. /\ inboundQ' \in Seq(Line)
      /\ Len(inboundQ) \in Nat \ {0} /\ Len(inboundQ') = Len(inboundQ) - 1
      /\ \A i \in 1 .. Len(inboundQ') : inboundQ'[i] = inboundQ[i + 1] /\ i + 1 \in 1 .. Len(inboundQ)
      /\ 1 \in 1 .. Len(inboundQ)
      /\ inMessage' = inboundQ[1] /\ inMessage' \in Line
  BY <1>1, <1>2, TailOfSeq
<1>4. TypeOK'
  BY <1>1, <1>3 DEF IInv, TypeOK, subVars
<1>5. QueueInOrder'
  <2>1. inMessage' <= Len(made)
    BY <1>3, InQueue
  <2>2. ASSUME NEW k \in 1 .. Len(inboundQ')
        PROVE  inboundQ'[k] <= Len(made) /\ inMessage' < inboundQ'[k]
    <3>1. k + 1 \in 1 .. Len(inboundQ) /\ inboundQ'[k] = inboundQ[k + 1] /\ 1 < k + 1
      BY <1>3
    <3>2. inboundQ[k + 1] <= Len(made)
      BY <3>1, InQueue
    <3>3. inboundQ[1] < inboundQ[k + 1]
      BY <1>3, <3>1 DEF IInv, QueueInOrder, Increasing
    <3> QED
      BY <1>3, <3>1, <3>2, <3>3
  <2>3. Increasing(inboundQ')
    BY <1>3 DEF IInv, QueueInOrder, Increasing
  <2> QED
    BY <1>1, <2>1, <2>2, <2>3 DEF QueueInOrder
<1>6. StreamedBefore'
  BY <1>1, <1>3 DEF IInv, StreamedBefore
<1> QED
  BY <1>1, <1>4, <1>5, <1>6, LeavesWays DEF IInv, subVars

\* What a consumer gets from the socket grows with what is published.
LEMMA publishStep == IInv /\ publish => IInv'
<1> SUFFICES ASSUME IInv, publish PROVE IInv'
  OBVIOUS
<1> DEFINE n == inMessage
           reached(c) == connected[c] /\ Wants(c, n)
<1>1. PICK oldest \in BOOLEAN :
        /\ buffer' = [c \in Consumer |->
                        IF reached(c) THEN Queued(buffer[c], n, oldest) ELSE buffer[c]]
        /\ missed' = [c \in Consumer |->
                        missed[c] \cup IF reached(c) THEN Dropped(buffer[c], n, oldest)
                                       ELSE IF connected[c] THEN {} ELSE {n}]
  BY DEF publish
<1>2. /\ inMessage # 0 /\ inMessage' = 0
      /\ streamed' = streamed \cup {n}
      /\ UNCHANGED <<up, listening, made, inboundQ, phase, connected, got>>
  BY DEF publish
<1>3. /\ n \in Line /\ n \in Nat /\ n <= Len(made) /\ streamed \subseteq Line
      /\ \A m \in streamed : m < n
  BY <1>2 DEF IInv, TypeOK, QueueInOrder, StreamedBefore, Line
<1> HIDE DEF n
<1>4. ASSUME NEW c \in Consumer
      PROVE  /\ buffer[c] \in Seq(Line) /\ Len(buffer[c]) <= Depth
             /\ Increasing(buffer[c])
             /\ \A k \in 1 .. Len(buffer[c]) : /\ buffer[c][k] \in streamed
                                               /\ buffer[c][k] < n
                                               /\ Wants(c, buffer[c][k])
  BY <1>3 DEF IInv, TypeOK, WaysInOrder
<1>5. ASSUME NEW c \in Consumer
      PROVE  /\ buffer'[c] \in Seq(Line) /\ Len(buffer'[c]) <= Depth
             /\ missed'[c] \subseteq Line
             /\ Increasing(buffer'[c])
             /\ \A k \in 1 .. Len(buffer'[c]) :
                   \/ buffer'[c][k] = n /\ Wants(c, n)
                   \/ \E i \in 1 .. Len(buffer[c]) : buffer'[c][k] = buffer[c][i]
  <2>0. missed[c] \subseteq Line
    BY DEF IInv, TypeOK
  <2>1. CASE reached(c)
    <3>1. /\ Queued(buffer[c], n, oldest) \in Seq(Line)
          /\ Len(Queued(buffer[c], n, oldest)) <= Depth
          /\ Dropped(buffer[c], n, oldest) \subseteq Line
      BY <1>3, <1>4, QueuedFits
    <3>2. /\ Increasing(Queued(buffer[c], n, oldest))
          /\ \A k \in 1 .. Len(Queued(buffer[c], n, oldest)) :
                \/ Queued(buffer[c], n, oldest)[k] = n
                \/ \E i \in 1 .. Len(buffer[c]) : Queued(buffer[c], n, oldest)[k] = buffer[c][i]
      BY <1>3, <1>4, QueuedInOrder
    <3>3. /\ buffer'[c] = Queued(buffer[c], n, oldest)
          /\ missed'[c] = missed[c] \cup Dropped(buffer[c], n, oldest)
      BY <1>1, <2>1
    <3> QED
      BY <2>0, <2>1, <3>1, <3>2, <3>3
  <2>2. CASE ~reached(c)
    <3>1. buffer'[c] = buffer[c] /\ missed'[c] \subseteq missed[c] \cup {n}
      BY <1>1, <2>2
    <3> QED
      BY <1>3, <1>4, <2>0, <3>1
  <2> QED
    BY <2>1, <2>2
<1>6. TypeOK'
  <2>1. /\ buffer' \in [Consumer -> Seq(Line)] /\ \A c \in Consumer : Len(buffer'[c]) <= Depth
        /\ missed' \in [Consumer -> SUBSET Line]
    BY <1>1, <1>5
  <2>2. streamed' \subseteq Line /\ inMessage' \in Line \cup {0}
    BY <1>2, <1>3
  <2> QED
    BY <1>2, <2>1, <2>2 DEF IInv, TypeOK
<1>7. QueueInOrder'
  <2>1. \A k \in 1 .. Len(inboundQ) : inboundQ[k] <= Len(made) /\ n < inboundQ[k] /\ inboundQ[k] \in Nat
    BY InQueue DEF n
  <2>2. 0 <= Len(made) /\ \A k \in 1 .. Len(inboundQ) : 0 < inboundQ[k]
    BY <1>3, <2>1 DEF IInv, TypeOK
  <2>3. Increasing(inboundQ)
    BY DEF IInv, QueueInOrder
  <2> QED
    BY <1>2, <2>1, <2>2, <2>3 DEF QueueInOrder
<1>8. StreamedBefore'
  <2>1. \A k \in 1 .. Len(inboundQ) : n < inboundQ[k]
    BY InQueue DEF n
  <2> QED
    BY <1>2, <1>3, <2>1 DEF IInv, StreamedBefore
<1>9. WaysInOrder'
  <2>1. \A c \in Consumer, m \in Line : Wants(c, m)' = Wants(c, m)
    BY <1>2 DEF Wants, Topic
  <2>2. ASSUME NEW c \in Consumer, NEW k \in 1 .. Len(buffer'[c])
        PROVE  buffer'[c][k] \in streamed' /\ Wants(c, buffer'[c][k]) /\ buffer'[c][k] \in Line
    BY <1>2, <1>3, <1>4, <1>5
  <2> QED
    BY <1>5, <2>1, <2>2 DEF WaysInOrder
<1>10. HeardBefore'
  <2> SUFFICES ASSUME NEW c \in Consumer, NEW k \in 1 .. Len(got[c])
               PROVE  /\ got[c][k].line \in streamed'
                      /\ \A j \in 1 .. Len(buffer'[c]) : got[c][k].line < buffer'[c][j]
    BY <1>2 DEF HeardBefore
  <2>1. /\ got[c][k].line \in streamed
        /\ \A j \in 1 .. Len(buffer[c]) : got[c][k].line < buffer[c][j]
    BY DEF IInv, HeardBefore
  <2> QED
    BY <1>2, <1>3, <1>5, <2>1
<1>11. MessagesWhole'
  BY <1>2 DEF IInv, MessagesWhole, Topic
<1> QED
  BY <1>6, <1>7, <1>8, <1>9, <1>10, <1>11 DEF IInv

\* What a turn of the loop of subscribe() does.
LEMMA ReceiveDoes ==
  ASSUME NEW c \in Consumer, IInv, receive(c)
  PROVE  LET n == buffer[c][1]
         IN  /\ n \in Line /\ n \in streamed /\ n <= Len(made) /\ Wants(c, n)
             /\ \A k \in 1 .. Len(got[c]) : got[c][k].line < n
             /\ buffer' = [buffer EXCEPT ![c] = Tail(@)]
             /\ Len(buffer[c]) \in Nat \ {0}
             /\ Tail(buffer[c]) \in Seq(Line)
             /\ Len(Tail(buffer[c])) = Len(buffer[c]) - 1
             /\ \A i \in 1 .. Len(Tail(buffer[c])) :
                   i + 1 \in 1 .. Len(buffer[c]) /\ Tail(buffer[c])[i] = buffer[c][i + 1]
             /\ got' = [got EXCEPT ![c] =
                          Append(@, [line |-> n, topic |-> Topic(n), data |-> Text[n]])]
             /\ UNCHANGED <<bridgeVars, made, streamed, phase, connected, missed>>
<1> DEFINE n == buffer[c][1]
<1>1. /\ buffer[c] # <<>>
      /\ buffer' = [buffer EXCEPT ![c] = Tail(@)]
      /\ got' = [got EXCEPT ![c] = Append(@, splitMessage(Head(buffer[c])))]
      /\ UNCHANGED <<bridgeVars, made, streamed, phase, connected, missed>>
  BY DEF receive
<1>2. buffer[c] \in Seq(Line)
  BY DEF IInv, TypeOK
<1>3. /\ Tail(buffer[c]) \in Seq(Line)
      /\ Len(buffer[c]) \in Nat \ {0}
      /\ Len(Tail(buffer[c])) = Len(buffer[c]) - 1
      /\ \A i \in 1 .. Len(Tail(buffer[c])) :
            Tail(buffer[c])[i] = buffer[c][i + 1] /\ i + 1 \in 1 .. Len(buffer[c])
      /\ 1 \in 1 .. Len(buffer[c])
      /\ Head(buffer[c]) = n /\ n \in Line
  BY <1>1, <1>2, TailOfSeq
<1>4. n \in streamed /\ Wants(c, n)
  BY <1>3 DEF IInv, WaysInOrder
<1>5. n <= Len(made)
  BY <1>4 DEF IInv, StreamedBefore
<1>6. \A k \in 1 .. Len(got[c]) : got[c][k].line < n
  BY <1>3 DEF IInv, HeardBefore
<1>7. splitMessage(n) = [line |-> n, topic |-> Topic(n), data |-> Text[n]]
  <2>1. made \in Seq(Channel)
    BY DEF IInv, TypeOK
  <2> QED
    BY <1>3, <1>5, <2>1, SplitWhole
<1> HIDE DEF n
<1> QED
  BY <1>1, <1>3, <1>4, <1>5, <1>6, <1>7 DEF n

\* The callback gets the smallest line that is on its way.
LEMMA receiveStep == ASSUME NEW c \in Consumer, IInv, receive(c) PROVE IInv'
<1> DEFINE n == buffer[c][1]
           m == [line |-> n, topic |-> Topic(n), data |-> Text[n]]
           Message == [line : Line, topic : Seq(Char), data : Seq(Char)]
<1>1. /\ n \in Line /\ n \in streamed /\ n <= Len(made) /\ Wants(c, n)
      /\ \A k \in 1 .. Len(got[c]) : got[c][k].line < n
      /\ buffer' = [buffer EXCEPT ![c] = Tail(@)]
      /\ Len(buffer[c]) \in Nat \ {0}
      /\ Tail(buffer[c]) \in Seq(Line)
      /\ Len(Tail(buffer[c])) = Len(buffer[c]) - 1
      /\ \A i \in 1 .. Len(Tail(buffer[c])) :
            i + 1 \in 1 .. Len(buffer[c]) /\ Tail(buffer[c])[i] = buffer[c][i + 1]
      /\ got' = [got EXCEPT ![c] = Append(@, m)]
      /\ UNCHANGED <<bridgeVars, made, streamed, phase, connected, missed>>
  BY ReceiveDoes
<1> HIDE DEF n
<1>2. /\ buffer \in [Consumer -> Seq(Line)] /\ \A a \in Consumer : Len(buffer[a]) <= Depth
      /\ got \in [Consumer -> Seq(Message)]
      /\ made \in Seq(Channel)
  BY DEF IInv, TypeOK
<1>3. m \in Message /\ m.line = n /\ m.topic = Topic(n) /\ m.data = Text[n]
  <2>1. Topic(n) \in Seq(Char)
    BY <1>1, <1>2, TopicTyped
  <2>2. Text[n] \in Seq(Char)
    BY <1>1, TextsAssumption DEF Line
  <2> QED
    BY <1>1, <2>1, <2>2
<1> HIDE DEF m, Message
<1>4. /\ Append(got[c], m) \in Seq(Message)
      /\ Len(got[c]) \in Nat
      /\ Len(Append(got[c], m)) = Len(got[c]) + 1
      /\ \A i \in 1 .. Len(got[c]) : Append(got[c], m)[i] = got[c][i]
      /\ Append(got[c], m)[Len(got[c]) + 1] = m
  BY <1>2, <1>3, AppendToSeq
<1>5. /\ buffer'[c] = Tail(buffer[c]) /\ got'[c] = Append(got[c], m)
      /\ \A a \in Consumer \ {c} : buffer'[a] = buffer[a] /\ got'[a] = got[a]
  BY <1>1, <1>2
<1>6. TypeOK'
  <2>1. buffer' \in [Consumer -> Seq(Line)] /\ got' \in [Consumer -> Seq(Message)]
    BY <1>1, <1>2, <1>4
  <2>2. Len(Tail(buffer[c])) <= Depth
    BY <1>1, <1>2, BoundsAssumption
  <2>3. \A a \in Consumer : Len(buffer'[a]) <= Depth
    BY <1>2, <1>5, <2>2
  <2> QED
    BY <1>1, <2>1, <2>3 DEF IInv, TypeOK, Message, bridgeVars
<1>7. QueueInOrder' /\ StreamedBefore'
  BY <1>1, LeavesBridge DEF bridgeVars
<1>8. WaysInOrder'
  <2> SUFFICES ASSUME NEW a \in Consumer
               PROVE  /\ Increasing(buffer'[a])
                      /\ \A k \in 1 .. Len(buffer'[a]) :
                            buffer'[a][k] \in streamed /\ Wants(a, buffer'[a][k])
    BY <1>1 DEF WaysInOrder, Wants, Topic
  <2>1. /\ Increasing(buffer[a])
        /\ \A k \in 1 .. Len(buffer[a]) : buffer[a][k] \in streamed /\ Wants(a, buffer[a][k])
    BY DEF IInv, WaysInOrder
  <2>2. CASE a = c
    <3>1. Increasing(Tail(buffer[c]))
      BY <1>1, <2>1, <2>2 DEF Increasing
    <3> QED
      BY <1>1, <1>5, <2>1, <2>2, <3>1
  <2> QED
    BY <1>5, <2>1, <2>2
<1>9. HeardBefore'
  <2> SUFFICES ASSUME NEW a \in Consumer, NEW k \in 1 .. Len(got'[a])
               PROVE  /\ got'[a][k].line \in streamed
                      /\ \A j \in 1 .. Len(buffer'[a]) : got'[a][k].line < buffer'[a][j]
    BY <1>1 DEF HeardBefore
  <2>1. \A i \in 1 .. Len(got[a]) :
           /\ got[a][i].line \in streamed
           /\ \A j \in 1 .. Len(buffer[a]) : got[a][i].line < buffer[a][j]
    BY DEF IInv, HeardBefore
  <2>2. CASE a = c /\ k \in 1 .. Len(got[c])
    <3>1. got'[a][k] = got[a][k]
      BY <1>4, <1>5, <2>2
    <3> QED
      BY <1>1, <1>5, <2>1, <2>2, <3>1
  <2>3. CASE a = c /\ k = Len(got[c]) + 1
    <3>1. got'[a][k].line = n
      BY <1>3, <1>4, <1>5, <2>3
    <3>2. ASSUME NEW j \in 1 .. Len(buffer'[a])
          PROVE  n < buffer'[a][j]
      <4>1. j + 1 \in 1 .. Len(buffer[c]) /\ buffer'[a][j] = buffer[c][j + 1] /\ 1 < j + 1
        <5>1. j \in 1 .. Len(Tail(buffer[c])) /\ buffer'[a][j] = Tail(buffer[c])[j]
          BY <1>5, <2>3
        <5>2. j + 1 \in 1 .. Len(buffer[c]) /\ Tail(buffer[c])[j] = buffer[c][j + 1]
          BY <1>1, <5>1
        <5> QED
          BY <1>1, <5>1, <5>2
      <4>2. 1 \in 1 .. Len(buffer[c])
        BY <1>1
      <4> QED
        BY <4>1, <4>2 DEF IInv, WaysInOrder, Increasing, n
    <3> QED
      BY <1>1, <3>1, <3>2
  <2>4. CASE a # c
    BY <1>5, <2>1, <2>4
  <2> QED
    BY <1>4, <1>5, <2>2, <2>3, <2>4
<1>10. MessagesWhole'
  <2>0. ASSUME NEW x PROVE Topic(x)' = <<"/sensor", "s", "/">> \o NameOf[made[x]]
    BY <1>1 DEF Topic
  <2> SUFFICES ASSUME NEW a \in Consumer, NEW k \in 1 .. Len(got'[a])
               PROVE  /\ got'[a][k].topic = Topic(got'[a][k].line)
                      /\ got'[a][k].data = Text[got'[a][k].line]
    BY <2>0 DEF MessagesWhole, Topic
  <2>1. \A i \in 1 .. Len(got[a]) :
           got[a][i].topic = Topic(got[a][i].line) /\ got[a][i].data = Text[got[a][i].line]
    BY DEF IInv, MessagesWhole
  <2>2. CASE a = c /\ k \in 1 .. Len(got[c])
    BY <1>4, <1>5, <2>1, <2>2
  <2>3. CASE a = c /\ k = Len(got[c]) + 1
    BY <1>3, <1>4, <1>5, <2>3
  <2>4. CASE a # c
    BY <1>5, <2>1, <2>4
  <2> QED
    BY <1>4, <1>5, <2>2, <2>3, <2>4
<1> QED
  BY <1>6, <1>7, <1>8, <1>9, <1>10 DEF IInv

-----------------------------------------------------------------------------
\* No step leaves the invariant.
LEMMA Inductive == IInv /\ [Next]_vars => IInv'
<1> SUFFICES ASSUME IInv, [Next]_vars PROVE IInv'
  OBVIOUS
<1>1. CASE Next
  BY <1>1, StartStep, CrashStep, LabelStep, popInboundStep, publishStep, dialStep,
     requestStep, subscribeStep, receiveStep, ReconnectStep
     DEF Next, MainLoop, Consume
<1>2. CASE UNCHANGED vars
  <2>1. TypeOK'
    BY <1>2 DEF IInv, TypeOK, vars, bridgeVars, subVars
  <2> QED
    BY <1>2, <2>1, LeavesWays, LeavesBridge DEF IInv, vars, bridgeVars, subVars
<1> QED
  BY <1>1, <1>2

THEOREM Invariance == Spec => []IInv
<1> QED
  BY Initially, Inductive, PTL DEF Spec

\* The types of the variables, and the bound of every way (TypeOK).
THEOREM TypeCorrect == Spec => []TypeOK
<1>1. IInv => TypeOK
  BY DEF IInv
<1> QED
  BY <1>1, Invariance, PTL

\* Topic and data are cut where they were put together, for any texts: every
\* callback gets the data of one line under the topic of its channel.
THEOREM MessagesStayWhole == Spec => []MessagesWhole
<1>1. IInv => MessagesWhole
  BY DEF IInv
<1> QED
  BY <1>1, Invariance, PTL

-----------------------------------------------------------------------------
(***************************************************************************)
(* What is not counted as missed is heard or on its way.                   *)
(***************************************************************************)
Accounted(c, n) == n \in missed[c] \/ n \in RangeOf(buffer[c]) \/ Heard(c, n)

\* What is wanted of a line that was published does not change.
LEMMA WantsStays ==
  ASSUME IInv, [Next]_vars, NEW c \in Consumer, NEW n \in Line, n <= Len(made)
  PROVE  Wants(c, n)' = Wants(c, n)
<1>1. CASE UNCHANGED made
  BY <1>1 DEF Wants, Topic
<1>2. CASE \E ch \in Channel : Label(ch)
  <2>1. PICK ch \in Channel : Label(ch)
    BY <1>2
  <2>2. made' = Append(made, ch) /\ made \in Seq(Channel)
    BY <2>1 DEF Label, IInv, TypeOK
  <2> QED
    BY <2>2, MadeGrows
<1> QED
  BY <1>1, <1>2 DEF Next, MainLoop, Consume, vars, Start, Crash, popInbound, publish, dial,
     request, subscribe, receive, Reconnect

\* Cutting a way counts what is cut off.
LEMMA CrashAccounts ==
  ASSUME IInv, Crash, NEW c \in Consumer, NEW n, Accounted(c, n)
  PROVE  Accounted(c, n)'
<1>1. PICK kept \in [Consumer -> 0 .. Depth] :
        /\ kept[c] <= Len(buffer[c])
        /\ buffer' = [a \in Consumer |-> SubSeq(buffer[a], 1, kept[a])]
        /\ missed' = [a \in Consumer |->
                        missed[a] \cup {buffer[a][k] : k \in kept[a] + 1 .. Len(buffer[a])}]
  BY DEF Crash
<1>2. got' = got
  BY DEF Crash
<1>3. CASE n \in RangeOf(buffer[c])
  <2>1. PICK k \in 1 .. Len(buffer[c]) : buffer[c][k] = n
    BY <1>3 DEF RangeOf
  <2>2. buffer[c] \in Seq(Line) /\ kept[c] \in Nat
    BY BoundsAssumption DEF IInv, TypeOK
  <2>3. CASE k <= kept[c]
    <3>1. /\ Len(SubSeq(buffer[c], 1, kept[c])) = kept[c]
          /\ \A i \in 1 .. kept[c] : SubSeq(buffer[c], 1, kept[c])[i] = buffer[c][i]
      BY <1>1, <2>2, PrefixOfSeq
    <3>2. k \in 1 .. kept[c] /\ buffer'[c] = SubSeq(buffer[c], 1, kept[c])
      BY <1>1, <2>2, <2>3
    <3>3. n \in RangeOf(buffer'[c])
      BY <2>1, <3>1, <3>2 DEF RangeOf
    <3> QED
      BY <3>3 DEF Accounted, RangeOf
  <2>4. CASE ~(k <= kept[c])
    <3>1. k \in kept[c] + 1 .. Len(buffer[c])
      BY <2>2, <2>4
    <3>2. n \in missed'[c]
      BY <1>1, <2>1, <3>1
    <3> QED
      BY <3>2 DEF Accounted
  <2> QED
    BY <2>3, <2>4
<1>4. CASE n \in missed[c]
  BY <1>1, <1>4 DEF Accounted
<1>5. CASE Heard(c, n)
  BY <1>2, <1>5 DEF Accounted, Heard
<1> QED
  BY <1>3, <1>4, <1>5 DEF Accounted

\* A send keeps what is on its way or counts it, and the new line too.
LEMMA publishAccounts ==
  ASSUME IInv, publish, NEW c \in Consumer, NEW n,
         Accounted(c, n) \/ (n = inMessage /\ Wants(c, n))
  PROVE  Accounted(c, n)'
<1> DEFINE i == inMessage
           reached(a) == connected[a] /\ Wants(a, i)
<1>1. PICK oldest \in BOOLEAN :
        /\ buffer' = [a \in Consumer |->
                        IF reached(a) THEN Queued(buffer[a], i, oldest) ELSE buffer[a]]
        /\ missed' = [a \in Consumer |->
                        missed[a] \cup IF reached(a) THEN Dropped(buffer[a], i, oldest)
                                       ELSE IF connected[a] THEN {} ELSE {i}]
  BY DEF publish
<1>2. got' = got /\ i \in Line
  BY DEF publish, IInv, TypeOK
<1>3. buffer[c] \in Seq(Line) /\ Len(buffer[c]) <= Depth
  BY DEF IInv, TypeOK
<1> HIDE DEF i
<1>4. CASE Heard(c, n)
  BY <1>2, <1>4 DEF Accounted, Heard
<1>5. CASE n \in missed[c]
  BY <1>1, <1>5 DEF Accounted
<1>6. CASE reached(c) /\ n \in RangeOf(buffer[c]) \cup {i}
  <2>1. n \in RangeOf(Queued(buffer[c], i, oldest)) \cup Dropped(buffer[c], i, oldest)
    BY <1>2, <1>3, <1>6, QueuedKeeps
  <2>2. /\ buffer'[c] = Queued(buffer[c], i, oldest)
        /\ missed'[c] = missed[c] \cup Dropped(buffer[c], i, oldest)
    BY <1>1, <1>6
  <2>3. n \in RangeOf(buffer'[c]) \cup missed'[c]
    BY <2>1, <2>2
  <2> QED
    BY <2>3 DEF Accounted, RangeOf
<1>7. CASE ~reached(c) /\ n \in RangeOf(buffer[c])
  <2>1. n \in RangeOf(buffer'[c])
    BY <1>1, <1>7
  <2> QED
    BY <2>1 DEF Accounted, RangeOf
<1>8. CASE ~reached(c) /\ n = i /\ Wants(c, n)
  <2>1. n \in missed'[c]
    BY <1>1, <1>8
  <2> QED
    BY <2>1 DEF Accounted
<1> QED
  BY <1>4, <1>5, <1>6, <1>7, <1>8 DEF Accounted, i

\* What leaves a way is heard.
LEMMA receiveAccounts ==
  ASSUME IInv, NEW a \in Consumer, receive(a), NEW c \in Consumer, NEW n, Accounted(c, n)
  PROVE  Accounted(c, n)'
<1> DEFINE h == buffer[a][1]
           m == [line |-> h, topic |-> Topic(h), data |-> Text[h]]
           Message == [line : Line, topic : Seq(Char), data : Seq(Char)]
<1>1. /\ buffer' = [buffer EXCEPT ![a] = Tail(@)]
      /\ Len(buffer[a]) \in Nat \ {0}
      /\ Len(Tail(buffer[a])) = Len(buffer[a]) - 1
      /\ \A i \in 1 .. Len(Tail(buffer[a])) :
            i + 1 \in 1 .. Len(buffer[a]) /\ Tail(buffer[a])[i] = buffer[a][i + 1]
      /\ got' = [got EXCEPT ![a] = Append(@, m)]
      /\ UNCHANGED <<bridgeVars, made, streamed, phase, connected, missed>>
  BY ReceiveDoes
<1>2. /\ buffer \in [Consumer -> Seq(Line)] /\ got \in [Consumer -> Seq(Message)]
      /\ got' \in [Consumer -> Seq(Message)]
  <2>1. IInv'
    BY receiveStep
  <2> QED
    BY <2>1 DEF IInv, TypeOK
<1>l. m.line = h
  OBVIOUS
<1> HIDE DEF m, h, Message
<1>3. /\ buffer'[a] = Tail(buffer[a]) /\ got'[a] = Append(got[a], m)
      /\ c # a => buffer'[c] = buffer[c] /\ got'[c] = got[c]
  BY <1>1, <1>2
<1>4. /\ Len(got[a]) \in Nat /\ Len(got'[a]) = Len(got[a]) + 1
      /\ \A i \in 1 .. Len(got[a]) : got'[a][i] = got[a][i]
      /\ got'[a][Len(got[a]) + 1] = m
  BY <1>2, <1>3
<1>5. CASE c # a
  BY <1>1, <1>3, <1>5 DEF Accounted, RangeOf, Heard
<1>6. CASE c = a
  <2>1. CASE n \in missed[c]
    BY <1>1, <2>1 DEF Accounted
  <2>2. CASE Heard(c, n)
    <3>1. PICK k \in 1 .. Len(got[a]) : got[a][k].line = n
      BY <1>6, <2>2 DEF Heard
    <3>2. k \in 1 .. Len(got'[a]) /\ got'[a][k].line = n
      BY <1>4, <3>1
    <3> QED
      BY <1>6, <3>2 DEF Accounted, Heard
  <2>3. CASE n = h
    <3>1. Len(got[a]) + 1 \in 1 .. Len(got'[a]) /\ got'[a][Len(got[a]) + 1].line = n
      BY <1>4, <1>l, <2>3
    <3> QED
      BY <1>6, <3>1 DEF Accounted, Heard
  <2>4. CASE n \in RangeOf(buffer[c]) /\ n # h
    <3>1. PICK k \in 1 .. Len(buffer[a]) : buffer[a][k] = n
      BY <1>6, <2>4 DEF RangeOf
    <3>2. k # 1
      BY <3>1, <2>4 DEF h
    <3>3. k - 1 \in 1 .. Len(Tail(buffer[a])) /\ (k - 1) + 1 = k
      BY <1>1, <3>2
    <3>4. Tail(buffer[a])[k - 1] = n
      BY <1>1, <3>1, <3>3
    <3>5. n \in RangeOf(buffer'[a])
      BY <1>3, <3>3, <3>4 DEF RangeOf
    <3> QED
      BY <1>6, <3>5 DEF Accounted, RangeOf
  <2> QED
    BY <2>1, <2>2, <2>3, <2>4 DEF Accounted
<1> QED
  BY <1>5, <1>6

LEMMA AccountedStep ==
  ASSUME IInv, [Next]_vars, NEW c \in Consumer, NEW n, Accounted(c, n)
  PROVE  Accounted(c, n)'
<1>1. CASE UNCHANGED <<missed, buffer, got>>
  BY <1>1 DEF Accounted, RangeOf, Heard
<1>2. CASE \E a \in Consumer : receive(a)
  BY <1>2, receiveAccounts
<1> QED
  BY <1>1, <1>2, CrashAccounts, publishAccounts
     DEF Next, MainLoop, Consume, vars, subVars, Start, Label, popInbound, dial, request,
         subscribe, Reconnect

\* What is published and wanted is heard or on its way.
LEMMA NothingElseLostStep == IInv /\ NothingElseLost /\ [Next]_vars => NothingElseLost'
<1> SUFFICES ASSUME IInv, NothingElseLost, [Next]_vars,
                    NEW c \in Consumer, NEW n \in streamed', Wants(c, n)'
             PROVE  Accounted(c, n)'
  BY DEF NothingElseLost, Accounted, RangeOf, Heard
<1>1. CASE n \in streamed
  <2>1. n \in Line /\ n <= Len(made)
    BY <1>1 DEF IInv, TypeOK, StreamedBefore
  <2>2. Wants(c, n)
    BY <2>1, WantsStays
  <2>3. Accounted(c, n)
    BY <1>1, <2>2 DEF NothingElseLost, Accounted
  <2> QED
    BY <2>3, AccountedStep
<1>2. CASE n \notin streamed
  <2>1. publish /\ n = inMessage
    BY <1>2 DEF Next, MainLoop, Consume, vars, subVars, Start, Crash, Label, popInbound,
       publish, dial, request, subscribe, receive, Reconnect
  <2>2. n \in Line /\ n <= Len(made)
    BY <2>1 DEF IInv, TypeOK, QueueInOrder, publish
  <2>3. Wants(c, n)
    BY <2>2, WantsStays
  <2> QED
    BY <2>1, <2>3, publishAccounts
<1> QED
  BY <1>1, <1>2

\* Between the lines it counts as missed a consumer has no gap: whatever is
\* published and wanted is heard or on its way (NothingElseLost).
THEOREM NoOtherGap == Spec => []NothingElseLost
<1>1. Init => NothingElseLost
  BY DEF Init, NothingElseLost
<1> QED
  BY <1>1, NothingElseLostStep, Invariance, PTL DEF Spec

-----------------------------------------------------------------------------
(***************************************************************************)
(* The refinement: what consumers hear is a feed.                          *)
(***************************************************************************)
heard == [c \in Consumer |-> Lines(c)]

LEMMA InitIsInit == Init => TheFeed!Init
<1> SUFFICES ASSUME Init PROVE TheFeed!Init
  OBVIOUS
<1>1. \A c \in Consumer : Lines(c) = <<>>
  BY DEF Init, Lines
<1> QED
  BY <1>1 DEF Init, TheFeed!Init

LEMMA LabelIsSend ==
  ASSUME NEW ch \in Channel, Label(ch) PROVE TheFeed!Send
<1>1. made' = Append(made, ch) /\ got' = got
  BY DEF Label
<1>2. heard' = heard
  BY <1>1 DEF heard, Lines
<1> QED
  BY <1>1, <1>2 DEF TheFeed!Send, heard, Lines

LEMMA receiveIsHear ==
  ASSUME NEW c \in Consumer, IInv, receive(c) PROVE TheFeed!Hear(c)
<1> DEFINE n == buffer[c][1]
           m == [line |-> n, topic |-> Topic(n), data |-> Text[n]]
           Message == [line : Line, topic : Seq(Char), data : Seq(Char)]
           Interest == [a \in Consumer |->
              {ch \in Channel : Matches(Subscription(a), <<"/sensor", "s", "/">> \o NameOf[ch])}]
<1>1. /\ n \in Line /\ n <= Len(made) /\ Wants(c, n)
      /\ \A k \in 1 .. Len(got[c]) : got[c][k].line < n
      /\ got' = [got EXCEPT ![c] = Append(@, m)]
      /\ made' = made
  BY ReceiveDoes
<1>2. made \in Seq(Channel) /\ got \in [Consumer -> Seq(Message)]
  BY DEF IInv, TypeOK
<1>3. n \in 1 .. Len(made) /\ made[n] \in Channel
  BY <1>1, <1>2 DEF Line
<1>4. made[n] \in Interest[c]
  BY <1>1, <1>3 DEF Wants, Topic
<1>5. m.line = n
  OBVIOUS
<1> HIDE DEF n, m, Message, Interest
<1>6. \A k \in 1 .. Len(Lines(c)) : Lines(c)[k] < n
  BY <1>1, <1>2 DEF Lines
<1>7. /\ got[c] \in Seq(Message) /\ got'[c] = Append(got[c], m)
      /\ \A a \in Consumer \ {c} : got'[a] = got[a]
  BY <1>1, <1>2
<1>8. Lines(c)' = Append(Lines(c), n)
  BY <1>5, <1>7 DEF Lines
<1>9. \A a \in Consumer \ {c} : Lines(a)' = Lines(a)
  BY <1>7 DEF Lines
<1>10. heard' = [heard EXCEPT ![c] = Append(@, n)]
  BY <1>8, <1>9 DEF heard
<1>11. heard[c] = Lines(c)
  BY DEF heard
<1> QED
  BY <1>1, <1>3, <1>4, <1>6, <1>10, <1>11 DEF TheFeed!Hear, heard, Interest

LEMMA StepIsStep == IInv /\ [Next]_vars => [TheFeed!Next]_(TheFeed!vars)
<1> SUFFICES ASSUME IInv, [Next]_vars PROVE [TheFeed!Next]_(TheFeed!vars)
  OBVIOUS
<1>1. CASE UNCHANGED <<made, got>>
  <2>1. heard' = heard
    BY <1>1 DEF heard, Lines
  <2> QED
    BY <1>1, <2>1 DEF TheFeed!vars, heard
<1>2. CASE \E ch \in Channel : Label(ch)
  BY <1>2, LabelIsSend DEF TheFeed!Next
<1>3. CASE \E c \in Consumer : receive(c)
  BY <1>3, receiveIsHear DEF TheFeed!Next
<1> QED
  BY <1>1, <1>2, <1>3 DEF Next, MainLoop, Consume, vars, subVars, Start, Crash, popInbound,
     publish, dial, request, subscribe, Reconnect

\* Over the queue, the main loop, drops, ends of the bridge and new connections
\* every consumer hears lines in the order in which they were pushed, none
\* twice, and only of channels that match its subscription.
THEOREM FeedImplemented == Spec => ImplementsFeed
<1> QED
  BY InitIsInit, StepIsStep, Invariance, PTL DEF Spec, ImplementsFeed, TheFeed!Spec

-----------------------------------------------------------------------------
(***************************************************************************)
(* The topic that is asked for, less its last character.                   *)
(***************************************************************************)
TopicOf(ch) == <<"/sensor", "s", "/">> \o NameOf[ch]

\* Each topic that a callback gets is that of a channel, and begins with the
\* topic asked for without its last character: nothing else gets through.
SubscriptionKept ==
  \A c \in Consumer : \A k \in 1 .. Len(got[c]) :
     \E ch \in Channel : got[c][k].topic = TopicOf(ch) /\ Matches(Subscription(c), TopicOf(ch))

\* The step in which a callback gets a message, and the others.
LEMMA SubscriptionStep == IInv /\ SubscriptionKept /\ [Next]_vars => SubscriptionKept'
<1> SUFFICES ASSUME IInv, SubscriptionKept, [Next]_vars PROVE SubscriptionKept'
  OBVIOUS
<1> USE DEF SubscriptionKept, Subscription
<1>1. CASE UNCHANGED got
  BY <1>1
<1>2. ASSUME NEW c \in Consumer, receive(c) PROVE SubscriptionKept'
  <2> DEFINE n == buffer[c][1]
             m == [line |-> n, topic |-> Topic(n), data |-> Text[n]]
             Message == [line : Line, topic : Seq(Char), data : Seq(Char)]
  <2>1. n \in Line /\ n <= Len(made) /\ Wants(c, n) /\ got' = [got EXCEPT ![c] = Append(@, m)]
    BY <1>2, ReceiveDoes
  <2>2. made \in Seq(Channel) /\ got \in [Consumer -> Seq(Message)]
    BY DEF IInv, TypeOK
  <2>3. made[n] \in Channel /\ m.topic = TopicOf(made[n])
        /\ Matches(Subscription(c), TopicOf(made[n]))
    <3> HIDE DEF n, SubscriptionKept, Subscription
    <3>1. made[n] \in Channel
      BY <2>1, <2>2 DEF Line
    <3>2. m.topic = TopicOf(made[n])
      BY DEF Topic, TopicOf
    <3>3. Matches(Subscription(c), TopicOf(made[n]))
      BY <2>1 DEF Wants, Topic, TopicOf
    <3> QED
      BY <3>1, <3>2, <3>3
  <2> HIDE DEF n, m, Message
  <2>3a. got[c] \in Seq(Message)
    BY <2>2
  <2>3b. got'[c] = Append(got[c], m)
    BY <2>1, <2>2
  <2>3c. ASSUME NEW a \in Consumer \ {c} PROVE got'[a] = got[a]
    BY <2>1, <2>2
  <2>4. /\ got[c] \in Seq(Message) /\ got'[c] = Append(got[c], m)
        /\ \A a \in Consumer \ {c} : got'[a] = got[a]
    BY <2>3a, <2>3b, <2>3c
  <2>5. \A k \in 1 .. Len(got'[c]) :
           (k \in 1 .. Len(got[c]) /\ got'[c][k] = got[c][k]) \/ got'[c][k] = m
    BY <2>4
  <2>6. ASSUME NEW k \in 1 .. Len(got'[c])
        PROVE  \E ch \in Channel : /\ got'[c][k].topic = TopicOf(ch)
                                   /\ Matches(Subscription(c), TopicOf(ch))
    BY <2>3, <2>5
  <2>7. ASSUME NEW a \in Consumer \ {c}, NEW k \in 1 .. Len(got'[a])
        PROVE  \E ch \in Channel : /\ got'[a][k].topic = TopicOf(ch)
                                   /\ Matches(Subscription(a), TopicOf(ch))
    BY <2>4
  <2> HIDE DEF Subscription
  <2> QED
    BY <2>6, <2>7
<1>3. ASSUME Start \/ Crash \/ MainLoop \/ UNCHANGED vars \/ \E ch \in Channel : Label(ch)
      PROVE  UNCHANGED got
  BY <1>3 DEF Start, Crash, MainLoop, popInbound, publish, Label, vars
<1>4. ASSUME NEW c \in Consumer, dial(c) \/ request(c) \/ subscribe(c) \/ Reconnect(c)
      PROVE  UNCHANGED got
  BY <1>4 DEF dial, request, subscribe, Reconnect
<1> HIDE DEF SubscriptionKept
<1> QED
  BY <1>1, <1>2, <1>3, <1>4 DEF Next, Consume

\* It holds in every state.
THEOREM SubscriptionsKept == Spec => []SubscriptionKept
<1>1. Init => SubscriptionKept
  BY DEF Init, SubscriptionKept
<1> QED
  BY <1>1, SubscriptionStep, Invariance, PTL DEF Spec

=============================================================================
