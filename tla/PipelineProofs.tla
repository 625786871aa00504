--------------------------- MODULE PipelineProofs ---------------------------
(***************************************************************************)
(* What holds of Pipeline for every bound of the queue, every width of     *)
(* size_t, and all that Stream leaves open.  A step of the pipeline is a   *)
(* step of Stream, or a line that push() drops: what is proved of the      *)
(* steps of Stream is used as it is.                                       *)
(***************************************************************************)
EXTENDS Pipeline, StreamProofs

-----------------------------------------------------------------------------
\* What the pipeline does to the variables of Stream.
LEMMA StreamPart ==
  ASSUME [PipelineNext]_pipelineVars
  PROVE  [Next]_vars \/ \E ch \in Channel : LabelDropped(ch)
<1>1. CASE UNCHANGED pipelineVars
  BY <1>1 DEF pipelineVars
<1>2. CASE Boot \/ Halt
  BY <1>2 DEF Boot, Halt, Next
<1>3. ASSUME NEW ch \in Channel, Relay(ch) PROVE Next \/ LabelDropped(ch)
  BY <1>3 DEF Relay, Next
<1>4. CASE Main \/ Wake
  BY <1>4 DEF Main, Wake, Take, Sleep, Publish, Next, MainLoop
<1>5. ASSUME NEW c \in Consumer, Consumes(c) \/ Reconnects(c) PROVE Next
  BY <1>5 DEF Consumes, Reconnects, Next
<1> QED
  BY <1>1, <1>2, <1>3, <1>4, <1>5 DEF PipelineNext

\* A line that is dropped is made, and nothing else happens to it.
LEMMA DroppedStep == ASSUME NEW ch \in Channel, IInv, LabelDropped(ch) PROVE IInv'
<1>1. /\ UNCHANGED <<bridgeVars, streamed, phase, subVars, got>>
      /\ made' = Append(made, ch) /\ Len(made) < MaxLines
  BY DEF LabelDropped
<1>2. made \in Seq(Channel) /\ streamed \subseteq Line
  BY DEF IInv, TypeOK
<1>3. made' \in Seq(Channel) /\ Len(made) \in Nat /\ Len(made') = Len(made) + 1
  BY <1>1, <1>2, AppendToSeq
<1>4. TypeOK'
  <2>1. Len(made') <= MaxLines
    BY <1>1, <1>3, BoundsAssumption
  <2> QED
    BY <1>1, <1>3, <2>1 DEF IInv, TypeOK, bridgeVars, subVars
<1>5. QueueInOrder'
  <2>1. inMessage \in Nat /\ inMessage' = inMessage /\ inMessage <= Len(made)
    BY <1>1 DEF IInv, TypeOK, QueueInOrder, Line, bridgeVars
  <2>2. inMessage' <= Len(made')
    BY <1>3, <2>1
  <2>3. ASSUME NEW k \in 1 .. Len(inboundQ)
        PROVE  inboundQ[k] <= Len(made') /\ inMessage < inboundQ[k]
    BY <1>3, InQueue
  <2>4. Increasing(inboundQ)
    BY DEF IInv, QueueInOrder
  <2> QED
    BY <1>1, <2>1, <2>2, <2>3, <2>4 DEF QueueInOrder, Increasing, bridgeVars
<1>6. StreamedBefore'
  <2>1. ASSUME NEW n \in streamed PROVE n <= Len(made')
    <3>1. n \in Nat /\ n <= Len(made)
      BY <1>2 DEF IInv, StreamedBefore, Line
    <3> QED
      BY <1>3, <3>1
  <2> QED
    BY <1>1, <2>1 DEF IInv, StreamedBefore, bridgeVars
<1>7. ASSUME NEW n \in streamed
      PROVE  Topic(n)' = Topic(n) /\ \A c \in Consumer : Wants(c, n)' = Wants(c, n)
  <2>1. n \in Line /\ n <= Len(made)
    BY <1>2 DEF IInv, StreamedBefore
  <2> QED
    BY <1>1, <1>2, <2>1, MadeGrows
<1>8. WaysInOrder'
  BY <1>1, <1>7 DEF IInv, WaysInOrder, Increasing, subVars
<1>9. HeardBefore'
  BY <1>1 DEF IInv, HeardBefore, subVars
<1>10. MessagesWhole'
  BY <1>1, <1>7 DEF IInv, MessagesWhole, HeardBefore
<1> QED
  BY <1>4, <1>5, <1>6, <1>8, <1>9, <1>10 DEF IInv

\* So the invariant of Stream is one of the pipeline, after the wrap too.
LEMMA StreamInvariant == IInv /\ [PipelineNext]_pipelineVars => IInv'
  BY StreamPart, Inductive, DroppedStep

\* What is lost is missed for a reason, or was never published.
LEMMA LossesStay ==
  IInv /\ NothingElseLost /\ [PipelineNext]_pipelineVars => NothingElseLost'
<1> SUFFICES ASSUME IInv, NothingElseLost, [PipelineNext]_pipelineVars
             PROVE  NothingElseLost'
  OBVIOUS
<1>1. CASE [Next]_vars
  BY <1>1, NothingElseLostStep
<1>2. ASSUME NEW ch \in Channel, LabelDropped(ch) PROVE NothingElseLost'
  <2>1. /\ UNCHANGED <<streamed, missed, buffer, got>>
        /\ made' = Append(made, ch) /\ made \in Seq(Channel)
    BY <1>2 DEF LabelDropped, subVars, IInv, TypeOK
  <2>2. ASSUME NEW c \in Consumer, NEW n \in streamed PROVE Wants(c, n)' = Wants(c, n)
    <3>1. n \in Line /\ n <= Len(made)
      BY DEF IInv, TypeOK, StreamedBefore
    <3> QED
      BY <2>1, <3>1, MadeGrows
  <2> QED
    BY <2>1, <2>2 DEF NothingElseLost, Heard, RangeOf
<1> QED
  BY <1>1, <1>2, StreamPart

-----------------------------------------------------------------------------
(***************************************************************************)
(* The inductive invariant: what the queue holds, seen from the lines.     *)
(***************************************************************************)
\* Its messages are those of this process.
QueueTyped ==
  /\ maxNumberOfItems \in 0 .. SizeMod - 1
  /\ popper \in [{"main"} -> {"running", "waiting", "woken"}]
  /\ pushCalls \in 0 .. Len(made)
  /\ delivered \in Seq(1 .. MaxLines)
  /\ \A k \in 1 .. Len(inboundQ) : inboundQ[k] - Earlier \in 1 .. pushCalls

\* It holds no more than was pushed, and a new process begins with none.
FewEnough == Len(inboundQ) <= pushCalls /\ (~up => pushCalls = 0)

\* The bound is raised by every push, until it wraps.
BoundInv == BeforeWrap => maxNumberOfItems = ConfiguredMax + pushCalls

\* The main thread sleeps only while there is nothing to publish.
MainLoopAwake == popper["main"] = "waiting" => inboundQ = <<>>

\* Until the wrap each line of this process was published or is in the bridge.
KeptInv ==
  BeforeWrap => \A n \in Earlier + 1 .. Len(made) : n \in streamed \/ Pending(n)

PInv == IInv /\ QueueTyped /\ FewEnough /\ BoundInv /\ MainLoopAwake /\ KeptInv

\* The numbers that the proofs count with.
LEMMA Numbers ==
  ASSUME IInv, QueueTyped
  PROVE  /\ made \in Seq(Channel) /\ Len(made) \in Nat
         /\ pushCalls \in Nat /\ pushCalls <= Len(made) /\ Earlier \in Nat
         /\ inboundQ \in Seq(Line) /\ Len(inboundQ) \in Nat
         /\ maxNumberOfItems \in Nat /\ maxNumberOfItems < SizeMod
         /\ SizeMod \in Nat \ {0} /\ ConfiguredMax \in Nat /\ MaxLines \in Nat
         /\ Len(made) <= MaxLines
<1>1. made \in Seq(Channel) /\ inboundQ \in Seq(Line) /\ Len(made) <= MaxLines
  BY DEF IInv, TypeOK
<1>2. pushCalls \in 0 .. Len(made) /\ maxNumberOfItems \in 0 .. SizeMod - 1
  BY DEF QueueTyped
<1>3. SizeMod \in Nat \ {0} /\ ConfiguredMax \in Nat /\ MaxLines \in Nat
  BY SizesAssumption, BoundsAssumption
<1>4. Len(made) \in Nat /\ Len(inboundQ) \in Nat
  BY <1>1
<1>5. pushCalls \in Nat /\ pushCalls <= Len(made) /\ Earlier \in Nat
  BY <1>2, <1>4 DEF Earlier
<1>6. maxNumberOfItems \in Nat /\ maxNumberOfItems < SizeMod
  BY <1>2, <1>3
<1> QED
  BY <1>1, <1>3, <1>4, <1>5, <1>6

LEMMA PipelineInitially == PipelineInit => PInv
<1> SUFFICES ASSUME PipelineInit PROVE PInv
  OBVIOUS
<1>1. Init /\ Queue!Init
  BY DEF PipelineInit
<1>2. up = FALSE /\ made = <<>> /\ inboundQ = <<>>
  BY <1>1 DEF Init
<1>3. /\ maxNumberOfItems = DefaultMax /\ pushCalls = 0 /\ delivered = <<>>
      /\ popper = [c \in {"main"} |-> "running"]
  BY <1>1 DEF Queue!Init
<1>4. QueueTyped
  <2>1. Len(made) = 0 /\ Len(inboundQ) = 0
    BY <1>2
  <2> QED
    BY <1>3, <2>1, SizesAssumption DEF QueueTyped
<1>5. FewEnough /\ BoundInv /\ MainLoopAwake /\ KeptInv
  BY <1>2, <1>3 DEF FewEnough, BoundInv, MainLoopAwake, KeptInv, BeforeWrap
<1> QED
  BY <1>1, <1>4, <1>5, Initially DEF PInv

-----------------------------------------------------------------------------
(* What push() and pop() do, in terms of the lines. *)

\* A line that is pushed is kept below the raised bound, and the main thread is
\* woken; otherwise it is dropped.
LEMMA RelayDoes ==
  ASSUME PInv, NEW ch \in Channel, Relay(ch)
  PROVE  /\ up /\ made' = Append(made, ch) /\ Len(made') = Len(made) + 1
         /\ pushCalls' = pushCalls + 1 /\ Earlier' = Earlier
         /\ maxNumberOfItems' = (maxNumberOfItems + 1) % SizeMod
         /\ UNCHANGED <<up, inMessage, streamed, delivered>>
         /\ \/ /\ inboundQ' = Append(inboundQ, Len(made) + 1)
               /\ Len(inboundQ) < maxNumberOfItems'
               /\ popper["main"] # "waiting" => popper' = popper
               /\ popper["main"] = "waiting" => popper' = [popper EXCEPT !["main"] = "woken"]
            \/ /\ inboundQ' = inboundQ
               /\ Len(inboundQ) >= maxNumberOfItems'
               /\ popper' = popper
<1> DEFINE q == [k \in 1 .. Len(inboundQ) |-> inboundQ[k] - Earlier]
<1>1. /\ made' = Append(made, ch) /\ up
      /\ UNCHANGED <<up, inMessage, streamed>>
      /\ inboundQ' = inboundQ \/ inboundQ' = Append(inboundQ, Len(made'))
  BY DEF Relay, Label, LabelDropped, bridgeVars
<1>2. /\ pushCalls' = pushCalls + 1 /\ maxNumberOfItems' = (maxNumberOfItems + 1) % SizeMod
      /\ delivered' = delivered
      /\ \/ /\ Len(q) < maxNumberOfItems' /\ q' = Append(q, pushCalls')
            /\ Queue!NotifyOne
         \/ Len(q) >= maxNumberOfItems' /\ q' = q /\ popper' = popper
  BY DEF Relay, Queue!push, Queue!Raised
<1>3. /\ made \in Seq(Channel) /\ Len(made) \in Nat /\ pushCalls \in Nat
      /\ inboundQ \in Seq(Line) /\ Len(inboundQ) \in Nat /\ Earlier \in Nat
  BY Numbers DEF PInv
<1>4. Len(made') = Len(made) + 1
  BY <1>1, <1>3
<1>5. Earlier' = Earlier
  BY <1>2, <1>3, <1>4 DEF Earlier
<1>6. q \in Seq(Int) /\ Len(q) = Len(inboundQ) /\ Len(q') = Len(inboundQ')
  <2>1. Len(made') \in Line
    <3>1. Len(made) < MaxLines
      BY DEF Relay, Label, LabelDropped
    <3> QED
      BY <1>3, <1>4, <3>1, BoundsAssumption DEF Line
  <2>2. Len(inboundQ') \in Nat
    BY <1>1, <1>3, <2>1, AppendToSeq
  <2>3. ASSUME NEW k \in 1 .. Len(inboundQ) PROVE inboundQ[k] - Earlier \in Int
    <3>1. inboundQ[k] \in Line
      BY <1>3
    <3> QED
      BY <1>3, <3>1 DEF Line
  <2>4. q \in Seq(Int) /\ Len(q) = Len(inboundQ)
    BY <1>3, <2>3
  <2>5. Len(q') = Len(inboundQ')
    BY <2>2
  <2> QED
    BY <2>4, <2>5
<1>7. CASE Len(q) < maxNumberOfItems' /\ q' = Append(q, pushCalls') /\ Queue!NotifyOne
  <2>1. Len(inboundQ') = Len(inboundQ) + 1
    BY <1>6, <1>7
  <2>2. inboundQ' = Append(inboundQ, Len(made) + 1)
    BY <1>1, <1>3, <1>4, <2>1
  <2>3. /\ popper["main"] # "waiting" => popper' = popper
        /\ popper["main"] = "waiting" => popper' = [popper EXCEPT !["main"] = "woken"]
    BY <1>7 DEF Queue!NotifyOne, Queue!Waiting
  <2> QED
    BY <1>1, <1>2, <1>4, <1>5, <1>6, <1>7, <2>2, <2>3
<1>8. CASE Len(q) >= maxNumberOfItems' /\ q' = q /\ popper' = popper
  <2>1. Len(inboundQ') = Len(inboundQ)
    BY <1>6, <1>8
  <2>2. inboundQ' = inboundQ
    BY <1>1, <1>3, <1>4, <2>1
  <2> QED
    BY <1>1, <1>2, <1>4, <1>5, <1>6, <1>8, <2>2
<1> QED
  BY <1>2, <1>7, <1>8

\* The front line goes to the main loop, and nothing else changes in the bridge.
LEMMA TakeDoes ==
  ASSUME PInv, Take
  PROVE  /\ UNCHANGED <<up, made, streamed, pushCalls, maxNumberOfItems>>
         /\ Earlier' = Earlier
         /\ inboundQ # <<>> /\ inMessage = 0
         /\ inMessage' = Head(inboundQ) /\ inboundQ' = Tail(inboundQ)
         /\ popper' = [popper EXCEPT !["main"] = "running"]
         /\ delivered' = Append(delivered, Head(inboundQ) - Earlier)
<1>1. /\ UNCHANGED <<up, made, streamed, pushCalls>>
      /\ inboundQ # <<>> /\ inMessage = 0
      /\ inMessage' = Head(inboundQ) /\ inboundQ' = Tail(inboundQ)
  BY DEF Take, popInbound, Popped
<1>2. /\ popper' = [popper EXCEPT !["main"] = "running"] /\ maxNumberOfItems' = maxNumberOfItems
      /\ delivered' = Append(delivered, Head([k \in 1 .. Len(inboundQ) |-> inboundQ[k] - Earlier]))
  BY DEF Take, Queue!popTake, Queue!TakeFront, Queue!Front
<1>3. inboundQ \in Seq(Line)
  BY DEF PInv, IInv, TypeOK
<1>4. Head([k \in 1 .. Len(inboundQ) |-> inboundQ[k] - Earlier]) = Head(inboundQ) - Earlier
  <2>1. 1 \in 1 .. Len(inboundQ) /\ Head(inboundQ) = inboundQ[1]
    BY <1>1, <1>3
  <2> QED
    BY <2>1
<1>5. Earlier' = Earlier
  BY <1>1 DEF Earlier
<1> QED
  BY <1>1, <1>2, <1>4, <1>5

-----------------------------------------------------------------------------
(* No step leaves the invariant. *)

\* A line that is kept is the last in the queue.
LEMMA KeptIsLast ==
  ASSUME PInv, NEW ch \in Channel, Relay(ch), inboundQ' = Append(inboundQ, Len(made) + 1)
  PROVE  /\ Len(inboundQ') = Len(inboundQ) + 1
         /\ \A i \in 1 .. Len(inboundQ) : inboundQ'[i] = inboundQ[i]
         /\ inboundQ'[Len(inboundQ) + 1] = Len(made) + 1
<1>1. Len(made) + 1 \in Line
  <2>1. Len(made) < MaxLines
    BY DEF Relay, Label, LabelDropped
  <2> QED
    BY <2>1, Numbers DEF PInv, Line
<1>2. inboundQ \in Seq(Line)
  BY Numbers DEF PInv
<1> QED
  BY <1>1, <1>2, AppendToSeq

\* Before the wrap the raised bound is above all that was pushed, so that the
\* line is kept.
LEMMA RaisedBound ==
  ASSUME PInv, NEW ch \in Channel, Relay(ch)
  PROVE  /\ maxNumberOfItems' \in 0 .. SizeMod - 1
         /\ BeforeWrap' => /\ BeforeWrap
                           /\ maxNumberOfItems' = ConfiguredMax + pushCalls'
                           /\ inboundQ' = Append(inboundQ, Len(made) + 1)
<1>1. /\ up /\ up' = up /\ pushCalls' = pushCalls + 1
      /\ maxNumberOfItems' = (maxNumberOfItems + 1) % SizeMod
      /\ inboundQ' = Append(inboundQ, Len(made) + 1) \/ Len(inboundQ) >= maxNumberOfItems'
  BY RelayDoes
<1>2. /\ pushCalls \in Nat /\ Len(inboundQ) \in Nat /\ maxNumberOfItems \in Nat
      /\ SizeMod \in Nat \ {0} /\ ConfiguredMax \in Nat
  BY Numbers DEF PInv
<1>3. maxNumberOfItems' \in 0 .. SizeMod - 1
  BY <1>1, <1>2
<1>4. ASSUME BeforeWrap'
      PROVE  /\ BeforeWrap
             /\ maxNumberOfItems' = ConfiguredMax + pushCalls'
             /\ inboundQ' = Append(inboundQ, Len(made) + 1)
  <2>1. ConfiguredMax + pushCalls + 1 < SizeMod
    BY <1>1, <1>2, <1>4 DEF BeforeWrap
  <2>2. BeforeWrap
    BY <1>1, <1>2, <2>1 DEF BeforeWrap
  <2>3. maxNumberOfItems = ConfiguredMax + pushCalls
    BY <2>2 DEF PInv, BoundInv
  <2>4. maxNumberOfItems' = ConfiguredMax + pushCalls + 1
    BY <1>1, <1>2, <2>1, <2>3
  <2>5. Len(inboundQ) <= pushCalls
    BY DEF PInv, FewEnough
  <2>6. ~(Len(inboundQ) >= maxNumberOfItems')
    BY <1>2, <2>4, <2>5
  <2> QED
    BY <1>1, <1>2, <2>2, <2>4, <2>6
<1> QED
  BY <1>3, <1>4

\* What was made, published or pending before a push is so after it.
LEMMA KeptStays ==
  ASSUME PInv, NEW ch \in Channel, Relay(ch), BeforeWrap',
         NEW n \in Earlier + 1 .. Len(made) + 1
  PROVE  n \in streamed \/ Pending(n)'
<1>1. BeforeWrap /\ inboundQ' = Append(inboundQ, Len(made) + 1)
  BY RaisedBound
<1>2. /\ Len(inboundQ') = Len(inboundQ) + 1 /\ Len(inboundQ) \in Nat
      /\ \A i \in 1 .. Len(inboundQ) : inboundQ'[i] = inboundQ[i]
      /\ inboundQ'[Len(inboundQ) + 1] = Len(made) + 1
  BY <1>1, KeptIsLast, Numbers DEF PInv
<1>3. Len(made) \in Nat /\ Earlier \in Nat /\ inMessage' = inMessage
  BY Numbers, RelayDoes DEF PInv
<1>4. CASE n = Len(made) + 1
  <2>1. Len(inboundQ) + 1 \in 1 .. Len(inboundQ')
    BY <1>2
  <2> QED
    BY <1>2, <1>4, <2>1 DEF Pending, RangeOf
<1>5. CASE n \in RangeOf(inboundQ)
  <2>1. PICK k \in 1 .. Len(inboundQ) : inboundQ[k] = n
    BY <1>5 DEF RangeOf
  <2>2. k \in 1 .. Len(inboundQ') /\ inboundQ'[k] = n
    BY <1>2, <2>1
  <2> QED
    BY <2>2 DEF Pending, RangeOf
<1>6. CASE n # Len(made) + 1 /\ n \notin RangeOf(inboundQ)
  <2>1. n \in Earlier + 1 .. Len(made)
    BY <1>3, <1>6
  <2>2. n \in streamed \/ Pending(n)
    BY <1>1, <2>1 DEF PInv, KeptInv
  <2> QED
    BY <1>3, <1>6, <2>2 DEF Pending
<1> QED
  BY <1>4, <1>5, <1>6

LEMMA RelayStep ==
  ASSUME PInv, NEW ch \in Channel, Relay(ch)
  PROVE  QueueTyped' /\ FewEnough' /\ BoundInv' /\ MainLoopAwake' /\ KeptInv'
<1>1. /\ up /\ up' = up /\ Len(made') = Len(made) + 1
      /\ pushCalls' = pushCalls + 1 /\ Earlier' = Earlier
      /\ inMessage' = inMessage /\ streamed' = streamed /\ delivered' = delivered
  BY RelayDoes
<1>2. \/ inboundQ' = inboundQ /\ popper' = popper
      \/ /\ inboundQ' = Append(inboundQ, Len(made) + 1)
         /\ popper["main"] # "waiting" => popper' = popper
         /\ popper["main"] = "waiting" => popper' = [popper EXCEPT !["main"] = "woken"]
  BY RelayDoes
<1>3. /\ Len(made) \in Nat /\ pushCalls \in Nat /\ pushCalls <= Len(made) /\ Earlier \in Nat
      /\ Len(inboundQ) \in Nat
  BY Numbers DEF PInv
<1>4. popper \in [{"main"} -> {"running", "waiting", "woken"}] /\ delivered \in Seq(1 .. MaxLines)
  BY DEF PInv, QueueTyped
<1>5. QueueTyped'
  <2>1. maxNumberOfItems' \in 0 .. SizeMod - 1
    BY RaisedBound
  <2>2. popper' \in [{"main"} -> {"running", "waiting", "woken"}]
    BY <1>2, <1>4
  <2>3. pushCalls' \in 0 .. Len(made')
    BY <1>1, <1>3
  <2>4. ASSUME NEW k \in 1 .. Len(inboundQ), inboundQ'[k] = inboundQ[k]
        PROVE  inboundQ'[k] - Earlier \in 1 .. pushCalls + 1
    <3>1. inboundQ[k] - Earlier \in 1 .. pushCalls
      BY DEF PInv, QueueTyped
    <3> QED
      BY <1>3, <2>4, <3>1
  <2>5. ASSUME NEW k \in 1 .. Len(inboundQ')
        PROVE  inboundQ'[k] - Earlier \in 1 .. pushCalls + 1
    <3>1. CASE inboundQ' = inboundQ
      BY <2>4, <3>1
    <3>2. CASE inboundQ' = Append(inboundQ, Len(made) + 1)
      <4>1. /\ Len(inboundQ') = Len(inboundQ) + 1
            /\ \A i \in 1 .. Len(inboundQ) : inboundQ'[i] = inboundQ[i]
            /\ inboundQ'[Len(inboundQ) + 1] = Len(made) + 1
        BY <3>2, KeptIsLast
      <4>2. k \in 1 .. Len(inboundQ) \/ k = Len(inboundQ) + 1
        BY <1>3, <4>1
      <4>3. Len(made) + 1 - Earlier \in 1 .. pushCalls + 1
        BY <1>3 DEF Earlier
      <4>4. CASE k \in 1 .. Len(inboundQ)
        BY <2>4, <4>1, <4>4
      <4>5. CASE k = Len(inboundQ) + 1
        <5>1. inboundQ'[k] = Len(made) + 1
          BY <4>1, <4>5
        <5> QED
          BY <1>3, <4>3, <5>1
      <4> QED
        BY <4>2, <4>4, <4>5
    <3> QED
      BY <1>2, <3>1, <3>2
  <2> QED
    BY <1>1, <1>4, <2>1, <2>2, <2>3, <2>5 DEF QueueTyped
<1>6. FewEnough'
  <2>1. Len(inboundQ') <= Len(inboundQ) + 1
    BY <1>2, <1>3, KeptIsLast
  <2>2. Len(inboundQ') \in Nat
    BY <1>2, <1>3, KeptIsLast
  <2> QED
    BY <1>1, <1>3, <2>1, <2>2 DEF PInv, FewEnough
<1>7. BoundInv'
  BY RaisedBound DEF BoundInv
<1>8. MainLoopAwake'
  BY <1>2, <1>4 DEF PInv, MainLoopAwake
<1>9. KeptInv'
  BY <1>1, KeptStays DEF KeptInv
<1> QED
  BY <1>5, <1>6, <1>7, <1>8, <1>9

\* The line that pop() returns was in front of the queue.
LEMMA TakeStep ==
  ASSUME PInv, Take
  PROVE  QueueTyped' /\ FewEnough' /\ BoundInv' /\ MainLoopAwake' /\ KeptInv'
<1>1. /\ UNCHANGED <<up, made, streamed, pushCalls, maxNumberOfItems>>
      /\ Earlier' = Earlier /\ inboundQ # <<>> /\ inMessage = 0
      /\ inMessage' = Head(inboundQ) /\ inboundQ' = Tail(inboundQ)
      /\ popper' = [popper EXCEPT !["main"] = "running"]
      /\ delivered' = Append(delivered, Head(inboundQ) - Earlier)
  BY TakeDoes
<1>2. /\ Len(made) \in Nat /\ pushCalls \in Nat /\ pushCalls <= Len(made) /\ Earlier \in Nat
      /\ Len(inboundQ) \in Nat /\ inboundQ \in Seq(Line) /\ Len(made) <= MaxLines
      /\ MaxLines \in Nat
  BY Numbers DEF PInv
<1>3. /\ Len(inboundQ') = Len(inboundQ) - 1 /\ 1 \in 1 .. Len(inboundQ)
      /\ \A i \in 1 .. Len(inboundQ') : inboundQ'[i] = inboundQ[i + 1] /\ i + 1 \in 1 .. Len(inboundQ)
      /\ Head(inboundQ) = inboundQ[1] /\ inboundQ[1] \in Line
  BY <1>1, <1>2, TailOfSeq
<1>4. /\ maxNumberOfItems \in 0 .. SizeMod - 1 /\ pushCalls \in 0 .. Len(made)
      /\ popper \in [{"main"} -> {"running", "waiting", "woken"}] /\ delivered \in Seq(1 .. MaxLines)
      /\ \A k \in 1 .. Len(inboundQ) : inboundQ[k] - Earlier \in 1 .. pushCalls
  BY DEF PInv, QueueTyped
<1>5. QueueTyped'
  <2>1. delivered' \in Seq(1 .. MaxLines)
    <3>0. inboundQ[1] - Earlier \in 1 .. pushCalls
      BY <1>3, <1>4
    <3>1. inboundQ[1] - Earlier \in 1 .. MaxLines
      BY <1>2, <3>0
    <3> QED
      BY <1>1, <1>3, <1>4, <3>1, AppendToSeq
  <2>2. popper' \in [{"main"} -> {"running", "waiting", "woken"}]
    BY <1>1, <1>4
  <2>3. \A k \in 1 .. Len(inboundQ') : inboundQ'[k] - Earlier \in 1 .. pushCalls
    BY <1>3, <1>4
  <2> QED
    BY <1>1, <1>4, <2>1, <2>2, <2>3 DEF QueueTyped
<1>6. FewEnough'
  BY <1>1, <1>2, <1>3 DEF PInv, FewEnough
<1>7. BoundInv'
  BY <1>1 DEF PInv, BoundInv, BeforeWrap
<1>8. MainLoopAwake'
  BY <1>1, <1>4 DEF MainLoopAwake
<1>9. KeptInv'
  <2> SUFFICES ASSUME BeforeWrap, NEW n \in Earlier + 1 .. Len(made)
               PROVE  n \in streamed \/ Pending(n)'
    BY <1>1 DEF KeptInv, BeforeWrap
  <2>1. n \in streamed \/ Pending(n)
    BY DEF PInv, KeptInv
  <2>2. n # inMessage
    BY <1>1, <1>2
  <2>3. ASSUME NEW k \in 1 .. Len(inboundQ), inboundQ[k] = n, k # 1 PROVE Pending(n)'
    <3>1. k - 1 \in 1 .. Len(inboundQ') /\ (k - 1) + 1 = k
      BY <1>2, <1>3, <2>3
    <3>2. inboundQ'[k - 1] = n
      BY <1>3, <2>3, <3>1
    <3> QED
      BY <3>1, <3>2 DEF Pending, RangeOf
  <2>4. inMessage' = inboundQ[1]
    BY <1>1, <1>3
  <2> QED
    BY <2>1, <2>2, <2>3, <2>4 DEF Pending, RangeOf
<1> QED
  BY <1>5, <1>6, <1>7, <1>8, <1>9

\* The steps that leave the lines and the queue alone, but for what the main
\* thread does in pop() beside an empty queue.
LEMMA QuietStep ==
  ASSUME PInv, UNCHANGED <<up, made, inboundQ, inMessage, streamed>>,
         UNCHANGED <<maxNumberOfItems, pushCalls, delivered>>,
         popper' \in [{"main"} -> {"running", "waiting", "woken"}],
         popper'["main"] = "waiting" => popper["main"] = "waiting" \/ inboundQ = <<>>
  PROVE  QueueTyped' /\ FewEnough' /\ BoundInv' /\ MainLoopAwake' /\ KeptInv'
<1>1. Earlier' = Earlier
  BY DEF Earlier
<1>2. QueueTyped'
  BY <1>1 DEF PInv, QueueTyped
<1>3. FewEnough' /\ BoundInv'
  BY DEF PInv, FewEnough, BoundInv, BeforeWrap
<1>4. MainLoopAwake'
  BY DEF PInv, MainLoopAwake
<1>5. KeptInv'
  BY <1>1 DEF PInv, KeptInv, BeforeWrap, Pending, RangeOf
<1> QED
  BY <1>2, <1>3, <1>4, <1>5

\* What is published was in hand.
LEMMA PublishStep ==
  ASSUME PInv, Publish
  PROVE  QueueTyped' /\ FewEnough' /\ BoundInv' /\ MainLoopAwake' /\ KeptInv'
<1>1. /\ UNCHANGED <<up, made, inboundQ, maxNumberOfItems, pushCalls, delivered, popper>>
      /\ streamed' = streamed \cup {inMessage}
  BY DEF Publish, publish, queueVars
<1>2. Earlier' = Earlier
  BY <1>1 DEF Earlier
<1>3. QueueTyped'
  BY <1>1, <1>2 DEF PInv, QueueTyped
<1>4. FewEnough' /\ BoundInv' /\ MainLoopAwake'
  BY <1>1 DEF PInv, FewEnough, BoundInv, BeforeWrap, MainLoopAwake
<1>5. KeptInv'
  BY <1>1, <1>2 DEF PInv, KeptInv, BeforeWrap, Pending, RangeOf
<1> QED
  BY <1>3, <1>4, <1>5

\* A process begins with an empty queue of the configured size.
LEMMA BootStep ==
  ASSUME PInv, Boot
  PROVE  QueueTyped' /\ FewEnough' /\ BoundInv' /\ MainLoopAwake' /\ KeptInv'
<1>1. /\ ~up /\ up' = TRUE /\ UNCHANGED <<made, inboundQ, inMessage, streamed>>
      /\ maxNumberOfItems' = ConfiguredMax /\ UNCHANGED <<popper, pushCalls, delivered>>
  BY DEF Boot, Start, Queue!setMaxSize
<1>2. pushCalls = 0 /\ Len(made) \in Nat /\ ConfiguredMax \in Nat
  BY <1>1, Numbers DEF PInv, FewEnough
<1>3. Earlier' = Earlier /\ Earlier = Len(made)
  BY <1>1, <1>2 DEF Earlier
<1>4. QueueTyped'
  BY <1>1, <1>3, SizesAssumption DEF PInv, QueueTyped
<1>5. FewEnough' /\ MainLoopAwake'
  BY <1>1 DEF PInv, FewEnough, MainLoopAwake
<1>6. BoundInv'
  BY <1>1, <1>2 DEF BoundInv
<1>7. KeptInv'
  BY <1>1, <1>2, <1>3 DEF KeptInv
<1> QED
  BY <1>4, <1>5, <1>6, <1>7

\* With the process goes all that the invariant speaks of.
LEMMA HaltStep ==
  ASSUME PInv, Halt
  PROVE  QueueTyped' /\ FewEnough' /\ BoundInv' /\ MainLoopAwake' /\ KeptInv'
<1>1. /\ up' = FALSE /\ made' = made /\ inboundQ' = <<>>
      /\ maxNumberOfItems' = DefaultMax /\ popper' = [t \in {"main"} |-> "running"]
      /\ pushCalls' = 0 /\ delivered' = <<>>
  BY DEF Halt, Crash
<1>2. Len(made) \in Nat /\ Len(inboundQ') = 0
  BY <1>1, Numbers DEF PInv
<1>3. QueueTyped'
  BY <1>1, <1>2, SizesAssumption DEF QueueTyped
<1>4. FewEnough' /\ BoundInv' /\ MainLoopAwake' /\ KeptInv'
  BY <1>1, <1>2 DEF FewEnough, BoundInv, MainLoopAwake, KeptInv, BeforeWrap
<1> QED
  BY <1>3, <1>4

LEMMA PipelineStep == PInv /\ [PipelineNext]_pipelineVars => PInv'
<1> SUFFICES ASSUME PInv, [PipelineNext]_pipelineVars PROVE PInv'
  OBVIOUS
<1> DEFINE Others == QueueTyped /\ FewEnough /\ BoundInv /\ MainLoopAwake /\ KeptInv
<1>1. IInv'
  BY StreamInvariant DEF PInv
<1> SUFFICES Others'
  BY <1>1 DEF PInv
<1>2. ASSUME NEW ch \in Channel, Relay(ch) PROVE Others'
  BY <1>2, RelayStep
<1>3. CASE Boot \/ Halt \/ Take \/ Publish
  BY <1>3, BootStep, HaltStep, TakeStep, PublishStep
<1>4. popper \in [{"main"} -> {"running", "waiting", "woken"}]
  BY DEF PInv, QueueTyped
<1>5. CASE Sleep
  <2>1. /\ UNCHANGED <<up, made, inboundQ, inMessage, streamed>>
        /\ UNCHANGED <<maxNumberOfItems, pushCalls, delivered>>
        /\ popper' = [popper EXCEPT !["main"] = "waiting"]
        /\ [k \in 1 .. Len(inboundQ) |-> inboundQ[k] - Earlier] = <<>>
    BY <1>5 DEF Sleep, Queue!popWait, vars, bridgeVars
  <2>2. inboundQ = <<>>
    <3>1. inboundQ \in Seq(Line) /\ Len(inboundQ) \in Nat
      BY Numbers DEF PInv
    <3>2. Len([k \in 1 .. Len(inboundQ) |-> inboundQ[k] - Earlier]) = Len(inboundQ)
      BY <3>1
    <3> QED
      BY <2>1, <3>1, <3>2
  <2> QED
    BY <1>4, <2>1, <2>2, QuietStep
<1>6. CASE Wake
  <2>1. /\ UNCHANGED <<up, made, inboundQ, inMessage, streamed>>
        /\ UNCHANGED <<maxNumberOfItems, pushCalls, delivered>>
        /\ popper' = [popper EXCEPT !["main"] = "woken"]
    BY <1>6 DEF Wake, Queue!SpuriousWakeup, vars, bridgeVars
  <2> QED
    BY <1>4, <2>1, QuietStep
<1>7. ASSUME NEW c \in Consumer, Consumes(c) \/ Reconnects(c) PROVE Others'
  <2>1. /\ UNCHANGED <<up, made, inboundQ, inMessage, streamed>>
        /\ UNCHANGED <<maxNumberOfItems, pushCalls, delivered, popper>>
    BY <1>7 DEF Consumes, Reconnects, Consume, dial, request, subscribe, receive, Reconnect,
       bridgeVars, queueVars
  <2> QED
    BY <1>4, <2>1, QuietStep
<1>8. CASE UNCHANGED pipelineVars
  <2>1. /\ UNCHANGED <<up, made, inboundQ, inMessage, streamed>>
        /\ UNCHANGED <<maxNumberOfItems, pushCalls, delivered, popper>>
    BY <1>8 DEF pipelineVars, vars, bridgeVars, queueVars
  <2> QED
    BY <1>4, <2>1, QuietStep
<1> QED
  BY <1>2, <1>3, <1>5, <1>6, <1>7, <1>8 DEF PipelineNext, Main

\* The invariant holds in every state.
THEOREM PipelineInvariance == PipelineSpec => []PInv
<1> QED
  BY PipelineInitially, PipelineStep, PTL DEF PipelineSpec

\* The types of the variables and of what the queue holds (PipelineTypeOK).
THEOREM PipelineTyped == PipelineSpec => []PipelineTypeOK
<1>1. PInv => PipelineTypeOK
  BY DEF PInv, IInv, QueueTyped, PipelineTypeOK
<1> QED
  BY <1>1, PipelineInvariance, PTL

\* Messages stay whole (MessagesWhole), dropped lines or not.
THEOREM PipelineWhole == PipelineSpec => []MessagesWhole
<1>1. PInv => MessagesWhole
  BY DEF PInv, IInv
<1> QED
  BY <1>1, PipelineInvariance, PTL

\* Until the bound wraps, each line that this process made is in the bridge, on
\* its way, with the consumers that want it, or missed for a reason that Stream
\* names (LinesAccounted): neither push() nor the main loop loses one.
THEOREM PipelineAccounts == PipelineSpec => []LinesAccounted
<1>1. PipelineInit => NothingElseLost
  BY DEF PipelineInit, Init, NothingElseLost
<1>2. PInv /\ NothingElseLost /\ [PipelineNext]_pipelineVars => NothingElseLost'
  BY LossesStay DEF PInv
<1>3. PInv /\ NothingElseLost => LinesAccounted
  BY DEF PInv, KeptInv, NothingElseLost, LinesAccounted
<1> QED
  BY <1>1, <1>2, <1>3, PipelineInvariance, PTL DEF PipelineSpec

\* pop() sleeps beside an empty queue only (MainLoopAwake): the one notify_one() of
\* each push() is enough for the one thread that pops.
THEOREM NoLineWaits == PipelineSpec => []MainLoopAwake
<1>1. PInv => MainLoopAwake
  BY DEF PInv
<1> QED
  BY <1>1, PipelineInvariance, PTL

-----------------------------------------------------------------------------
(***************************************************************************)
(* The refinements.                                                        *)
(***************************************************************************)
\* A line that push() drops is one that nobody hears.
LEMMA DroppedIsSend ==
  ASSUME NEW ch \in Channel, LabelDropped(ch) PROVE TheFeed!Send
<1>1. made' = Append(made, ch) /\ got' = got
  BY DEF LabelDropped
<1>2. heard' = heard
  BY <1>1 DEF heard, Lines
<1> QED
  BY <1>1, <1>2 DEF TheFeed!Send, heard, Lines

\* The pipeline implements the feed (ImplementsFeed) wherever the bound wraps:
\* lines that push() drops leave gaps, and no consumer hears a line twice or out
\* of order.
THEOREM PipelineIsFeed == PipelineSpec => ImplementsFeed
<1>1. PipelineInit => TheFeed!Init
  BY InitIsInit DEF PipelineInit
<1>2. PInv /\ [PipelineNext]_pipelineVars => [TheFeed!Next]_(TheFeed!vars)
  <2> SUFFICES ASSUME PInv, [PipelineNext]_pipelineVars
               PROVE  [TheFeed!Next]_(TheFeed!vars)
    OBVIOUS
  <2>1. CASE [Next]_vars
    BY <2>1, StepIsStep DEF PInv
  <2>2. ASSUME NEW ch \in Channel, LabelDropped(ch) PROVE TheFeed!Next
    BY <2>2, DroppedIsSend DEF TheFeed!Next
  <2> QED
    BY <2>1, <2>2, StreamPart
<1> QED
  BY <1>1, <1>2, PipelineInvariance, PTL DEF PipelineSpec, ImplementsFeed, TheFeed!Spec

\* The pipeline begins as Stream does, and each step that ends before the
\* wrap is one of Stream or none.
StreamUntilWrap == Init /\ [][ConfiguredMax + pushCalls' < SizeMod => Next]_vars

\* Until the wrap, push() and pop() are the queue that Stream takes for granted
\* (StreamUntilWrap), so that what holds of the steps of Stream holds of those of
\* the pipeline.
THEOREM StreamImplemented == PipelineSpec => StreamUntilWrap
<1>1. PipelineInit => Init
  BY DEF PipelineInit
<1>2. PInv /\ [PipelineNext]_pipelineVars
        => [ConfiguredMax + pushCalls' < SizeMod => Next]_vars
  <2> SUFFICES ASSUME PInv, [PipelineNext]_pipelineVars, ~ UNCHANGED vars,
                      ConfiguredMax + pushCalls' < SizeMod
               PROVE  Next
    OBVIOUS
  <2>1. ASSUME NEW ch \in Channel, Relay(ch) PROVE Next
    <3>1. up /\ up' = up
      BY <2>1, RelayDoes
    <3>2. inboundQ' = Append(inboundQ, Len(made) + 1)
      BY <2>1, <3>1, RaisedBound DEF BeforeWrap
    <3>3. inboundQ' # inboundQ
      <4>1. Len(inboundQ') = Len(inboundQ) + 1 /\ Len(inboundQ) \in Nat
        BY <2>1, <3>2, KeptIsLast, Numbers DEF PInv
      <4> QED
        BY <4>1
    <3>4. ~ LabelDropped(ch)
      BY <3>3 DEF LabelDropped, bridgeVars
    <3> QED
      BY <2>1, <3>4 DEF Relay, Next
  <2>2. CASE Boot \/ Halt
    BY <2>2 DEF Boot, Halt, Next
  <2>3. CASE Main \/ Wake
    BY <2>3 DEF Main, Wake, Take, Sleep, Publish, Next, MainLoop
  <2>4. ASSUME NEW c \in Consumer, Consumes(c) \/ Reconnects(c) PROVE Next
    BY <2>4 DEF Consumes, Reconnects, Next
  <2> QED
    BY <2>1, <2>2, <2>3, <2>4 DEF PipelineNext, pipelineVars
<1> QED
  BY <1>1, <1>2, PipelineInvariance, PTL DEF PipelineSpec, StreamUntilWrap

\* When size_t is wide enough for all lines that devices send, each step of the
\* pipeline is a step of Stream: the moving bound is never met.
THEOREM WideEnough ==
  ASSUME ConfiguredMax + MaxLines < SizeMod
  PROVE  PipelineSpec => Init /\ [][Next]_vars
<1>1. PInv => ConfiguredMax + pushCalls < SizeMod
  <2> SUFFICES ASSUME PInv PROVE ConfiguredMax + pushCalls < SizeMod
    OBVIOUS
  <2>1. /\ pushCalls \in Nat /\ pushCalls <= Len(made) /\ Len(made) <= MaxLines
        /\ Len(made) \in Nat /\ MaxLines \in Nat /\ ConfiguredMax \in Nat
    BY Numbers DEF PInv
  <2>2. SizeMod \in Nat
    BY SizesAssumption
  <2> QED
    BY <2>1, <2>2
<1>2. PInv' => (ConfiguredMax + pushCalls < SizeMod)'
  BY <1>1, PTL
<1>3. PInv' /\ [ConfiguredMax + pushCalls' < SizeMod => Next]_vars => [Next]_vars
  BY <1>2
<1> QED
  BY <1>3, StreamImplemented, PipelineInvariance, PTL DEF StreamUntilWrap

=============================================================================
