---------------------------- MODULE TQueueProofs ----------------------------
(***************************************************************************)
(* What holds of TQueue for every number of popping threads, every bound   *)
(* and every width of size_t.                                              *)
(***************************************************************************)
EXTENDS TQueue, FiniteSetTheorems, TLAPS

-----------------------------------------------------------------------------
\* The threads that wait and those that were woken can be counted.
LEMMA WaitingWokenFinite ==
  /\ IsFiniteSet(Waiting) /\ IsFiniteSet(Woken)
  /\ Cardinality(Woken) \in Nat
  BY PoppersAssumption, FS_Subset, FS_CardinalityType DEF Waiting, Woken

\* The members of a TQueue keep their types (TypeOK).
THEOREM TypeCorrect == Spec => []TypeOK
<1>1. Init => TypeOK
  <2> SUFFICES ASSUME Init PROVE TypeOK
    OBVIOUS
  <2>1. queue \in Seq(1 .. MaxPushes) /\ delivered \in Seq(1 .. MaxPushes)
    BY DEF Init
  <2>2. popper \in [Poppers -> {"running", "waiting", "woken"}]
    BY DEF Init
  <2>3. maxNumberOfItems \in 0 .. SizeMod - 1 /\ configured \in BOOLEAN
    BY SizesAssumption DEF Init
  <2>4. pushCalls \in 0 .. MaxPushes
    BY PushesAssumption DEF Init
  <2> QED
    BY <2>1, <2>2, <2>3, <2>4 DEF TypeOK
<1>2. TypeOK /\ [Next]_vars => TypeOK'
  <2> SUFFICES ASSUME TypeOK, [Next]_vars PROVE TypeOK'
    OBVIOUS
  <2> USE PushesAssumption DEF TypeOK, Front, Rest
  <2>1. CASE setMaxSize
    BY <2>1, SizesAssumption DEF setMaxSize
  <2>2. CASE push
    <3>1. pushCalls' = pushCalls + 1 /\ pushCalls < MaxPushes
      BY <2>2 DEF push
    <3>2. pushCalls' \in 1 .. MaxPushes
      BY <3>1
    <3>3. maxNumberOfItems' = (maxNumberOfItems + 1) % SizeMod
      BY <2>2 DEF push, Raised
    <3>4. maxNumberOfItems' \in 0 .. SizeMod - 1
      BY <3>3, SizesAssumption
    <3>5. queue' = queue \/ queue' = Append(queue, pushCalls')
      BY <2>2 DEF push
    <3>6. queue' \in Seq(1 .. MaxPushes)
      <4>1. ASSUME NEW S, NEW q \in Seq(S), NEW x \in S PROVE Append(q, x) \in Seq(S)
        OBVIOUS
      <4>2. queue \in Seq(1 .. MaxPushes)
        OBVIOUS
      <4> QED
        BY <3>2, <3>5, <4>1, <4>2
    <3>7. popper' \in [Poppers -> {"running", "waiting", "woken"}]
      BY <2>2 DEF push, NotifyOne
    <3>8. UNCHANGED <<configured, delivered>>
      BY <2>2 DEF push
    <3> QED
      BY <3>2, <3>4, <3>6, <3>7, <3>8
  <2>3. TakeFront => /\ queue' \in Seq(1 .. MaxPushes)
                     /\ delivered' \in Seq(1 .. MaxPushes)
    BY DEF TakeFront, Front, Rest
  <2>4. CASE tryPop
    BY <2>3, <2>4 DEF tryPop, TakeFront
  <2>5. ASSUME NEW c \in Poppers, popTake(c) PROVE TypeOK'
    BY <2>3, <2>5 DEF popTake, TakeFront
  <2>6. ASSUME NEW c \in Poppers, popWait(c) PROVE TypeOK'
    BY <2>6 DEF popWait
  <2>7. ASSUME NEW c \in Poppers, SpuriousWakeup(c) PROVE TypeOK'
    BY <2>7 DEF SpuriousWakeup
  <2>8. CASE UNCHANGED vars
    BY <2>8 DEF vars
  <2> QED
    BY <2>1, <2>2, <2>4, <2>5, <2>6, <2>7, <2>8 DEF Next, pop
<1> QED
  BY <1>1, <1>2, PTL DEF Spec

\* A thread sleeps in pop() only beside messages that others were woken for
\* (NoStrandedWaiter): the wake-up rule of push() and pop() is right for every
\* number of threads.
THEOREM WaitersNotStranded == Spec => []NoStrandedWaiter
<1>1. Init => NoStrandedWaiter
  BY DEF Init, NoStrandedWaiter, Waiting
<1>2. TypeOK /\ NoStrandedWaiter /\ [Next]_vars => NoStrandedWaiter'
  <2> SUFFICES ASSUME TypeOK, NoStrandedWaiter, [Next]_vars
               PROVE  NoStrandedWaiter'
    OBVIOUS
  <2> USE WaitingWokenFinite DEF TypeOK
  \* A thread that wakes joins Woken, one that stops being woken leaves it.
  <2>1. ASSUME NEW c \in Waiting, popper' = [popper EXCEPT ![c] = "woken"]
        PROVE  Cardinality(Woken') = Cardinality(Woken) + 1
    <3>1. Woken' = Woken \cup {c} /\ c \notin Woken
      BY <2>1 DEF Waiting, Woken
    <3> QED
      BY <3>1, FS_AddElement
  <2>2. ASSUME NEW c \in Poppers, popper' = [popper EXCEPT ![c] = "running"],
               popper[c] # "waiting"
        PROVE  /\ Waiting' = Waiting
               /\ Cardinality(Woken') \in Nat
               /\ Cardinality(Woken') >= Cardinality(Woken) - 1
    <3>1. Waiting' = Waiting /\ Woken' = Woken \ {c}
      BY <2>2 DEF Waiting, Woken
    <3>2. Cardinality(Woken \ {c}) =
            IF c \in Woken THEN Cardinality(Woken) - 1 ELSE Cardinality(Woken)
      BY FS_RemoveElement
    <3>3. c \in Woken => Cardinality(Woken) # 0
      BY FS_EmptySet
    <3> QED
      BY <3>1, <3>2, <3>3
  <2>3. UNCHANGED popper => UNCHANGED <<Waiting, Woken>>
    BY DEF Waiting, Woken
  <2>4. TakeFront => Len(queue') = Len(queue) - 1 /\ Len(queue) \in Nat
    BY DEF TakeFront, Front, Rest
  <2>5. CASE setMaxSize
    BY <2>3, <2>5 DEF setMaxSize, NoStrandedWaiter
  <2>6. CASE push
    <3>1. CASE UNCHANGED queue /\ UNCHANGED popper
      BY <2>3, <3>1 DEF NoStrandedWaiter
    <3>2. CASE queue' = Append(queue, pushCalls') /\ NotifyOne
      <4>1. Len(queue') = Len(queue) + 1 /\ Len(queue) \in Nat
        BY <3>2
      <4>2. CASE Waiting = {} /\ UNCHANGED popper
        BY <2>3, <4>2 DEF NoStrandedWaiter
      <4>3. CASE \E c \in Waiting : popper' = [popper EXCEPT ![c] = "woken"]
        <5>1. Waiting # {} /\ Cardinality(Woken') = Cardinality(Woken) + 1
          BY <2>1, <4>3
        <5> QED
          BY <4>1, <5>1 DEF NoStrandedWaiter
      <4> QED
        BY <3>2, <4>2, <4>3 DEF NotifyOne
    <3> QED
      BY <2>6, <3>1, <3>2 DEF push
  <2>7. CASE tryPop
    BY <2>3, <2>4, <2>7 DEF tryPop, NoStrandedWaiter
  <2>8. ASSUME NEW c \in Poppers, popTake(c) PROVE NoStrandedWaiter'
    <3>1. CASE popper[c] = "woken"
      <4>1. popper' = [popper EXCEPT ![c] = "running"] /\ popper[c] # "waiting"
        BY <2>8, <3>1 DEF popTake
      <4>2. /\ Waiting' = Waiting
            /\ Cardinality(Woken') \in Nat
            /\ Cardinality(Woken') >= Cardinality(Woken) - 1
        BY <2>2, <4>1
      <4> QED
        BY <2>4, <2>8, <4>2 DEF popTake, NoStrandedWaiter
    <3>2. CASE popper[c] = "running"
      <4>1. UNCHANGED popper
        BY <2>8, <3>2 DEF popTake
      <4> QED
        BY <2>3, <2>4, <2>8, <4>1 DEF popTake, NoStrandedWaiter
    <3> QED
      BY <2>8, <3>1, <3>2 DEF popTake
  <2>9. ASSUME NEW c \in Poppers, popWait(c) PROVE NoStrandedWaiter'
    <3>1. Len(queue') = 0
      BY <2>9 DEF popWait
    <3>2. Cardinality(Woken') \in Nat
      BY PoppersAssumption, FS_Subset, FS_CardinalityType DEF Woken
    <3> QED
      BY <3>1, <3>2 DEF NoStrandedWaiter
  <2>10. ASSUME NEW c \in Poppers, SpuriousWakeup(c) PROVE NoStrandedWaiter'
    <3>1. c \in Waiting /\ popper' = [popper EXCEPT ![c] = "woken"]
      BY <2>10 DEF SpuriousWakeup, Waiting
    <3>2. Cardinality(Woken') = Cardinality(Woken) + 1 /\ UNCHANGED queue
      BY <2>1, <2>10, <3>1 DEF SpuriousWakeup
    <3> QED
      BY <3>1, <3>2 DEF NoStrandedWaiter
  <2>11. CASE UNCHANGED vars
    BY <2>3, <2>11 DEF vars, NoStrandedWaiter
  <2> QED
    BY <2>5, <2>6, <2>7, <2>8, <2>9, <2>10, <2>11 DEF Next, pop
<1> QED
  BY <1>1, <1>2, TypeCorrect, PTL DEF Spec

-----------------------------------------------------------------------------
(***************************************************************************)
(* The contents.  Before the wrap the bound is ahead of the number of      *)
(* messages, so nothing is dropped and message n is the n-th delivered.    *)
(***************************************************************************)
Unwrapped == configured /\ ConfiguredMax + pushCalls < SizeMod

FifoInv ==
  /\ ~configured => pushCalls = 0 /\ queue = <<>> /\ delivered = <<>>
  /\ Unwrapped =>
       /\ maxNumberOfItems = ConfiguredMax + pushCalls
       /\ Len(delivered) + Len(queue) = pushCalls
       /\ \A i \in 1 .. Len(delivered) : delivered[i] = i
       /\ \A i \in 1 .. Len(queue) : queue[i] = Len(delivered) + i

\* Taking the front message moves it from the queue to the history.
LEMMA TakeFrontMoves ==
  ASSUME TypeOK, TakeFront
  PROVE  /\ Len(queue) \in Nat \ {0} /\ Len(delivered) \in Nat
         /\ Len(queue') = Len(queue) - 1
         /\ Len(delivered') = Len(delivered) + 1
         /\ \A i \in 1 .. Len(delivered) : delivered'[i] = delivered[i]
         /\ delivered'[Len(delivered) + 1] = queue[1]
         /\ \A i \in 1 .. Len(queue') : queue'[i] = queue[i + 1]
  BY DEF TypeOK, TakeFront, Front, Rest

\* Taking the front message keeps the messages in the order of their pushes.
LEMMA FifoTakeFront ==
  ASSUME TypeOK, FifoInv, TakeFront
  PROVE  FifoInv'
<1>1. configured
  BY TakeFrontMoves DEF FifoInv
<1>2. Unwrapped' = Unwrapped /\ configured'
  BY <1>1 DEF TakeFront, Unwrapped
<1>3. CASE ~Unwrapped
  BY <1>2, <1>3 DEF FifoInv
<1>4. CASE Unwrapped
  <2>1. /\ maxNumberOfItems' = ConfiguredMax + pushCalls'
        /\ Len(delivered') + Len(queue') = pushCalls'
    BY <1>4, TakeFrontMoves DEF FifoInv, TakeFront
  <2>2. \A i \in 1 .. Len(delivered') : delivered'[i] = i
    <3> SUFFICES ASSUME NEW i \in 1 .. Len(delivered') PROVE delivered'[i] = i
      OBVIOUS
    <3>1. i \in 1 .. Len(delivered) \/ i = Len(delivered) + 1
      BY TakeFrontMoves
    <3> QED
      BY <1>4, <3>1, TakeFrontMoves DEF FifoInv
  <2>3. \A i \in 1 .. Len(queue') : queue'[i] = Len(delivered') + i
    <3> SUFFICES ASSUME NEW i \in 1 .. Len(queue')
                 PROVE  queue'[i] = Len(delivered') + i
      OBVIOUS
    <3>1. i + 1 \in 1 .. Len(queue) /\ queue'[i] = queue[i + 1]
      BY TakeFrontMoves
    <3>2. queue[i + 1] = Len(delivered) + (i + 1)
      BY <1>4, <3>1 DEF FifoInv
    <3>3. Len(delivered') = Len(delivered) + 1 /\ Len(delivered) \in Nat /\ i \in Nat
      BY TakeFrontMoves
    <3> QED
      BY <3>1, <3>2, <3>3
  <2> QED
    BY <1>2, <2>1, <2>2, <2>3 DEF FifoInv
<1> QED
  BY <1>3, <1>4

\* Before the wrap the test of push() cannot fail.
LEMMA PushKeepsMessage ==
  ASSUME TypeOK, FifoInv, push, Unwrapped'
  PROVE  /\ Unwrapped
         /\ queue' = Append(queue, pushCalls')
         /\ maxNumberOfItems' = maxNumberOfItems + 1
<1> USE SizesAssumption, PushesAssumption
<1>1. Unwrapped /\ pushCalls' = pushCalls + 1
  BY DEF push, Unwrapped, TypeOK
<1>2. maxNumberOfItems' = maxNumberOfItems + 1
  <2>1. maxNumberOfItems + 1 \in 0 .. SizeMod - 1
    BY <1>1 DEF FifoInv, Unwrapped, TypeOK
  <2>2. maxNumberOfItems' = (maxNumberOfItems + 1) % SizeMod
    BY DEF push, Raised
  <2> QED
    BY <2>1, <2>2
<1>3. Len(queue) < maxNumberOfItems'
  BY <1>1, <1>2 DEF FifoInv, TypeOK
<1> QED
  BY <1>1, <1>2, <1>3 DEF push, TypeOK

\* So does a push before the wrap.
LEMMA FifoPush ==
  ASSUME TypeOK, FifoInv, push
  PROVE  FifoInv'
<1>1. configured' /\ configured
  BY DEF push
<1>2. CASE ~Unwrapped'
  BY <1>1, <1>2 DEF FifoInv
<1>3. CASE Unwrapped'
  <2>1. /\ Unwrapped
        /\ queue' = Append(queue, pushCalls')
        /\ maxNumberOfItems' = maxNumberOfItems + 1
        /\ pushCalls' = pushCalls + 1 /\ UNCHANGED delivered
    BY <1>3, PushKeepsMessage DEF push
  <2>2. /\ Len(queue') = Len(queue) + 1
        /\ \A i \in 1 .. Len(queue) : queue'[i] = queue[i]
        /\ queue'[Len(queue) + 1] = pushCalls'
    BY <2>1 DEF TypeOK
  <2>3. /\ maxNumberOfItems' = ConfiguredMax + pushCalls'
        /\ Len(delivered') + Len(queue') = pushCalls'
    <3>1. /\ maxNumberOfItems = ConfiguredMax + pushCalls
          /\ Len(delivered) + Len(queue) = pushCalls
      BY <2>1 DEF FifoInv
    <3>2. /\ Len(delivered) \in Nat /\ Len(queue) \in Nat
          /\ pushCalls \in Nat /\ ConfiguredMax \in Nat
      BY SizesAssumption, PushesAssumption DEF TypeOK
    <3> QED
      BY <2>1, <2>2, <3>1, <3>2
  <2>4. \A i \in 1 .. Len(queue') : queue'[i] = Len(delivered') + i
    <3> SUFFICES ASSUME NEW i \in 1 .. Len(queue')
                 PROVE  queue'[i] = Len(delivered') + i
      OBVIOUS
    <3>1. i \in 1 .. Len(queue) \/ i = Len(queue) + 1
      BY <2>2 DEF TypeOK
    <3> QED
      BY <2>1, <2>2, <2>3, <3>1 DEF FifoInv, TypeOK
  <2> QED
    BY <1>1, <2>1, <2>3, <2>4 DEF FifoInv
<1> QED
  BY <1>2, <1>3

\* Before the wrap, taken and queued messages are those pushed, in order.
LEMMA FifoInvariant == Spec => []FifoInv
<1>1. Init => FifoInv
  BY DEF Init, FifoInv, Unwrapped
<1>2. TypeOK /\ FifoInv /\ [Next]_vars => FifoInv'
  <2> SUFFICES ASSUME TypeOK, FifoInv, [Next]_vars PROVE FifoInv'
    OBVIOUS
  <2>1. CASE setMaxSize
    <3>1. configured' /\ Len(queue') = 0 /\ Len(delivered') = 0 /\ pushCalls' = 0
      BY <2>1 DEF setMaxSize, FifoInv
    <3>2. maxNumberOfItems' = ConfiguredMax + pushCalls'
      BY <2>1, <3>1, SizesAssumption DEF setMaxSize
    <3> QED
      BY <3>1, <3>2 DEF FifoInv
  <2>2. CASE push
    BY <2>2, FifoPush
  <2>3. CASE tryPop
    BY <2>3, FifoTakeFront DEF tryPop
  <2>4. ASSUME NEW c \in Poppers, popTake(c) PROVE FifoInv'
    BY <2>4, FifoTakeFront DEF popTake
  <2>5. ASSUME NEW c \in Poppers, popWait(c) PROVE FifoInv'
    BY <2>5 DEF popWait, FifoInv, Unwrapped
  <2>6. ASSUME NEW c \in Poppers, SpuriousWakeup(c) PROVE FifoInv'
    BY <2>6 DEF SpuriousWakeup, FifoInv, Unwrapped
  <2>7. CASE UNCHANGED vars
    BY <2>7 DEF vars, FifoInv, Unwrapped
  <2> QED
    BY <2>1, <2>2, <2>3, <2>4, <2>5, <2>6, <2>7 DEF Next, pop
<1> QED
  BY <1>1, <1>2, TypeCorrect, PTL DEF Spec

\* A fact of the code that the comment in push() does not want: whatever size was
\* configured, the queue holds all that was pushed and not popped until the size_t
\* wraps.  So BoundHonoured fails for every bound, and not only in a small instance.
BoundNeverMet == Unwrapped => Len(delivered) + Len(queue) = pushCalls

THEOREM NoBoundIsMet == Spec => []BoundNeverMet
<1>1. FifoInv => BoundNeverMet
  BY DEF FifoInv, BoundNeverMet
<1> QED
  BY <1>1, FifoInvariant, PTL

-----------------------------------------------------------------------------
(***************************************************************************)
(* Order.  This holds with drops as well, so the width of size_t plays no  *)
(* part in it.                                                             *)
(***************************************************************************)
OrderInv ==
  /\ \A i, j \in 1 .. Len(delivered) : i < j => delivered[i] < delivered[j]
  /\ \A i, j \in 1 .. Len(queue) : i < j => queue[i] < queue[j]
  /\ \A i \in 1 .. Len(delivered), j \in 1 .. Len(queue) : delivered[i] < queue[j]
  /\ \A i \in 1 .. Len(delivered) : delivered[i] <= pushCalls
  /\ \A i \in 1 .. Len(queue) : queue[i] <= pushCalls

\* Taking the front message keeps the order.
LEMMA OrderTakeFront ==
  ASSUME TypeOK, OrderInv, TakeFront
  PROVE  OrderInv'
<1>1. UNCHANGED pushCalls
  BY DEF TakeFront
<1>2. \A i \in 1 .. Len(delivered') :
         i \in 1 .. Len(delivered) \/ i = Len(delivered) + 1
  BY TakeFrontMoves
<1>3. \A i \in 1 .. Len(queue') : i + 1 \in 2 .. Len(queue)
  BY TakeFrontMoves
<1>4. 1 \in 1 .. Len(queue) /\ 2 .. Len(queue) \subseteq 1 .. Len(queue)
  BY TakeFrontMoves
<1>5. \A i, j \in 1 .. Len(delivered') : i < j => delivered'[i] < delivered'[j]
  BY <1>2, <1>4, TakeFrontMoves DEF OrderInv
<1>6. \A i, j \in 1 .. Len(queue') : i < j => queue'[i] < queue'[j]
  <2> SUFFICES ASSUME NEW i \in 1 .. Len(queue'), NEW j \in 1 .. Len(queue'), i < j
               PROVE  queue'[i] < queue'[j]
    OBVIOUS
  <2>1. /\ i + 1 \in 1 .. Len(queue) /\ j + 1 \in 1 .. Len(queue)
        /\ i + 1 < j + 1
    BY <1>3, <1>4
  <2> QED
    BY <2>1, TakeFrontMoves DEF OrderInv
<1>7. \A i \in 1 .. Len(delivered'), j \in 1 .. Len(queue') :
         delivered'[i] < queue'[j]
  <2> SUFFICES ASSUME NEW i \in 1 .. Len(delivered'), NEW j \in 1 .. Len(queue')
               PROVE  delivered'[i] < queue'[j]
    OBVIOUS
  <2>1. j + 1 \in 1 .. Len(queue) /\ 1 < j + 1 /\ queue'[j] = queue[j + 1]
    BY <1>3, <1>4, TakeFrontMoves
  <2>2. CASE i \in 1 .. Len(delivered)
    BY <2>1, <2>2, TakeFrontMoves DEF OrderInv
  <2>3. CASE i = Len(delivered) + 1
    BY <1>4, <2>1, <2>3, TakeFrontMoves DEF OrderInv
  <2> QED
    BY <1>2, <2>2, <2>3
<1>8. \A i \in 1 .. Len(delivered') : delivered'[i] <= pushCalls'
  BY <1>1, <1>2, <1>4, TakeFrontMoves DEF OrderInv
<1>9. \A i \in 1 .. Len(queue') : queue'[i] <= pushCalls'
  BY <1>1, <1>3, <1>4, TakeFrontMoves DEF OrderInv
<1> QED
  BY <1>5, <1>6, <1>7, <1>8, <1>9 DEF OrderInv

\* A push that keeps its message appends the largest number so far.
LEMMA OrderPush ==
  ASSUME TypeOK, OrderInv, push
  PROVE  OrderInv'
<1>1. pushCalls' = pushCalls + 1 /\ pushCalls \in Nat /\ UNCHANGED delivered
  BY PushesAssumption DEF push, TypeOK
<1>2. /\ \A i \in 1 .. Len(queue) : queue[i] \in Nat
      /\ \A i \in 1 .. Len(delivered) : delivered[i] \in Nat
      /\ Len(queue) \in Nat /\ Len(delivered) \in Nat
  BY PushesAssumption DEF TypeOK
<1>3. CASE UNCHANGED queue
  BY <1>1, <1>2, <1>3 DEF OrderInv
<1>4. CASE queue' = Append(queue, pushCalls')
  <2>1. /\ Len(queue') = Len(queue) + 1
        /\ \A i \in 1 .. Len(queue) : queue'[i] = queue[i]
        /\ queue'[Len(queue) + 1] = pushCalls + 1
    BY <1>1, <1>4 DEF TypeOK
  <2>2. \A i \in 1 .. Len(queue') : i \in 1 .. Len(queue) \/ i = Len(queue) + 1
    BY <1>2, <2>1
  <2>3. \A i \in 1 .. Len(queue) :
          queue'[i] = queue[i] /\ queue[i] \in Nat /\ queue[i] <= pushCalls
    BY <1>2, <2>1 DEF OrderInv
  <2>4. \A i, j \in 1 .. Len(queue') : i < j => queue'[i] < queue'[j]
    <3> SUFFICES ASSUME NEW i \in 1 .. Len(queue'), NEW j \in 1 .. Len(queue'), i < j
                 PROVE  queue'[i] < queue'[j]
      OBVIOUS
    <3>1. i \in 1 .. Len(queue)
      BY <1>2, <2>1
    <3>2. CASE j \in 1 .. Len(queue)
      BY <2>3, <3>1, <3>2 DEF OrderInv
    <3>3. CASE j = Len(queue) + 1
      BY <1>1, <2>1, <2>3, <3>1, <3>3
    <3> QED
      BY <2>2, <3>2, <3>3
  <2>5. \A i \in 1 .. Len(delivered), j \in 1 .. Len(queue') :
          delivered[i] < queue'[j]
    <3> SUFFICES ASSUME NEW i \in 1 .. Len(delivered), NEW j \in 1 .. Len(queue')
                 PROVE  delivered[i] < queue'[j]
      OBVIOUS
    <3>2. CASE j \in 1 .. Len(queue)
      BY <2>3, <3>2 DEF OrderInv
    <3>3. CASE j = Len(queue) + 1
      BY <1>1, <1>2, <2>1, <3>3 DEF OrderInv
    <3> QED
      BY <2>2, <3>2, <3>3
  <2>6. \A i \in 1 .. Len(delivered) : delivered[i] <= pushCalls'
    BY <1>1, <1>2 DEF OrderInv
  <2>7. \A i \in 1 .. Len(queue') : queue'[i] <= pushCalls'
    <3> SUFFICES ASSUME NEW i \in 1 .. Len(queue')
                 PROVE  queue'[i] <= pushCalls'
      OBVIOUS
    <3>1. CASE i \in 1 .. Len(queue)
      BY <1>1, <2>3, <3>1
    <3>2. CASE i = Len(queue) + 1
      BY <1>1, <2>1, <3>2
    <3> QED
      BY <2>2, <3>1, <3>2
  <2> QED
    BY <1>1, <2>4, <2>5, <2>6, <2>7 DEF OrderInv
<1> QED
  BY <1>3, <1>4 DEF push

\* Messages leave in the order in which push() accepted them and none leaves
\* twice (OrderKept), for every bound and also after the wrap.
THEOREM OrderPreserved == Spec => []OrderKept
<1>1. Init => OrderInv
  BY DEF Init, OrderInv
<1>2. TypeOK /\ OrderInv /\ [Next]_vars => OrderInv'
  <2> SUFFICES ASSUME TypeOK, OrderInv, [Next]_vars PROVE OrderInv'
    OBVIOUS
  <2>1. CASE push
    BY <2>1, OrderPush
  <2>2. CASE TakeFront
    BY <2>2, OrderTakeFront
  <2>3. CASE UNCHANGED <<queue, delivered, pushCalls>>
    BY <2>3 DEF OrderInv
  <2> QED
    BY <2>1, <2>2, <2>3
    DEF Next, vars, setMaxSize, tryPop, pop, popTake, popWait, SpuriousWakeup
<1>3. TypeOK /\ OrderInv => OrderKept
  <2> SUFFICES ASSUME TypeOK, OrderInv PROVE OrderKept
    OBVIOUS
  <2> DEFINE items == delivered \o queue
  <2>1. /\ Len(delivered) \in Nat /\ Len(queue) \in Nat
        /\ Len(items) = Len(delivered) + Len(queue)
        /\ \A i \in 1 .. Len(items) :
             \/ i \in 1 .. Len(delivered) /\ items[i] = delivered[i]
             \/ /\ i - Len(delivered) \in 1 .. Len(queue)
                /\ i > Len(delivered)
                /\ items[i] = queue[i - Len(delivered)]
    BY DEF TypeOK
  <2> SUFFICES ASSUME NEW i \in 1 .. Len(items), NEW j \in 1 .. Len(items), i < j
               PROVE  items[i] < items[j]
    BY DEF OrderKept
  <2> HIDE DEF items
  <2>2. CASE j \in 1 .. Len(delivered)
    <3>1. i \in 1 .. Len(delivered) /\ items[i] = delivered[i] /\ items[j] = delivered[j]
      BY <2>1, <2>2
    <3> QED
      BY <2>2, <3>1 DEF OrderInv
  <2>3. CASE i \in 1 .. Len(delivered) /\ j \notin 1 .. Len(delivered)
    <3>1. /\ items[i] = delivered[i]
          /\ j - Len(delivered) \in 1 .. Len(queue) /\ items[j] = queue[j - Len(delivered)]
      BY <2>1, <2>3
    <3> QED
      BY <2>3, <3>1 DEF OrderInv
  <2>4. CASE i \notin 1 .. Len(delivered) /\ j \notin 1 .. Len(delivered)
    <3> DEFINE a == i - Len(delivered)
               b == j - Len(delivered)
    <3>1. /\ a \in 1 .. Len(queue) /\ items[i] = queue[a]
          /\ b \in 1 .. Len(queue) /\ items[j] = queue[b]
          /\ a < b
      BY <2>1, <2>4
    <3> QED
      BY <3>1 DEF OrderInv
  <2> QED
    BY <2>1, <2>2, <2>3, <2>4
<1> QED
  BY <1>1, <1>2, <1>3, TypeCorrect, PTL DEF Spec

-----------------------------------------------------------------------------
(***************************************************************************)
(* Refinement: the steps of the queue are steps of a lossless channel.     *)
(***************************************************************************)
\* A push that keeps its message sends it on the channel.
LEMMA PushIsSend ==
  ASSUME TypeOK, push
  PROVE  Fifo!Send \/ UNCHANGED Fifo!vars
<1>1. UNCHANGED delivered
  BY DEF push
<1>2. CASE queue' = Append(queue, pushCalls')
  <2>1. pushCalls' \in 1 .. MaxPushes
    BY PushesAssumption DEF TypeOK, push
  <2>2. delivered \o Append(queue, pushCalls') = Append(delivered \o queue, pushCalls')
    BY <2>1 DEF TypeOK
  <2> QED
    BY <1>1, <1>2, <2>1, <2>2 DEF Fifo!Send
<1>3. CASE UNCHANGED queue
  BY <1>1, <1>3 DEF Fifo!vars
<1> QED
  BY <1>2, <1>3 DEF push

\* Taking the front message receives from the channel.
LEMMA TakeFrontIsReceive ==
  ASSUME TypeOK, TakeFront
  PROVE  Fifo!Receive
<1>1. /\ queue \in Seq(1 .. MaxPushes) /\ queue # <<>>
      /\ delivered \in Seq(1 .. MaxPushes)
      /\ delivered' = Append(delivered, Head(queue)) /\ queue' = Tail(queue)
  BY DEF TypeOK, TakeFront, Front, Rest
<1>2. Append(delivered, Head(queue)) \o Tail(queue) = delivered \o queue
  BY <1>1
<1>3. /\ Len(delivered) < Len(delivered \o queue)
      /\ (delivered \o queue)[Len(delivered) + 1] = Head(queue)
  BY <1>1
<1> QED
  BY <1>1, <1>2, <1>3 DEF Fifo!Receive

\* Every behaviour of the queue is a behaviour of the lossless FIFO channel, for
\* every bound and width (the safety part of ImplementsChannel).
THEOREM ImplementsChannelSafety ==
  Spec => Fifo!Init /\ [][Fifo!Next]_(Fifo!vars)
<1>1. Init => Fifo!Init
  BY DEF Init, Fifo!Init
<1>2. TypeOK /\ [Next]_vars => [Fifo!Next]_(Fifo!vars)
  <2> SUFFICES ASSUME TypeOK, [Next]_vars
               PROVE  [Fifo!Next]_(Fifo!vars)
    OBVIOUS
  <2>1. CASE setMaxSize
    BY <2>1 DEF setMaxSize, Fifo!vars
  <2>2. CASE push
    BY <2>2, PushIsSend DEF Fifo!Next
  <2>3. CASE tryPop
    BY <2>3, TakeFrontIsReceive DEF tryPop, Fifo!Next
  <2>4. ASSUME NEW c \in Poppers, popTake(c) PROVE Fifo!Next
    BY <2>4, TakeFrontIsReceive DEF popTake, Fifo!Next
  <2>5. ASSUME NEW c \in Poppers, popWait(c) \/ SpuriousWakeup(c)
        PROVE  UNCHANGED Fifo!vars
    BY <2>5 DEF popWait, SpuriousWakeup, Fifo!vars
  <2>6. CASE UNCHANGED vars
    BY <2>6 DEF vars, Fifo!vars
  <2> QED
    BY <2>1, <2>2, <2>3, <2>4, <2>5, <2>6 DEF Next, pop
<1> QED
  BY <1>1, <1>2, TypeCorrect, PTL DEF Spec

=============================================================================
