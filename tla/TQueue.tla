------------------------------- MODULE TQueue -------------------------------
(***************************************************************************)
(* The thread-safe queue of include/threadsafeQueue.h.                     *)
(*                                                                         *)
(* Every method runs its whole body under the member `mutex`, except for   *)
(* condition.wait(), which gives the mutex up and takes it again before    *)
(* it returns.  So one critical section is one action, and the threads     *)
(* that are between two critical sections of pop() are told apart by the   *)
(* state popper[c]:                                                        *)
(*    "running"  outside pop(), or blocked at its first lock of the mutex; *)
(*    "waiting"  inside condition.wait(), asleep;                          *)
(*    "woken"    notified (or spuriously awake), to lock the mutex again   *)
(*               and to re-test queue.empty().                             *)
(*                                                                         *)
(* A message is known by the number of the push() that brought it: the     *)
(* n-th push() to get the mutex carries message n.                         *)
(***************************************************************************)
EXTENDS Naturals, Sequences, FiniteSets

CONSTANTS
  Poppers,        \* threads that call pop()
  DefaultMax,     \* value of maxNumberOfItems in a new queue
  ConfiguredMax,  \* argument of setMaxSize()
  SizeMod,        \* size_t counts modulo SizeMod
  MaxPushes       \* bound: calls of push()

ASSUME PoppersAssumption == IsFiniteSet(Poppers)
ASSUME SizesAssumption ==
  /\ SizeMod \in Nat \ {0}
  /\ DefaultMax \in 0 .. SizeMod - 1
  /\ ConfiguredMax \in 0 .. SizeMod - 1
ASSUME PushesAssumption == MaxPushes \in Nat

VARIABLES
  queue,            \* the std::queue
  maxNumberOfItems, \* the member of that name
  configured,       \* has setMaxSize() been called?
  popper,           \* state of each thread that calls pop()
  pushCalls,        \* history: number of calls of push()
  delivered         \* history: messages taken out, in order

vars == <<queue, maxNumberOfItems, configured, popper, pushCalls, delivered>>

Waiting == {c \in Poppers : popper[c] = "waiting"}
Woken   == {c \in Poppers : popper[c] = "woken"}

-----------------------------------------------------------------------------
Init ==
  /\ queue = <<>>
  /\ maxNumberOfItems = DefaultMax
  /\ configured = FALSE
  /\ popper = [c \in Poppers |-> "running"]
  /\ pushCalls = 0
  /\ delivered = <<>>

\* Called once, by Bridge::start(), before any thread uses the queue.
setMaxSize ==
  /\ ~configured
  /\ configured' = TRUE
  /\ maxNumberOfItems' = ConfiguredMax
  /\ UNCHANGED <<queue, popper, pushCalls, delivered>>

\* A bug the checks must find: notifying only when the queue was empty.
NotifyOneIfEmpty ==
  \/ (queue # <<>> \/ Waiting = {}) /\ UNCHANGED popper
  \/ queue = <<>> /\ \E c \in Waiting : popper' = [popper EXCEPT ![c] = "woken"]

\* condition.notify_one(): which of the waiting threads wakes is not defined.
NotifyOne ==
  \/ Waiting = {} /\ UNCHANGED popper
  \/ \E c \in Waiting : popper' = [popper EXCEPT ![c] = "woken"]

\* Bugs the checks must find: a bound that counts past the width of size_t, and
\* -- in place of ++.
RaisedPastWidth == maxNumberOfItems + 1
Lowered == (maxNumberOfItems + SizeMod - 1) % SizeMod

\* ++maxNumberOfItems, on a size_t.
Raised == (maxNumberOfItems + 1) % SizeMod

\* The test of push() increments the member it compares with: the bound is
\* raised by one at every call, whether the message is kept or dropped.
push ==
  /\ configured
  /\ pushCalls < MaxPushes
  /\ pushCalls' = pushCalls + 1
  /\ maxNumberOfItems' = Raised
  /\ \/ /\ Len(queue) < maxNumberOfItems'
        /\ queue' = Append(queue, pushCalls')
        /\ NotifyOne
     \/ /\ Len(queue) >= maxNumberOfItems'
        /\ UNCHANGED <<queue, popper>>
  /\ UNCHANGED <<configured, delivered>>

\* Bugs the checks must find: queue.pop() forgotten, and back() for front().
All == queue
Back == queue[Len(queue)]

Front == Head(queue)
Rest == Tail(queue)

\* Both pop() and tryPop() take the front message once the queue has one.
TakeFront ==
  /\ queue # <<>>
  /\ delivered' = Append(delivered, Front)
  /\ queue' = Rest
  /\ UNCHANGED <<maxNumberOfItems, configured, pushCalls>>

\* One turn of the loop of pop() by a thread that has the mutex.
popTake(c) ==
  /\ configured
  /\ popper[c] \in {"running", "woken"}
  /\ TakeFront
  /\ popper' = [popper EXCEPT ![c] = "running"]

popWait(c) ==
  /\ configured
  /\ popper[c] \in {"running", "woken"}
  /\ queue = <<>>
  /\ popper' = [popper EXCEPT ![c] = "waiting"]
  /\ UNCHANGED <<queue, maxNumberOfItems, configured, pushCalls, delivered>>

pop(c) == popTake(c) \/ popWait(c)

\* A std::condition_variable may wake a thread that nobody notified.
SpuriousWakeup(c) ==
  /\ popper[c] = "waiting"
  /\ popper' = [popper EXCEPT ![c] = "woken"]
  /\ UNCHANGED <<queue, maxNumberOfItems, configured, pushCalls, delivered>>

\* tryPop() by any thread; on an empty queue it changes nothing.
tryPop ==
  /\ configured
  /\ TakeFront
  /\ UNCHANGED popper

Next ==
  \/ setMaxSize
  \/ push
  \/ tryPop
  \/ \E c \in Poppers : pop(c) \/ SpuriousWakeup(c)

\* A thread that calls pop() keeps running: Bridge::start() calls it for ever.
Fairness == \A c \in Poppers : WF_vars(pop(c))

Spec == Init /\ [][Next]_vars /\ WF_vars(setMaxSize) /\ Fairness

-----------------------------------------------------------------------------
\* The members and the histories have their types; in particular the bound
\* stays a size_t.
TypeOK ==
  /\ queue \in Seq(1 .. MaxPushes)
  /\ maxNumberOfItems \in 0 .. SizeMod - 1
  /\ configured \in BOOLEAN
  /\ popper \in [Poppers -> {"running", "waiting", "woken"}]
  /\ pushCalls \in 0 .. MaxPushes
  /\ delivered \in Seq(1 .. MaxPushes)

\* No thread sleeps in pop() beside a message nobody is coming for: while a
\* thread waits, every message in the queue has a thread of its own that was
\* woken and has not re-tested the queue yet.  This is what one notify_one()
\* per push(), sent under the mutex, has to achieve, whatever other threads
\* pop() or tryPop() in between.
NoStrandedWaiter == Waiting # {} => Len(queue) <= Cardinality(Woken)

\* Messages leave in the order in which they came and no message leaves
\* twice, also when some are dropped after the wrap.
OrderKept ==
  LET items == delivered \o queue
  IN  \A i, j \in 1 .. Len(items) : i < j => items[i] < items[j]

\* The queue as its users see it: a channel that loses nothing that push() has
\* put in, whatever the bound does.
Fifo == INSTANCE FifoChannel WITH
             Message  <- 1 .. MaxPushes,
             sent     <- delivered \o queue,
             received <- delivered

\* Every step of the queue is a step of the channel or, when push() drops, none;
\* and what was put in is delivered in the end, after the wrap too: no wake-up
\* of the main loop is lost.
ImplementsChannel == Fifo!Spec

\* What setMaxSize(100) and the comment in push() announce ("by now, we just
\* drop new items if the queue is already full"): the queue never grows
\* beyond the configured size.
BoundHonoured == configured => Len(queue) <= ConfiguredMax

=============================================================================
