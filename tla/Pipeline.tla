------------------------------ MODULE Pipeline ------------------------------
(***************************************************************************)
(* Stream with the queue of include/threadsafeQueue.h in it: the relay     *)
(* threads call push(), whose bound moves and wraps, and the main loop     *)
(* sleeps in pop() until it is notified.  Each start of the bridge brings  *)
(* a new queue.                                                            *)
(*                                                                         *)
(* TQueue knows a message by the number of the push() that brought it,     *)
(* Stream by the number of its line: the difference is the number of lines *)
(* that were made before this process started.                             *)
(***************************************************************************)
EXTENDS Stream

CONSTANTS
  DefaultMax,     \* value of maxNumberOfItems in a new queue
  ConfiguredMax,  \* argument of setMaxSize()
  SizeMod         \* size_t counts modulo SizeMod

ASSUME SizesAssumption ==
  /\ SizeMod \in Nat \ {0}
  /\ DefaultMax \in 0 .. SizeMod - 1
  /\ ConfiguredMax \in 0 .. SizeMod - 1

VARIABLES
  maxNumberOfItems, \* the member of inboundQ
  popper,           \* is the main thread asleep in pop()?
  pushCalls,        \* history: calls of push() since the start
  delivered         \* history: messages popped since the start

queueVars == <<maxNumberOfItems, popper, pushCalls, delivered>>
pipelineVars == <<vars, queueVars>>

Earlier == Len(made) - pushCalls

Queue == INSTANCE TQueue WITH
  Poppers    <- {"main"},
  MaxPushes  <- MaxLines,
  configured <- up,
  queue      <- [k \in 1 .. Len(inboundQ) |-> inboundQ[k] - Earlier]

-----------------------------------------------------------------------------
PipelineInit == Init /\ Queue!Init

\* Bridge::start() sets the size before it starts the monitor, and thereby the
\* relay threads.
Boot == Start /\ Queue!setMaxSize

\* With the process goes the queue.
Halt ==
  /\ Crash
  /\ maxNumberOfItems' = DefaultMax
  /\ popper' = [t \in {"main"} |-> "running"]
  /\ pushCalls' = 0
  /\ delivered' = <<>>

\* A labelled line that push() drops; nobody is told.
LabelDropped(ch) ==
  /\ up
  /\ Len(made) < MaxLines
  /\ made' = Append(made, ch)
  /\ UNCHANGED <<bridgeVars, streamed, phase, subVars, got>>

\* Which of the two it is, is decided by push().
Relay(ch) == (Label(ch) \/ LabelDropped(ch)) /\ Queue!push

\* The main thread in pop(): it takes the front line or goes to sleep.  (That
\* pushCalls stays is said first for TLC, which reads the queue' through it.)
Take == popInbound /\ UNCHANGED pushCalls /\ Queue!popTake("main")
Sleep == inMessage = 0 /\ UNCHANGED <<vars, pushCalls>> /\ Queue!popWait("main")
Wake == UNCHANGED <<vars, pushCalls>> /\ Queue!SpuriousWakeup("main")

Publish == publish /\ UNCHANGED queueVars

Main == Take \/ Sleep \/ Publish
Consumes(c) == Consume(c) /\ UNCHANGED queueVars
Reconnects(c) == Reconnect(c) /\ UNCHANGED queueVars

PipelineNext ==
  \/ Boot \/ Halt
  \/ \E ch \in Channel : Relay(ch)
  \/ Main \/ Wake
  \/ \E c \in Consumer : Consumes(c) \/ Reconnects(c)

\* As in Stream; the main thread runs unless it sleeps.
PipelineFairness ==
  /\ WF_pipelineVars(Main)
  /\ \A c \in Consumer : WF_pipelineVars(Consumes(c)) /\ WF_pipelineVars(Reconnects(c))

PipelineSpec == PipelineInit /\ [][PipelineNext]_pipelineVars /\ PipelineFairness

-----------------------------------------------------------------------------
\* The variables have their types, those of the queue too, whose messages are
\* lines that were made since the start.
PipelineTypeOK ==
  /\ TypeOK
  /\ maxNumberOfItems \in 0 .. SizeMod - 1
  /\ popper \in [{"main"} -> {"running", "waiting", "woken"}]
  /\ pushCalls \in 0 .. Len(made)
  /\ delivered \in Seq(1 .. MaxLines)
  /\ \A k \in 1 .. Len(inboundQ) : inboundQ[k] - Earlier \in 1 .. pushCalls

\* Every line that a relay thread of this process made, and whose message a
\* consumer wants, is in the bridge, on its way, with the consumer, or missed for
\* a reason Stream names, as long as the bound of the queue has not wrapped; and
\* what was published is accounted for after that too.  This joins the promise
\* of the queue to that of the socket.
BeforeWrap == up /\ ConfiguredMax + pushCalls < SizeMod
LinesAccounted ==
  /\ NothingElseLost
  /\ BeforeWrap =>
       \A c \in Consumer : \A n \in Earlier + 1 .. Len(made) :
          Wants(c, n) =>
             Pending(n) \/ n \in missed[c] \/ n \in RangeOf(buffer[c]) \/ Heard(c, n)

=============================================================================
