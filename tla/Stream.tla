------------------------------- MODULE Stream -------------------------------
(***************************************************************************)
(* The way of a measurement from the relay threads to the consumers: the   *)
(* start of the bridge (main.cpp, Bridge::start), its main loop, the PUB   *)
(* socket (uStreamer.cpp), and the consumers from their first dial to the  *)
(* callback of subscribe() (ubridgeClient.h, consumer.cpp), over starts    *)
(* and ends of the bridge.                                                 *)
(*                                                                         *)
(* The n-th line that a relay thread labels and pushes is line n.  A text  *)
(* is a sequence over Char, whose members stand for one character or more. *)
(* The queue is the channel that TQueue implements; how a request is       *)
(* answered is the subject of ControlServer.                               *)
(***************************************************************************)
EXTENDS Naturals, Sequences

CONSTANTS
  Char,        \* what texts are made of, "#" among it
  Channel,
  NameOf,      \* the text of each channelID
  Text,        \* the JSON text of each line, without the member channelID
  Consumer,
  Asked,       \* the topic that each consumer passes to subscribe()
  Files,       \* what the configuration file can set: functions of Sockets
  Depth,       \* messages that the way to a consumer holds
  MaxLines     \* bound: lines that devices send

\* The members of Config that hold the addresses of the two sockets.
Sockets == {"configSockUrl", "streamSockUrl"}
Defaults == [configSockUrl |-> "ipc:///tmp/ubridgeReqResp",
             streamSockUrl |-> "ipc:///tmp/ubridgeStream"]
NotListening == "none"

ASSUME TextsAssumption ==
  /\ "#" \in Char
  /\ NameOf \in [Channel -> Seq(Char \ {"#"})]
  /\ Text \in [1 .. MaxLines -> Seq(Char)]
ASSUME AskedAssumption == Asked \in [Consumer -> Seq(Char \ {"#"}) \ {<<>>}]
ASSUME BaseAssumption == {"/sensor", "s", "/"} \subseteq Char
ASSUME FilesAssumption == \A f \in Files : DOMAIN f \subseteq Sockets
ASSUME BoundsAssumption == Depth \in Nat \ {0} /\ MaxLines \in Nat

VARIABLES
  up,         \* does the process of the bridge run?
  listening,  \* the address each of its sockets listens at, or NotListening
  made,       \* history: the channel of each line pushed so far
  inboundQ,   \* Bridge::inboundQ: numbers of lines
  inMessage,  \* the line that the main loop popped and has to publish, or 0
  streamed,   \* history: the lines that were published
  phase,      \* where each consumer is in its main()
  connected,  \* is its SUB socket connected?
  buffer,     \* lines published and on their way to each consumer
  got,        \* history: what each callback got: [line, topic, data]
  missed      \* history: lines that did not reach the consumer while it was
              \* not connected, or that were dropped, or lost with the bridge

bridgeVars == <<up, listening, inboundQ, inMessage>>
subVars    == <<connected, buffer, missed>>
vars == <<bridgeVars, made, streamed, phase, subVars, got>>

-----------------------------------------------------------------------------
Init ==
  /\ up = FALSE
  /\ listening = [s \in Sockets |-> NotListening]
  /\ made = <<>>
  /\ inboundQ = <<>>
  /\ inMessage = 0
  /\ streamed = {}
  /\ phase = [c \in Consumer |-> "dial"]
  /\ connected = [c \in Consumer |-> FALSE]
  /\ buffer = [c \in Consumer |-> <<>>]
  /\ got = [c \in Consumer |-> <<>>]
  /\ missed = [c \in Consumer |-> {}]

-----------------------------------------------------------------------------
(* The bridge starts and ends. *)

\* The members the file has override the defaults of Config; a file that is
\* no JSON has none.
Effective(f) ==
  [s \in Sockets |-> IF s \in DOMAIN f THEN f[s] ELSE Defaults[s]]

\* main() and Bridge::start(); a start that ends early, for want of a file or
\* for a member of a wrong type, changes nothing and systemd tries again.
\* Each socket listens or, at an address that is taken, does not: the results
\* of start() are ignored and the bridge goes on.
Start ==
  /\ ~up
  /\ up' = TRUE
  /\ \E f \in Files : \E ok \in [Sockets -> BOOLEAN] :
       listening' = [s \in Sockets |-> IF ok[s] THEN Effective(f)[s] ELSE NotListening]
  /\ UNCHANGED <<inboundQ, inMessage, made, streamed, phase, subVars, got>>

RangeOf(q) == {q[k] : k \in 1 .. Len(q)}

\* The process is terminated: what it holds is lost, and of what is on its way
\* to a consumer the later part.
Crash ==
  /\ up
  /\ up' = FALSE
  /\ listening' = [s \in Sockets |-> NotListening]
  /\ inboundQ' = <<>>
  /\ inMessage' = 0
  /\ connected' = [c \in Consumer |-> FALSE]
  /\ \E kept \in [Consumer -> 0 .. Depth] :
       /\ \A c \in Consumer : kept[c] <= Len(buffer[c])
       /\ buffer' = [c \in Consumer |-> SubSeq(buffer[c], 1, kept[c])]
       /\ missed' = [c \in Consumer |->
                       missed[c] \cup {buffer[c][k] : k \in kept[c] + 1 .. Len(buffer[c])}]
  /\ UNCHANGED <<made, streamed, phase, got>>

-----------------------------------------------------------------------------
(* The relay threads and the main loop. *)

\* A relay thread parses a line, labels it with its channelID and pushes it.
Label(ch) ==
  /\ up
  /\ Len(made) < MaxLines
  /\ made' = Append(made, ch)
  /\ inboundQ' = Append(inboundQ, Len(made'))
  /\ UNCHANGED <<up, listening, inMessage, streamed, phase, subVars, got>>

\* Bug the checks must find: back() for front().
PoppedBack == inboundQ[Len(inboundQ)]

Popped == Head(inboundQ)

popInbound ==
  /\ inMessage = 0
  /\ inboundQ # <<>>
  /\ inMessage' = Popped
  /\ inboundQ' = Tail(inboundQ)
  /\ UNCHANGED <<up, listening, made, streamed, phase, subVars, got>>

\* The topic of a line, and the message: topic, separator and data.
Topic(n) == <<"/sensor", "s", "/">> \o NameOf[made[n]]
Wire(n)  == Topic(n) \o <<"#">> \o Text[n]

\* subscribe() hands the topic to the socket without its last character.
Subscription(c) == SubSeq(Asked[c], 1, Len(Asked[c]) - 1)

\* The socket takes the messages that begin with the subscription.  No
\* subscription has a "#", so that it is compared with the topic.
Matches(prefix, text) == SubSeq(text, 1, Len(prefix)) = prefix
Wants(c, n) == Matches(Subscription(c), Topic(n))

\* Bug the checks must find: a send that waits for nobody and drops nothing.
QueuedUnbounded(q, n, oldest) == Append(q, n)

\* NNG never waits for a subscriber: when the way is full it drops the oldest
\* message or the new one, as its versions differ.
Queued(q, n, oldest) ==
  IF Len(q) < Depth THEN Append(q, n)
  ELSE IF oldest THEN Append(Tail(q), n) ELSE q

Dropped(q, n, oldest) ==
  IF Len(q) < Depth THEN {} ELSE IF oldest THEN {Head(q)} ELSE {n}

\* Streamer::publish(): every connected consumer that wants the message.
publish ==
  LET n == inMessage
      reached(c) == connected[c] /\ Wants(c, n)
  IN  /\ n # 0
      /\ inMessage' = 0
      /\ streamed' = streamed \cup {n}
      /\ \E oldest \in BOOLEAN :
           /\ buffer' = [c \in Consumer |->
                           IF reached(c) THEN Queued(buffer[c], n, oldest) ELSE buffer[c]]
           /\ missed' = [c \in Consumer |->
                           missed[c] \cup IF reached(c) THEN Dropped(buffer[c], n, oldest)
                                          ELSE IF connected[c] THEN {} ELSE {n}]
      /\ UNCHANGED <<up, listening, made, inboundQ, phase, connected, got>>

-----------------------------------------------------------------------------
(* A consumer: main() of consumer.cpp with the calls of ubridgeClient.h. *)

Reachable(s) == listening[s] = Defaults[s]

\* The requests of connect() and of main(), one after the other.
After == [ping |-> "getDevices", getDevices |-> "queryDevice",
          queryDevice |-> "sendCommand", sendCommand |-> "getStatistics",
          getStatistics |-> "subscribe"]

\* connect() dials; while it fails, main() calls it again every second.
dial(c) ==
  /\ phase[c] = "dial"
  /\ Reachable("configSockUrl")
  /\ phase' = [phase EXCEPT ![c] = "ping"]
  /\ UNCHANGED <<bridgeVars, made, streamed, subVars, got>>

\* A request waits for its answer, over restarts of the bridge too.
request(c) ==
  /\ phase[c] \in DOMAIN After
  /\ Reachable("configSockUrl")
  /\ phase' = [phase EXCEPT ![c] = After[phase[c]]]
  /\ UNCHANGED <<bridgeVars, made, streamed, subVars, got>>

\* subscribe() dials once, outside of its handler: refused, the exception ends
\* the consumer.
subscribe(c) ==
  /\ phase[c] = "subscribe"
  /\ connected' = [connected EXCEPT ![c] = Reachable("streamSockUrl")]
  /\ phase' = [phase EXCEPT ![c] = IF connected'[c] THEN "receive" ELSE "ended"]
  /\ UNCHANGED <<bridgeVars, made, streamed, buffer, missed, got>>

\* Bug the checks must find: a socket that dials once only.
ReconnectNever(c) ==
  /\ phase[c] = "receive"
  /\ streamed = {}
  /\ ~connected[c] /\ Reachable("streamSockUrl")
  /\ connected' = [connected EXCEPT ![c] = TRUE]
  /\ UNCHANGED <<bridgeVars, made, streamed, phase, buffer, missed, got>>

\* A dialer that lost its connection dials again, in the background.
Reconnect(c) ==
  /\ phase[c] = "receive"
  /\ ~connected[c] /\ Reachable("streamSockUrl")
  /\ connected' = [connected EXCEPT ![c] = TRUE]
  /\ UNCHANGED <<bridgeVars, made, streamed, phase, buffer, missed, got>>

\* Bug the checks must find: the last separator taken for the first.
LastSeparator(msg) ==
  CHOOSE k \in 1 .. Len(msg) :
     msg[k] = "#" /\ \A j \in k + 1 .. Len(msg) : msg[j] # "#"

\* msg.find("#"); every message that is published has one.
Separator(msg) ==
  CHOOSE k \in 1 .. Len(msg) :
     msg[k] = "#" /\ \A j \in 1 .. k - 1 : msg[j] # "#"

splitMessage(n) ==
  LET msg == Wire(n)
      pos == Separator(msg)
  IN  [line  |-> n,
       topic |-> SubSeq(msg, 1, pos - 1),
       data  |-> SubSeq(msg, pos + 1, Len(msg))]

\* Bug the checks must find: messages taken in batches only.
receiveBatch(c) ==
  /\ phase[c] = "receive"
  /\ Len(buffer[c]) = Depth
  /\ buffer' = [buffer EXCEPT ![c] = Tail(@)]
  /\ got' = [got EXCEPT ![c] = Append(@, splitMessage(Head(buffer[c])))]
  /\ UNCHANGED <<bridgeVars, made, streamed, phase, connected, missed>>

\* One turn of the loop of subscribe(): the next message to the callback.
receive(c) ==
  /\ phase[c] = "receive"
  /\ buffer[c] # <<>>
  /\ buffer' = [buffer EXCEPT ![c] = Tail(@)]
  /\ got' = [got EXCEPT ![c] = Append(@, splitMessage(Head(buffer[c])))]
  /\ UNCHANGED <<bridgeVars, made, streamed, phase, connected, missed>>

-----------------------------------------------------------------------------
\* The main loop of the bridge, and the one thread of a consumer.
MainLoop == popInbound \/ publish
Consume(c) == dial(c) \/ request(c) \/ subscribe(c) \/ receive(c)

Next ==
  \/ Start \/ Crash
  \/ \E ch \in Channel : Label(ch)
  \/ MainLoop
  \/ \E c \in Consumer : Consume(c) \/ Reconnect(c)

\* The main loop and the consumers run, callbacks return, and NNG dials again.
\* Nothing is assumed of the devices nor of starts and ends of the bridge.
Fairness ==
  /\ WF_vars(MainLoop)
  /\ \A c \in Consumer : WF_vars(Consume(c)) /\ WF_vars(Reconnect(c))

Spec == Init /\ [][Next]_vars /\ Fairness

-----------------------------------------------------------------------------
Line == 1 .. MaxLines
Phases == DOMAIN After \cup {"dial", "subscribe", "receive", "ended"}

\* The variables have their types; no way to a consumer holds more than it can.
TypeOK ==
  /\ up \in BOOLEAN
  /\ DOMAIN listening = Sockets
  /\ made \in Seq(Channel) /\ Len(made) <= MaxLines
  /\ inboundQ \in Seq(Line)
  /\ inMessage \in Line \cup {0}
  /\ streamed \subseteq Line
  /\ phase \in [Consumer -> Phases]
  /\ connected \in [Consumer -> BOOLEAN]
  /\ buffer \in [Consumer -> Seq(Line)]
  /\ \A c \in Consumer : Len(buffer[c]) <= Depth
  /\ got \in [Consumer -> Seq([line : Line, topic : Seq(Char), data : Seq(Char)])]
  /\ missed \in [Consumer -> SUBSET Line]

\* What a callback gets is the data of one line under the topic of the channel
\* that sent this line, although topic and data travel as one text that is cut
\* at a character which data may contain as well.
MessagesWhole ==
  \A c \in Consumer : \A k \in 1 .. Len(got[c]) :
     LET m == got[c][k]
     IN  m.topic = Topic(m.line) /\ m.data = Text[m.line]

Heard(c, n) == \E k \in 1 .. Len(got[c]) : got[c][k].line = n

\* A line that was published reaches every consumer that wants it, or is on
\* its way, or is one of those that were published while the consumer was not
\* connected, dropped on a full way, or lost with the bridge: between
\* connecting and the next of these events a consumer has no gap.
NothingElseLost ==
  \A c \in Consumer : \A n \in streamed :
     Wants(c, n) =>
        n \in missed[c] \/ n \in RangeOf(buffer[c]) \/ Heard(c, n)

\* Each consumer hears lines of the channels that match its subscription, in
\* the order of the queue and none twice: over the queue, the main loop, drops,
\* ends of the bridge and new connections.
Lines(c) == [k \in 1 .. Len(got[c]) |-> got[c][k].line]
TheFeed == INSTANCE Feed WITH
  Interest <- [c \in Consumer |->
                 {ch \in Channel : Matches(Subscription(c), <<"/sensor", "s", "/">> \o NameOf[ch])}],
  heard    <- [c \in Consumer |-> Lines(c)]
ImplementsFeed == TheFeed!Spec

\* What a relay thread pushes while a consumer is connected gets to the
\* consumer, unless it is dropped for others or the bridge ends.
Pending(n) == n = inMessage \/ n \in RangeOf(inboundQ)
EachLineArrives ==
  \A c \in Consumer : \A n \in Line :
     (connected[c] /\ Pending(n) /\ Wants(c, n))
        ~> (~up \/ n \in missed[c] \/ Heard(c, n))

\* Once the bridge is there for good, and listens where consumers dial, every
\* consumer gets through its requests and stays connected, whenever it was
\* started, or it has ended because its dial in subscribe() came too early.
ConsumerServed ==
  <>[](\A s \in Sockets : Reachable(s)) =>
     \A c \in Consumer : <>[](connected[c] \/ phase[c] = "ended")

-----------------------------------------------------------------------------
(* What a comment says and the code does not do. *)

\* consumer.cpp:92: subscribing to the topic of a channel is subscribing to a
\* "specific one".
OnlyTheTopicAsked ==
  \A c \in Consumer : \A k \in 1 .. Len(got[c]) : got[c][k].topic = Asked[c]

=============================================================================
