# Verification of uBridge

TLA+ models of uBridge, the service that finds uThing devices on serial ports,
relays their measurements to a PUB socket and answers control requests on a REP
socket. The modules follow the C++ sources; `PROJECT.json` maps each definition
to the lines it stands for. Paths below are those of the repository.

## The system

| Component | State | Operations | Interacts through |
|---|---|---|---|
| Inbound queue, `include/threadsafeQueue.h` | `queue`, `maxNumberOfItems` | `setMaxSize`, `push`, `pop`, `tryPop` | relay threads push, the main loop pops |
| Port monitor, `src/uSerial.cpp` | `tempPortList`, position in a scan | `findPorts`, `isUthing`, `monitorPortsThread` | reads `/dev` and `cfg`, inserts into `Bridge::devices`, starts relay threads |
| Device, `src/uDevice.cpp` | identity, `_port`, statistics | constructor, `assignChannelID`, `query`, `relayThread` | one serial port, shared by its relay thread and the request thread |
| Request handler, `src/ubridge.cpp` | `requestType`, `deviceList`, `cfg` | `requestHandler`, `parseRequest`, `prepareResponse`, `listDevices`, `findDeviceById`, `queryDeviceById`, `sendCommandById`, `getStats` | callback of the REP server; `devices` under `mutex_devices`, or without it |
| REP server, `src/reqRepServer.cpp` | REP socket | `start`, `receiveThread`, `parseMessage`, `sendResponse` | clients |
| Main loop, `Bridge::start` | `inMessage` | pop, topic, `publish` | queue and PUB socket |
| Streamer, `src/uStreamer.cpp` | PUB socket | `start`, `publish` | subscribers |
| Client, `include/ubridgeClient.h`, `src/consumer.cpp` | REQ and SUB sockets | `connect`, `request`, `subscribe`, `splitMessage` | REP and PUB sockets |
| Start, `src/main.cpp`, `include/uBridgeConfig.h`, units | `Config` | load, restart by systemd | everything |

The process has the main thread (pops and publishes), the monitor thread, the
receive thread (which runs the request handler) and one relay thread per entry
of `Bridge::devices`. `mutex_devices` protects the map, but the monitor's lookup
(`uSerial.cpp:135`), `findDeviceById` (`ubridge.cpp:141`) and `devices.size()`
(`ubridge.cpp:119`) go without it, and no lock orders the two threads that read
a serial port. An exception that leaves a thread terminates the process; the
systemd unit starts it again.

What is hard: lookups that must still hold seconds later; entries that outlive
their device; devices pulled out or exchanged between two calls; a line that two
threads read; replies that come late or not at all; time-outs under a mutex;
requests sent again while the first copy waits, is
handled or was answered, and after a restart; counters and bounds that move or wrap;
sockets that drop, that fail to listen, or that connect again unnoticed.

What makes each part correct:

- queue: nothing lost, repeated or reordered, no thread asleep beside a message;
- discovery: one entry and one relay thread per port, entries that do not change
  under other threads, every uThing that stays is found, also after a restart;
- port: no reply used twice, at most one measurement spoiled by a query that
  returned, an answer that is not older than its query, both threads always go on;
- requests: each client gets the answer to its own request, from consistent
  data, and every request that can be parsed is answered;
- stream: what a callback gets is one whole measurement under the topic of its
  device, in order and once, and nothing is missing but for a named reason;
  a consumer connects in the end, whenever it and the bridge were started.

## Modules

| Module | Models | Notes |
|---|---|---|
| `FifoChannel` | what threads expect of a queue | abstract |
| `TQueue` | `threadsafeQueue.h` | implements `FifoChannel` |
| `TQueueProofs` | theorems about `TQueue` | |
| `Registry` | what the request thread relies on about `Bridge::devices` | abstract |
| `DeviceRegistry` | `uSerial.cpp`; constructor, start and end of relay threads in `uDevice.cpp`; restart | implements `Registry` |
| `DeviceRegistryProofs` | theorems about `DeviceRegistry` | |
| `Exchange` | what a caller of `Uthing::query` can rely on | abstract |
| `UthingPort` | `Uthing::query` and the loop of `Uthing::relayThread` on one port | implements `Exchange` |
| `UthingPortProofs` | theorems about `UthingPort` | |
| `ControlServer` | `reqRepServer.cpp`, the request handler of `ubridge.cpp`, waiting clients | uses the actions of `Registry` for the map; its own steps implement `Registry` too |
| `ControlServerProofs` | theorems about `ControlServer` | |
| `Bridge` | the threads that share `Bridge::devices`, put together | composes `ControlServer` and `DeviceRegistry`; implements both |
| `BridgeProofs` | theorems about `Bridge` | |
| `Feed` | what a subscriber can rely on | abstract |
| `Stream` | start in `main.cpp` and `Bridge::start`, main loop, `uStreamer.cpp`, `ubridgeClient.h`, `consumer.cpp` | implements `Feed`; its queue keeps everything in order |
| `StreamProofs` | theorems about `Stream` | |
| `Pipeline` | `Stream` with the queue as it is: relay threads in `push()`, the main thread in `pop()`, a new queue per process | composes `Stream` and `TQueue`; implements `Feed`, and both parts |
| `PipelineProofs` | theorems about `Pipeline` | |
| `SequenceFacts` | lemmas on `Head`, `Tail`, `SubSeq`, `Append`, `\o` | used by `UthingPortProofs`, `StreamProofs`, `PipelineProofs` |
| `MC...` | values of the constants for TLC | |

`DeviceRegistry` and `ControlServer` meet in `Registry`: the first shows that
the monitor and the relay threads only do what `Registry` allows (insert under
the free mutex, never remove, lose all in a crash), the second takes exactly that
as the behaviour of the other threads. `Bridge` joins their actions over one map,
one mutex and one `cfg`, and shows that each sees of the other only what it takes
for granted. `UthingPort` details what `ControlServer` calls the `Outcome` of a
query, and `Exchange` says what a caller may make of it. `TQueue` shows against
`FifoChannel`, for any threads, that what is put in comes out in order and in the
end, which is how `inboundQ` behaves in `Stream`. `Pipeline` joins the two with
the threads that the bridge has: the queue of one is the queue of the other.

### TQueue

One action per critical section of the class's own mutex. `popper[c]` tells
whether a thread is outside `pop()`, asleep in `wait()` or woken and about to
test again; spurious wake-ups are included. `push` raises `maxNumberOfItems`, as
`++maxNumberOfItems` in its test does, modulo `SizeMod`, the width of `size_t`.
A message is the number of the `push` that brought it.

### DeviceRegistry

`attached` is the world: which device has which name in `/dev`, changed by
`Attach` and `Detach` at any moment. `monPc` follows the monitor thread:

| `monPc` | Code |
|---|---|
| `scan`, `next` | `uSerial.cpp:121-135`, list and unlocked lookup (`monScan`, `monNext`, `monSleep`) |
| `open`, `ask`, `await` | `isUthing` (`probeOpen`, `probeAsk`, `probeReply`, `probeOther`) |
| `construct`, `inform` | constructor of `Uthing` (`construct`, `informReply`, `informOther`) |
| `emplace` | critical section `uSerial.cpp:147-155` (`monEmplace`) |

A relay thread is `starting`, `running`, `lost` (its descriptor is dead and it
has not noticed) or `ended`. `Terminate` is `std::terminate`: everything in
memory goes and `fault` says why; `Restart` is systemd and `main()`. Scanning is
one atomic read of `cfg` and `/dev`; the order of the ports is left open, as that
of `directory_iterator` is. A `devNameBase` that is no regular expression
(`Malformed`), which `setConfig` accepts, throws in the next scan and ends the
process; exceptions of `directory_iterator` itself are not modelled. Opening a port
succeeds exactly when a device has its name. A line is only told apart as the reply
to `{"info": true}` or anything else.

### UthingPort

Lines have a kind and a number and may arrive in two parts. `FlushIOBuffers`
empties both directions, `FlushOutputBuffer` what is not transmitted, and
`ReadLine` needs the end of a line. Two threads inside `ReadLine` share out one
line (`tornRead`): both get pieces, and the one without the end reads on. When
that is the relay thread, its next line is spoiled too (`spoiled`); when it is the
query, what it returns is an error and what it leaves in the port is read by the
relay thread. A time-out leaves in the port what the other reader holds of it. A
piece of a line that `query()` flushes may be with the relay thread already: it is
counted as discarded, and what the relay thread makes of it is `spoiled`.
`returned` is the number of measurements when the last query ended, `slow` whether
the relay thread lost a slow line since. The device answers
queries in order, or never. The port is that of a relay thread that runs; its
start is in `DeviceRegistry`. The counters of the statistics, which both threads
increment without a lock, are left out. `Exchange` says what a query may return:
a reply that no query had before, a measurement that arrived while it ran, or an
error; `Shown` and `Asked` map the port to it.

### ControlServer

`pc` follows the receive thread through the handler, one step per critical
section or unlocked access. `findDeviceById` races with insertions: undisturbed
it returns the first match, and when a node is inserted under the iterator the
tree may be rotated so that it passes over entries (`Found`). The REP socket
answers the client it received from last; a request that is no JSON text is
dropped without an answer.

What is under way from a client is `late`, copies of earlier requests, and behind
it `copies` of the last one. The timer of a REQ socket (`Resend`) adds a copy at
any moment at which the client waits, wherever the copies before are: the server
has no part in it. So a command can be carried out twice, in one process and also
behind the answer to its first copy; the answer to a late copy is discarded by the
REQ socket (`fresh`). After a restart the sockets that wait send again, and what
was under way is lost. `sendings` counts the times the last request was sent, and
`ExecutedOncePerCopy` says that the server adds no execution of its own.

A device list says how often it has the entry of each port, and the entry stands for the four
texts per device. Whether a device is still there when it is asked is one of the
outcomes of the query; what `setConfig` does to `cfg` is in `DeviceRegistry`, for
its monitor. The handler reads `cfg` too, for `getConfig` (`ubridge.cpp:242,252`):
in the thread that changes it, and only to print it, so that answer is `Reply("config")`
whatever the values are.

### Bridge

| Action | Code |
|---|---|
| `Receive`, `Serve` | the receive thread: `receiveThread` and the handler; `setConfig` changes `cfg` in the step that parses the request |
| `Discover` | monitor up to the critical section, relay threads, devices that come and go; a step that terminates the process restarts the server part (`ServerRestarted`) |
| `Insert` | `uSerial.cpp:147-155`, seen by a `findDeviceById` that runs (`InsertionSeen`) |
| `Reboot` | systemd and `main()` |

The actions of the two modules are used as they are: `RequestLock`,
`RequestUnlock` and `SetConfig` of `DeviceRegistry` and `Register` and `Crash` of
`ControlServer`, which stand for the other side there, do not occur. That the
steps put in their place are theirs is `ImplementsParts`. Whether a device that
is asked is still on its port is left to `Outcome`.

### Stream

| State and actions | Code |
|---|---|
| `Start`, `listening`, `Effective` | defaults of `Config`, overrides of `main.cpp:106-119`, `Bridge::start`; a socket that cannot listen is a value of `listening`, since the results of `start()` are ignored |
| `Label` | a relay thread labels a line and pushes it (`uDevice.cpp:154-163`) |
| `inMessage`, `popInbound`, `publish` | main loop, `ubridge.cpp:77-98`, and `Streamer::publish` |
| `Queued`, `Dropped` | PUB socket: never waits, drops the oldest or the new message of a full way |
| `phase`, `dial`, `request` | `connect()` and the requests of `consumer.cpp:58-87` |
| `Subscription`, `subscribe` | the topic without its last character, one dial outside of the handler |
| `Reconnect` | the NNG dialer dials again in the background |
| `Separator`, `splitMessage`, `receive` | loop of `subscribe()` and callback |
| `Crash` | the process ends: queue and popped line are lost, and the later part of what is on its way |

Texts are sequences over a set that has `#` in it, so that cutting a message is
modelled by what it does. A consumer uses the default addresses, as
`consumer.cpp` does: a file that moves a socket leaves it waiting in `dial`, or
ends it in `subscribe`. Assumptions on constants: no channelID and no topic
asked for contains `#`, and the topic asked for is not empty (`strlen(topic)-1`
is a size).

### Pipeline

| State and actions | Code |
|---|---|
| `maxNumberOfItems`, `popper` | the queue of the process, and whether its main thread is asleep in `pop()` |
| `Boot` | `Bridge::start`: `setMaxSize` (`ubridge.cpp:66`) comes before the monitor and its relay threads |
| `Relay` | `Label` of `Stream` and `push` of `TQueue` in one step; what `push` does decides whether the line is kept or `LabelDropped` |
| `Take`, `Sleep`, `Wake` | the main thread in `pop()` (`ubridge.cpp:79`): takes the front, waits, is woken for nothing |
| `Publish`, `Consumes`, `Reconnects` | as in `Stream`, the queue untouched |
| `Halt` | the process ends and its queue with it |

`TQueue` knows a message by the number of its `push`, `Stream` by the number of
its line; `Earlier`, the number of lines made before this process, is the
difference (history of the model, not of the code), by which `queue` is
substituted in the instance `Queue`. `tryPop` is called nowhere in the program and has no action here.

## Runs

| Run | Question | Bounds |
|---|---|---|
| `TQueue` | Does the queue keep what its users expect, with a bound that moves and wraps? | 3 poppers, so that a message can be taken by a thread that was not woken; `size_t` modulo 7, bound 2, 12 pushes: wraps at the fifth and at the last, with pushes kept and dropped between |
| `registry` | Does discovery keep its promises while devices come and go? | 2 ports, a uThing and a modem, 3 plugs (out, in, out of the same port), 3 configurations, one of which is no pattern, any number of restarts |
| `port` | What do two readers of one port do to its lines? | 3 measurements, 2 queries (a late reply and the query it meets), batches of 2: a query, the measurement it spoils, and one behind it; 506,049 states |
| `control` | Are answers right and does everyone get one, whatever came before and whatever changes meanwhile? | 2 clients: one lists, commands and sends what is no JSON, the other queries a device, asks for statistics, which hold the mutex for long, and for what is unknown; 2 ports, 2 devices, 1 timer that fires, 1 restart. `setConfig` and a query without channelID are in `bridge` |
| `bridge` | Do discovery and request handler keep what each takes for granted of the other, and do their two writers stay off each other's ports? | 1 client (the threads, not the clients, interleave here), 5 requests, 2 ports, 2 uThings, one of them plugged in or pulled out, 3 configurations, 1 restart; no timer fires, since a copy is served like the first |
| `pipeline` | Does a measurement get from its relay thread to the callbacks whole, in order and once, with the queue as it is, and does a consumer get to its stream? | 2 channels, one of them asked for; 4 lines, texts with and without `#`; the bound of the queue wraps at the third line after a start, which is dropped, with lines kept before and after; a way of 2 messages, so that drops happen with one before and one after; 2 configuration files, any number of starts and ends |
| `TQueue_bound` | Does the configured size bound the queue? No | 4 pushes, bound 2 |
| `registry_replug` | Is a connected uThing served? Not after it was plugged in again | 1 port, 1 uThing, out and in |
| `registry_answer` | Is a measurement in place of the reply overcome? Not in the constructor | 1 uThing |
| `port_forwarded` | Is the reply to a command kept from the stream? No | 1 command |
| `stream_specific` | Does a consumer of one topic get this topic only? No | 2 channels that differ in the last character, 1 line |
| `control_null` | Is the list of devices never null? It can be | 1 client, `getDevices` only |

Why the bounds are enough: every property speaks of one port, of two ports that
share the monitor, of one message between two others, or of two clients; each
bound lets these meet in every order, and lets the interesting event (wrap,
second plug, second query, drop, restart) happen with something before and after
it. `pipeline` has one consumer, because consumers share nothing but the step that
publishes, which treats each alike; its proofs hold for any number. `Stream` has no
run of its own that passes: its steps are those of the pipeline before the wrap
(`StreamImplemented`), and its properties are checked there.
`bridge` states safety only: its liveness is that of the two modules.
Deadlock is checked everywhere but in `port` and `port_forwarded`, where an
unplugged device and a request thread at its bound leave nothing to do, and in
`control`, where clients whose text was no JSON wait for ever, as in the program.

Every property of a passing run is broken by a variant of a helper or an action
(the definitions under "Bug the checks must find"), listed under `mutants` in
`PROJECT.json`: a forgotten lock, a check left out, a missing reset, one attempt
or one line too many, a time-out forgotten, the entry erased as the commented
line would, a message cut at the wrong separator or dropped too early.

### Fairness

- Threads keep running and their sleeps and time-outs end: weak fairness of the
  monitor, of each thread in `pop()`, of the relay and request threads.
- `std::mutex` is not fair, but threads give it up and sleep or do serial I/O
  between two uses: strong fairness of `monEmplace` and `relayLost`.
- `registry` assumes that a uThing asked again and again answers first for once,
  in the probe and in the constructor (strong fairness of `probeReply` and
  `informReply` per port). `registry_answer` shows what a wrong answer does.
- `RequestUnlock` is weakly fair because `query()` has a time-out, which
  `QueryReturns` shows in `port`; there nothing at all is assumed of the device.
- systemd restarts the service. Its limit of starts per interval is not modelled.
- The REP socket receives from each client in turn (strong fairness per client).
- The main loop, each consumer (whose callback returns) and the dialer of each
  SUB socket run: weak fairness of `Main`, `Consumes`, `Reconnects` (of `MainLoop`,
  `Consume`, `Reconnect` in `Stream`). A main thread asleep in `pop()` does not run,
  and nothing wakes it but a `push()`: `EachLineArrives` includes that no wake-up is
  lost. Nothing is
  assumed of devices, nor of when and how often the bridge starts and ends;
  `ConsumerServed` speaks of runs in which it stays up with both sockets at their
  default addresses from some moment on.

## What is proved

For every value of the constants, with the assumptions named in the modules:

- `TQueueProofs`: `TypeCorrect`; `WaitersNotStranded`; `NoBoundIsMet`, the fact
  behind the finding of `TQueue_bound`: whatever size is configured, the queue
  holds all that was pushed and not popped until the `size_t` wraps (from
  `FifoInv`: the accepted messages are exactly the pushed ones in order);
  `OrderPreserved`, also after the wrap,
  from an invariant that orders taken and queued messages and bounds them by the
  number of pushes (`OrderInv`); `ImplementsChannelSafety`, that each step is a
  step of `FifoChannel` or none, wherever the bound wraps.
- `DeviceRegistryProofs`: `TypeCorrect`; `ProbeUndisturbed`, `RelaysCounted`,
  `EntriesPermanent` and `RegistryImplemented`. They rest on the inductive
  invariant `IInv`: while the monitor probes a port the port has no entry, a port
  without entry has no relay thread, what is about to be inserted is a device,
  and relay threads are counted by entries. None of the properties is inductive
  alone: that the probed port has no entry is what makes `emplace` an insertion
  and its thread the only one. `StableWorld`, that entries are those of
  the devices on their ports and no device is missing while nothing is plugged in
  or pulled out, and `ChannelIdsUnique` rest on `StableInv`: no descriptor dies,
  and what the monitor opened or identified is still there (`PresentInv`), and
  every entry is served (`ServedInv`). `ScanEnds` needs finitely many ports: a
  number (`ScanLeft`) that each step of the monitor makes smaller and no other
  step makes larger, so that a scan of `n` ports takes at most `15 n + 1` steps.
- `ControlServerProofs`: `TypeCorrect`; `ListsConsistent`, because registered
  ports only become more while the handler is between filling the list, counting
  and sending (`ListInv`); `AnswersFit`, `FoundEntryThere`, `ExecutedOnce` and
  `RequestsKeepRegistry`. They rest on `IInv`: from reception to answer the
  request served is the one `current` waits for and `requestType` is its type
  (`OwnerInv`), each branch of the handler is reached by its requests only
  (`BranchInv`, `ResponseInv`), the port found has a matching entry until the
  device was asked (`LockedInv`, from `FoundMatches`: whatever an insertion does
  to the traversal, it stops at a match or at the end), and each execution has
  used up a copy that was sent, as will the copy in hand (`OnceInv`).
  None of the safety properties says anything of a request half way through the
  handler, which is why none is inductive alone. `NullIsRace`: a list is null only
  if it is empty and a device was registered while it was made (`NullInv`).
  `HandlingEnds` is the counterpart of `ScanEnds` for requests (`StepsLeft`).

- `UthingPortProofs`: `TypeCorrect` (with `LoopInv`: the relay thread reads only
  below the size of its batch); `AnswersFresh`, because while a query runs every
  measurement in the port is newer than its beginning (`PendingInv`, established
  by the flush); `QuietLosesNothing`, because a port that no query has touched
  holds only measurements, numbered on from those published, and its last line
  is the one that lacks its end (`QuietInv`); `OneLineSpoiled`, because as long
  as the relay thread has a piece of a torn line it reads nothing else, so that
  all that arrived after the query is still in the port (`SpoilInv`): the piece
  spoils one line and is gone. The property alone does not say that the first
  measurement after the query is in the port at that moment, hence the
  strengthening.
  `QueriesAnswered`, that the port implements `Exchange`, needs two more parts:
  numbers only grow from the request thread over the transmitter, the device and
  the port to the reader, so that what a query returns was taken by nobody before
  (`UsedInv`), and a reply answers a query that was begun (`ReplyInv`).
- `BridgeProofs`: `PartsImplemented`, that each step of the bridge is a step of
  `ControlServer` or none and one of `DeviceRegistry` or none. Its invariant
  `DiscoveryInv` carries over from discovery what the request handler needs to
  see an insertion as `Register`: the port probed has no entry (`SearchInv`),
  entries are counted by threads (`EntryInv`), and a process that has ended has
  nothing left to end (`EndedInv`). What is proved of either part thus holds of
  the bridge. Across the parts, `WritersNeverMeet`: the receive thread writes to
  registered ports only and the monitor to the others; `ServedRelayed`: what is
  asked or listed has its relay thread; `QueriesReachDevice`: while nothing moves,
  who is asked is the device that has the channelID asked for, on its port.

With `RegistryImplemented` and `RequestsKeepRegistry` both sides of the registry
are proved to keep what the other side relies on.

- `StreamProofs`: `TypeCorrect`; `MessagesStayWhole`, from the lemma `SplitWhole`
  (the first separator of a message is the one `publish` put in, since topics
  have none, whatever the data contains); `NoOtherGap`; `FeedImplemented`, that
  every step of the stream is a step of `Feed` or none. They rest on `IInv`: line
  numbers grow from what a callback got over the way to the consumer, the popped
  line and the queue to the lines made (`HeardBefore`, `WaysInOrder`,
  `StreamedBefore`, `QueueInOrder`), and the way of a consumer holds only what
  its subscription wants. The order at the callback alone says nothing of lines
  under way, hence the strengthening. `SubscriptionsKept` says what is left of
  `OnlyTheTopicAsked`: a callback gets topics that begin like the one asked for,
  up to the last character.
- `PipelineProofs`: `PipelineTyped`, `PipelineWhole`, `PipelineAccounts`,
  `PipelineIsFeed`, `NoLineWaits`, `StreamImplemented`, `WideEnough`.
  A step of the pipeline is a step of `Stream` or a line that
  `push()` drops, which disturbs nothing (`DroppedStep`): so the invariant of
  `Stream` holds here too (`StreamInvariant`), also after the wrap, and with it the
  order and wholeness of what callbacks get. `LinesAccounted` needs more, put
  together in `PInv`: the bound is the configured size plus the number of calls
  until it wraps (`BoundInv`), and the queue holds no more than was pushed
  (`FewEnough`), so that no call drops anything before the wrap; its messages are
  lines of this process (`QueueTyped`), hence the line that `push()` appends is the
  one that was made last; and a line that this process made is published or in the
  bridge (`KeptInv`), which carries the promise from the relay thread to `publish`,
  where that of `Stream` takes over. None of this is visible in the property, which
  says nothing of the bound. `MainLoopAwake` is the part of `EachLineArrives` that
  is not about fairness: the thread sleeps beside an empty queue only.
  `StreamImplemented` says that up to the wrap each step is one of `Stream`, so
  that what is proved of its steps holds here.

The theorems without a run of their own (`StableWorld`, `ChannelIdsUnique`,
`ScanEnds`, `NullIsRace`, `HandlingEnds`, `ServedRelayed`, `QueriesReachDevice`,
`SubscriptionsKept`, `AnswersFresh`, `NoBoundIsMet`, `NoLineWaits`,
`StreamImplemented`, `WideEnough`) were checked by TLC with
their inductive invariants on instances of the size of `registry`, `control`, `bridge`,
`pipeline` and `port` before they were proved. `NoOtherGap`, that nothing published
is lost but for the reasons named, is the first part of `LinesAccounted`, which
`pipeline` checks; `TypeCorrect` of `Stream` is part of `PipelineTypeOK`.

Liveness stays with TLC: temporal properties under fairness are out of reach of
the provers used here. That is `AttachedUThingRegistered`, `LostRelayEnds`,
`MonitorReturns`, `QueryReturns`, `RelayEnds`, `PortDrains`, `RequestAnswered`,
`EachLineArrives`, `ConsumerServed`, and that the channel of `ImplementsChannel`
delivers, whose safety part is proved. `ScanEnds` and `HandlingEnds` prove the
part of `MonitorReturns` and `RequestAnswered` that is not about fairness: the
monitor and the handler cannot go round in circles.

## What the code does and its documents do not say

The six violation runs, and besides, read off the models without a run of their
own:

- the relay thread returns without closing the port or deleting the entry
  (`uDevice.cpp:179-186`, the cause of `registry_replug`);
- `maxDevices` (`README.md:47`) is read nowhere;
- a channelID is not "unique" (`uDevice.h:85`) once a device has moved: its old
  entry stays, has the same channelID, and is the one that `findDeviceById`
  returns if its port comes first (`ChannelIdUnique`, which `ChannelIdsUnique`
  proves of a world in which nothing moves);
- the pattern of `findPorts` ends in one digit, so `ttyACM10` is never found;
- a device exchanged between the constructor and the start of its relay thread is
  published under the other's channelID; the window lasts while a request holds
  the mutex;
- a command can be carried out twice: the REQ socket sends a request again when
  no reply has come within 60 s, also while its first copy waits behind a slow
  `getStatistics`, and the server does not tell copies apart;
- `setConfig` takes any text for `devNameBase`; one that is no pattern ends the
  process at the next scan;
- a query that times out in the middle of a line, or shares a line with the relay
  thread, can cost the next measurement, but no more (`QuerySpoilsOneLine`);
- an insertion during `findDeviceById` can make a registered device "not found";
- `FlushOutputBuffer` in the relay loop can discard a command not yet
  transmitted, and `sendCommand` answers OK;
- `setConfig` changes the configuration and answers that it is not implemented;
- a device pulled out while it is probed terminates the process
  (`uSerial.cpp:81-84` and `uDevice.cpp:42` have no handler around them);
- `subscribe()` dials outside of its `try`: a bridge that is down at that moment
  ends the consumer, which `connect()` would have waited for (`ConsumerServed`
  allows for it);
- a bridge whose sockets could not listen runs on, and no client reaches it.

## Not modelled

- Third-party code kept in the repository: `include/nlohmann`, `include/cxxopts.hpp`,
  `include/loguru`, `include/nngpp`. They are most of its lines and none of its
  logic; nngpp is a thin wrapper of calls whose effect is in the actions that
  make them. NNG and LibSerial themselves are not in the repository and appear
  as the code uses them (the definitions marked external).
- Log texts, option parsing, JSON layout, build files, units beyond `Restart=`; systemd's limit of starts per interval.
- The statistics: `getStats()` is modelled with its lock and its queries; its
  figures come from counters that two threads increment without a lock, and no
  other part reads them.
- Request members of a wrong JSON type or missing: a `channelID` that is no text
  throws, and a missing `command` or `query` is read with the unchecked
  `operator[]`, in the receive thread, where nothing handles it. The process ends
  (the `Crash` of `ControlServer`), and the client's REQ socket sends the same
  request to the next one. `RequestAnswered` is about clients that send none.
- An exception of `pub_sock.send()` in the main loop: again a `Crash`.
- Undefined behaviour with no outcome to name: the text of `cfg.devNameBase`
  assigned while the monitor copies it.

## What could follow

1. The counters of the statistics with their lost increments.
2. Liveness on paper: `ConsumerServed` and `RequestAnswered` for any number of
   consumers and clients, once the provers handle fairness.
