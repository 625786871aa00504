--------------------------- MODULE DeviceRegistry ---------------------------
(***************************************************************************)
(* Discovery of devices and the life of their entries: the monitor thread  *)
(* (uSerial.cpp), the constructor of Uthing and the start and end of the   *)
(* relay threads (uDevice.cpp), over serial ports whose devices come and   *)
(* go at any moment.                                                       *)
(*                                                                         *)
(* A line of a device is not modelled here: all that matters to discovery  *)
(* is whether the line read after {"info": true} is the reply or something *)
(* else (a measurement, a fragment, nothing in time, an I/O error).        *)
(*                                                                         *)
(* The thread that answers requests is seen from outside: it holds         *)
(* mutex_devices for a while and it changes the configuration.             *)
(***************************************************************************)
EXTENDS Naturals, FiniteSets

CONSTANTS
  Port,          \* serial ports that /dev may show
  PortBase,      \* the name of a port without its number
  PortNumber,    \* the number at the end of its name
  Device,        \* what can be plugged in
  UThing,        \* the devices among them that answer {"info": true}
  NoDevice,
  NoPort,
  ChannelOf,     \* the channelID that assignChannelID() gives to a device
  Configs,       \* configurations that the file or setConfig can yield
  LoadedConfig,  \* the one read at every start of the process
  Malformed,     \* values of devNameBase that make no regular expression
  MaxPlugs       \* bound: devices plugged in or pulled out while running

ASSUME DevicesAssumption == UThing \subseteq Device /\ NoDevice \notin Device
ASSUME PortsAssumption == NoPort \notin Port
ASSUME ConfigsAssumption == LoadedConfig \in Configs
ASSUME PlugsAssumption == MaxPlugs \in Nat

VARIABLES
  attached,       \* the device on each port, or NoDevice
  plugs,          \* number of times one was plugged in or pulled out
  cfg,            \* Bridge::cfg: devNameBase and maxDevices
  devices,        \* Bridge::devices: the device each entry was created for
  mutex_devices,  \* "free" or "request"
  monPc,          \* where the monitor thread is
  tempPortList,   \* ports of this scan still to be looked at
  portName,       \* the port the monitor is looking at
  attempt,        \* index i of the loop of isUthing()
  uThing,         \* the device identified by the local variable uThing
  monPort,        \* the monitor's descriptor: "closed", "live" or "dead"
  relay,          \* state of the relay thread of each port
  spawned,        \* history: relay threads started on each port
  fault           \* "none", or why the process was terminated

envVars  == <<attached, plugs>>
monVars  == <<monPc, tempPortList, portName, attempt, uThing, monPort>>
mapVars  == <<devices, relay, spawned>>
vars     == <<envVars, cfg, mutex_devices, monVars, mapVars, fault>>

Empty == [p \in Port |-> NoDevice]

\* isUthing() asks at most this many times.
Attempts == 5

Registered == {p \in Port : devices[p] # NoDevice}

-----------------------------------------------------------------------------
Init ==
  /\ attached \in [Port -> Device \cup {NoDevice}]
  /\ \A p, q \in Port : attached[p] = attached[q] => p = q \/ attached[p] = NoDevice
  /\ plugs = 0
  /\ cfg = LoadedConfig
  /\ devices = Empty
  /\ mutex_devices = "free"
  /\ monPc = "scan"
  /\ tempPortList = {}
  /\ portName = NoPort
  /\ attempt = 0
  /\ uThing = NoDevice
  /\ monPort = "closed"
  /\ relay = [p \in Port |-> "none"]
  /\ spawned = [p \in Port |-> 0]
  /\ fault = "none"

\* An exception that nobody catches ends every thread of the process.
Terminate(why) ==
  /\ fault' = why
  /\ devices' = Empty
  /\ mutex_devices' = "free"
  /\ monPc' = "scan"
  /\ tempPortList' = {}
  /\ portName' = NoPort
  /\ attempt' = 0
  /\ uThing' = NoDevice
  /\ monPort' = "closed"
  /\ relay' = [p \in Port |-> "none"]
  /\ spawned' = [p \in Port |-> 0]
  /\ UNCHANGED <<envVars, cfg>>

\* systemd starts the service again (Restart=on-failure) and main() reads
\* the configuration file again.
Restart ==
  /\ fault # "none"
  /\ fault' = "none"
  /\ cfg' = LoadedConfig
  /\ UNCHANGED <<envVars, mutex_devices, monVars, mapVars>>

-----------------------------------------------------------------------------
(* Devices come and go. *)

Attach(p, d) ==
  /\ plugs < MaxPlugs
  /\ attached[p] = NoDevice
  /\ \A q \in Port : attached[q] # d
  /\ attached' = [attached EXCEPT ![p] = d]
  /\ plugs' = plugs + 1
  /\ UNCHANGED <<cfg, mutex_devices, monVars, mapVars, fault>>

\* Descriptors open on the port fail from now on, also when another device
\* gets the same name later.
Detach(p) ==
  /\ plugs < MaxPlugs
  /\ attached[p] # NoDevice
  /\ attached' = [attached EXCEPT ![p] = NoDevice]
  /\ plugs' = plugs + 1
  /\ monPort' = IF portName = p /\ monPort = "live" THEN "dead" ELSE monPort
  /\ relay' = [relay EXCEPT ![p] = IF @ = "running" THEN "lost" ELSE @]
  /\ UNCHANGED <<cfg, devices, mutex_devices, monPc, tempPortList, portName,
                 attempt, uThing, spawned, fault>>

-----------------------------------------------------------------------------
(* The request thread, as far as the registry sees it. *)

RequestLock ==
  /\ fault = "none"
  /\ mutex_devices = "free"
  /\ mutex_devices' = "request"
  /\ UNCHANGED <<envVars, cfg, monVars, mapVars, fault>>

RequestUnlock ==
  /\ mutex_devices = "request"
  /\ mutex_devices' = "free"
  /\ UNCHANGED <<envVars, cfg, monVars, mapVars, fault>>

SetConfig(c) ==
  /\ fault = "none"
  /\ mutex_devices = "free"   \* the thread that would hold it is this one
  /\ cfg' = c
  /\ UNCHANGED <<envVars, mutex_devices, monVars, mapVars, fault>>

-----------------------------------------------------------------------------
(* The monitor thread. *)

DefaultBases == {"/dev/ttyACM", "/dev/ttyUSB"}

Bases == IF cfg.devNameBase = "" THEN DefaultBases ELSE {cfg.devNameBase}

\* The regular expression is base + "\\d": one digit.
OneDigit(p) == PortNumber[p] \in 0 .. 9

findPorts ==
  {p \in Port : attached[p] # NoDevice /\ PortBase[p] \in Bases /\ OneDigit(p)}

\* Any text is taken for devNameBase; one that is no pattern throws here, in
\* another thread and later.
monScan ==
  /\ fault = "none"
  /\ monPc = "scan"
  /\ \/ /\ Bases \cap Malformed = {}
        /\ tempPortList' = findPorts
        /\ monPc' = "next"
        /\ UNCHANGED <<envVars, cfg, mutex_devices, portName, attempt, uThing,
                       monPort, mapVars, fault>>
     \/ /\ Bases \cap Malformed # {}
        /\ Terminate("pattern")

\* Bugs the checks must find: no port is known, and a scan is given up at the
\* first port that is.
KnownNever(p) == FALSE
RemainingNew(p) == IF devices[p] = NoDevice THEN tempPortList \ {p} ELSE {}

Known(p) == devices[p] # NoDevice
Remaining(p) == tempPortList \ {p}

\* The next port of the list, in whatever order the directory lists them.  The
\* map is read without the mutex.
monNext ==
  /\ monPc = "next"
  /\ \E p \in tempPortList :
       /\ tempPortList' = Remaining(p)
       /\ portName' = p
       /\ monPc' = IF Known(p) THEN "next" ELSE "open"
  /\ UNCHANGED <<envVars, cfg, mutex_devices, attempt, uThing, monPort,
                 mapVars, fault>>

\* The list is done; the thread sleeps and scans again.
monSleep ==
  /\ monPc = "next"
  /\ tempPortList = {}
  /\ monPc' = "scan"
  /\ portName' = NoPort
  /\ UNCHANGED <<envVars, cfg, mutex_devices, tempPortList, attempt, uThing,
                 monPort, mapVars, fault>>

\* isUthing() answers false; its descriptor is closed with the local `port`.
NotAUthing ==
  /\ monPc' = "next"
  /\ attempt' = 0
  /\ monPort' = "closed"

\* isUthing(): opening is tried under a handler ...
probeOpen ==
  /\ monPc = "open"
  /\ \/ /\ attached[portName] # NoDevice
        /\ monPc' = "ask"
        /\ monPort' = "live"
        /\ UNCHANGED attempt
     \/ /\ attached[portName] = NoDevice
        /\ NotAUthing
  /\ UNCHANGED <<envVars, cfg, mutex_devices, tempPortList, portName, uThing,
                 mapVars, fault>>

\* ... but flushing and writing are not.
probeAsk ==
  /\ monPc = "ask"
  /\ \/ /\ monPort = "live"
        /\ monPc' = "await"
        /\ UNCHANGED <<envVars, cfg, mutex_devices, tempPortList, portName,
                       attempt, uThing, monPort, mapVars, fault>>
     \/ /\ monPort = "dead"
        /\ Terminate("unplugged")

\* The line read in time is the reply: isUthing() answers true and closes.
probeReply ==
  /\ monPc = "await"
  /\ monPort = "live"
  /\ attached[portName] \in UThing
  /\ monPc' = "construct"
  /\ attempt' = 0
  /\ monPort' = "closed"
  /\ UNCHANGED <<envVars, cfg, mutex_devices, tempPortList, portName, uThing,
                 mapVars, fault>>

\* Bugs the checks must find: a failed attempt that is not counted, and one
\* attempt too many.
NextAttemptSame == attempt
LastAttemptLate == attempt = Attempts

NextAttempt == attempt + 1
LastAttempt == attempt + 1 = Attempts

\* Anything else, or nothing: the next attempt, if there is one.
probeOther ==
  /\ monPc = "await"
  /\ \/ /\ ~LastAttempt
        /\ attempt' = NextAttempt
        /\ monPc' = "ask"
        /\ UNCHANGED monPort
     \/ /\ LastAttempt
        /\ NotAUthing
  /\ UNCHANGED <<envVars, cfg, mutex_devices, tempPortList, portName, uThing,
                 mapVars, fault>>

\* The constructor of Uthing opens the port, with no handler around it ...
construct ==
  /\ monPc = "construct"
  /\ \/ /\ attached[portName] # NoDevice
        /\ monPort' = "live"
        /\ monPc' = "inform"
        /\ UNCHANGED <<envVars, cfg, mutex_devices, tempPortList, portName,
                       attempt, uThing, mapVars, fault>>
     \/ /\ attached[portName] = NoDevice
        /\ Terminate("unplugged")

\* ... asks for the information, and takes names and channelID from the reply.
informReply ==
  /\ monPc = "inform"
  /\ monPort = "live"
  /\ attached[portName] \in UThing
  /\ uThing' = attached[portName]
  /\ monPc' = "emplace"
  /\ UNCHANGED <<envVars, cfg, mutex_devices, tempPortList, portName, attempt,
                 monPort, mapVars, fault>>

\* It asks once: an error or any other line leaves it by an exception.
informOther ==
  /\ monPc = "inform"
  /\ Terminate(IF monPort = "dead" THEN "unplugged" ELSE "answer")

\* Bug the checks must find: the lock forgotten.
LockForgotten == TRUE

LockTaken == mutex_devices = "free"

\* The critical section: emplace() keeps an entry that is there already, the
\* thread starts in any case.  The entry does not take the descriptor over
\* (the move constructor leaves _port out); the local variable closes it.
monEmplace ==
  /\ monPc = "emplace"
  /\ LockTaken
  /\ devices' = [devices EXCEPT ![portName] = IF @ = NoDevice THEN uThing ELSE @]
  /\ relay' = [relay EXCEPT ![portName] = "starting"]
  /\ spawned' = [spawned EXCEPT ![portName] = @ + 1]
  /\ monPc' = "next"
  /\ uThing' = NoDevice
  /\ monPort' = "closed"
  /\ UNCHANGED <<envVars, cfg, mutex_devices, tempPortList, portName, attempt,
                 fault>>

-----------------------------------------------------------------------------
(* The relay thread of a port, from its start to its end. *)

relayOpen(p) ==
  /\ relay[p] = "starting"
  /\ \/ /\ attached[p] # NoDevice
        /\ relay' = [relay EXCEPT ![p] = "running"]
        /\ UNCHANGED <<envVars, cfg, mutex_devices, monVars, devices, spawned, fault>>
     \/ /\ attached[p] = NoDevice
        /\ Terminate("unplugged")

\* Bugs the checks must find: the entry erased, as the line commented out
\* would; and detachment taken from the name in /dev instead of from I/O.
EntryErased(p) == devices' = [devices EXCEPT ![p] = NoDevice] /\ UNCHANGED spawned
LostByName(p) == relay[p] = "lost" /\ attached[p] = NoDevice

EntryLeft(p) == UNCHANGED <<devices, spawned>>
Lost(p) == relay[p] = "lost"

\* An I/O error: the handler takes the mutex, leaves the entry where it is and
\* ends the thread.
relayLost(p) ==
  /\ Lost(p)
  /\ LockTaken
  /\ relay' = [relay EXCEPT ![p] = "ended"]
  /\ EntryLeft(p)
  /\ UNCHANGED <<envVars, cfg, mutex_devices, monVars, fault>>

-----------------------------------------------------------------------------
World == \E p \in Port : Detach(p) \/ \E d \in Device : Attach(p, d)

Request == RequestLock \/ RequestUnlock \/ \E c \in Configs : SetConfig(c)

Search ==
  \/ monScan \/ monNext \/ monSleep
  \/ probeOpen \/ probeAsk \/ probeReply \/ probeOther
  \/ construct \/ informReply \/ informOther

Monitor == Search \/ monEmplace

Relay == \E p \in Port : relayOpen(p) \/ relayLost(p)

Next == World \/ Request \/ Monitor \/ Relay \/ Restart

\* Threads run and sleeps end; systemd restarts the service; a request is
\* answered.  Strong where a thread competes for the mutex, and where a device
\* asked again and again must send its reply first for once.
Fairness ==
  /\ WF_vars(Monitor) /\ SF_vars(monEmplace)
  /\ \A p \in Port : SF_vars(portName = p /\ probeReply) /\ SF_vars(portName = p /\ informReply)
  /\ \A p \in Port : WF_vars(relayOpen(p)) /\ SF_vars(relayLost(p))
  /\ WF_vars(RequestUnlock)
  /\ WF_vars(Restart)

Spec == Init /\ [][Next]_vars /\ Fairness

-----------------------------------------------------------------------------
MonPcs == {"scan", "next", "open", "ask", "await", "construct", "inform", "emplace"}

\* The variables have their types; isUthing() makes no sixth attempt.
TypeOK ==
  /\ attached \in [Port -> Device \cup {NoDevice}]
  /\ plugs \in 0 .. MaxPlugs
  /\ cfg \in Configs
  /\ devices \in [Port -> Device \cup {NoDevice}]
  /\ mutex_devices \in {"free", "request"}
  /\ monPc \in MonPcs
  /\ tempPortList \subseteq Port
  /\ portName \in Port \cup {NoPort}
  /\ attempt \in 0 .. Attempts - 1
  /\ uThing \in Device \cup {NoDevice}
  /\ monPort \in {"closed", "live", "dead"}
  /\ relay \in [Port -> {"none", "starting", "running", "lost", "ended"}]
  /\ spawned \in [Port -> Nat]
  /\ fault \in {"none", "unplugged", "answer", "pattern"}

\* The monitor looks the port up without the mutex, then probes it for seconds
\* and inserts at last: still no entry has appeared meanwhile, and the lines it
\* reads while probing are not taken away from a relay thread.
ProbeLeavesRelaysAlone ==
  monPc \notin {"scan", "next"}
     => devices[portName] = NoDevice /\ relay[portName] = "none"

\* Every entry has had exactly one relay thread, whatever was plugged in, out
\* and in again on its port: two would share out the lines of one device.
OneRelayPerEntry ==
  \A p \in Port : spawned[p] = IF devices[p] = NoDevice THEN 0 ELSE 1

\* A relay thread holds a pointer into the map, and the request thread uses a
\* port name it found without the mutex: no entry goes or changes while the
\* process lives.
EntriesStay ==
  [][\A p \in Port : devices[p] # NoDevice =>
        devices'[p] = devices[p] \/ fault' # "none"]_vars

\* As long as nothing is plugged in or pulled out, the process does not end for a
\* device that is missing, and each entry is that of the device on its port, with
\* a relay thread that serves it: only moving devices make entries stale.
StableWorldServed ==
  plugs = 0 => /\ fault # "unplugged"
               /\ \A p \in Registered :
                    devices[p] = attached[p] /\ relay[p] \in {"starting", "running"}

\* The registry that the request thread relies on.
Directory == INSTANCE Registry
ImplementsRegistry == Directory!Spec

\* A uThing that stays on a port that is scanned gets its entry, and gets it
\* again after every restart of the process.
Discoverable(p) == attached[p] \in UThing /\ PortBase[p] \in Bases
AttachedUThingRegistered ==
  \A p \in Port :
     <>[](Discoverable(p) /\ OneDigit(p)) => []<>(devices[p] # NoDevice)

\* The thread of a device that was pulled out comes to its end, also when the
\* port has a device again and the mutex is in demand.
LostRelayEnds == \A p \in Port : relay[p] = "lost" ~> relay[p] # "lost"

\* No port, with a uThing on it or not, keeps the monitor from its next scan.
MonitorReturns == []<>(monPc = "scan")

-----------------------------------------------------------------------------
(* What the documentation and the comments say and the code does not do. *)

\* README.md:11 and 21, "auto-discovery of connected uThing devices" with a
\* relay thread each: a uThing that stays on a port has a thread that serves it.
ConnectedDeviceServed ==
  \A p \in Port :
     <>[](Discoverable(p) /\ OneDigit(p)) => []<>(relay[p] \in {"starting", "running"})

\* uDevice.h:85, the channelID of an entry is "unique".
ChannelIdUnique ==
  \A p, q \in Registered :
     ChannelOf[devices[p]] = ChannelOf[devices[q]] => p = q

\* uSerial.cpp:72-77: a measurement read in place of the reply is overcome by
\* asking again, so it does not end the process.
DataLineNotFatal == fault # "answer"

=============================================================================
