---------------------------- MODULE BridgeProofs ----------------------------
(***************************************************************************)
(* Discovery and the request handler put together: each keeps what the     *)
(* module of the other takes for granted, for any ports, devices, clients, *)
(* requests and restarts.  So what is proved of either holds of the bridge.*)
(***************************************************************************)
EXTENDS Bridge, ControlServerProofs

-----------------------------------------------------------------------------
(***************************************************************************)
(* What the monitor looked up without the mutex, what entries have, and    *)
(* what is left of a process that has ended.                               *)
(***************************************************************************)
Probing == monPc \notin {"scan", "next"}

SearchInv ==
  /\ tempPortList \subseteq Port
  /\ Probing => portName \in Port /\ devices[portName] = NoDevice
  /\ monPc = "emplace" => uThing \in Device

EntryInv ==
  /\ spawned \in [Port -> Nat]
  /\ relay \in [Port -> {"none", "starting", "running", "lost", "ended"}]
  /\ \A p \in Port : IF devices[p] = NoDevice THEN spawned[p] = 0 /\ relay[p] = "none"
                     ELSE spawned[p] = 1 /\ relay[p] # "none"

EndedInv == fault # "none" => monPc = "scan" /\ \A p \in Port : relay[p] = "none"

DiscoveryInv == SearchInv /\ EntryInv /\ EndedInv

\* What is left of the map when the process ends.
Emptied ==
  /\ fault = "none" /\ fault' # "none"
  /\ devices' = [p \in Port |-> NoDevice] /\ mutex_devices' = "free"

\* The end of the process leaves nothing to look up, and it ends once.
LEMMA TerminateInv ==
  ASSUME DiscoveryInv, NEW why \in {"unplugged", "answer", "pattern"},
         Discovery!Terminate(why), fault = "none"
  PROVE  DiscoveryInv' /\ Emptied
BY DEF Discovery!Terminate, Discovery!Empty, DiscoveryInv, SearchInv, Probing, EntryInv,
       EndedInv, Emptied

\* No search makes an entry: it leaves the map alone or ends with the process.
LEMMA SearchStep ==
  ASSUME DiscoveryInv, Discovery!Search
  PROVE  DiscoveryInv' /\ (UNCHANGED <<devices, mutex_devices, fault>> \/ Emptied)
<1> USE DEF DiscoveryInv, SearchInv, Probing, EntryInv, EndedInv, Discovery!envVars,
            Discovery!monVars, Discovery!mapVars
<1>1. CASE Discovery!monScan
  BY <1>1, TerminateInv DEF Discovery!monScan, Discovery!findPorts
<1>2. CASE Discovery!monNext
  BY <1>2 DEF Discovery!monNext, Discovery!Known, Discovery!Remaining
<1>3. CASE Discovery!monSleep
  BY <1>3 DEF Discovery!monSleep
<1>4. CASE Discovery!probeOpen \/ Discovery!probeReply
  BY <1>4 DEF Discovery!probeOpen, Discovery!probeReply, Discovery!NotAUthing
<1>5. CASE Discovery!probeAsk
  BY <1>5, TerminateInv DEF Discovery!probeAsk
<1>6. CASE Discovery!probeOther
  BY <1>6 DEF Discovery!probeOther, Discovery!NotAUthing
<1>7. CASE Discovery!construct
  BY <1>7, TerminateInv DEF Discovery!construct
<1>8. CASE Discovery!informReply
  BY <1>8, DiscoveryAssumption DEF Discovery!informReply
<1>9. CASE Discovery!informOther
  BY <1>9, TerminateInv DEF Discovery!informOther
<1> QED
  BY <1>1, <1>2, <1>3, <1>4, <1>5, <1>6, <1>7, <1>8, <1>9 DEF Discovery!Search

\* Nor do a device that comes or goes and a relay thread.
LEMMA WorldRelayStep ==
  ASSUME DiscoveryInv, Discovery!World \/ Discovery!Relay
  PROVE  DiscoveryInv' /\ (UNCHANGED <<devices, mutex_devices, fault>> \/ Emptied)
<1> USE DEF DiscoveryInv, SearchInv, Probing, EntryInv, EndedInv, Discovery!envVars,
            Discovery!monVars, Discovery!mapVars
<1>1. ASSUME NEW p \in Port, Discovery!Detach(p)
      PROVE  DiscoveryInv' /\ UNCHANGED <<devices, mutex_devices, fault>>
  BY <1>1 DEF Discovery!Detach
<1>2. ASSUME NEW p \in Port, NEW d \in Device, Discovery!Attach(p, d)
      PROVE  DiscoveryInv' /\ UNCHANGED <<devices, mutex_devices, fault>>
  BY <1>2 DEF Discovery!Attach
<1>3. ASSUME NEW p \in Port, Discovery!relayOpen(p)
      PROVE  DiscoveryInv' /\ (UNCHANGED <<devices, mutex_devices, fault>> \/ Emptied)
  BY <1>3, TerminateInv DEF Discovery!relayOpen
<1>4. ASSUME NEW p \in Port, Discovery!relayLost(p)
      PROVE  DiscoveryInv' /\ UNCHANGED <<devices, mutex_devices, fault>>
  BY <1>4 DEF Discovery!relayLost, Discovery!Lost, Discovery!EntryLeft
<1> QED
  BY <1>1, <1>2, <1>3, <1>4 DEF Discovery!World, Discovery!Relay

\* The entry is made where none was, and gets its relay thread.
LEMMA InsertStep ==
  ASSUME TypeOK, DiscoveryInv, Insert
  PROVE  DiscoveryInv' /\ \E p \in Port, d \in Device : Register(p, d)
<1>1. /\ portName \in Port /\ uThing \in Device /\ uThing # NoDevice
      /\ devices[portName] = NoDevice /\ spawned[portName] = 0 /\ fault = "none"
  BY NoValuesAssumption DEF DiscoveryInv, SearchInv, Probing, EntryInv, EndedInv, Insert,
                            Discovery!monEmplace
<1>2. /\ devices' = [devices EXCEPT ![portName] = uThing]
      /\ relay' = [relay EXCEPT ![portName] = "starting"]
      /\ spawned' = [spawned EXCEPT ![portName] = 1]
      /\ monPc' = "next" /\ mutex_devices = "free" /\ InsertionSeen(portName)
      /\ UNCHANGED <<mutex_devices, tempPortList, fault>>
  BY <1>1 DEF Insert, Discovery!monEmplace, Discovery!LockTaken, TypeOK
<1>3. SearchInv' /\ EndedInv'
  BY <1>1, <1>2 DEF DiscoveryInv, SearchInv, Probing, EndedInv
<1>4. EntryInv'
  BY <1>1, <1>2 DEF DiscoveryInv, EntryInv, TypeOK
<1>5. Register(portName, uThing)
  BY <1>1, <1>2 DEF Register, Directory!Register
<1> QED
  BY <1>1, <1>3, <1>4, <1>5 DEF DiscoveryInv

-----------------------------------------------------------------------------
(***************************************************************************)
(* Each step of the bridge is a step of both parts, or none.               *)
(***************************************************************************)

\* The request handler sees of discovery what Registry lets other threads do.
LEMMA StepOfServer ==
  ASSUME TypeOK, DiscoveryInv, [BridgeNext]_bridgeVars
  PROVE  [Next]_vars
<1>1. CASE Clients
  BY <1>1 DEF Next
<1>2. CASE Serve
  BY <1>2 DEF Serve, Receive, Receiving, Next
<1>3. CASE Discover
  <2>1. UNCHANGED <<devices, mutex_devices, fault>> \/ Emptied
    BY <1>3, SearchStep, WorldRelayStep DEF Discover
  <2>2. CASE UNCHANGED <<devices, mutex_devices, fault>>
    BY <1>3, <2>2 DEF Discover, vars, registryVars
  <2>3. CASE Emptied
    <3>1. ServerRestarted /\ Directory!Crash
      BY <1>3, <2>3 DEF Discover, Emptied, Directory!Crash, Directory!Empty
    <3> QED
      BY <3>1 DEF Next, Crash
  <2> QED
    BY <2>1, <2>2, <2>3
<1>4. CASE Insert
  BY <1>4, InsertStep DEF Next
<1>5. CASE Reboot
  BY <1>5 DEF Reboot, Discovery!Restart, Discovery!mapVars, vars, registryVars
<1>6. CASE UNCHANGED bridgeVars
  BY <1>6 DEF bridgeVars
<1> QED
  BY <1>1, <1>2, <1>3, <1>4, <1>5, <1>6 DEF BridgeNext

\* Discovery sees of the request handler the mutex taken and given back, and a
\* configuration that changes while the mutex is free.
LEMMA StepOfDiscovery ==
  ASSUME TypeOK, [BridgeNext]_bridgeVars
  PROVE  [Discovery!Next]_(Discovery!vars)
<1> USE DEF Discovery!vars, Discovery!envVars, Discovery!monVars, Discovery!mapVars,
            discoveryVars, registryVars
<1>1. CASE Clients /\ UNCHANGED discoveryVars
  BY <1>1 DEF Clients, Resend, SendRequest
<1>2. CASE fault = "none" /\ Receive
  <2>1. PICK c \in Client : \/ receiveUnparsable(c) /\ UNCHANGED discoveryVars
                            \/ /\ requestHandler(c)
                               /\ cfg' \in Configs \/ UNCHANGED cfg
                               /\ UNCHANGED <<attached, plugs, monPc, tempPortList, portName,
                                              attempt, uThing, monPort, relay, spawned, fault>>
    BY <1>2 DEF Receive
  <2>2. CASE receiveUnparsable(c) /\ UNCHANGED discoveryVars
    BY <2>2 DEF receiveUnparsable
  <2>3. CASE requestHandler(c)
    <3>1. UNCHANGED <<devices, mutex_devices>> /\ mutex_devices = "free"
      BY <2>3 DEF requestHandler, TypeOK
    <3>2. CASE cfg' \in Configs
      <4>1. Discovery!SetConfig(cfg')
        BY <1>2, <2>1, <2>3, <3>1 DEF Discovery!SetConfig, receiveUnparsable, requestHandler
      <4> QED
        BY <3>2, <4>1 DEF Discovery!Next, Discovery!Request
    <3>3. CASE UNCHANGED cfg
      BY <2>1, <3>1, <3>3
    <3> QED
      BY <2>1, <3>2, <3>3
  <2> QED
    BY <2>1, <2>2, <2>3
<1>3. CASE fault = "none" /\ Handling /\ UNCHANGED discoveryVars
  <2>1. CASE lockForDevice \/ statsLock
    <3>1. Discovery!RequestLock
      BY <1>3, <2>1 DEF lockForDevice, statsLock, Lock, Directory!Lock, Discovery!RequestLock
    <3> QED
      BY <3>1 DEF Discovery!Next, Discovery!Request
  <2>2. CASE askDevice \/ statsUnlock
    <3>1. Discovery!RequestUnlock
      BY <1>3, <2>2 DEF askDevice, statsUnlock, Unlock, Directory!Unlock, Discovery!RequestUnlock
    <3> QED
      BY <3>1 DEF Discovery!Next, Discovery!Request
  <2>3. CASE UNCHANGED registryVars
    BY <1>3, <2>3
  <2> QED
    BY <1>3, <2>1, <2>2, <2>3 DEF Handling, listFill, listCount, listArray, required,
       findDeviceById, statsQuery, sendResponse
<1>4. CASE Discover \/ Insert \/ Reboot
  BY <1>4 DEF Discover, Insert, Reboot, Discovery!Next, Discovery!Monitor
<1>5. CASE UNCHANGED bridgeVars
  BY <1>5 DEF bridgeVars, vars
<1> QED
  BY <1>1, <1>2, <1>3, <1>4, <1>5 DEF BridgeNext, Serve

\* The request handler changes the map of devices in no step.
LEMMA ServeKeepsMap ==
  ASSUME Serve
  PROVE  UNCHANGED devices
BY DEF Serve, Receive, receiveUnparsable, requestHandler, Handling, listFill, listCount,
   listArray, required, findDeviceById, lockForDevice, askDevice, statsLock, statsQuery,
   statsUnlock, sendResponse, Lock, Unlock, Directory!Lock, Directory!Unlock, registryVars

\* What is known of discovery stays so whatever the request handler does.
LEMMA DiscoveryStep ==
  ASSUME TypeOK, DiscoveryInv, [BridgeNext]_bridgeVars
  PROVE  DiscoveryInv'
<1>1. CASE UNCHANGED <<devices, monPc, tempPortList, portName, uThing, relay, spawned, fault>>
  BY <1>1 DEF DiscoveryInv, SearchInv, Probing, EntryInv, EndedInv
<1>2. CASE Clients /\ UNCHANGED discoveryVars
  BY <1>1, <1>2 DEF Clients, Resend, SendRequest, discoveryVars, registryVars
<1>3. CASE Serve
  <2>1. UNCHANGED <<monPc, tempPortList, portName, uThing, relay, spawned, fault>>
    BY <1>3 DEF Serve, Receive, discoveryVars
  <2>2. UNCHANGED devices
    BY <1>3, ServeKeepsMap
  <2> QED
    BY <1>1, <2>1, <2>2
<1>4. CASE Discover
  BY <1>4, SearchStep, WorldRelayStep DEF Discover
<1>5. CASE Insert
  BY <1>5, InsertStep
<1>6. CASE Reboot
  BY <1>6 DEF Reboot, Discovery!Restart, Discovery!monVars, Discovery!mapVars, DiscoveryInv,
              SearchInv, Probing, EntryInv, EndedInv
<1>7. CASE UNCHANGED bridgeVars
  BY <1>1, <1>7 DEF bridgeVars, vars, registryVars, discoveryVars
<1> QED
  BY <1>2, <1>3, <1>4, <1>5, <1>6, <1>7 DEF BridgeNext

-----------------------------------------------------------------------------
(***************************************************************************)
(* The invariants of both parts, and what they give together.              *)
(***************************************************************************)
BridgeInv == TypeOK /\ IInv /\ ListInv /\ DiscoveryInv

\* The invariants hold in every state of the bridge.
LEMMA BridgeInvariant == BridgeSpec => []BridgeInv
<1>1. BridgeInit => BridgeInv
  <2> SUFFICES ASSUME BridgeInit PROVE BridgeInv
    OBVIOUS
  <2>1. TypeOK /\ IInv /\ ListInv
    BY TypedInit, InvariantInit DEF BridgeInit, Init, ListInv
  <2>2. DiscoveryInv
    BY DEF BridgeInit, Discovery!Init, Discovery!Empty, DiscoveryInv, SearchInv, Probing,
           EntryInv, EndedInv
  <2> QED
    BY <2>1, <2>2 DEF BridgeInv
<1>2. BridgeInv /\ [BridgeNext]_bridgeVars => BridgeInv'
  BY StepOfServer, TypedStep, InvariantStep, ListStep, DiscoveryStep DEF BridgeInv
<1> QED
  BY <1>1, <1>2, PTL DEF BridgeSpec

\* The bridge is a behaviour of DeviceRegistry and one of ControlServer: what
\* the two modules assume of each other is what the other does.
THEOREM PartsImplemented == BridgeSpec => ImplementsParts
<1>1. BridgeInit => Discovery!Init /\ Init
  BY DEF BridgeInit
<1>2. BridgeInv /\ [BridgeNext]_bridgeVars => [Discovery!Next]_(Discovery!vars)
  BY StepOfDiscovery DEF BridgeInv
<1>3. BridgeInv /\ [BridgeNext]_bridgeVars => [Next]_vars
  BY StepOfServer DEF BridgeInv
<1> QED
  BY <1>1, <1>2, <1>3, BridgeInvariant, PTL DEF BridgeSpec, ImplementsParts

\* What the receive thread asks is registered.
LEMMA UsedAreRegistered == BridgeInv => PortsInUse \subseteq Registered
BY DEF BridgeInv, TypeOK, IInv, LockedInv, PortsInUse

\* The receive thread and the monitor never use one serial port.
THEOREM WritersNeverMeet == BridgeSpec => []WritersApart
<1>1. BridgeInv => WritersApart
  <2> SUFFICES ASSUME BridgeInv, Probing PROVE portName \notin Registered
    BY UsedAreRegistered DEF WritersApart, Probing
  <2> QED
    BY DEF BridgeInv, DiscoveryInv, SearchInv, Registered
<1> QED
  BY <1>1, BridgeInvariant, PTL

\* A device that is asked or listed has been given one relay thread.
THEOREM ServedRelayed == BridgeSpec => []ServedAreRelayed
<1>1. BridgeInv => ServedAreRelayed
  <2> SUFFICES ASSUME BridgeInv, NEW p \in Port,
                      \/ p \in PortsInUse
                      \/ pc = "respond" /\ response.kind = "devices" /\ response.items[p] > 0
               PROVE  p \in Registered
    BY DEF ServedAreRelayed, BridgeInv, DiscoveryInv, EntryInv, Registered
  <2> QED
    BY UsedAreRegistered DEF BridgeInv, ListInv, Listed
<1> QED
  BY <1>1, BridgeInvariant, PTL

-----------------------------------------------------------------------------
(***************************************************************************)
(* A world in which nothing moves: who is asked is the device asked for.   *)
(***************************************************************************)
\* Whatever is asked under the mutex is on its port and is the device that the
\* entry was made for: a query with a channelID gets to the device that has it.
AskedIsAttached ==
  plugs = 0 => /\ \A p \in PortsInUse : attached[p] = devices[p] /\ attached[p] # NoDevice
               /\ pc = "ask" => ChannelOf[attached[portID]] = message.channelID

PresentInv ==
  /\ monPort # "dead"
  /\ monPc \in {"ask", "await", "construct", "inform", "emplace"}
       => attached[portName] # NoDevice
  /\ monPc = "emplace" => uThing = attached[portName]

AttachedInv == \A p \in Port : devices[p] # NoDevice => devices[p] = attached[p]

StableInv == plugs \in Nat /\ (plugs = 0 => PresentInv /\ AttachedInv)

\* The monitor sees what is there, as long as nothing moves.
LEMMA StableSearch ==
  ASSUME TypeOK, DiscoveryInv, StableInv, Discovery!Search
  PROVE  StableInv'
<1> USE DEF StableInv, PresentInv, AttachedInv, Discovery!envVars, Discovery!monVars,
            Discovery!mapVars
<1>1. ASSUME NEW why, Discovery!Terminate(why) PROVE StableInv'
  BY <1>1 DEF Discovery!Terminate, Discovery!Empty
<1>2. CASE Discovery!monScan \/ Discovery!monNext \/ Discovery!monSleep
  BY <1>1, <1>2 DEF Discovery!monScan, Discovery!monNext, Discovery!monSleep, Discovery!Known
<1>3. CASE Discovery!probeOpen \/ Discovery!probeOther
  BY <1>3 DEF Discovery!probeOpen, Discovery!probeOther, Discovery!NotAUthing
<1>4. CASE Discovery!probeReply
  BY <1>4, NoValuesAssumption, DiscoveryAssumption DEF Discovery!probeReply
<1>5. CASE Discovery!informReply
  BY <1>5, NoValuesAssumption, DiscoveryAssumption DEF Discovery!informReply
<1>6. CASE Discovery!probeAsk \/ Discovery!construct \/ Discovery!informOther
  BY <1>1, <1>6 DEF Discovery!probeAsk, Discovery!construct, Discovery!informOther
<1> QED
  BY <1>2, <1>3, <1>4, <1>5, <1>6 DEF Discovery!Search

\* A device that moves ends the stable world, and a relay thread opens its port
\* or ends the process.
LEMMA StableWorldRelay ==
  ASSUME TypeOK, DiscoveryInv, StableInv, Discovery!World \/ Discovery!Relay
  PROVE  StableInv'
<1> USE DEF StableInv, PresentInv, AttachedInv, Discovery!envVars, Discovery!monVars,
            Discovery!mapVars
<1>1. CASE Discovery!World
  BY <1>1 DEF Discovery!World, Discovery!Attach, Discovery!Detach
<1>2. ASSUME NEW why, Discovery!Terminate(why) PROVE StableInv'
  BY <1>2 DEF Discovery!Terminate, Discovery!Empty
<1>3. CASE Discovery!Relay
  BY <1>2, <1>3 DEF Discovery!Relay, Discovery!relayOpen, Discovery!relayLost, Discovery!EntryLeft
<1> QED
  BY <1>1, <1>3

\* The entry is that of the device that the monitor has just identified.
LEMMA StableInsert ==
  ASSUME TypeOK, DiscoveryInv, StableInv, Insert
  PROVE  StableInv'
<1>1. portName \in Port /\ devices[portName] = NoDevice
  BY DEF DiscoveryInv, SearchInv, Probing, Insert, Discovery!monEmplace
<1>2. /\ devices' = [devices EXCEPT ![portName] = uThing]
      /\ monPc = "emplace" /\ monPc' = "next" /\ monPort' = "closed"
      /\ UNCHANGED <<attached, plugs>>
  BY <1>1 DEF Insert, Discovery!monEmplace, Discovery!envVars
<1>3. plugs = 0 => uThing = attached[portName]
  BY <1>2 DEF StableInv, PresentInv
<1> QED
  BY <1>1, <1>2, <1>3 DEF StableInv, PresentInv, AttachedInv, TypeOK

\* The request handler changes nothing of all that.
LEMMA StableStep ==
  ASSUME TypeOK, DiscoveryInv, StableInv, [BridgeNext]_bridgeVars
  PROVE  StableInv'
<1>1. CASE UNCHANGED <<devices, attached, plugs, monPc, portName, uThing, monPort>>
  BY <1>1 DEF StableInv, PresentInv, AttachedInv
<1>2. CASE Clients /\ UNCHANGED discoveryVars
  BY <1>1, <1>2 DEF Clients, Resend, SendRequest, discoveryVars, registryVars
<1>3. CASE Serve
  <2>1. UNCHANGED <<attached, plugs, monPc, portName, uThing, monPort>>
    BY <1>3 DEF Serve, Receive, discoveryVars
  <2>2. UNCHANGED devices
    BY <1>3, ServeKeepsMap
  <2> QED
    BY <1>1, <2>1, <2>2
<1>4. CASE Discover
  BY <1>4, StableSearch, StableWorldRelay DEF Discover
<1>5. CASE Insert
  BY <1>5, StableInsert
<1>6. CASE Reboot
  BY <1>1, <1>6 DEF Reboot, Discovery!Restart, Discovery!envVars, Discovery!monVars,
                    Discovery!mapVars
<1>7. CASE UNCHANGED bridgeVars
  BY <1>1, <1>7 DEF bridgeVars, vars, registryVars, discoveryVars
<1> QED
  BY <1>2, <1>3, <1>4, <1>5, <1>6, <1>7 DEF BridgeNext

\* As long as nothing is plugged in or pulled out, a query reaches the device
\* that has the channelID asked for, over discovery, the lookup without the
\* mutex, insertions meanwhile and restarts.
THEOREM QueriesReachDevice == BridgeSpec => []AskedIsAttached
<1>1. BridgeInit => StableInv
  BY DEF BridgeInit, Discovery!Init, Discovery!Empty, StableInv, PresentInv, AttachedInv
<1>2. BridgeInv /\ StableInv /\ [BridgeNext]_bridgeVars => StableInv'
  BY StableStep DEF BridgeInv
<1>3. BridgeInv /\ StableInv => AskedIsAttached
  <2> SUFFICES ASSUME BridgeInv, AttachedInv PROVE
                 /\ \A p \in PortsInUse : attached[p] = devices[p] /\ attached[p] # NoDevice
                 /\ pc = "ask" => ChannelOf[attached[portID]] = message.channelID
    BY DEF StableInv, AskedIsAttached
  <2>1. \A p \in PortsInUse : attached[p] = devices[p] /\ attached[p] # NoDevice
    BY UsedAreRegistered DEF AttachedInv, Registered
  <2>2. pc = "ask" => portID \in PortsInUse /\ ChannelOf[devices[portID]] = message.channelID
    BY DEF BridgeInv, IInv, LockedInv, PortsInUse, Matches
  <2> QED
    BY <2>1, <2>2
<1> QED
  BY <1>1, <1>2, <1>3, BridgeInvariant, PTL DEF BridgeSpec

=============================================================================
