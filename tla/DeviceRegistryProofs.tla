------------------------ MODULE DeviceRegistryProofs ------------------------
(***************************************************************************)
(* What holds of DeviceRegistry for any ports, any devices and any number  *)
(* of times they are plugged in and out.                                   *)
(***************************************************************************)
EXTENDS DeviceRegistry, FiniteSetTheorems, TLAPS

\* The variables have their types.
THEOREM TypeCorrect == Spec => []TypeOK
<1>1. Init => TypeOK
  BY ConfigsAssumption, PlugsAssumption DEF Init, TypeOK, Empty, MonPcs, Attempts
<1>2. TypeOK /\ [Next]_vars => TypeOK'
  <2> SUFFICES ASSUME TypeOK, [Next]_vars PROVE TypeOK'
    OBVIOUS
  <2> USE DEF TypeOK, MonPcs, Attempts, envVars, monVars, mapVars
  <2>1. ASSUME NEW why \in {"unplugged", "answer", "pattern"}, Terminate(why) PROVE TypeOK'
    BY <2>1 DEF Terminate, Empty
  <2>2. ASSUME NEW p \in Port, Detach(p) PROVE TypeOK'
    BY <2>2, PlugsAssumption DEF Detach
  <2>3. ASSUME NEW p \in Port, NEW d \in Device, Attach(p, d) PROVE TypeOK'
    BY <2>3, PlugsAssumption DEF Attach
  <2>4. CASE RequestLock \/ RequestUnlock
    BY <2>4 DEF RequestLock, RequestUnlock
  <2>5. ASSUME NEW c \in Configs, SetConfig(c) PROVE TypeOK'
    BY <2>5 DEF SetConfig
  <2>6. CASE monScan
    BY <2>1, <2>6 DEF monScan, findPorts
  <2>7. CASE monNext
    BY <2>7 DEF monNext, Known, Remaining
  <2>8. CASE monSleep
    BY <2>8 DEF monSleep
  <2>9. CASE probeOpen
    BY <2>9 DEF probeOpen, NotAUthing
  <2>10. CASE probeAsk
    BY <2>1, <2>10 DEF probeAsk
  <2>11. CASE probeReply
    BY <2>11 DEF probeReply
  <2>12. CASE probeOther
    BY <2>12 DEF probeOther, NotAUthing, NextAttempt, LastAttempt
  <2>13. CASE construct
    BY <2>1, <2>13 DEF construct
  <2>14. CASE informReply
    BY <2>14, DevicesAssumption DEF informReply
  <2>15. CASE informOther
    BY <2>1, <2>15 DEF informOther
  <2>16. CASE monEmplace
    <3>1. devices' \in [Port -> Device \cup {NoDevice}]
      BY <2>16 DEF monEmplace, LockTaken
    <3>2. relay' \in [Port -> {"none", "starting", "running", "lost", "ended"}]
      BY <2>16 DEF monEmplace, LockTaken
    <3>3. spawned' \in [Port -> Nat]
      <4>1. portName \in Port => spawned[portName] + 1 \in Nat
        OBVIOUS
      <4> QED
        BY <2>16, <4>1 DEF monEmplace, LockTaken
    <3> QED
      BY <2>16, <3>1, <3>2, <3>3 DEF monEmplace, LockTaken
  <2>17. ASSUME NEW p \in Port, relayOpen(p) PROVE TypeOK'
    BY <2>1, <2>17 DEF relayOpen
  <2>18. ASSUME NEW p \in Port, relayLost(p) PROVE TypeOK'
    BY <2>18 DEF relayLost, Lost, LockTaken, EntryLeft
  <2>19. CASE Restart
    BY <2>19, ConfigsAssumption DEF Restart
  <2>20. CASE UNCHANGED vars
    BY <2>20 DEF vars
  <2> QED
    BY <2>2, <2>3, <2>4, <2>5, <2>6, <2>7, <2>8, <2>9, <2>10, <2>11, <2>12,
       <2>13, <2>14, <2>15, <2>16, <2>17, <2>18, <2>19, <2>20 DEF Next, World, Request, Search, Monitor, Relay
<1> QED
  BY <1>1, <1>2, PTL DEF Spec

-----------------------------------------------------------------------------
(***************************************************************************)
(* The monitor is the only thread that inserts, and what it inserts it has *)
(* looked up before: that is why the unlocked lookup stays true until the  *)
(* entry is made, and why a port never gets a second relay thread.         *)
(***************************************************************************)
Probing == monPc \notin {"scan", "next"}

ProbingInv == Probing => portName \in Port /\ devices[portName] = NoDevice

EntryInv == \A p \in Port : devices[p] = NoDevice => relay[p] = "none"

IdentifiedInv == monPc = "emplace" => uThing \in Device

IInv == ProbingInv /\ EntryInv /\ IdentifiedInv /\ OneRelayPerEntry

\* At the start there is no entry and the monitor probes nothing.
LEMMA InvariantInit == Init => IInv
BY DEF Init, IInv, ProbingInv, Probing, EntryInv, IdentifiedInv, OneRelayPerEntry, Empty

\* The end of the process empties the map and ends every thread.
LEMMA InvariantTerminate ==
  ASSUME NEW why, Terminate(why)
  PROVE  IInv'
BY DEF Terminate, IInv, ProbingInv, Probing, EntryInv, IdentifiedInv, OneRelayPerEntry, Empty

\* The one step that makes an entry.
LEMMA InvariantEmplace ==
  ASSUME TypeOK, IInv, monEmplace
  PROVE  IInv'
<1>1. portName \in Port /\ devices[portName] = NoDevice /\ spawned[portName] = 0
  BY DEF IInv, ProbingInv, Probing, OneRelayPerEntry, monEmplace, LockTaken
<1>2. uThing \in Device /\ uThing # NoDevice
  BY DevicesAssumption DEF IInv, IdentifiedInv, monEmplace, LockTaken
<1>3. /\ devices' = [devices EXCEPT ![portName] = uThing]
      /\ relay' = [relay EXCEPT ![portName] = "starting"]
      /\ spawned' = [spawned EXCEPT ![portName] = 1]
      /\ monPc' = "next"
  BY <1>1 DEF monEmplace, TypeOK, LockTaken
<1>4. ProbingInv' /\ IdentifiedInv'
  BY <1>3 DEF ProbingInv, Probing, IdentifiedInv
<1>5. EntryInv'
  BY <1>2, <1>3 DEF IInv, EntryInv, TypeOK
<1>6. OneRelayPerEntry'
  BY <1>2, <1>3 DEF IInv, OneRelayPerEntry, TypeOK
<1> QED
  BY <1>4, <1>5, <1>6 DEF IInv

\* Every step keeps the invariant.
LEMMA InvariantStep == TypeOK /\ IInv /\ [Next]_vars => IInv'
<1> SUFFICES ASSUME TypeOK, IInv, [Next]_vars PROVE IInv'
  OBVIOUS
<1> USE DEF TypeOK, IInv, ProbingInv, Probing, EntryInv, IdentifiedInv,
            OneRelayPerEntry, envVars, monVars, mapVars
<1>1. ASSUME NEW p \in Port, Detach(p) PROVE IInv'
  BY <1>1 DEF Detach
<1>2. ASSUME NEW p \in Port, NEW d \in Device, Attach(p, d) PROVE IInv'
  BY <1>2 DEF Attach
<1>3. CASE RequestLock \/ RequestUnlock
  BY <1>3 DEF RequestLock, RequestUnlock
<1>4. ASSUME NEW c \in Configs, SetConfig(c) PROVE IInv'
  BY <1>4 DEF SetConfig
<1>5. CASE monScan \/ monSleep
  BY <1>5, InvariantTerminate DEF monScan, monSleep
<1>6. CASE monNext
  BY <1>6 DEF monNext, Known, Remaining
<1>7. CASE probeOpen \/ probeReply \/ probeOther
  BY <1>7 DEF probeOpen, probeReply, probeOther, NotAUthing, NextAttempt, LastAttempt
<1>8. CASE probeAsk
  BY <1>8, InvariantTerminate DEF probeAsk
<1>9. CASE construct
  BY <1>9, InvariantTerminate DEF construct
<1>10. CASE informReply
  BY <1>10, DevicesAssumption DEF informReply
<1>11. CASE informOther
  BY <1>11, InvariantTerminate DEF informOther
<1>12. CASE monEmplace
  BY <1>12, InvariantEmplace
<1>13. ASSUME NEW p \in Port, relayOpen(p) PROVE IInv'
  BY <1>13, InvariantTerminate DEF relayOpen
<1>14. ASSUME NEW p \in Port, relayLost(p) PROVE IInv'
  BY <1>14 DEF relayLost, Lost, LockTaken, EntryLeft
<1>15. CASE Restart \/ UNCHANGED vars
  BY <1>15 DEF Restart, vars
<1> QED
  BY <1>1, <1>2, <1>3, <1>4, <1>5, <1>6, <1>7, <1>8, <1>9, <1>10, <1>11,
     <1>12, <1>13, <1>14, <1>15 DEF Next, World, Request, Search, Monitor, Relay

\* The invariant and the types hold in every state.
LEMMA Invariant == Spec => [](TypeOK /\ IInv)
BY InvariantInit, InvariantStep, TypeCorrect, PTL DEF Spec

\* While the monitor probes a port, no entry appears on it and no relay thread
\* reads from it.
THEOREM ProbeUndisturbed == Spec => []ProbeLeavesRelaysAlone
<1>1. IInv => ProbeLeavesRelaysAlone
  BY DEF IInv, ProbingInv, Probing, EntryInv, ProbeLeavesRelaysAlone
<1> QED
  BY <1>1, Invariant, PTL

\* Every entry has had exactly one relay thread.
THEOREM RelaysCounted == Spec => []OneRelayPerEntry
<1>1. IInv => OneRelayPerEntry
  BY DEF IInv
<1> QED
  BY <1>1, Invariant, PTL

-----------------------------------------------------------------------------
(***************************************************************************)
(* Entries are permanent, and the registry is the one that the request     *)
(* thread relies on.                                                       *)
(***************************************************************************)
Keeps == \A p \in Port : devices[p] # NoDevice =>
            devices'[p] = devices[p] \/ fault' # "none"

\* No step but the end of the process changes an entry.
LEMMA StepKeeps ==
  ASSUME TypeOK, IInv, [Next]_vars
  PROVE  Keeps
<1>1. ASSUME NEW why \in {"unplugged", "answer", "pattern"}, Terminate(why) PROVE Keeps
  BY <1>1 DEF Terminate, Keeps
<1>2. CASE UNCHANGED devices
  BY <1>2 DEF Keeps
<1>3. CASE monEmplace
  BY <1>3 DEF monEmplace, TypeOK, Keeps, LockTaken
<1>4. CASE monScan \/ probeAsk \/ construct \/ informOther \/ \E p \in Port : relayOpen(p)
  <2>1. UNCHANGED devices \/ \E why \in {"unplugged", "answer", "pattern"} : Terminate(why)
    BY <1>4 DEF monScan, probeAsk, construct, informOther, relayOpen, mapVars
  <2> QED
    BY <1>1, <1>2, <2>1
<1> QED
  BY <1>2, <1>3, <1>4
  DEF Next, World, Request, Search, Monitor, Relay, vars, mapVars, Detach, Attach, RequestLock, RequestUnlock,
      SetConfig, monNext, monSleep, probeOpen, probeReply, probeOther,
      informReply, relayLost, Restart, Known, Remaining, NextAttempt, LastAttempt, Lost,
      LockTaken, EntryLeft

\* No entry is removed or replaced while the process lives.
THEOREM EntriesPermanent == Spec => EntriesStay
<1>1. TypeOK /\ IInv /\ [Next]_vars => Keeps
  BY StepKeeps
<1>2. TypeOK /\ IInv /\ [Next]_vars => [Keeps]_vars
  BY <1>1
<1> QED
  BY <1>2, Invariant, PTL DEF Spec, EntriesStay, Keeps

\* The end of the process is the crash of the abstract registry.
LEMMA TerminateIsCrash ==
  ASSUME NEW why, Terminate(why)
  PROVE  Directory!Crash
BY DEF Terminate, Directory!Crash, Directory!Empty, Empty

\* The critical section of the monitor inserts into a port without entry.
LEMMA EmplaceIsRegister ==
  ASSUME TypeOK, IInv, monEmplace
  PROVE  Directory!Next
<1>1. portName \in Port /\ devices[portName] = NoDevice
  BY DEF IInv, ProbingInv, Probing, monEmplace, LockTaken
<1>2. uThing \in Device
  BY DEF IInv, IdentifiedInv, monEmplace, LockTaken
<1>3. Directory!Register(portName, uThing)
  BY <1>1 DEF Directory!Register, monEmplace, TypeOK, LockTaken
<1> QED
  BY <1>1, <1>2, <1>3 DEF Directory!Next

\* Every step of discovery is a step of the abstract registry, or none.
THEOREM RegistryImplemented == Spec => ImplementsRegistry
<1>1. Init => Directory!Init
  BY DEF Init, Directory!Init, Directory!Empty, Empty
<1>2. TypeOK /\ IInv /\ [Next]_vars => [Directory!Next]_(Directory!vars)
  <2> SUFFICES ASSUME TypeOK, IInv, [Next]_vars
               PROVE  [Directory!Next]_(Directory!vars)
    OBVIOUS
  <2>1. CASE UNCHANGED <<devices, mutex_devices>>
    BY <2>1 DEF Directory!vars
  <2>2. CASE RequestLock \/ RequestUnlock
    BY <2>2 DEF RequestLock, RequestUnlock, mapVars, Directory!Next,
                Directory!Lock, Directory!Unlock
  <2>3. CASE monEmplace
    BY <2>3, EmplaceIsRegister
  <2>4. CASE monScan \/ probeAsk \/ construct \/ informOther \/ \E p \in Port : relayOpen(p)
    <3>1. UNCHANGED <<devices, mutex_devices>>
            \/ \E why \in {"unplugged", "answer", "pattern"} : Terminate(why)
      BY <2>4 DEF monScan, probeAsk, construct, informOther, relayOpen, mapVars
    <3> QED
      BY <2>1, <3>1, TerminateIsCrash DEF Directory!Next
  <2> QED
    BY <2>1, <2>2, <2>3, <2>4
    DEF Next, World, Request, Search, Monitor, Relay, vars, mapVars, Detach, Attach, SetConfig,
        monNext, monSleep, probeOpen, probeReply, probeOther, informReply,
        relayLost, Restart, Known, Remaining, NextAttempt, LastAttempt, Lost, LockTaken, EntryLeft
<1> QED
  BY <1>1, <1>2, Invariant, PTL DEF Spec, ImplementsRegistry, Directory!Spec

-----------------------------------------------------------------------------
(***************************************************************************)
(* A world in which nothing moves: what is seen once stays true, so the    *)
(* ports that the monitor opens are there and each entry is that of the    *)
(* device on its port.                                                     *)
(***************************************************************************)
\* A device is on one port at a time.
SoleInv ==
  \A p, q \in Port : attached[p] = attached[q] => p = q \/ attached[p] = NoDevice

\* No descriptor dies, and no port opened or identified turns out to be empty.
PresentInv ==
  /\ monPort # "dead"
  /\ monPc \in {"ask", "await", "construct", "inform", "emplace"}
       => attached[portName] # NoDevice
  /\ monPc = "emplace" => uThing = attached[portName]

\* Each entry is that of the device on its port, with a thread that serves it.
ServedInv ==
  \A p \in Port :
     /\ devices[p] # NoDevice => devices[p] = attached[p]
     /\ relay[p] \notin {"lost", "ended"}
     /\ devices[p] # NoDevice => relay[p] \in {"starting", "running"}

StableInv == plugs = 0 => PresentInv /\ ServedInv /\ fault # "unplugged"

\* The threads of the process move no device.
LEMMA WorldStays ==
  ASSUME [Next]_vars, ~World
  PROVE  UNCHANGED envVars
<1>1. ASSUME NEW why, Terminate(why) PROVE UNCHANGED envVars
  BY <1>1 DEF Terminate, envVars
<1>2. ASSUME Restart \/ Request \/ UNCHANGED vars PROVE UNCHANGED envVars
  BY <1>2 DEF Restart, Request, RequestLock, RequestUnlock, SetConfig, vars, envVars
<1>3. ASSUME monScan \/ monNext \/ monSleep \/ monEmplace PROVE UNCHANGED envVars
  BY <1>1, <1>3 DEF monScan, monNext, monSleep, monEmplace, envVars
<1>4. ASSUME probeOpen \/ probeReply \/ probeOther \/ informReply PROVE UNCHANGED envVars
  BY <1>4 DEF probeOpen, probeReply, probeOther, informReply, envVars
<1>5. ASSUME probeAsk \/ construct \/ informOther PROVE UNCHANGED envVars
  BY <1>1, <1>5 DEF probeAsk, construct, informOther, envVars
<1>6. ASSUME Relay PROVE UNCHANGED envVars
  BY <1>1, <1>6 DEF Relay, relayOpen, relayLost, envVars
<1> QED
  BY <1>2, <1>3, <1>4, <1>5, <1>6 DEF Next, Monitor, Search

\* Devices move from one port to another, and are never on both.
LEMMA SoleStep == TypeOK /\ SoleInv /\ [Next]_vars => SoleInv'
<1> SUFFICES ASSUME TypeOK, SoleInv, [Next]_vars PROVE SoleInv'
  OBVIOUS
<1>1. ASSUME NEW p \in Port, Detach(p) PROVE SoleInv'
  BY <1>1 DEF Detach, SoleInv, TypeOK
<1>2. ASSUME NEW p \in Port, NEW d \in Device, Attach(p, d) PROVE SoleInv'
  BY <1>2 DEF Attach, SoleInv, TypeOK
<1>3. CASE ~World
  BY <1>3, WorldStays DEF SoleInv, envVars
<1> QED
  BY <1>1, <1>2, <1>3 DEF World

\* As long as nothing has moved, no step ends the process for a device that is
\* missing, and none makes an entry for another device than that on its port.
LEMMA StableStep == TypeOK /\ IInv /\ StableInv /\ [Next]_vars => StableInv'
<1> SUFFICES ASSUME TypeOK, IInv, StableInv, [Next]_vars, plugs' = 0
             PROVE  (PresentInv /\ ServedInv /\ fault # "unplugged")'
  BY DEF StableInv
<1> DEFINE Holds == PresentInv /\ ServedInv /\ fault # "unplugged"
<1> SUFFICES Holds'
  OBVIOUS
<1> USE DEF TypeOK, PresentInv, ServedInv, envVars, monVars, mapVars
<1>1. CASE World
  BY <1>1, PlugsAssumption DEF World, Attach, Detach
<1>2. CASE ~World
  <2>1. plugs' = plugs
    BY <1>2, WorldStays
  <2>2. Holds
    BY <2>1 DEF StableInv
  <2>3. ASSUME NEW why \in {"answer", "pattern"}, Terminate(why) PROVE Holds'
    BY <2>3 DEF Terminate, Empty
  <2>4. CASE Restart \/ Request \/ UNCHANGED vars
    BY <2>2, <2>4 DEF Restart, Request, RequestLock, RequestUnlock, SetConfig, vars
  <2>5. CASE monScan \/ monNext \/ monSleep
    BY <2>2, <2>3, <2>5 DEF monScan, monNext, monSleep, Remaining, Known
  <2>6. CASE probeOpen \/ probeOther
    BY <2>2, <2>6 DEF probeOpen, probeOther, NotAUthing
  <2>7. CASE probeReply \/ informReply
    BY <2>2, <2>7, DevicesAssumption DEF probeReply, informReply
  <2>8. CASE probeAsk \/ construct
    BY <2>2, <2>8 DEF probeAsk, construct
  <2>9. CASE informOther
    <3>1. Terminate("answer")
      BY <2>2, <2>9 DEF informOther
    <3> QED
      BY <2>3, <3>1
  <2>10. CASE monEmplace
    <3>1. portName \in Port /\ devices[portName] = NoDevice
      BY <2>10 DEF IInv, ProbingInv, Probing, monEmplace
    <3>2. uThing = attached[portName] /\ uThing # NoDevice
      BY <2>2, <2>10 DEF monEmplace
    <3>3. /\ devices' = [devices EXCEPT ![portName] = uThing]
          /\ relay' = [relay EXCEPT ![portName] = "starting"]
          /\ UNCHANGED <<attached, fault>>
          /\ monPc' = "next"
          /\ monPort' = "closed"
      BY <2>10, <3>1 DEF monEmplace
    <3>4. PresentInv'
      BY <3>3
    <3>5. ServedInv'
      BY <2>2, <3>1, <3>2, <3>3
    <3> QED
      BY <2>2, <3>3, <3>4, <3>5
  <2>11. ASSUME NEW p \in Port, relayOpen(p) PROVE Holds'
    <3>1. devices[p] # NoDevice
      BY <2>11 DEF relayOpen, IInv, EntryInv
    <3>2. attached[p] # NoDevice
      BY <2>2, <3>1
    <3>3. /\ relay' = [relay EXCEPT ![p] = "running"]
          /\ UNCHANGED <<attached, devices, monVars, fault>>
      BY <2>11, <3>2 DEF relayOpen
    <3> QED
      BY <2>2, <3>3
  <2>12. ASSUME NEW p \in Port, relayLost(p) PROVE Holds'
    BY <2>2, <2>12 DEF relayLost, Lost
  <2> QED
    BY <1>2, <2>4, <2>5, <2>6, <2>7, <2>8, <2>9, <2>10, <2>11, <2>12
    DEF Next, Monitor, Search, Relay
<1> QED
  BY <1>1, <1>2

\* Both hold in every state.
LEMMA StableAlways == Spec => [](SoleInv /\ StableInv)
<1>1. Init => SoleInv /\ StableInv
  BY DEF Init, SoleInv, StableInv, PresentInv, ServedInv, Empty
<1> QED
  BY <1>1, SoleStep, StableStep, Invariant, PTL DEF Spec

\* As long as nothing is plugged in or pulled out, each entry is that of the
\* device on its port, its relay thread serves it, and the process does not end
\* because a device is missing.
THEOREM StableWorld == Spec => []StableWorldServed
<1>1. StableInv => StableWorldServed
  BY DEF StableInv, ServedInv, StableWorldServed, Registered
<1> QED
  BY <1>1, StableAlways, PTL

\* If devices have different channelIDs, so have the entries, as long as nothing
\* is plugged in or pulled out: what uDevice.h:85 says of a channelID holds of a
\* world that does not move.  In any other an entry that stays when its device is
\* plugged into the next port has the channelID of the new one.
THEOREM ChannelIdsUnique ==
  ASSUME \A d, e \in Device : ChannelOf[d] = ChannelOf[e] => d = e
  PROVE  Spec => [](plugs = 0 => ChannelIdUnique)
<1>1. TypeOK /\ SoleInv /\ StableInv => (plugs = 0 => ChannelIdUnique)
  BY DEF TypeOK, SoleInv, StableInv, ServedInv, ChannelIdUnique, Registered
<1> QED
  BY <1>1, Invariant, StableAlways, PTL

-----------------------------------------------------------------------------
(***************************************************************************)
(* How far the monitor is from its next scan.  That it gets there is a     *)
(* matter of fairness; that it cannot go round in circles before is not.   *)
(***************************************************************************)
\* Steps left for the port that is looked at: five attempts of two steps, and
\* four for the entry.
PortLeft ==
  CASE monPc = "open"      -> 14
    [] monPc = "ask"       -> 13 - 2 * attempt
    [] monPc = "await"     -> 12 - 2 * attempt
    [] monPc = "construct" -> 3
    [] monPc = "inform"    -> 2
    [] monPc = "emplace"   -> 1
    [] OTHER               -> 0

\* Steps left for the scan: the ports still listed, and the one for the sleep.
ScanLeft ==
  IF monPc = "scan" THEN 0 ELSE 15 * Cardinality(tempPortList) + PortLeft + 1

\* Each step of the monitor brings it closer to the end of its scan, and no step
\* of another thread, of a device or of the environment takes it back: a scan of
\* n ports is at most 15 n + 1 steps, whatever devices answer, come or go.
ScanAdvances ==
  [][monPc # "scan" => IF Monitor THEN ScanLeft' < ScanLeft
                                  ELSE ScanLeft' <= ScanLeft]_vars

\* An attempt is counted from the first question of a port.
CountedInv == monPc \notin {"ask", "await"} => attempt = 0

\* No step but a failed attempt counts.
LEMMA CountedStep == TypeOK /\ CountedInv /\ [Next]_vars => CountedInv'
<1> SUFFICES ASSUME TypeOK, CountedInv, [Next]_vars PROVE CountedInv'
  OBVIOUS
<1> USE DEF CountedInv, envVars, monVars, mapVars
<1>1. ASSUME NEW why, Terminate(why) PROVE CountedInv'
  BY <1>1 DEF Terminate
<1>2. CASE World \/ Restart \/ Request \/ UNCHANGED vars
  BY <1>2 DEF World, Attach, Detach, Restart, Request, RequestLock, RequestUnlock, SetConfig, vars
<1>3. CASE monScan \/ monNext \/ monSleep \/ monEmplace
  BY <1>1, <1>3 DEF monScan, monNext, monSleep, monEmplace
<1>4. CASE probeOpen \/ probeReply \/ probeOther \/ informReply
  BY <1>4 DEF probeOpen, probeReply, probeOther, informReply, NotAUthing
<1>5. CASE probeAsk \/ construct \/ informOther
  BY <1>1, <1>5 DEF probeAsk, construct, informOther
<1>6. CASE Relay
  BY <1>1, <1>6 DEF Relay, relayOpen, relayLost
<1> QED
  BY <1>2, <1>3, <1>4, <1>5, <1>6 DEF Next, Monitor, Search

\* What is left of a scan is a number, and it is nothing in "scan" only.
LEMMA ScanLeftTyped ==
  ASSUME IsFiniteSet(Port), TypeOK
  PROVE  /\ IsFiniteSet(tempPortList) /\ Cardinality(tempPortList) \in Nat
         /\ PortLeft \in 0 .. 14 /\ ScanLeft \in Nat
         /\ monPc # "scan" => ScanLeft > 0
<1>1. IsFiniteSet(tempPortList) /\ Cardinality(tempPortList) \in Nat
  BY FS_Subset, FS_CardinalityType DEF TypeOK
<1>2. PortLeft \in 0 .. 14
  BY DEF PortLeft, TypeOK, Attempts
<1> QED
  BY <1>1, <1>2 DEF ScanLeft

\* A step of the monitor before its next scan.
LEMMA MonitorStep ==
  ASSUME IsFiniteSet(Port), TypeOK, CountedInv, Monitor, monPc # "scan"
  PROVE  ScanLeft' < ScanLeft
<1>1. /\ IsFiniteSet(tempPortList) /\ Cardinality(tempPortList) \in Nat
      /\ PortLeft \in 0 .. 14 /\ ScanLeft \in Nat /\ ScanLeft > 0
  BY ScanLeftTyped
<1>2. ASSUME NEW why, Terminate(why) PROVE ScanLeft' = 0
  BY <1>2 DEF Terminate, ScanLeft
<1>3. CASE monNext
  <2>1. PICK p \in tempPortList :
          /\ tempPortList' = tempPortList \ {p}
          /\ monPc' \in {"next", "open"}
    BY <1>3 DEF monNext, Remaining
  <2>2. Cardinality(tempPortList') = Cardinality(tempPortList) - 1
    BY <1>1, <2>1, FS_RemoveElement
  <2>3. PortLeft' <= 14 /\ PortLeft' \in Nat /\ PortLeft = 0
    BY <1>3, <2>1 DEF monNext, PortLeft
  <2>4. ScanLeft' = 15 * Cardinality(tempPortList') + PortLeft' + 1
    BY <2>1 DEF ScanLeft
  <2>5. ScanLeft = 15 * Cardinality(tempPortList) + PortLeft + 1
    BY <1>3 DEF monNext, ScanLeft
  <2> QED
    BY <1>1, <2>2, <2>3, <2>4, <2>5
<1>4. CASE monSleep
  BY <1>1, <1>4 DEF monSleep, ScanLeft
<1>5. ASSUME UNCHANGED tempPortList, monPc' # "scan", PortLeft' \in Nat, PortLeft' < PortLeft
      PROVE  ScanLeft' < ScanLeft
  <2>1. ScanLeft' = 15 * Cardinality(tempPortList) + PortLeft' + 1
    BY <1>5 DEF ScanLeft
  <2>2. ScanLeft = 15 * Cardinality(tempPortList) + PortLeft + 1
    BY DEF ScanLeft
  <2> QED
    BY <1>1, <1>5, <2>1, <2>2
<1> USE DEF PortLeft, TypeOK, Attempts
<1>6. CASE probeOpen
  BY <1>5, <1>6 DEF probeOpen, NotAUthing, CountedInv
<1>7. CASE probeAsk
  BY <1>1, <1>2, <1>5, <1>7 DEF probeAsk
<1>8. CASE probeReply \/ probeOther
  BY <1>5, <1>8 DEF probeReply, probeOther, NotAUthing, NextAttempt, LastAttempt
<1>9. CASE construct
  BY <1>1, <1>2, <1>5, <1>9 DEF construct
<1>10. CASE informReply \/ monEmplace
  BY <1>5, <1>10 DEF informReply, monEmplace
<1>11. CASE informOther
  BY <1>1, <1>2, <1>11 DEF informOther
<1>12. CASE monScan
  BY <1>12 DEF monScan
<1> QED
  BY <1>3, <1>4, <1>6, <1>7, <1>8, <1>9, <1>10, <1>11, <1>12 DEF Monitor, Search

\* A step of anything else leaves the monitor where it is, or ends the process.
LEMMA OtherStep ==
  ASSUME IsFiniteSet(Port), TypeOK, [Next]_vars, ~Monitor
  PROVE  ScanLeft' <= ScanLeft
<1> USE DEF envVars, monVars, mapVars
<1>1. ASSUME NEW why, Terminate(why) PROVE ScanLeft' = 0
  BY <1>1 DEF Terminate, ScanLeft
<1>2. ASSUME UNCHANGED <<monPc, tempPortList, attempt>> PROVE ScanLeft' = ScanLeft
  BY <1>2 DEF ScanLeft, PortLeft
<1>3. UNCHANGED <<monPc, tempPortList, attempt>> \/ ScanLeft' = 0
  <2>1. ASSUME World \/ Restart \/ Request \/ UNCHANGED vars
        PROVE  UNCHANGED <<monPc, tempPortList, attempt>>
    BY <2>1 DEF World, Attach, Detach, Restart, Request, RequestLock, RequestUnlock,
                SetConfig, vars
  <2>2. CASE Relay
    BY <1>1, <2>2 DEF Relay, relayOpen, relayLost
  <2> QED
    BY <2>1, <2>2 DEF Next
<1> QED
  BY <1>2, <1>3, ScanLeftTyped

\* A scan ends after a bounded number of steps, for any devices and for any
\* finite number of ports.
THEOREM ScanEnds ==
  ASSUME IsFiniteSet(Port)
  PROVE  Spec => ScanAdvances
<1> DEFINE Advance == monPc # "scan" => IF Monitor THEN ScanLeft' < ScanLeft
                                              ELSE ScanLeft' <= ScanLeft
<1>1. Init => CountedInv
  BY DEF Init, CountedInv
<1>2. Spec => [](TypeOK /\ CountedInv)
  BY <1>1, CountedStep, TypeCorrect, PTL DEF Spec
<1>3. TypeOK /\ CountedInv /\ [Next]_vars => Advance
  BY MonitorStep, OtherStep
<1>4. TypeOK /\ CountedInv /\ [Next]_vars => [Advance]_vars
  BY <1>3
<1> QED
  BY <1>2, <1>4, PTL DEF Spec, ScanAdvances

=============================================================================
