------------------------------- MODULE Bridge -------------------------------
(***************************************************************************)
(* The threads of one uBridge process around the map Bridge::devices: the  *)
(* receive thread with the request handler (ControlServer), and the        *)
(* monitor and the relay threads (DeviceRegistry).  They share the map,    *)
(* its mutex and the configuration, and they end together: an exception    *)
(* that leaves one of them terminates the process.                         *)
(***************************************************************************)
EXTENDS ControlServer

CONSTANTS PortBase, PortNumber, UThing, Configs, LoadedConfig, Malformed, MaxPlugs

ASSUME DiscoveryAssumption ==
  UThing \subseteq Device /\ LoadedConfig \in Configs /\ MaxPlugs \in Nat

VARIABLES attached, plugs, cfg, monPc, tempPortList, portName, attempt, uThing,
          monPort, relay, spawned, fault

Discovery == INSTANCE DeviceRegistry

discoveryVars == <<attached, plugs, cfg, monPc, tempPortList, portName, attempt,
                   uThing, monPort, relay, spawned, fault>>
bridgeVars == <<vars, discoveryVars>>

BridgeInit == Init /\ Discovery!Init

\* setConfig is carried out while the request is parsed.
Receive ==
  \E c \in Client :
     \/ receiveUnparsable(c) /\ UNCHANGED discoveryVars
     \/ /\ requestHandler(c)
        /\ IF Coming(c).request = "setConfig" THEN cfg' \in Configs ELSE UNCHANGED cfg
        /\ UNCHANGED <<attached, plugs, monPc, tempPortList, portName, attempt,
                       uThing, monPort, relay, spawned, fault>>

\* The receive thread is there while the process is.
Serve ==
  /\ fault = "none"
  /\ Receive \/ (Handling /\ UNCHANGED discoveryVars)

\* Nothing of it reaches the receive thread, unless it ends the process.
Discover ==
  /\ Discovery!World \/ Discovery!Search \/ Discovery!Relay
  /\ IF fault' = fault THEN UNCHANGED serverVars ELSE ServerRestarted

Insert == Discovery!monEmplace /\ InsertionSeen(portName)

Reboot == Discovery!Restart /\ UNCHANGED serverVars

BridgeNext ==
  \/ Clients /\ UNCHANGED discoveryVars
  \/ Serve
  \/ Discover
  \/ Insert
  \/ Reboot

BridgeSpec == BridgeInit /\ [][BridgeNext]_bridgeVars

-----------------------------------------------------------------------------
\* The ports on which the receive thread uses the serial line, or will before
\* it gives the mutex back.
PortsInUse == toQuery \cup IF pc = "ask" THEN {portID} ELSE {}

\* The receive thread and the monitor are never on one serial port, although
\* the monitor probes without the mutex: its two writers would take each
\* other's replies.
WritersApart ==
  monPc \notin {"scan", "next"} => portName \notin PortsInUse

\* Whatever a device is asked or listed for, it has been given its relay thread,
\* one and no more, in this run of the process.
ServedAreRelayed ==
  \A p \in Port :
     p \in PortsInUse \/ (pc = "respond" /\ response.kind = "devices" /\ response.items[p] > 0)
       => spawned[p] = 1 /\ relay[p] # "none"

\* What one component does to the map, the mutex and the configuration is what
\* the other expects: seen from each, the bridge is a behaviour of its module.
ImplementsParts ==
  /\ Discovery!Init /\ [][Discovery!Next]_(Discovery!vars)
  /\ Init /\ [][Next]_vars

=============================================================================
