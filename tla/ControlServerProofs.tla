------------------------ MODULE ControlServerProofs ------------------------
(***************************************************************************)
(* What holds of ControlServer for any number of clients, ports, devices,  *)
(* requests and restarts.                                                  *)
(***************************************************************************)
EXTENDS ControlServer, SequenceFacts, FiniteSetTheorems, WellFoundedInduction

-----------------------------------------------------------------------------
(***************************************************************************)
(* The entry that is looked up without the mutex.                          *)
(***************************************************************************)

\* A set of ports has a first one in the order of the keys of the map.
LEMMA FirstIsElement ==
  ASSUME NEW ports \in SUBSET Port, ports # {}
  PROVE  First(ports) \in ports
<1> DEFINE positions == {Position(p) : p \in ports}
           less == OpToRel(<, Nat)
<1>1. \A p \in Port : Position(p) \in Nat
  BY PortsAssumption DEF Port, Position
<1>2. positions \subseteq Nat /\ positions # {}
  BY <1>1
<1>3. IsWellFoundedOn(less, Nat)
  BY NatLessThanWellFounded
<1>4. PICK m \in positions : \A n \in positions : <<n, m>> \notin less
  <2> HIDE DEF positions, less
  <2> QED
    BY <1>2, <1>3, WFMin
<1>5. ASSUME NEW n \in positions PROVE m <= n
  <2>1. n \in Nat /\ m \in Nat
    BY <1>2
  <2>2. ~ (n < m)
    <3>1. <<n, m>> \notin less
      BY <1>4
    <3> QED
      BY <2>1, <3>1, Zenon DEF OpToRel
  <2> QED
    BY <2>1, <2>2
<1>6. PICK p \in ports : m = Position(p)
  OBVIOUS
<1>7. \A q \in ports : Position(p) <= Position(q)
  BY <1>5, <1>6
<1> QED
  BY <1>7 DEF First

\* What findDeviceById() returns is "" or a port that has an entry with the
\* channelID that was asked for, also while entries are inserted.
LEMMA FoundMatches ==
  ASSUME NEW p \in Found, p # NoPort
  PROVE  p \in Registered /\ Matches(p)
<1> DEFINE old == {q \in Registered \ inserted : Matches(q)}
<1>1. CASE inserted = {} \/ First(old) = First(Registered)
  <2>1. p = First(old)
    BY <1>1 DEF Found
  <2>2. old # {}
    BY <2>1 DEF First
  <2>3. old \in SUBSET Port
    BY DEF Registered
  <2>4. p \in old
    <3> HIDE DEF old
    <3> QED
      BY <2>1, <2>2, <2>3, FirstIsElement
  <2> QED
    BY <2>4
<1>2. CASE ~ (inserted = {} \/ First(old) = First(Registered))
  BY <1>2 DEF Found
<1> QED
  BY <1>1, <1>2

-----------------------------------------------------------------------------
(***************************************************************************)
(* Types.                                                                  *)
(***************************************************************************)
\* There are finitely many ports, so that the entries can be counted.
LEMMA RegisteredFinite == IsFiniteSet(Port) /\ IsFiniteSet(Registered) /\ Cardinality(Registered) \in Nat
<1>1. PortSeq \in Surjection(1 .. Len(PortSeq), Port)
  BY PortsAssumption DEF Port, Surjection
<1>2. IsFiniteSet(1 .. Len(PortSeq))
  BY PortsAssumption, FS_Interval
<1>3. IsFiniteSet(Port)
  BY <1>1, <1>2, FS_Surjection DEF ExistsSurjection
<1>4. Registered \subseteq Port
  BY DEF Registered
<1> QED
  BY <1>3, <1>4, FS_Subset, FS_CardinalityType

\* The lists and the responses that are made on the way have their types.
LEMMA ListsTyped ==
  /\ EmptyList \in Lists /\ Filled \in Lists
  /\ \A k \in Kinds : Reply(k) \in [kind : Kinds, items : Lists, isNull : BOOLEAN, count : Nat]
<1>1. EmptyList \in Lists /\ Filled \in Lists
  BY DEF EmptyList, Filled, Lists
<1> QED
  BY <1>1 DEF Reply

Response == [kind : Kinds, items : Lists, isNull : BOOLEAN, count : Nat]

\* The next message of a client is a request of its kind.
LEMMA ReceivedTyped ==
  ASSUME TypeOK, NEW c \in Client, Received(c)
  PROVE  /\ Coming(c) \in Requests
         /\ late' \in [Client -> Seq(Requests)] /\ copies' \in [Client -> Nat]
         /\ UNCHANGED <<client, asked, answer, sendings, resends>>
<1>1. late[c] \in Seq(Requests) /\ asked[c] \in Requests /\ copies[c] \in Nat
  BY DEF TypeOK
<1>2. late[c] # <<>> => Head(late[c]) \in Requests /\ Tail(late[c]) \in Seq(Requests)
  BY <1>1, TailOfSeq
<1>3. Coming(c) \in Requests
  BY <1>1, <1>2 DEF Coming
<1>4. CASE late[c] # <<>>
  <2>1. late' = [late EXCEPT ![c] = Tail(late[c])] /\ copies' = copies
    BY <1>4 DEF Received
  <2> QED
    BY <1>2, <1>3, <1>4, <2>1 DEF TypeOK, Received
<1>5. CASE late[c] = <<>>
  <2>1. copies' = [copies EXCEPT ![c] = copies[c] - 1] /\ copies[c] > 0 /\ late' = late
    BY <1>5 DEF Received
  <2> QED
    BY <1>1, <1>3, <2>1 DEF TypeOK, Received
<1> QED
  BY <1>4, <1>5

\* What is on the way from a client are requests.
LEMMA UnderWayTyped ==
  ASSUME TypeOK, NEW c \in Client
  PROVE  UnderWay(c) \in Seq(Requests)
<1> DEFINE again == [i \in 1 .. copies[c] |-> asked[c]]
<1>1. late[c] \in Seq(Requests) /\ asked[c] \in Requests /\ copies[c] \in Nat
  BY DEF TypeOK
<1>2. again \in Seq(Requests)
  BY <1>1
<1> HIDE DEF again
<1>3. late[c] \o again \in Seq(Requests)
  BY <1>1, <1>2, ConcatProperties
<1> QED
  BY <1>3 DEF UnderWay, again

\* The variables have their types at the start ...
LEMMA TypedInit == Init => TypeOK
<1> SUFFICES ASSUME Init PROVE TypeOK
  OBVIOUS
<1>1. \A c \in Client : (CHOOSE r \in Asks[c] : TRUE) \in Requests
  BY RequestsAssumption DEF Requests
<1>2. devices \in [Port -> Device \cup {NoDevice}] /\ mutex_devices = "free"
  BY DEF Init, Directory!Init, Directory!Empty
<1>3. response \in Response
  BY ListsTyped DEF Init, NoReply, Kinds, Response
<1>4. deviceList \in [items : Lists, isNull : BOOLEAN, devCount : Nat]
  BY ListsTyped DEF Init
<1>5. /\ asked \in [Client -> Requests] /\ answer \in [Client -> Kinds]
      /\ client \in [Client -> {"idle", "waiting"}] /\ executed \in [Client -> Nat]
      /\ late \in [Client -> Seq(Requests)] /\ copies \in [Client -> Nat]
      /\ sendings \in [Client -> Nat]
  BY <1>1 DEF Init, Kinds
<1>6. /\ pc \in Pcs /\ pc \notin {"ask", "statsQuery"} /\ current \in Client
      /\ requestType \in Names \cup {"unrecognized"} /\ portID \in Port \cup {NoPort}
      /\ inserted \subseteq Port /\ toQuery \subseteq Registered /\ crashes \in 0 .. MaxCrashes
      /\ resends \in 0 .. MaxResends
  BY BoundsAssumption DEF Init, Pcs
<1>7. message \in Requests \cup {NoRequest} /\ fresh \in BOOLEAN
  BY DEF Init
<1> QED
  BY <1>2, <1>3, <1>4, <1>5, <1>6, <1>7 DEF TypeOK, Response

\* ... and every step keeps them.
LEMMA TypedStep == TypeOK /\ [Next]_vars => TypeOK'
<1> SUFFICES ASSUME TypeOK, [Next]_vars PROVE TypeOK'
  OBVIOUS
<1> USE DEF TypeOK, Pcs, registryVars, clientVars, pipeVars, requestVars, localVars
<1>1. ASSUME NEW c \in Client, NEW r \in Requests, SendRequest(c, r) PROVE TypeOK'
  <2>1. client' \in [Client -> {"idle", "waiting"}]
    BY <1>1 DEF SendRequest
  <2>2. asked' \in [Client -> Requests]
    BY <1>1 DEF SendRequest
  <2>3. "none" \in Kinds
    BY DEF Kinds
  <2>4. answer' \in [Client -> Kinds]
    BY <1>1, <2>3 DEF SendRequest
  <2>5. executed' \in [Client -> Nat]
    BY <1>1 DEF SendRequest
  <2>6. /\ UNCHANGED <<registryVars, crashes, resends, pc, current, message, requestType>>
        /\ UNCHANGED <<deviceList, portID, inserted, toQuery, response>>
    BY <1>1 DEF SendRequest
  <2>7. Registered' = Registered
    BY <2>6 DEF Registered
  <2>8. late' \in [Client -> Seq(Requests)]
    <3>1. UnderWay(c) \in Seq(Requests)
      BY UnderWayTyped
    <3> QED
      BY <1>1, <3>1 DEF SendRequest
  <2>9. copies' \in [Client -> Nat] /\ sendings' \in [Client -> Nat] /\ fresh' \in BOOLEAN
    BY <1>1 DEF SendRequest
  <2> QED
    BY <2>1, <2>2, <2>4, <2>5, <2>6, <2>7, <2>8, <2>9
<1>2. ASSUME NEW c \in Client, Resend(c) PROVE TypeOK'
  <2>1. copies' \in [Client -> Nat] /\ sendings' \in [Client -> Nat] /\ resends' \in 0 .. MaxResends
    BY <1>2, BoundsAssumption DEF Resend
  <2> QED
    BY <1>2, <2>1 DEF Resend, Registered
<1>3. ASSUME NEW p \in Port, NEW d \in Device, Register(p, d) PROVE TypeOK'
  <2>1. Registered \subseteq Registered'
    BY <1>3, NoValuesAssumption DEF Register, InsertionSeen, Directory!Register, Registered
  <2>2. /\ devices' \in [Port -> Device \cup {NoDevice}]
        /\ mutex_devices' = mutex_devices /\ inserted' \subseteq Port
    BY <1>3 DEF Register, InsertionSeen, Directory!Register
  <2> QED
    BY <1>3, <2>1, <2>2 DEF Register, InsertionSeen
<1>4. CASE Crash
  <2>1. /\ devices' \in [Port -> Device \cup {NoDevice}] /\ mutex_devices' = "free"
        /\ crashes' \in 0 .. MaxCrashes
    BY <1>4, BoundsAssumption DEF Crash, ServerRestarted, Directory!Crash, Directory!Empty
  <2>2. response' \in Response /\ deviceList' \in [items : Lists, isNull : BOOLEAN, devCount : Nat]
    BY <1>4, ListsTyped DEF Crash, ServerRestarted, NoReply, Kinds, Response
  <2>3. late' \in [Client -> Seq(Requests)] /\ copies' \in [Client -> Nat]
    BY <1>4 DEF Crash, ServerRestarted
  <2>4. sendings' \in [Client -> Nat]
    BY <1>4, <2>3 DEF Crash, ServerRestarted
  <2> QED
    BY <1>4, <2>1, <2>2, <2>3, <2>4 DEF Crash, ServerRestarted, Response
<1>5. ASSUME NEW c \in Client, receiveUnparsable(c) PROVE TypeOK'
  BY <1>5, ReceivedTyped DEF receiveUnparsable, Registered
<1>6. ASSUME NEW c \in Client, requestHandler(c) PROVE TypeOK'
  <2>1. /\ requestType' \in Names \cup {"unrecognized"} /\ current' \in Client
        /\ message' \in Requests /\ fresh' \in BOOLEAN
    BY <1>6, ReceivedTyped DEF requestHandler, TypeOf
  <2>2. pc' \in {"list", "required", "stats", "respond"} /\ pc = "recv"
    BY <1>6 DEF requestHandler, Branch
  <2>3. Direct(requestType') \in Response /\ NoReply \in Response
    BY ListsTyped DEF Direct, NoReply, Kinds, Response
  <2>4. response' \in Response
    BY <1>6, <2>3 DEF requestHandler
  <2> QED
    BY <1>6, <2>1, <2>2, <2>4, ReceivedTyped DEF requestHandler, Registered, Response
<1>7. CASE listFill
  BY <1>7, ListsTyped DEF listFill, Registered
<1>8. CASE listCount
  BY <1>8, RegisteredFinite DEF listCount, Registered
<1>9. CASE listArray
  <2>1. deviceList' \in [items : Lists, isNull : BOOLEAN, devCount : Nat]
    BY <1>9, ListsTyped DEF listArray
  <2>2. response' \in Response
    BY <1>9, <2>1 DEF listArray, Respond, Kinds, Response
  <2>3. /\ UNCHANGED <<registryVars, crashes, clientVars, requestVars,
                       portID, inserted, toQuery, executed>>
        /\ pc' = "respond" /\ pc = "array"
    BY <1>9 DEF listArray, Respond
  <2>4. Registered' = Registered
    BY <2>3 DEF Registered
  <2> QED
    BY <2>1, <2>2, <2>3, <2>4 DEF Response
<1>10. CASE required
  <2>1. response' \in Response
    BY <1>10, ListsTyped DEF required, Respond, Kinds, Response
  <2> QED
    BY <1>10, <2>1 DEF required, Respond, Registered, Response
<1>11. CASE findDeviceById
  <2>1. portID' \in Port \cup {NoPort}
    BY <1>11, FoundMatches DEF findDeviceById, Registered
  <2>2. response' \in Response /\ pc' \in {"lock", "respond"}
    BY <1>11, ListsTyped DEF findDeviceById, Respond, Kinds, Response
  <2> QED
    BY <1>11, <2>1, <2>2 DEF findDeviceById, Registered, Response
<1>12. CASE lockForDevice
  BY <1>12 DEF lockForDevice, Lock, Directory!Lock, Registered
<1>13. CASE askDevice
  <2>1. executed' \in [Client -> Nat]
    <3>1. executed[current] + 1 \in Nat
      OBVIOUS
    <3> QED
      BY <1>13, <3>1 DEF askDevice
  <2>2. PICK k \in Outcome \cup {"OK"} : response' = Reply(k)
    BY <1>13 DEF askDevice, Answer, Respond
  <2>3. k \in Kinds
    BY <2>2 DEF Outcome, Kinds
  <2>4. response' \in Response
    BY <2>2, <2>3, ListsTyped DEF Response
  <2> QED
    BY <1>13, <2>1, <2>4 DEF askDevice, Answer, Unlock, Directory!Unlock, Respond, Registered, Response
<1>14. CASE statsLock
  BY <1>14 DEF statsLock, Lock, Directory!Lock, Registered
<1>15. CASE statsQuery
  BY <1>15 DEF statsQuery, Registered
<1>16. CASE statsUnlock
  <2>1. response' = [Reply("statistics") EXCEPT !.count = Cardinality(Registered)]
    BY <1>16 DEF statsUnlock, Respond
  <2>2. Reply("statistics") \in Response
    BY ListsTyped DEF Kinds, Response
  <2>3. Cardinality(Registered) \in Nat
    BY RegisteredFinite
  <2>4. response' \in Response
    BY <2>1, <2>2, <2>3 DEF Response
  <2> QED
    BY <1>16, <2>4 DEF statsUnlock, Unlock, Directory!Unlock, Respond, Registered, Response
<1>17. CASE sendResponse
  <2>1. response' \in Response
    BY <1>17, ListsTyped DEF sendResponse, NoReply, Kinds, Response
  <2>2. client' \in [Client -> {"idle", "waiting"}] /\ answer' \in [Client -> Kinds]
    BY <1>17 DEF sendResponse, Sent, Response
  <2> QED
    BY <1>17, <2>1, <2>2 DEF sendResponse, Registered, Response
<1>18. CASE UNCHANGED vars
  BY <1>18 DEF vars, serverVars, Registered
<1> HIDE DEF TypeOK
<1> QED
  BY <1>1, <1>2, <1>3, <1>4, <1>5, <1>6, <1>7, <1>8, <1>9, <1>10, <1>11, <1>12,
     <1>13, <1>14, <1>15, <1>16, <1>17, <1>18 DEF Next, Clients, Receiving, Handling, Requests

\* Type correctness, with the state of the mutex (TypeOK).
THEOREM TypeCorrect == Spec => []TypeOK
<1> QED
  BY TypedInit, TypedStep, PTL DEF Spec

-----------------------------------------------------------------------------
(***************************************************************************)
(* From its reception to its answer the branch of prepareResponse() stays  *)
(* the one of the message: requestType, one member for all clients, still  *)
(* belongs to it, and what is called a copy of the last request of a       *)
(* client is one.                                                          *)
(***************************************************************************)
OwnerInv ==
  pc # "recv" => /\ requestType = TypeOf(message)
                 /\ fresh => message = asked[current]

BranchInv ==
  /\ pc \in {"list", "count", "array"} => message.request = "getDevices"
  /\ pc \in {"required", "find", "lock", "ask"} =>
        message.request \in {"queryDevice", "sendCommand"}
  /\ pc \in {"find", "lock", "ask"} => message.channelID # NoChannel
  /\ pc \in {"stats", "statsQuery"} => message.request = "getStatistics"

ResponseInv == pc = "respond" => response.kind \in Expected(message)

LockedInv == pc \in {"lock", "ask"} => portID \in Registered /\ Matches(portID)

\* The copy that is handled, if its request may still reach a device.
InHand(c) == c = current /\ fresh /\ pc \notin {"recv", "respond"}

\* Each execution has used up one of the copies that were sent, and so will that
\* of the copy in hand.
OnceInv ==
  \A c \in Client : /\ executed[c] + copies[c] <= sendings[c]
                    /\ InHand(c) => executed[c] + copies[c] < sendings[c]

IInv == OwnerInv /\ BranchInv /\ ResponseInv /\ LockedInv /\ OnceInv /\ AnswerFitsRequest

\* At the start nothing is served and nobody has an answer.
LEMMA InvariantInit == Init => IInv
<1> SUFFICES ASSUME Init PROVE IInv
  OBVIOUS
<1>1. \A c \in Client : /\ answer[c] = "none" /\ executed[c] = 0
                         /\ copies[c] = 0 /\ sendings[c] = 0
  BY DEF Init
<1> QED
  BY <1>1 DEF Init, IInv, OwnerInv, BranchInv, ResponseInv, LockedInv, OnceInv, InHand,
              AnswerFitsRequest

\* Each type of request goes its own way, and what is answered at once fits.
LEMMA Branches ==
  ASSUME NEW r \in Requests, r.request # "unparsable"
  PROVE  /\ Branch(TypeOf(r)) = "list" => r.request = "getDevices"
         /\ Branch(TypeOf(r)) = "required" => r.request \in {"queryDevice", "sendCommand"}
         /\ Branch(TypeOf(r)) = "stats" => r.request = "getStatistics"
         /\ Branch(TypeOf(r)) = "respond" => Direct(TypeOf(r)).kind \in Expected(r)
         /\ Branch(TypeOf(r)) \in {"list", "required", "stats", "respond"}
<1>1. r.request \in Names \cup {"unknown"}
  BY RequestsAssumption
<1> USE DEF Branch, TypeOf, Direct, Reply, Expected
<1>2. CASE r.request = "ping"
  BY <1>2 DEF Names
<1>3. CASE r.request = "getConfig"
  BY <1>3 DEF Names
<1>4. CASE r.request = "setConfig"
  BY <1>4 DEF Names
<1>5. CASE r.request = "getDevices"
  BY <1>5 DEF Names
<1>6. CASE r.request = "queryDevice"
  BY <1>6 DEF Names
<1>7. CASE r.request = "sendCommand"
  BY <1>7 DEF Names
<1>8. CASE r.request = "getStatistics"
  BY <1>8 DEF Names
<1>9. CASE r.request = "unknown"
  BY <1>9 DEF Names
<1> QED
  BY <1>1, <1>2, <1>3, <1>4, <1>5, <1>6, <1>7, <1>8, <1>9 DEF Names

\* The steps of clients, of the monitor thread, of devices and of the process.
LEMMA InvariantAround ==
  ASSUME TypeOK, IInv,
         Clients \/ Crash \/ \E p \in Port, d \in Device : Register(p, d)
  PROVE  IInv'
<1> USE DEF TypeOK, IInv, OwnerInv, BranchInv, ResponseInv, LockedInv, OnceInv,
            InHand, Matches, Registered, AnswerFitsRequest,
            registryVars, clientVars, pipeVars, requestVars, localVars
<1>1. ASSUME NEW c \in Client, NEW r \in Requests, SendRequest(c, r) PROVE IInv'
  <2>1. /\ asked' = [asked EXCEPT ![c] = r] /\ answer' = [answer EXCEPT ![c] = "none"]
        /\ copies' = [copies EXCEPT ![c] = 1] /\ sendings' = [sendings EXCEPT ![c] = 1]
        /\ executed' = [executed EXCEPT ![c] = 0] /\ fresh' = (fresh /\ current # c)
        /\ UNCHANGED <<devices, pc, current, message, requestType, portID, response>>
    BY <1>1 DEF SendRequest
  <2>2. OwnerInv'
    BY <2>1
  <2>3. OnceInv'
    <3> SUFFICES ASSUME NEW k \in Client
                 PROVE  /\ executed'[k] + copies'[k] <= sendings'[k]
                        /\ InHand(k)' => executed'[k] + copies'[k] < sendings'[k]
      OBVIOUS
    <3>1. CASE k = c
      <4>1. executed'[k] = 0 /\ copies'[k] = 1 /\ sendings'[k] = 1
        BY <2>1, <3>1
      <4>2. ~ InHand(k)'
        BY <2>1, <3>1
      <4> QED
        BY <4>1, <4>2
    <3>2. CASE k # c
      BY <2>1, <3>2
    <3> QED
      BY <3>1, <3>2
  <2>4. AnswerFitsRequest'
    BY <2>1
  <2> QED
    BY <2>1, <2>2, <2>3, <2>4
<1>2. ASSUME NEW c \in Client, Resend(c) PROVE IInv'
  <2>1. /\ copies' = [copies EXCEPT ![c] = @ + 1] /\ sendings' = [sendings EXCEPT ![c] = @ + 1]
        /\ UNCHANGED <<executed, pc, requestVars>>
    BY <1>2 DEF Resend
  <2>2. OnceInv'
    <3> SUFFICES ASSUME NEW k \in Client
                 PROVE  /\ executed'[k] + copies'[k] <= sendings'[k]
                        /\ InHand(k)' => executed'[k] + copies'[k] < sendings'[k]
      OBVIOUS
    <3>1. /\ executed[k] \in Nat /\ copies[k] \in Nat /\ sendings[k] \in Nat
          /\ InHand(k)' <=> InHand(k)
          /\ executed[k] + copies[k] <= sendings[k]
          /\ InHand(k) => executed[k] + copies[k] < sendings[k]
      BY <2>1
    <3>2. CASE k = c
      <4>1. executed'[k] = executed[k] /\ copies'[k] = copies[k] + 1 /\ sendings'[k] = sendings[k] + 1
        BY <2>1, <3>2
      <4> HIDE DEF TypeOK, IInv, InHand
      <4> QED
        BY <3>1, <4>1
    <3>3. CASE k # c
      BY <2>1, <3>3
    <3> QED
      BY <3>2, <3>3
  <2> QED
    BY <1>2, <2>2 DEF Resend
<1>3. ASSUME NEW p \in Port, NEW d \in Device, Register(p, d) PROVE IInv'
  <2>1. LockedInv'
    BY <1>3, NoValuesAssumption DEF Register, InsertionSeen, Directory!Register
  <2> QED
    BY <1>3, <2>1 DEF Register, InsertionSeen
<1>4. CASE Crash
  <2>1. /\ copies' = [c \in Client |-> IF client[c] = "waiting" THEN 1 ELSE 0]
        /\ sendings' = [c \in Client |-> sendings[c] + copies'[c]]
        /\ executed' = executed /\ pc' = "recv"
    BY <1>4 DEF Crash, ServerRestarted
  <2>2. OnceInv'
    <3> SUFFICES ASSUME NEW c \in Client PROVE executed[c] + copies'[c] <= sendings'[c]
      BY <2>1
    <3>1. /\ executed[c] \in Nat /\ copies[c] \in Nat /\ sendings[c] \in Nat
          /\ executed[c] <= sendings[c]
      OBVIOUS
    <3>2. copies'[c] \in Nat /\ sendings'[c] = sendings[c] + copies'[c]
      BY <2>1
    <3> QED
      BY <3>1, <3>2
  <2> QED
    BY <1>4, <2>2 DEF Crash, ServerRestarted
<1> QED
  BY <1>1, <1>2, <1>3, <1>4 DEF Clients, Requests

\* A copy of the last request that was received is not on its way any more.
LEMMA FewerCopies ==
  ASSUME TypeOK, OnceInv, NEW c \in Client, Received(c)
  PROVE  /\ \A k \in Client : executed[k] + copies'[k] <= sendings[k]
         /\ late[c] = <<>> => executed[c] + copies'[c] < sendings[c]
<1>1. \A k \in Client : executed[k] \in Nat /\ copies[k] \in Nat /\ sendings[k] \in Nat
  BY DEF TypeOK
<1>2. CASE late[c] # <<>>
  BY <1>2 DEF Received, OnceInv
<1>3. CASE late[c] = <<>>
  <2>1. copies' = [copies EXCEPT ![c] = copies[c] - 1]
    BY <1>3 DEF Received
  <2>2. \A k \in Client : copies'[k] = IF k = c THEN copies[k] - 1 ELSE copies[k]
    BY <2>1 DEF TypeOK
  <2> QED
    BY <1>1, <2>2 DEF OnceInv
<1> QED
  BY <1>2, <1>3

\* The steps of the receive thread outside the handler.
LEMMA InvariantReceiving ==
  ASSUME TypeOK, IInv, Receiving \/ sendResponse
  PROVE  IInv'
<1> USE DEF TypeOK, IInv, OwnerInv, BranchInv, ResponseInv, LockedInv, OnceInv,
            InHand, AnswerFitsRequest,
            registryVars, clientVars, pipeVars, requestVars, localVars
<1>1. ASSUME NEW c \in Client, receiveUnparsable(c) PROVE IInv'
  <2>1. /\ UNCHANGED <<pc, requestVars, executed, sendings, asked, answer>>
        /\ pc = "recv"
    BY <1>1 DEF receiveUnparsable, Received
  <2>2. \A k \in Client : executed[k] + copies'[k] <= sendings[k]
    BY <1>1, FewerCopies DEF receiveUnparsable
  <2> QED
    BY <2>1, <2>2
<1>2. ASSUME NEW c \in Client, requestHandler(c) PROVE IInv'
  <2>1. /\ current' = c /\ message' = Coming(c) /\ fresh' = (late[c] = <<>>)
        /\ requestType' = TypeOf(message')
        /\ pc' = Branch(TypeOf(message'))
        /\ pc = "recv"
        /\ UNCHANGED <<asked, answer, executed, sendings>>
        /\ message' \in Requests /\ message'.request # "unparsable"
    BY <1>2, ReceivedTyped DEF requestHandler
  <2>2. pc' = "respond" => response' = Direct(TypeOf(message'))
    BY <1>2, <2>1 DEF requestHandler
  <2>3. OwnerInv'
    BY <2>1 DEF Coming
  <2>4. BranchInv' /\ ResponseInv' /\ LockedInv'
    BY <2>1, <2>2, Branches
  <2>5. OnceInv'
    <3>1. /\ \A k \in Client : executed[k] + copies'[k] <= sendings[k]
          /\ late[c] = <<>> => executed[c] + copies'[c] < sendings[c]
      BY <1>2, FewerCopies DEF requestHandler
    <3> QED
      BY <2>1, <3>1
  <2> QED
    BY <2>1, <2>3, <2>4, <2>5
<1>3. CASE sendResponse
  <2>1. /\ pc = "respond" /\ pc' = "recv"
        /\ UNCHANGED <<asked, current, executed, copies, sendings>>
    BY <1>3 DEF sendResponse
  <2>2. AnswerFitsRequest'
    BY <1>3, <2>1 DEF sendResponse, Sent
  <2> QED
    BY <2>1, <2>2
<1> QED
  BY <1>1, <1>2, <1>3 DEF Receiving

\* The steps of the handler.
LEMMA InvariantHandling ==
  ASSUME TypeOK, IInv, Handling, ~ sendResponse
  PROVE  IInv'
<1> USE DEF TypeOK, IInv, OwnerInv, BranchInv, ResponseInv, LockedInv, OnceInv,
            InHand, AnswerFitsRequest,
            registryVars, clientVars, pipeVars, requestVars, localVars
<1>1. CASE listFill \/ listCount
  BY <1>1 DEF listFill, listCount
<1>2. CASE listArray
  <2>1. /\ pc = "array" /\ pc' = "respond" /\ response'.kind = "devices"
        /\ UNCHANGED <<clientVars, requestVars, executed>>
    BY <1>2 DEF listArray, Respond
  <2>2. ResponseInv'
    BY <2>1 DEF Expected
  <2> QED
    BY <2>1, <2>2
<1>3. CASE required
  <2>1. CASE message.channelID = NoChannel
    <3>1. message.request \in {"queryDevice", "sendCommand"}
      BY <1>3 DEF required
    <3>2. pc' = "respond" /\ response'.kind = "required" /\ message' = message
      BY <1>3, <2>1 DEF required, Respond, Reply
    <3>3. ResponseInv'
      BY <2>1, <3>1, <3>2 DEF Expected
    <3> QED
      BY <1>3, <3>2, <3>3 DEF required
  <2>2. CASE message.channelID # NoChannel
    BY <1>3, <2>2 DEF required
  <2> QED
    BY <2>1, <2>2
<1>4. CASE findDeviceById
  <2>1. /\ pc = "find" /\ portID' \in Found
        /\ UNCHANGED <<devices, clientVars, requestVars, executed>>
    BY <1>4 DEF findDeviceById
  <2>2. CASE portID' = NoPort
    <3>1. pc' = "respond" /\ response' = Reply("not found")
      BY <1>4, <2>2, Zenon DEF findDeviceById, Respond
    <3>2. response'.kind = "not found"
      BY <3>1 DEF Reply
    <3>3. ResponseInv'
      BY <2>1, <3>1, <3>2 DEF Expected
    <3>4. OnceInv'
      <4>1. UNCHANGED <<executed, copies, sendings, current, fresh>>
        BY <2>1
      <4>2. \A c \in Client : executed[c] \in Nat /\ copies[c] \in Nat /\ sendings[c] \in Nat
        OBVIOUS
      <4> QED
        BY <3>1, <4>1, <4>2
    <3>5. AnswerFitsRequest'
      BY <2>1
    <3>6. OwnerInv' /\ BranchInv' /\ LockedInv'
      BY <2>1, <3>1
    <3> QED
      BY <3>3, <3>4, <3>5, <3>6
  <2>3. CASE portID' # NoPort
    <3>1. portID' \in Registered /\ Matches(portID')
      BY <2>1, <2>3, FoundMatches
    <3>2. LockedInv'
      BY <2>1, <3>1 DEF Matches, Registered
    <3>3. pc' = "lock"
      BY <1>4, <2>3, Zenon DEF findDeviceById
    <3> QED
      BY <2>1, <3>2, <3>3
  <2> QED
    BY <2>2, <2>3
<1>5. CASE lockForDevice
  BY <1>5 DEF lockForDevice, Lock, Directory!Lock, Matches, Registered
<1>6. CASE askDevice
  <2>1. /\ pc = "ask" /\ pc' = "respond" /\ UNCHANGED requestVars
        /\ executed' = [executed EXCEPT ![current] = IF fresh THEN @ + 1 ELSE @]
        /\ UNCHANGED <<copies, sendings>>
    BY <1>6 DEF askDevice, Answer, Respond
  <2>2. response'.kind \in IF requestType = "sendCommand" THEN {"OK"}
                           ELSE {"reply", "other", "error"}
    BY <1>6 DEF askDevice, Answer, Respond, Reply, Outcome
  <2>3. requestType = message.request
    BY <2>1 DEF TypeOf, Names
  <2>4. ResponseInv'
    BY <2>1, <2>2, <2>3 DEF Expected
  <2>5. OnceInv'
    BY <2>1
  <2> QED
    BY <1>6, <2>1, <2>4, <2>5 DEF askDevice
<1>7. CASE statsLock \/ statsQuery
  BY <1>7 DEF statsLock, statsQuery, Lock, Directory!Lock
<1>8. CASE statsUnlock
  <2>1. pc = "statsQuery" /\ pc' = "respond" /\ UNCHANGED requestVars
    BY <1>8 DEF statsUnlock, Respond
  <2>2. response'.kind = "statistics"
    BY <1>8 DEF statsUnlock, Respond, Reply
  <2>3. ResponseInv'
    BY <2>1, <2>2 DEF Expected
  <2> QED
    BY <1>8, <2>1, <2>3 DEF statsUnlock
<1> QED
  BY <1>1, <1>2, <1>3, <1>4, <1>5, <1>6, <1>7, <1>8 DEF Handling

\* Every step of every actor keeps the invariant.
LEMMA InvariantStep == TypeOK /\ IInv /\ [Next]_vars => IInv'
<1> SUFFICES ASSUME TypeOK, IInv, [Next]_vars PROVE IInv'
  OBVIOUS
<1>1. CASE UNCHANGED vars
  BY <1>1 DEF vars, serverVars, registryVars, clientVars, pipeVars, requestVars, localVars,
              TypeOK, IInv, OwnerInv, BranchInv, ResponseInv, LockedInv, OnceInv, InHand,
              Matches, Registered, AnswerFitsRequest
<1>2. CASE Next
  BY <1>2, InvariantAround, InvariantReceiving, InvariantHandling DEF Next, Handling
<1> QED
  BY <1>1, <1>2

\* The invariant holds in every state.
THEOREM InvariantAlways == Spec => [](TypeOK /\ IInv)
BY TypedInit, InvariantInit, TypedStep, InvariantStep, PTL DEF Spec

-----------------------------------------------------------------------------
\* Every answer fits the last request of the client that got it: requestType
\* and the other members that requests share are never those of another one.
THEOREM AnswersFit == Spec => []AnswerFitsRequest
<1>1. IInv => AnswerFitsRequest
  BY DEF IInv
<1> QED
  BY <1>1, InvariantAlways, PTL

\* at() finds the entry that findDeviceById() found without the mutex, and no
\* other device is asked in its place, however many entries are inserted.
THEOREM FoundEntryThere == Spec => []FoundEntryStays
<1>1. IInv => FoundEntryStays
  BY DEF IInv, LockedInv, FoundEntryStays, Matches
<1> QED
  BY <1>1, InvariantAlways, PTL

\* Each execution of a request uses up a copy that was sent: what the server does
\* with one message, it does once, for any number of clients, resendings and
\* restarts.
THEOREM ExecutedOnce == Spec => []ExecutedOncePerCopy
<1>1. TypeOK /\ IInv => ExecutedOncePerCopy
  BY DEF TypeOK, IInv, OnceInv, InHand, ExecutedOncePerCopy
<1> QED
  BY <1>1, InvariantAlways, PTL

\* The request thread only takes and frees the mutex of the registry, so it
\* keeps what it relies on itself.
THEOREM RequestsKeepRegistry == Spec => ImplementsRegistry
<1>1. Init => Directory!Init
  BY DEF Init
<1>2. [Next]_vars => [Directory!Next]_(Directory!vars)
  <2> SUFFICES ASSUME [Next]_vars PROVE Directory!Next \/ UNCHANGED Directory!vars
    OBVIOUS
  <2> USE DEF Directory!vars, registryVars
  <2>1. CASE \E p \in Port, d \in Device : Register(p, d)
    BY <2>1 DEF Register, Directory!Next
  <2>2. CASE Clients
    BY <2>2 DEF Clients, Resend, SendRequest
  <2>3. CASE Crash
    BY <2>3 DEF Crash, Directory!Next
  <2>4. CASE Receiving
    BY <2>4 DEF Receiving, receiveUnparsable, requestHandler, Received
  <2>5. CASE lockForDevice \/ askDevice \/ statsLock \/ statsUnlock
    BY <2>5 DEF lockForDevice, askDevice, statsLock, statsUnlock, Lock, Unlock, Directory!Next
  <2>6. CASE listFill \/ listCount \/ listArray \/ required \/ findDeviceById
             \/ statsQuery \/ sendResponse
    BY <2>6 DEF listFill, listCount, listArray, required, findDeviceById,
                statsQuery, sendResponse
  <2>7. CASE UNCHANGED vars
    BY <2>7 DEF vars, serverVars
  <2> QED
    BY <2>1, <2>2, <2>3, <2>4, <2>5, <2>6, <2>7 DEF Next, Handling
<1> QED
  BY <1>1, <1>2, PTL DEF Spec, ImplementsRegistry, Directory!Spec

-----------------------------------------------------------------------------
(***************************************************************************)
(* getDevices: what was listed under the mutex stays registered, and the   *)
(* number that is read after it can only have grown.                       *)
(***************************************************************************)
Listed(items) == {p \in Port : items[p] > 0}

ListInv ==
  /\ pc \in {"count", "array"} => Listed(deviceList.items) \subseteq Registered
  /\ pc = "array" => /\ Cardinality(Listed(deviceList.items)) <= deviceList.devCount
                     /\ deviceList.devCount <= Cardinality(Registered)
  /\ pc = "respond" /\ response.kind = "devices" =>
        /\ Listed(response.items) \subseteq Registered
        /\ Cardinality(Listed(response.items)) <= response.count
        /\ response.count <= Cardinality(Registered)

\* A set of entries has no more elements than the registry that has them all.
LEMMA FewerListed ==
  ASSUME NEW l \in SUBSET Registered
  PROVE  Cardinality(l) \in Nat /\ Cardinality(l) <= Cardinality(Registered)
  BY RegisteredFinite, FS_Subset, FS_CardinalityType

\* Entries that are added leave what was listed as it is.
LEMMA ListRegister ==
  ASSUME TypeOK, ListInv, NEW p \in Port, NEW d \in Device, Register(p, d)
  PROVE  ListInv'
<1>1. /\ UNCHANGED <<pc, deviceList, response>>
      /\ devices[p] = NoDevice /\ devices' = [devices EXCEPT ![p] = d]
  BY DEF Register, InsertionSeen, Directory!Register, clientVars
<1>2. Registered' = Registered \cup {p} /\ p \notin Registered
  BY <1>1, NoValuesAssumption DEF TypeOK, Registered
<1>3. Cardinality(Registered') = Cardinality(Registered) + 1 /\ Cardinality(Registered) \in Nat
  BY <1>2, RegisteredFinite, FS_AddElement
<1> HIDE DEF Registered
<1>4. pc = "array" => deviceList.devCount <= Cardinality(Registered')
  BY <1>3 DEF ListInv, TypeOK
<1>5. pc = "respond" /\ response.kind = "devices" => response.count <= Cardinality(Registered')
  BY <1>3 DEF ListInv, TypeOK
<1> QED
  BY <1>1, <1>2, <1>4, <1>5 DEF ListInv, Listed

\* Each step of listDevices() keeps the list within the registry.
LEMMA ListHandling ==
  ASSUME TypeOK, ListInv, listFill \/ listCount \/ listArray
  PROVE  ListInv'
<1>1. devices' = devices /\ Registered' = Registered
  BY DEF listFill, listCount, listArray, registryVars, Registered
<1>2. CASE listFill
  <2>1. pc' = "count" /\ deviceList'.items = Filled
    BY <1>2 DEF listFill, TypeOK
  <2>2. Listed(Filled) \subseteq Registered
    BY DEF Listed, Filled
  <2> QED
    BY <1>1, <2>1, <2>2 DEF ListInv, Listed
<1>3. CASE listCount
  <2>1. /\ pc = "count" /\ pc' = "array" /\ deviceList'.items = deviceList.items
        /\ deviceList'.devCount = Cardinality(Registered)
    BY <1>3 DEF listCount, TypeOK
  <2>2. Listed(deviceList.items) \subseteq Registered
    BY <2>1 DEF ListInv
  <2>3. Cardinality(Listed(deviceList.items)) <= Cardinality(Registered)
    BY <2>2, FewerListed
  <2>4. Cardinality(Registered) <= Cardinality(Registered)
    BY RegisteredFinite
  <2> QED
    BY <1>1, <2>1, <2>2, <2>3, <2>4 DEF ListInv, Listed
<1>4. CASE listArray
  <2>1. /\ pc = "array" /\ pc' = "respond"
        /\ response'.items = IF Registered = {} THEN EmptyList ELSE deviceList.items
        /\ response'.count = deviceList.devCount
    BY <1>4 DEF listArray, Respond, TypeOK
  <2>2. /\ Listed(deviceList.items) \subseteq Registered
        /\ Cardinality(Listed(deviceList.items)) <= deviceList.devCount
        /\ deviceList.devCount <= Cardinality(Registered)
    BY <2>1 DEF ListInv
  <2>3. Listed(EmptyList) = {}
    BY DEF Listed, EmptyList
  <2>4. Registered = {} => Listed(deviceList.items) = Listed(EmptyList)
    BY <2>2, <2>3
  <2>5. Listed(response'.items) = Listed(deviceList.items)
    BY <2>1, <2>4
  <2> QED
    BY <1>1, <2>1, <2>2, <2>5 DEF ListInv, Listed
<1> QED
  BY <1>2, <1>3, <1>4

\* The other steps leave the list alone, or are far from a list.
Elsewhere ==
  /\ UNCHANGED devices
  /\ \/ UNCHANGED <<pc, deviceList, response>>
     \/ pc' \notin {"count", "array"} /\ (pc' = "respond" => response'.kind # "devices")

\* So it is with every step but insertions, the end of the process and those of
\* listDevices().
LEMMA ListElsewhere ==
  ASSUME TypeOK, [Next]_vars, ~Crash, ~(\E p \in Port, d \in Device : Register(p, d)),
         ~(listFill \/ listCount \/ listArray)
  PROVE  Elsewhere
<1> USE DEF Elsewhere
<1>1. ASSUME NEW c \in Client, requestHandler(c) PROVE Elsewhere
  <2>1. /\ UNCHANGED devices
        /\ pc' \in {"list", "required", "stats", "respond"}
        /\ pc' = "respond" => response'.kind # "devices"
    BY <1>1 DEF requestHandler, Branch, Direct, Reply, registryVars
  <2> QED
    BY <2>1
<1>2. CASE required \/ findDeviceById \/ askDevice \/ statsUnlock
  <2>1. UNCHANGED devices
    BY <1>2 DEF required, findDeviceById, askDevice, statsUnlock, Unlock, Directory!Unlock,
       registryVars
  <2>2. pc' \in {"respond", "find", "lock"}
    BY <1>2 DEF required, findDeviceById, askDevice, Answer, statsUnlock, Respond
  <2>3. pc' = "respond" => response'.kind # "devices"
    <3>1. CASE required \/ findDeviceById
      <4>1. CASE required
        BY <3>1, <4>1 DEF required, Respond, Reply
      <4>2. CASE findDeviceById
        <5>1. pc' = "respond" => response' = Reply("not found")
          BY <4>2, Zenon DEF findDeviceById, Respond
        <5>2. Reply("not found").kind = "not found"
          BY DEF Reply
        <5> QED
          BY <5>1, <5>2
      <4> QED
        BY <3>1, <4>1, <4>2
    <3>2. CASE askDevice
      BY <3>2 DEF askDevice, Answer, Respond, Reply, Outcome
    <3>3. CASE statsUnlock
      BY <3>3 DEF statsUnlock, Respond, Reply
    <3> QED
      BY <1>2, <3>1, <3>2, <3>3
  <2> QED
    BY <2>1, <2>2, <2>3
<1>3. CASE lockForDevice \/ statsLock \/ sendResponse
  <2>1. UNCHANGED devices /\ pc' \in {"ask", "statsQuery", "recv"}
    BY <1>3 DEF lockForDevice, statsLock, sendResponse, Lock, Directory!Lock, registryVars
  <2> QED
    BY <2>1
<1>4. ASSUME UNCHANGED vars \/ Clients \/ statsQuery \/ \E c \in Client : receiveUnparsable(c)
      PROVE  UNCHANGED <<devices, pc, deviceList, response>>
  BY <1>4 DEF vars, serverVars, registryVars, clientVars, localVars, Clients, SendRequest, Resend,
              statsQuery, receiveUnparsable
<1> QED
  BY <1>1, <1>2, <1>3, <1>4 DEF Next, Receiving, Handling

\* Every step keeps the lists within the registry.
LEMMA ListStep == TypeOK /\ ListInv /\ [Next]_vars => ListInv'
<1> SUFFICES ASSUME TypeOK, ListInv, [Next]_vars PROVE ListInv'
  OBVIOUS
<1>1. CASE \E p \in Port, d \in Device : Register(p, d)
  BY <1>1, ListRegister
<1>2. CASE listFill \/ listCount \/ listArray
  BY <1>2, ListHandling
<1>3. CASE Crash
  <2>1. pc' = "recv"
    BY <1>3 DEF Crash, ServerRestarted
  <2> QED
    BY <2>1 DEF ListInv
<1>4. CASE Elsewhere
  BY <1>4 DEF Elsewhere, ListInv, Listed, Registered
<1> QED
  BY <1>1, <1>2, <1>3, <1>4, ListElsewhere

\* A response to getDevices lists registered devices, each once, and its
\* devCount is between the length of the list and the number of devices by then,
\* although it is read without the mutex (ListConsistent).
THEOREM ListsConsistent == Spec => []ListConsistent
<1>1. Init => ListInv
  BY DEF Init, ListInv
<1>2. TypeOK /\ ListInv /\ [Next]_vars => ListInv'
  BY ListStep
<1>3. TypeOK /\ ListInv => ListConsistent
  <2> SUFFICES ASSUME TypeOK, ListInv, pc = "respond", response.kind = "devices"
               PROVE  \A p \in Listed(response.items) : response.items[p] = 1
    BY DEF ListInv, ListConsistent, Listed
  <2>1. \A p \in Port : response.items[p] \in {0, 1}
    BY DEF TypeOK, Lists
  <2> QED
    BY <2>1 DEF Listed
<1> QED
  BY <1>1, <1>2, <1>3, TypeCorrect, PTL DEF Spec

-----------------------------------------------------------------------------
(***************************************************************************)
(* The list of devices that is null: what can be said of it all the same.  *)
(***************************************************************************)
\* A response with null in place of the list has no entry in it, and there is a
\* device by now: who has no uThing never gets a null value (ubridge.cpp:122).
NullOnlyInRace ==
  pc = "respond" /\ response.kind = "devices" /\ response.isNull
     => Registered # {} /\ \A p \in Port : response.items[p] = 0

\* Between the loop and the response the list is null exactly if it is empty.
NullInv ==
  /\ pc \in {"count", "array"} /\ deviceList.isNull => \A p \in Port : deviceList.items[p] = 0
  /\ NullOnlyInRace

\* Every step keeps that.
LEMMA NullStep == TypeOK /\ NullInv /\ [Next]_vars => NullInv'
<1> SUFFICES ASSUME TypeOK, NullInv, [Next]_vars PROVE NullInv'
  OBVIOUS
<1> USE DEF NullInv, NullOnlyInRace
<1>1. ASSUME NEW p \in Port, NEW d \in Device, Register(p, d) PROVE NullInv'
  <2>1. UNCHANGED <<pc, deviceList, response>> /\ devices' = [devices EXCEPT ![p] = d]
    BY <1>1 DEF Register, InsertionSeen, Directory!Register
  <2>2. p \in Registered'
    BY <2>1, NoValuesAssumption DEF TypeOK, Registered
  <2> QED
    BY <2>1, <2>2
<1>2. CASE listFill
  <2>1. /\ pc' = "count" /\ deviceList'.items = Filled
        /\ deviceList'.isNull = (Registered = {})
    BY <1>2 DEF listFill, TypeOK
  <2> QED
    BY <2>1 DEF Filled
<1>3. CASE listCount
  <2>1. /\ pc = "count" /\ pc' = "array"
        /\ deviceList'.items = deviceList.items /\ deviceList'.isNull = deviceList.isNull
    BY <1>3 DEF listCount, TypeOK
  <2> QED
    BY <2>1
<1>4. CASE listArray
  <2>1. /\ pc = "array" /\ pc' = "respond" /\ Registered' = Registered
        /\ response'.items = deviceList'.items /\ response'.isNull = deviceList'.isNull
    BY <1>4 DEF listArray, Respond, registryVars, Registered
  <2>2. deviceList' = IF Registered = {} THEN [deviceList EXCEPT !.items = EmptyList, !.isNull = FALSE]
                      ELSE deviceList
    BY <1>4 DEF listArray
  <2>3. Registered = {} => ~response'.isNull
    BY <2>1, <2>2 DEF TypeOK
  <2>4. Registered # {} => response'.items = deviceList.items /\ response'.isNull = deviceList.isNull
    BY <2>1, <2>2
  <2> QED
    BY <2>1, <2>3, <2>4
<1>5. CASE Crash
  BY <1>5 DEF Crash, ServerRestarted
<1>6. CASE Elsewhere
  BY <1>6 DEF Elsewhere, Registered
<1> QED
  BY <1>1, <1>2, <1>3, <1>4, <1>5, <1>6, ListElsewhere

\* The list is null only when the first device was registered while it was made.
THEOREM NullIsRace == Spec => []NullOnlyInRace
<1>1. Init => NullInv
  BY DEF Init, NullInv, NullOnlyInRace
<1>2. NullInv => NullOnlyInRace
  BY DEF NullInv
<1> QED
  BY <1>1, <1>2, NullStep, TypeCorrect, PTL DEF Spec

-----------------------------------------------------------------------------
(***************************************************************************)
(* How far the receive thread is from its response.  That it gets there is *)
(* a matter of fairness; that it cannot be held up for ever by entries     *)
(* inserted meanwhile is not.                                              *)
(***************************************************************************)
\* Steps left for the request; a device that is asked for its statistics is one.
StepsLeft ==
  CASE pc = "recv"       -> 0
    [] pc = "respond"    -> 1
    [] pc \in {"ask", "array"}  -> 2
    [] pc \in {"lock", "count"} -> 3
    [] pc \in {"find", "list"}  -> 4
    [] pc = "required"   -> 5
    [] pc = "statsQuery" -> 2 + Cardinality(toQuery)
    [] pc = "stats"      -> 3 + Cardinality(Port)

\* Each step of the handler brings it closer to its response, and nothing but the
\* next request takes it back: with n ports a request is at most n + 3 steps or
\* five, whatever devices are registered and however the process ends.
HandlingAdvances ==
  [][pc # "recv" => IF Handling THEN StepsLeft' < StepsLeft
                    ELSE StepsLeft' <= StepsLeft]_vars

\* What is left of a request is a number, and it is nothing in "recv" only.
LEMMA StepsLeftTyped ==
  ASSUME TypeOK
  PROVE  /\ StepsLeft \in Nat /\ (pc # "recv" => StepsLeft > 0)
         /\ IsFiniteSet(toQuery) /\ Cardinality(toQuery) \in Nat /\ Cardinality(Port) \in Nat
<1>1. IsFiniteSet(toQuery) /\ Cardinality(toQuery) \in Nat /\ Cardinality(Port) \in Nat
  BY RegisteredFinite, FS_Subset, FS_CardinalityType DEF TypeOK
<1> QED
  BY <1>1 DEF StepsLeft, TypeOK, Pcs

\* A step of the handler.
LEMMA HandlingStep ==
  ASSUME TypeOK, Handling
  PROVE  StepsLeft' < StepsLeft
<1>1. /\ IsFiniteSet(toQuery) /\ Cardinality(toQuery) \in Nat /\ Cardinality(Port) \in Nat
      /\ StepsLeft \in Nat
  BY StepsLeftTyped
<1>2. CASE statsLock
  <2>1. Registered \in SUBSET Port
    BY DEF Registered
  <2>2. Cardinality(Registered) <= Cardinality(Port) /\ Cardinality(Registered) \in Nat
    BY <2>1, RegisteredFinite, FS_Subset
  <2>3. StepsLeft = 3 + Cardinality(Port)
    BY <1>2 DEF statsLock, StepsLeft
  <2>4. pc' = "statsQuery" /\ toQuery' = Registered
    BY <1>2 DEF statsLock, Lock
  <2>5. StepsLeft' = 2 + Cardinality(Registered)
    BY <2>4 DEF StepsLeft
  <2> QED
    BY <1>1, <2>2, <2>3, <2>5
<1>3. CASE statsQuery
  <2>1. First(toQuery) \in toQuery
    <3>1. toQuery \in SUBSET Port /\ toQuery # {}
      BY <1>3 DEF statsQuery, TypeOK, Registered
    <3> QED
      BY <3>1, FirstIsElement
  <2>2. Cardinality(toQuery') = Cardinality(toQuery) - 1
    BY <1>1, <1>3, <2>1, FS_RemoveElement DEF statsQuery
  <2>3. pc = "statsQuery" /\ pc' = "statsQuery"
    BY <1>3 DEF statsQuery
  <2>4. StepsLeft' = 2 + Cardinality(toQuery') /\ StepsLeft = 2 + Cardinality(toQuery)
    BY <2>3 DEF StepsLeft
  <2> QED
    BY <1>1, <2>2, <2>4
<1>4. CASE statsUnlock
  <2>1. pc = "statsQuery" /\ pc' = "respond"
    BY <1>4 DEF statsUnlock, Respond
  <2> QED
    BY <1>1, <2>1 DEF StepsLeft
<1>5. CASE listFill \/ listCount \/ listArray
  BY <1>5 DEF listFill, listCount, listArray, Respond, StepsLeft
<1>6. CASE required \/ lockForDevice \/ askDevice \/ sendResponse
  BY <1>6 DEF required, lockForDevice, askDevice, Answer, sendResponse, Respond, Lock, StepsLeft
<1>7. CASE findDeviceById
  <2>1. pc = "find" /\ pc' \in {"respond", "lock"}
    BY <1>7 DEF findDeviceById, Respond
  <2> QED
    BY <2>1 DEF StepsLeft
<1> QED
  BY <1>2, <1>3, <1>4, <1>5, <1>6, <1>7 DEF Handling

\* A request is at most as many steps as StepsLeft says when it was received, for
\* any clients, requests, ports and devices.
THEOREM HandlingEnds == Spec => HandlingAdvances
<1> DEFINE Advance == pc # "recv" => IF Handling THEN StepsLeft' < StepsLeft
                                     ELSE StepsLeft' <= StepsLeft
<1>1. TypeOK /\ [Next]_vars => Advance
  <2> SUFFICES ASSUME TypeOK, [Next]_vars, pc # "recv", ~Handling
               PROVE  StepsLeft' <= StepsLeft
    BY HandlingStep
  <2>1. UNCHANGED <<pc, toQuery>> \/ pc' = "recv"
    <3>1. ASSUME UNCHANGED vars \/ Clients \/ \E p \in Port, d \in Device : Register(p, d)
          PROVE  UNCHANGED <<pc, toQuery>>
      BY <3>1 DEF vars, serverVars, localVars, Clients, SendRequest, Resend, Register, InsertionSeen
    <3>2. ~Receiving
      BY DEF Receiving, receiveUnparsable, requestHandler
    <3>3. ASSUME Crash PROVE pc' = "recv"
      BY <3>3 DEF Crash, ServerRestarted
    <3> QED
      BY <3>1, <3>2, <3>3 DEF Next
  <2>2. UNCHANGED <<pc, toQuery>> => StepsLeft' = StepsLeft
    BY DEF StepsLeft
  <2>3. pc' = "recv" => StepsLeft' = 0
    BY DEF StepsLeft
  <2> QED
    BY <2>1, <2>2, <2>3, StepsLeftTyped
<1>2. TypeOK /\ [Next]_vars => [Advance]_vars
  BY <1>1
<1> QED
  BY <1>2, TypeCorrect, PTL DEF Spec, HandlingAdvances

=============================================================================
