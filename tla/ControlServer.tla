--------------------------- MODULE ControlServer ---------------------------
(***************************************************************************)
(* The REQ/REP control interface: ReqRepServer (reqRepServer.cpp), the     *)
(* request handler of Bridge (ubridge.cpp) and the clients that wait for   *)
(* their answers (ubridgeClient.h, nngcat).                                *)
(*                                                                         *)
(* One thread receives a request, handles it and sends the response.  The  *)
(* monitor thread inserts devices meanwhile: the registry is the abstract  *)
(* one of module Registry, which DeviceRegistry implements.                *)
(***************************************************************************)
EXTENDS Naturals, Sequences, FiniteSets

CONSTANTS
  PortSeq,       \* the ports in the order of the keys of std::map
  Device,
  NoDevice,
  NoPort,        \* the empty string that findDeviceById() returns
  ChannelOf,     \* the channelID of each device
  NoChannel,     \* a request without channelID
  Client,
  Asks,          \* what each client asks: [request, channelID]; a request
                 \* is also "unknown" (as is setConfig without a key that
                 \* parseRequest() knows) or "unparsable"
  MaxCrashes,    \* bound: times the process is terminated and restarted
  MaxResends     \* bound: times the timer of a REQ socket fires

Port == {PortSeq[i] : i \in 1 .. Len(PortSeq)}

\* The requests that parseRequest() knows.
Names == {"ping", "setConfig", "getConfig", "getDevices", "queryDevice",
          "sendCommand", "getStatistics"}

ASSUME PortsAssumption == PortSeq \in Seq(Port)
Requests == UNION {Asks[c] : c \in Client}

ASSUME RequestsAssumption ==
  /\ \A c \in Client : Asks[c] # {}
  /\ \A r \in Requests : r.request \in Names \cup {"unknown", "unparsable"}
ASSUME NoValuesAssumption == NoDevice \notin Device /\ NoPort \notin Port
ASSUME BoundsAssumption == MaxCrashes \in Nat /\ MaxResends \in Nat

VARIABLES
  devices,        \* Bridge::devices
  mutex_devices,  \* "free" or "request"
  client,         \* "idle", or "waiting" for the answer to its last request
  asked,          \* the last request of each client
  answer,         \* what the last response to each client was
  late,           \* on the way from each client: copies of earlier requests,
  copies,         \* ... and, behind them, copies of the last one
  sendings,       \* history: how often each client's last request was sent
  resends,        \* times the timers have fired
  pc,             \* where the receive thread is
  current,        \* the client whose request it handled last
  message,        \* the request it handles
  fresh,          \* is that a copy of the last request of the client?
  requestType,    \* Bridge::requestType
  deviceList,     \* Bridge::deviceList
  portID,         \* the port that findDeviceById() returned, until it was asked
  inserted,       \* history: ports inserted during this findDeviceById()
  toQuery,        \* entries getStats() has still to query
  response,       \* the response to send
  executed,       \* history: how often each client's last request reached a device
  crashes

registryVars == <<devices, mutex_devices>>
pipeVars     == <<late, copies, sendings, resends>>
clientVars   == <<client, asked, answer, pipeVars>>
requestVars  == <<current, message, fresh, requestType>>
localVars    == <<deviceList, portID, inserted, toQuery, response, executed>>
serverVars   == <<crashes, clientVars, pc, requestVars, localVars>>
vars == <<registryVars, serverVars>>

Directory == INSTANCE Registry

Registered == {p \in Port : devices[p] # NoDevice}

\* A list says how often it has the entry of each port.
EmptyList == [p \in Port |-> 0]

Reply(k) == [kind |-> k, items |-> EmptyList, isNull |-> FALSE, count |-> 0]
NoReply  == Reply("none")

\* Between two requests there is none.
NoRequest == [request |-> "none", channelID |-> NoChannel]

-----------------------------------------------------------------------------
Init ==
  /\ Directory!Init
  /\ client = [c \in Client |-> "idle"]
  /\ asked = [c \in Client |-> CHOOSE r \in Asks[c] : TRUE]
  /\ answer = [c \in Client |-> "none"]
  /\ late = [c \in Client |-> <<>>]
  /\ copies = [c \in Client |-> 0]
  /\ sendings = [c \in Client |-> 0]
  /\ resends = 0
  /\ pc = "recv"
  /\ current \in Client
  /\ message = NoRequest
  /\ fresh = FALSE
  /\ requestType = "unrecognized"
  /\ deviceList = [items |-> EmptyList, isNull |-> TRUE, devCount |-> 0]
  /\ portID = NoPort
  /\ inserted = {}
  /\ toQuery = {}
  /\ response = NoReply
  /\ executed = [c \in Client |-> 0]
  /\ crashes = 0

-----------------------------------------------------------------------------
(* Around the server: clients, the monitor thread, devices, the process. *)

\* All that is on the way from a client, before it sends its next request.
UnderWay(c) == late[c] \o [i \in 1 .. copies[c] |-> asked[c]]

\* request() of the client: send, then block until the reply comes.  Copies of
\* the request before, sent by the timer, may still be on their way.
SendRequest(c, r) ==
  /\ client[c] = "idle"
  /\ client' = [client EXCEPT ![c] = "waiting"]
  /\ asked' = [asked EXCEPT ![c] = r]
  /\ answer' = [answer EXCEPT ![c] = "none"]
  /\ late' = [late EXCEPT ![c] = UnderWay(c)]
  /\ copies' = [copies EXCEPT ![c] = 1]
  /\ sendings' = [sendings EXCEPT ![c] = 1]
  /\ executed' = [executed EXCEPT ![c] = 0]
  /\ fresh' = (fresh /\ current # c)
  /\ UNCHANGED <<registryVars, crashes, resends, pc, current, message, requestType,
                 deviceList, portID, inserted, toQuery, response>>

\* The timer of the REQ socket sends the request again as long as no reply has
\* come, wherever the copies before are: waiting behind the request of another
\* client, being handled, answered or dropped.
Resend(c) ==
  /\ client[c] = "waiting"
  /\ resends < MaxResends
  /\ resends' = resends + 1
  /\ copies' = [copies EXCEPT ![c] = @ + 1]
  /\ sendings' = [sendings EXCEPT ![c] = @ + 1]
  /\ UNCHANGED <<registryVars, crashes, client, asked, answer, late, pc,
                 requestVars, localVars>>

\* The monitor thread inserts an entry, perhaps while the map is traversed.
InsertionSeen(p) ==
  /\ inserted' = IF pc = "find" THEN inserted \cup {p} ELSE inserted
  /\ UNCHANGED <<crashes, clientVars, pc, requestVars,
                 deviceList, portID, toQuery, response, executed>>

Register(p, d) == Directory!Register(p, d) /\ InsertionSeen(p)

\* The process is terminated and started again.  What was on its way is lost with
\* the connections, and each REQ socket that waits sends its request again.
ServerRestarted ==
  /\ crashes < MaxCrashes
  /\ crashes' = crashes + 1
  /\ late' = [c \in Client |-> <<>>]
  /\ copies' = [c \in Client |-> IF client[c] = "waiting" THEN 1 ELSE 0]
  /\ sendings' = [c \in Client |-> sendings[c] + copies'[c]]
  /\ message' = NoRequest
  /\ fresh' = FALSE
  /\ pc' = "recv"
  /\ requestType' = "unrecognized"
  /\ deviceList' = [items |-> EmptyList, isNull |-> TRUE, devCount |-> 0]
  /\ portID' = NoPort
  /\ inserted' = {}
  /\ toQuery' = {}
  /\ response' = NoReply
  /\ UNCHANGED <<client, asked, answer, resends, current, executed>>

Crash == Directory!Crash /\ ServerRestarted

-----------------------------------------------------------------------------
(* Receiving and parsing. *)

\* Bug the checks must find: the member of the last request not reset.
TypeKept(r) == IF r.request \in Names THEN r.request ELSE requestType

\* The handler resets requestType; parseRequest() sets it for the requests it
\* knows.
TypeOf(r) == IF r.request \in Names THEN r.request ELSE "unrecognized"

\* Where prepareResponse() goes on for each type of request.
Branch(t) ==
  CASE t = "getDevices"                     -> "list"
    [] t \in {"queryDevice", "sendCommand"} -> "required"
    [] t = "getStatistics"                  -> "stats"
    [] OTHER                                -> "respond"

Direct(t) ==
  CASE t = "ping"      -> Reply("pong")
    [] t = "getConfig" -> Reply("config")
    [] t = "setConfig" -> Reply("not implemented")
    [] OTHER           -> Reply("not valid")

\* The messages of a client come in the order in which they were sent.
Coming(c) == IF late[c] # <<>> THEN Head(late[c]) ELSE asked[c]

Received(c) ==
  /\ \/ /\ late[c] # <<>>
        /\ late' = [late EXCEPT ![c] = Tail(@)] /\ UNCHANGED copies
     \/ /\ late[c] = <<>> /\ copies[c] > 0
        /\ copies' = [copies EXCEPT ![c] = @ - 1] /\ UNCHANGED late
  /\ UNCHANGED <<client, asked, answer, sendings, resends>>

\* A request that is no JSON text is dropped: the thread receives again and the
\* REP socket forgets who asked.
receiveUnparsable(c) ==
  /\ pc = "recv"
  /\ Received(c)
  /\ Coming(c).request = "unparsable"
  /\ UNCHANGED <<registryVars, crashes, pc, requestVars, localVars>>

\* recv_msg(), parseMessage(), and requestHandler() up to the branch of
\* prepareResponse().  That setConfig changes the configuration at once is an
\* action of DeviceRegistry, whose monitor uses it; what getConfig shows of it
\* is not modelled.
requestHandler(c) ==
  /\ pc = "recv"
  /\ Received(c)
  /\ Coming(c).request # "unparsable"
  /\ current' = c
  /\ message' = Coming(c)
  /\ fresh' = (late[c] = <<>>)
  /\ requestType' = TypeOf(message')
  /\ pc' = Branch(requestType')
  /\ response' = IF pc' = "respond" THEN Direct(requestType') ELSE NoReply
  /\ UNCHANGED <<registryVars, crashes, deviceList, portID, inserted, toQuery,
                 executed>>

Respond(r) == pc' = "respond" /\ response' = r

\* Bug the checks must find: no answer to a request it does not know.
SentUnlessNotValid ==
  IF fresh /\ client[current] = "waiting" /\ response.kind # "not valid"
  THEN /\ client' = [client EXCEPT ![current] = "idle"]
       /\ answer' = [answer EXCEPT ![current] = response.kind]
  ELSE UNCHANGED <<client, answer>>

\* A reply is to one request.  The REQ socket drops it when it has its answer
\* already, or has sent another request since.
Sent ==
  IF fresh /\ client[current] = "waiting"
  THEN /\ client' = [client EXCEPT ![current] = "idle"]
       /\ answer' = [answer EXCEPT ![current] = response.kind]
  ELSE UNCHANGED <<client, answer>>

\* The REP socket sends to the client whose message it received last.
sendResponse ==
  /\ pc = "respond"
  /\ pc' = "recv"
  /\ Sent
  /\ response' = NoReply
  /\ message' = NoRequest
  /\ fresh' = FALSE
  /\ UNCHANGED <<registryVars, crashes, asked, pipeVars, current, requestType,
                 deviceList, portID, inserted, toQuery, executed>>

-----------------------------------------------------------------------------
(* getDevices. *)

\* Bug the checks must find: the list of the last call not emptied.
FilledKept == [p \in Port |-> deviceList.items[p] + IF p \in Registered THEN 1 ELSE 0]

\* The list is emptied, to null, and each entry pushed back, which makes an
\* array of it.
Filled == [p \in Port |-> IF p \in Registered THEN 1 ELSE 0]

listFill ==
  /\ pc = "list"
  /\ mutex_devices = "free"
  /\ deviceList' = [deviceList EXCEPT !.items = Filled, !.isNull = (Registered = {})]
  /\ pc' = "count"
  /\ UNCHANGED <<registryVars, crashes, clientVars, requestVars,
                 portID, inserted, toQuery, response, executed>>

\* The mutex is free again; size() is read once for devCount ...
listCount ==
  /\ pc = "count"
  /\ deviceList' = [deviceList EXCEPT !.devCount = Cardinality(Registered)]
  /\ pc' = "array"
  /\ UNCHANGED <<registryVars, crashes, clientVars, requestVars,
                 portID, inserted, toQuery, response, executed>>

\* ... and once more to replace null by an empty array.
listArray ==
  /\ pc = "array"
  /\ deviceList' = IF Registered = {}
                   THEN [deviceList EXCEPT !.items = EmptyList, !.isNull = FALSE]
                   ELSE deviceList
  /\ Respond([kind |-> "devices", items |-> deviceList'.items,
              isNull |-> deviceList'.isNull, count |-> deviceList'.devCount])
  /\ UNCHANGED <<registryVars, crashes, clientVars, requestVars,
                 portID, inserted, toQuery, executed>>

-----------------------------------------------------------------------------
(* queryDevice and sendCommand. *)

required ==
  /\ pc = "required"
  /\ \/ message.channelID = NoChannel /\ Respond(Reply("required"))
     \/ message.channelID # NoChannel /\ pc' = "find" /\ UNCHANGED response
  /\ UNCHANGED <<registryVars, crashes, clientVars, requestVars,
                 deviceList, portID, inserted, toQuery, executed>>

\* Bug the checks must find: the comparison of the channelID forgotten.
MatchesAny(p) == TRUE

Matches(p) == ChannelOf[devices[p]] = message.channelID

Position(p) == CHOOSE i \in 1 .. Len(PortSeq) : PortSeq[i] = p

First(ports) ==
  IF ports = {} THEN NoPort
  ELSE CHOOSE p \in ports : \A q \in ports : Position(p) <= Position(q)

\* The ports findDeviceById() can return.  It traverses the map without the
\* mutex.  Undisturbed it returns the first match.  An insertion under the
\* iterator may be seen or not; with three entries or more it may rotate the
\* tree, and the iterator then passes over entries, except the leftmost one.
Found ==
  LET old == {p \in Registered \ inserted : Matches(p)}
  IN  IF inserted = {} \/ First(old) = First(Registered)
      THEN {First(old)}
      ELSE {p \in Registered : Matches(p)}
             \cup (IF old = {} \/ Cardinality(Registered) > 2 THEN {NoPort} ELSE {})

findDeviceById ==
  /\ pc = "find"
  /\ portID' \in Found
  /\ \/ portID' = NoPort /\ Respond(Reply("not found"))
     \/ portID' # NoPort /\ pc' = "lock" /\ UNCHANGED response
  /\ inserted' = {}
  /\ UNCHANGED <<registryVars, crashes, clientVars, requestVars,
                 deviceList, toQuery, executed>>

\* Bug the checks must find: the mutex not held for what follows.
LockBriefly(next) == mutex_devices = "free" /\ UNCHANGED registryVars /\ pc' = next

\* A lock_guard, and its end.
Lock(next) == Directory!Lock /\ pc' = next

\* Bug the checks must find: the entry that was asked erased.
UnlockErasing ==
  /\ mutex_devices' = "free"
  /\ devices' = [p \in Port |-> IF p = portID THEN NoDevice ELSE devices[p]]

Unlock == Directory!Unlock

lockForDevice ==
  /\ pc = "lock"
  /\ Lock("ask")
  /\ UNCHANGED <<crashes, clientVars, requestVars, localVars>>

\* What Uthing::query() returns: the reply, some other line that came first,
\* or the error that stands for any exception, from a device that is gone too.
Outcome == {"reply", "other", "error"}

\* Bug the checks must find: asked once more when that failed.
AnswerOrRetry(o) ==
  IF o = "error" THEN pc' = "lock" /\ UNCHANGED <<response, portID>>
  ELSE /\ Respond(Reply(IF requestType = "sendCommand" THEN "OK" ELSE o))
       /\ portID' = NoPort

\* queryDevice passes on what the device said, sendCommand says OK whatever it
\* was.
Answer(o) ==
  /\ Respond(Reply(IF requestType = "sendCommand" THEN "OK" ELSE o))
  /\ portID' = NoPort

\* devices.at(portID).jquery() under the mutex.
askDevice ==
  /\ pc = "ask"
  /\ Unlock
  /\ \E o \in Outcome : Answer(o)
  /\ executed' = [executed EXCEPT ![current] = IF fresh THEN @ + 1 ELSE @]
  /\ UNCHANGED <<crashes, clientVars, requestVars, deviceList, inserted, toQuery>>

-----------------------------------------------------------------------------
(* getStatistics. *)

statsLock ==
  /\ pc = "stats"
  /\ Lock("statsQuery")
  /\ toQuery' = Registered
  /\ UNCHANGED <<crashes, clientVars, requestVars, deviceList,
                 portID, inserted, response, executed>>

\* One device after the other is asked for its status, under the mutex.
statsQuery ==
  /\ pc = "statsQuery"
  /\ toQuery # {}
  /\ toQuery' = toQuery \ {First(toQuery)}
  /\ UNCHANGED <<registryVars, crashes, clientVars, pc, requestVars,
                 deviceList, portID, inserted, response, executed>>

statsUnlock ==
  /\ pc = "statsQuery"
  /\ toQuery = {}
  /\ Unlock
  /\ Respond([Reply("statistics") EXCEPT !.count = Cardinality(Registered)])
  /\ UNCHANGED <<crashes, clientVars, requestVars, deviceList,
                 portID, inserted, toQuery, executed>>

-----------------------------------------------------------------------------
Handling ==
  \/ listFill \/ listCount \/ listArray
  \/ required \/ findDeviceById \/ lockForDevice \/ askDevice
  \/ statsLock \/ statsQuery \/ statsUnlock
  \/ sendResponse

Receiving == \E c \in Client : receiveUnparsable(c) \/ requestHandler(c)

Clients == \E c \in Client : Resend(c) \/ \E r \in Asks[c] : SendRequest(c, r)

Next ==
  \/ Clients
  \/ \E p \in Port, d \in Device : Register(p, d)
  \/ Crash
  \/ Receiving
  \/ Handling

\* The thread runs; every query ends at its time-out; the socket serves its
\* clients in turn.  The timers need not fire: no message is lost but with the
\* process.
Fairness ==
  /\ WF_vars(Handling)
  /\ \A c \in Client : SF_vars(receiveUnparsable(c) \/ requestHandler(c))

Spec == Init /\ [][Next]_vars /\ Fairness
-----------------------------------------------------------------------------
Pcs == {"recv", "list", "count", "array", "required", "find", "lock", "ask",
        "stats", "statsQuery", "respond"}

Kinds == {"none", "pong", "config", "not implemented", "not valid", "required", "not found",
          "OK", "reply", "other", "error", "devices", "statistics"}
Lists == [Port -> {0, 1}]

\* The variables have their types, and the mutex is held exactly while devices
\* are asked.
TypeOK ==
  /\ devices \in [Port -> Device \cup {NoDevice}]
  /\ mutex_devices = IF pc \in {"ask", "statsQuery"} THEN "request" ELSE "free"
  /\ client \in [Client -> {"idle", "waiting"}]
  /\ asked \in [Client -> Requests]
  /\ answer \in [Client -> Kinds]
  /\ late \in [Client -> Seq(Requests)]
  /\ copies \in [Client -> Nat]
  /\ sendings \in [Client -> Nat]
  /\ resends \in 0 .. MaxResends
  /\ pc \in Pcs
  /\ current \in Client
  /\ message \in Requests \cup {NoRequest}
  /\ fresh \in BOOLEAN
  /\ requestType \in Names \cup {"unrecognized"}
  /\ deviceList \in [items : Lists, isNull : BOOLEAN, devCount : Nat]
  /\ portID \in Port \cup {NoPort}
  /\ inserted \subseteq Port
  /\ toQuery \subseteq Registered
  /\ response \in [kind : Kinds, items : Lists, isNull : BOOLEAN, count : Nat]
  /\ executed \in [Client -> Nat]
  /\ crashes \in 0 .. MaxCrashes

Expected(r) ==
  CASE r.request = "ping"          -> {"pong"}
    [] r.request = "getConfig"     -> {"config"}
    [] r.request = "setConfig"     -> {"not implemented"}
    [] r.request = "getDevices"    -> {"devices"}
    [] r.request = "getStatistics" -> {"statistics"}
    [] r.request = "unknown"       -> {"not valid"}
    [] r.request = "queryDevice" /\ r.channelID # NoChannel ->
         {"not found", "reply", "other", "error"}
    [] r.request = "sendCommand" /\ r.channelID # NoChannel ->
         {"not found", "OK"}
    [] OTHER -> {"required"}

\* Each client gets an answer to its own last request, whatever other clients
\* asked before: the type of a request lives in a member that all share.
AnswerFitsRequest ==
  \A c \in Client : answer[c] # "none" => answer[c] \in Expected(asked[c])

\* A response to getDevices lists devices that are registered, each of them
\* once, and its devCount, read later and without the mutex, is not below the
\* length of the list and not above the number of devices now.
ListConsistent ==
  pc = "respond" /\ response.kind = "devices" =>
     LET listed == {p \in Port : response.items[p] > 0}
     IN  /\ listed \subseteq Registered
         /\ \A p \in listed : response.items[p] = 1
         /\ Cardinality(listed) <= response.count
         /\ response.count <= Cardinality(Registered)

\* When the mutex is taken at last, the port found without it still has an
\* entry with the channelID that was asked for: at() does not throw, and no
\* other device is asked.
FoundEntryStays ==
  pc = "ask" => /\ portID \in Registered
                /\ ChannelOf[devices[portID]] = message.channelID

\* A message reaches its device at most once, whatever the device does: a request
\* can only be carried out again when a REQ socket sent it again, from its timer
\* or after a restart.  Then it can be, also behind the answer to its first copy.
ExecutedOncePerCopy == \A c \in Client : executed[c] <= sendings[c]

\* The request thread inserts nothing and uses the mutex as the registry
\* expects.
ImplementsRegistry == Directory!Spec

\* Every request that can be parsed is answered, whatever the devices do.
RequestAnswered ==
  \A c \in Client :
     client[c] = "waiting" /\ asked[c].request # "unparsable" ~> client[c] = "idle"

-----------------------------------------------------------------------------
(* What the documentation and the comments say and the code does not do. *)

\* ubridge.cpp:122-123: "the client doesn't need to check for a null value".
ListNeverNull ==
  pc = "respond" /\ response.kind = "devices" => ~response.isNull

=============================================================================
