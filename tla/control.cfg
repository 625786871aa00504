\* Two clients at once, which list, query, command, ask for statistics, or send
\* what is unknown or no JSON; one resend and one restart.
\* Clients whose text is no JSON wait for ever: when all do, nothing is left to do.
CHECK_DEADLOCK FALSE
SPECIFICATION Spec
CONSTANTS
  c1 = c1
  c2 = c2
  p1 = p1
  p2 = p2
  d1 = d1
  d2 = d2
  ch1 = ch1
  ch2 = ch2
  PortSeq <- MCPortSeq
  Device = {d1, d2}
  NoDevice = NoDevice
  NoPort = NoPort
  ChannelOf <- MCChannelOf
  NoChannel = NoChannel
  Client = {c1, c2}
  Asks <- MCAsks
  MaxResends = 1
  MaxCrashes = 1
INVARIANTS
  TypeOK
  AnswerFitsRequest
  ListConsistent
  FoundEntryStays
  ExecutedOncePerCopy
PROPERTIES
  RequestAnswered
