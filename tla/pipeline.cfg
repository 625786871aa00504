\* Two channels and a consumer of one of them; any number of starts and ends of
\* the bridge.  The bound of the queue wraps at the third line after a start, which
\* is dropped; of four lines one comes after it.
SPECIFICATION PipelineSpec
CONSTANTS
  voc2 = voc2
  voc3 = voc3
  mnl = mnl
  all = all
  one = one
  Char <- MCChar
  Channel = {voc2, mnl}
  NameOf <- MCNameOf
  Text <- MCText
  Consumer = {one}
  Asked <- MCAsked
  Files <- MCFiles
  Depth = 2
  MaxLines = 4
  DefaultMax = 2
  ConfiguredMax = 1
  SizeMod = 4
INVARIANTS
  PipelineTypeOK
  MessagesWhole
  LinesAccounted
PROPERTIES
  ImplementsFeed
  EachLineArrives
  ConsumerServed
