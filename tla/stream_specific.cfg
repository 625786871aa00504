\* Two channels whose names differ in the last character; one is asked for.
SPECIFICATION Spec
CONSTANTS
  voc2 = voc2
  voc3 = voc3
  mnl = mnl
  all = all
  one = one
  Char <- MCChar
  Channel = {voc2, voc3}
  NameOf <- MCNameOf
  Text <- MCText
  Consumer = {one}
  Asked <- MCAsked
  Files <- MCDefaultsOnly
  Depth = 1
  MaxLines = 1
INVARIANT OnlyTheTopicAsked
