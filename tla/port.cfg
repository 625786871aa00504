\* Three measurements, two queries, and batches of two lines.
\* An unplugged device and a request thread at its bound leave nothing to do.
CHECK_DEADLOCK FALSE
SPECIFICATION Spec
CONSTANTS
  BatchSize = 2
  MaxMeasurements = 3
  MaxQueries = 2
INVARIANTS
  TypeOK
  QuerySpoilsOneLine
  QuietPortLossless
PROPERTIES
  ImplementsExchange
  QueryReturns
  RelayEnds
  PortDrains
