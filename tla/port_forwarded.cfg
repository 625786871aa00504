\* One command to a device that measures nothing meanwhile.
\* An unplugged device and a request thread at its bound leave nothing to do.
CHECK_DEADLOCK FALSE
SPECIFICATION Spec
CONSTANTS
  BatchSize = 2
  MaxMeasurements = 0
  MaxQueries = 1
INVARIANT ReplyNotForwarded
