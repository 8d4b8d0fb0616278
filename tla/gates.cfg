SPECIFICATION InterruptSpec
CONSTANTS
  Sources = {0, 1, 14}
  Exceptions = {3, 14}
  Freqs = {20}
INVARIANT NumberIsVector
CHECK_DEADLOCK FALSE
