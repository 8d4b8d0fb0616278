SPECIFICATION InterruptSpec
CONSTANTS
  Sources = {0}
  Exceptions = {14}
  Freqs = {20}
INVARIANT PageFaultHandled
