SPECIFICATION OrderedFairSpec
CONSTANTS
  Main = m
  Threads = {m, a, b, c}
  Creators = {m, a}
  Nodes = {1, 2, 3, 4}
  NULL = NULL
PROPERTIES
  EveryThreadRuns
  CreationCompletes
  RoundRobinSpec
