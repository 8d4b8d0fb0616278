SPECIFICATION RemovalSpec
CONSTANTS
  Main = m
  Threads = {m, a, b, c}
  Creators = {m}
  Removers = {m}
  Targets = {a, b, c}
  Nodes = {n1, n2, n3, n4}
  NULL = NULL
SYMMETRY Symmetry
INVARIANTS
  RemovalKeepsList
  UniqueIds
  NoDanglingNode
  NotReadyNeverRuns
  RemovalInvariant
