SPECIFICATION Spec
CONSTANTS
  Main = m
  Threads = {m, a, b, c}
  Creators = {m, a}
  Nodes = {n1, n2, n3, n4}
  NULL = NULL
INVARIANT UniqueIds
