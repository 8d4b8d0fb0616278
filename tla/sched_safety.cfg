SPECIFICATION Spec
CONSTANTS
  Main = m
  Threads = {m, a, b, c}
  Creators = {m, a, b, c}
  Nodes = {n1, n2, n3, n4}
  NULL = NULL
SYMMETRY Symmetry
INVARIANTS
  TypeOK
  ReadyListWellFormed
  NoThreadLost
  ContextsResumable
  IInv
