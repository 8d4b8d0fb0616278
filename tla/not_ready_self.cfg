SPECIFICATION RemovalSpec
CONSTANTS
  Main = m
  Threads = {m, a, b}
  Creators = {m}
  Removers = {m}
  Targets = {m, a, b}
  Nodes = {n1, n2, n3}
  NULL = NULL
INVARIANT NotReadyNotQueued
