SPECIFICATION Spec
CONSTANTS
  t1 = t1
  t2 = t2
  Threads = {t1, t2}
  Programs <- MixedPrograms
  WordModulus = 32
  MON_WIDTH = 3
  MON_HEIGHT = 2
  TabStop = 2
  ByteModulus = 8
  BufLen = 9
  Header <- MCHeader
  Footer <- MCFooter
INVARIANT PrintkWhole
CHECK_DEADLOCK FALSE
