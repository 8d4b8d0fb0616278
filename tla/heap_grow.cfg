SPECIFICATION CallerSpec
CONSTANTS
  Page = 8
  VM_KERN_HEAP_START = 8
  VM_HEAP_INDEX_SIZE = 8
  VM_KERN_HEAP_INITIAL_SIZE = 48
  VM_HEAP_MIN_SIZE = 16
  HeapMax = 64
  WordModulus = 1024
  Sizes = {1, 6}
  Flags = {{"M_ZERO"}}
  MaxLive = 4
  Liberties = {"growth"}
INVARIANT LiveDisjoint
CHECK_DEADLOCK FALSE
