SPECIFICATION CarefulSpec
CONSTANTS
  Page = 8
  VM_KERN_HEAP_START = 8
  VM_HEAP_INDEX_SIZE = 8
  VM_KERN_HEAP_INITIAL_SIZE = 40
  VM_HEAP_MIN_SIZE = 16
  HeapMax = 56
  WordModulus = 1024
  Sizes = {1, 6}
  Flags = {{}}
  MaxLive = 2
  Threads = {t1, t2}
SYMMETRY Symmetry
INVARIANT NewlyAllocated
CHECK_DEADLOCK FALSE
