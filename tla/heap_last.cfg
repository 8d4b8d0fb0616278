SPECIFICATION CallerSpec
CONSTANTS
  Page = 8
  VM_KERN_HEAP_START = 8
  VM_HEAP_INDEX_SIZE = 8
  VM_KERN_HEAP_INITIAL_SIZE = 32
  VM_HEAP_MIN_SIZE = 16
  HeapMax = 56
  WordModulus = 1024
  Sizes = {1, 6}
  Flags = {{}, {"M_ALIGNED"}, {"M_ZERO"}}
  MaxLive = 4
  Liberties = {}
INVARIANT Freeable
CHECK_DEADLOCK FALSE
