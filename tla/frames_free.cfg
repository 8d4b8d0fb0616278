SPECIFICATION Spec
CONSTANTS
  Page = 8
  PagesPerTable = 8
  WordBits = 4
  nframes = 18
  KernelEnds = {1, 7, 8, 9, 10, 13, 14, 15, 16, 17, 22, 23, 24, 31, 32}
  BitsetSize = 3
  DirectorySize = 8
  HeapSize = 2
  FirstHeapPage = 24
  HeapPages = 3
  MinHeapPages = 1
  MaxHeapPages = 14
INVARIANTS
  FramesAccounted
CHECK_DEADLOCK FALSE
