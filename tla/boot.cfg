SPECIFICATION BootSpec
CONSTANTS
  Page = 8
  PagesPerTable = 8
  WordBits = 4
  nframes = 18
  KernelEnds = {1, 7, 8, 9, 10, 13, 14, 15, 16, 17, 22, 23, 24, 31, 32}
  BitsetSize = 3
  DirectorySize = 8
  HeapSize = 2
  FirstHeapPage = 24
  HeapPages = 3
  MinHeapPages = 1
  MaxHeapPages = 14
  Sources = {0, 1, 3, 5, 10}
  Exceptions = {0, 1, 2, 3, 4, 5, 6, 7, 8, 9, 10, 11, 12, 13, 14, 15,
                16, 17, 18, 19, 20, 21, 22, 23, 24, 25, 26, 27, 28, 29, 30, 31}
  Freqs = {20, 50, 1000}
INVARIANTS
  BootTypeOK
  IdentityMapped
  NoSharedFrame
  FramesAccounted
  ServiceEnds
  OnlyMisledAstray
  PeriodRight
PROPERTY TickReachesSchedule
CHECK_DEADLOCK FALSE
