------------------------------- MODULE Paging -------------------------------
(***************************************************************************)
(* Frames and pages: init_paging step by step, with the placement          *)
(* allocator it runs on (kmalloc.c before there is a heap), and the frames *)
(* the heap takes and gives back afterwards (paging.c).                    *)
(*                                                                         *)
(* Pages are numbers of virtual pages.  A page of a table that exists has  *)
(* a frame number, 0 standing for none, and a present bit.  Addresses of   *)
(* the placement allocator are physical; the page tables map them to       *)
(* themselves.                                                             *)
(***************************************************************************)
EXTENDS Naturals, FiniteSets

CONSTANTS
  Page,           \* addresses in a page
  PagesPerTable,
  WordBits,       \* frames in a word of the bitset
  nframes,
  KernelEnds,     \* where the kernel image may end (__end)
  BitsetSize,     \* lengths of what init_paging allocates
  DirectorySize,
  HeapSize,
  FirstHeapPage,  \* VM_KERN_HEAP_START
  HeapPages,      \* VM_KERN_HEAP_INITIAL_SIZE
  MinHeapPages,   \* index and VM_HEAP_MIN_SIZE
  MaxHeapPages    \* bound: pages the heap may have

ASSUME PagingAssumption ==
  /\ {Page, PagesPerTable, WordBits, nframes, HeapPages} \subseteq Nat \ {0}
  /\ {BitsetSize, DirectorySize, HeapSize, FirstHeapPage} \subseteq Nat
  /\ KernelEnds \subseteq Nat /\ {MinHeapPages, MaxHeapPages} \subseteq Nat
  /\ MinHeapPages <= HeapPages /\ HeapPages <= MaxHeapPages
  /\ nframes <= FirstHeapPage   \* 16 MB of memory, the heap at 0xC0000000

VARIABLES
  placement_address,
  frames,      \* the frames the bitset marks as used
  tables,      \* indices of the page tables that exist
  p_frame,     \* p_frame of every page that ever had one, by page
  p_present,   \* pages whose present bit is set
  step,        \* where init_paging is; "run" after it
  i,           \* its loop counter, as a page
  heap_end,    \* first page behind the heap
  panic        \* no free frame

vars == <<placement_address, frames, tables, p_frame, p_present, step, i,
          heap_end, panic>>

Pages == 0..(FirstHeapPage + MaxHeapPages - 1)

Init ==
  /\ placement_address \in KernelEnds
  /\ frames = {} /\ tables = {}
  /\ p_frame = [p \in Pages |-> 0]
  /\ p_present = {}
  /\ step = "frames" /\ i = 0
  /\ heap_end = FirstHeapPage + HeapPages
  /\ panic = FALSE

At(s) == ~panic /\ step = s

-----------------------------------------------------------------------------
(* The placement allocator: an aligned block starts on the next page, even *)
(* from a page boundary.                                                   *)
Aligned(a) == IF a \div Page > 0 THEN (a \div Page + 1) * Page ELSE a

(* get_page(p, 1): a missing table is allocated, one page long.            *)
TableOf(p) == p \div PagesPerTable
PlacementWith(p) ==
  IF TableOf(p) \in tables THEN placement_address
                           ELSE Aligned(placement_address) + Page

(* Mutation: the search runs one frame past the last.                      *)
FramesToLast == (0..nframes) \ frames

(* first_frame: the lowest frame whose bit is clear, of those in full      *)
(* words of the bitset.                                                    *)
FreeFrames == (0..((nframes \div WordBits) * WordBits - 1)) \ frames
IsFirst(f) == f \in FreeFrames /\ \A g \in FreeFrames : f <= g

(* set_frame and clear_frame take an address.                              *)
FrameAt(address) == address \div Page

(* Mutation: alloc_frame hands set_frame the number of the frame.          *)
MarkedNumber(f) == FrameAt(f)
(* alloc_frame hands set_frame the address of the frame.                   *)
Marked(f) == FrameAt(f * Page)

(* Mutation: the present bit alone is set.                                 *)
AllocFrameUnmarked(p) ==
  IF p_frame[p] # 0
  THEN UNCHANGED <<frames, p_frame, p_present, panic>>
  ELSE /\ \E f \in FreeFrames : IsFirst(f) /\ p_frame' = [p_frame EXCEPT ![p] = f]
       /\ p_present' = p_present \cup {p}
       /\ UNCHANGED <<frames, panic>>

(* alloc_frame: a page that has a frame keeps it.                          *)
AllocFrame(p) ==
  IF p_frame[p] # 0
  THEN UNCHANGED <<frames, p_frame, p_present, panic>>
  ELSE IF FreeFrames = {}
  THEN panic' = TRUE /\ UNCHANGED <<frames, p_frame, p_present>>
  ELSE /\ \E f \in FreeFrames :
            /\ IsFirst(f)
            /\ frames' = frames \cup {Marked(f)}
            /\ p_frame' = [p_frame EXCEPT ![p] = f]
       /\ p_present' = p_present \cup {p}
       /\ UNCHANGED panic

(* free_frame, for each of these pages: it hands clear_frame the number of *)
(* the frame and leaves the present bit set.                               *)
FreeFramesOf(pages) ==
  /\ frames' = frames \ {FrameAt(p_frame[p]) : p \in {q \in pages : p_frame[q] # 0}}
  /\ p_frame' = [p \in Pages |-> IF p \in pages THEN 0 ELSE p_frame[p]]
  /\ UNCHANGED p_present

-----------------------------------------------------------------------------
(* init_paging                                                             *)

(* Mutation: the frames of the heap are taken before memory is mapped.     *)
AfterHeapFirst(s) ==
  CASE s = "frames" -> "directory" [] s = "directory" -> "heap_tables"
    [] s = "heap_tables" -> "heap" [] s = "heap" -> "heap_frames"
    [] s = "heap_frames" -> "identity" [] s = "identity" -> "run"

(* The order of the statements of init_paging.                             *)
After(s) ==
  CASE s = "frames" -> "directory" [] s = "directory" -> "heap_tables"
    [] s = "heap_tables" -> "heap" [] s = "heap" -> "identity"
    [] s = "identity" -> "heap_frames" [] s = "heap_frames" -> "run"

Proceed ==
  /\ step' = After(step)
  /\ i' = IF After(step) \in {"heap_tables", "heap_frames"} THEN FirstHeapPage ELSE 0

(* kmalloc0, kmalloc0_a: the bitset, the page directory, the heap struct.  *)
AllocBitset ==
  /\ At("frames") /\ Proceed
  /\ placement_address' = placement_address + BitsetSize
  /\ UNCHANGED <<frames, tables, p_frame, p_present, heap_end, panic>>

AllocDirectory ==
  /\ At("directory") /\ Proceed
  /\ placement_address' = Aligned(placement_address) + DirectorySize
  /\ UNCHANGED <<frames, tables, p_frame, p_present, heap_end, panic>>

AllocHeap ==
  /\ At("heap") /\ Proceed
  /\ placement_address' = placement_address + HeapSize
  /\ UNCHANGED <<frames, tables, p_frame, p_present, heap_end, panic>>

InHeap == i < FirstHeapPage + HeapPages
Turn == i' = i + 1 /\ UNCHANGED step

(* The page tables of the heap, before memory is mapped.                   *)
HeapTables ==
  /\ At("heap_tables")
  /\ IF InHeap
     THEN /\ placement_address' = PlacementWith(i)
          /\ tables' = tables \cup {TableOf(i)}
          /\ Turn
     ELSE Proceed /\ UNCHANGED <<placement_address, tables>>
  /\ UNCHANGED <<frames, p_frame, p_present, heap_end, panic>>

(* Memory up to placement_address, which a new table moves in the loop.    *)
IdentityMap ==
  /\ At("identity")
  /\ IF i * Page < placement_address
     THEN /\ placement_address' = PlacementWith(i)
          /\ tables' = tables \cup {TableOf(i)}
          /\ AllocFrame(i)
          /\ Turn
     ELSE Proceed /\ UNCHANGED <<placement_address, tables, frames, p_frame,
                                 p_present, panic>>
  /\ UNCHANGED heap_end

(* The frames of the heap; then paging is enabled and the heap set up.     *)
HeapFrames ==
  /\ At("heap_frames")
  /\ IF InHeap
     THEN AllocFrame(i) /\ Turn
     ELSE Proceed /\ UNCHANGED <<frames, p_frame, p_present, panic>>
  /\ UNCHANGED <<placement_address, tables, heap_end>>

-----------------------------------------------------------------------------
(* The heap grows (expand: get_page(..., 1) and alloc_frame; its tables    *)
(* come from the heap itself) and shrinks (contract: free_frame).  Here it *)
(* shrinks to its minimum size; Heap has the other ends contract may leave *)
(* it with.  The loop of contract stops in front of the lowest page that   *)
(* the heap gives up: that page keeps its frame.                           *)

Expand ==
  /\ At("run") /\ heap_end < FirstHeapPage + MaxHeapPages
  /\ AllocFrame(heap_end)
  /\ tables' = tables \cup {TableOf(heap_end)}
  /\ heap_end' = heap_end + 1
  /\ UNCHANGED <<placement_address, step, i>>

Contract ==
  /\ At("run") /\ heap_end > FirstHeapPage + MinHeapPages
  /\ heap_end' = FirstHeapPage + MinHeapPages
  /\ FreeFramesOf((heap_end' + 1)..(heap_end - 1))
  /\ UNCHANGED <<placement_address, tables, step, i, panic>>

Boot ==
  \/ AllocBitset \/ AllocDirectory \/ HeapTables
  \/ AllocHeap \/ IdentityMap \/ HeapFrames

Next == Boot \/ Expand \/ Contract

Spec == Init /\ [][Next]_vars

(* The kernel as main() runs it: its heap never contracts.                 *)
GrowingSpec == Init /\ [][Boot \/ Expand]_vars

-----------------------------------------------------------------------------
TypeOK ==
  /\ placement_address \in Nat /\ i \in Nat /\ heap_end \in Nat
  /\ frames \subseteq 0..(nframes - 1)
  /\ p_frame \in [Pages -> 0..(nframes - 1)]
  /\ p_present \subseteq Pages
  /\ \A p \in p_present : TableOf(p) \in tables
  /\ panic \in BOOLEAN

(* When paging is on, every address the placement allocator has handed out *)
(* maps to itself: the directory and the tables stay reachable             *)
(* (init_paging: "Identity map physical memory from 0x0 to the end of used *)
(* memory").                                                               *)
IdentityMapped ==
  step = "run" =>
    \A p \in Pages : p * Page < placement_address => p \in p_present /\ p_frame[p] = p

(* No two pages share a frame (alloc_frame, first_frame).                  *)
NoSharedFrame ==
  \A p, q \in p_present : p # q => p_frame[p] # p_frame[q]

(* The bitset marks exactly the frames that pages have: none is handed out *)
(* twice and none is lost (alloc_frame, free_frame).                       *)
FramesAccounted == frames = {p_frame[p] : p \in p_present}
=============================================================================
