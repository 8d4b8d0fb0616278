---------------------------- MODULE PagingProofs ----------------------------
(***************************************************************************)
(* What init_paging and a heap that only grows do with frames, for any     *)
(* sizes of pages, tables, words and memory and any end of the kernel.     *)
(***************************************************************************)
EXTENDS Paging, TLAPS

FullWords == (nframes \div WordBits) * WordBits
HeapEnd   == FirstHeapPage + HeapPages

(* A page without a present bit has no frame; with NoSharedFrame and       *)
(* FramesAccounted: frames and present pages are in step.                  *)
FramesInv ==
  /\ \A p \in Pages \ p_present : p_frame[p] = 0
  /\ NoSharedFrame
  /\ FramesAccounted

(* Before memory is mapped no page has a frame.                            *)
TablesInv ==
  /\ step \in {"frames", "directory", "heap_tables", "heap"} => frames = {} /\ p_present = {}
  /\ step = "heap_tables" =>
       FirstHeapPage <= i /\ i <= HeapEnd /\ \A p \in FirstHeapPage..(i - 1) : TableOf(p) \in tables
  /\ step \in {"heap", "identity", "heap_frames"} =>
       \A p \in FirstHeapPage..(HeapEnd - 1) : TableOf(p) \in tables

(* The lowest free frame is always the one with the number of the page:    *)
(* the pages and the frames below i are used, and no other.                *)
IdentityInv ==
  step = "identity" /\ ~panic =>
    /\ i <= FullWords
    /\ p_present = 0..(i - 1) /\ frames = 0..(i - 1)
    /\ \A p \in 0..(i - 1) : p_frame[p] = p

(* Afterwards memory is mapped and stays so, for the pages that still get  *)
(* frames are new ones.                                                    *)
HeapInv ==
  /\ step = "heap_frames" => FirstHeapPage <= i /\ i <= HeapEnd
  /\ step \in {"heap_frames", "run"} =>
       /\ \A p \in Pages : p * Page < placement_address => p \in p_present /\ p_frame[p] = p
       /\ \A p \in p_present : p < IF step = "run" THEN heap_end ELSE i
  /\ step # "run" => heap_end = HeapEnd
  /\ HeapEnd <= heap_end

PInv ==
  /\ TypeOK
  /\ step \in {"frames", "directory", "heap_tables", "heap", "identity", "heap_frames", "run"}
  /\ FramesInv /\ TablesInv /\ IdentityInv /\ HeapInv

-----------------------------------------------------------------------------
(* Arithmetic of pages                                                     *)

LEMMA Cancel ==
  ASSUME NEW f \in Nat
  PROVE  Marked(f) = f
  BY PagingAssumption DEF Marked, FrameAt

LEMMA Below ==
  ASSUME NEW p \in Nat, NEW k \in Nat, NEW a \in Nat, p * Page < a, ~(k * Page < a)
  PROVE  p < k
  BY PagingAssumption

LEMMA FullWordsBound ==
  FullWords \in Nat /\ FullWords <= nframes
  BY PagingAssumption DEF FullWords

LEMMA Layout ==
  /\ FullWords \in Nat /\ FirstHeapPage \in Nat /\ FullWords <= FirstHeapPage
  /\ HeapEnd \in Nat /\ FirstHeapPage < HeapEnd
  /\ \A p \in Nat : p < HeapEnd => p \in Pages
<1>1. HeapPages \in Nat /\ HeapPages > 0 /\ MaxHeapPages \in Nat /\ FirstHeapPage \in Nat
      /\ nframes \in Nat /\ nframes <= FirstHeapPage /\ HeapPages <= MaxHeapPages
  BY PagingAssumption
<1> QED
  BY <1>1, FullWordsBound DEF HeapEnd, Pages

-----------------------------------------------------------------------------
(* alloc_frame of a page that has no frame yet takes one no page has, or   *)
(* panics.                                                                 *)
LEMMA NewFrame ==
  ASSUME TypeOK, FramesInv, NEW p \in Pages, p \notin p_present, AllocFrame(p)
  PROVE  /\ FramesInv'
         /\ frames' \subseteq 0..(nframes - 1)
         /\ p_frame' \in [Pages -> 0..(nframes - 1)]
         /\ panic' \in BOOLEAN
         /\ p_present \subseteq p_present' /\ p_present' \subseteq p_present \cup {p}
         /\ \A r \in Pages \ {p} : p_frame'[r] = p_frame[r]
<1>1. p_frame[p] = 0
  BY DEF FramesInv
<1>2. CASE FreeFrames = {}
  BY <1>1, <1>2 DEF AllocFrame, TypeOK, FramesInv, NoSharedFrame, FramesAccounted
<1>3. CASE FreeFrames # {}
  <2>1. PICK f \in FreeFrames :
          frames' = frames \cup {Marked(f)} /\ p_frame' = [p_frame EXCEPT ![p] = f]
    BY <1>1, <1>3 DEF AllocFrame
  <2>2. f \in 0..(nframes - 1) /\ f \notin frames
    BY FullWordsBound, PagingAssumption DEF FreeFrames, FullWords
  <2>3. Marked(f) = f
    BY <2>2, Cancel
  <2>4. p_present' = p_present \cup {p} /\ panic' = panic
    BY <1>1, <1>3 DEF AllocFrame
  <2>5. p_frame'[p] = f /\ \A r \in Pages \ {p} : p_frame'[r] = p_frame[r]
    BY <2>1 DEF TypeOK
  <2>6. \A r \in p_present : p_frame'[r] = p_frame[r] /\ p_frame[r] # f
    BY <2>2, <2>5 DEF FramesInv, FramesAccounted, TypeOK
  <2>7. FramesInv'
    <3>1. (\A r \in Pages \ p_present : p_frame[r] = 0)'
      BY <2>4, <2>5 DEF FramesInv
    <3>2. NoSharedFrame'
      BY <2>4, <2>5, <2>6 DEF FramesInv, NoSharedFrame
    <3>3. FramesAccounted'
      BY <2>1, <2>3, <2>4, <2>5, <2>6 DEF FramesInv, FramesAccounted
    <3> QED  BY <3>1, <3>2, <3>3 DEF FramesInv
  <2> QED
    BY <2>1, <2>2, <2>3, <2>4, <2>5, <2>7 DEF TypeOK
<1> QED
  BY <1>2, <1>3

(* As long as nothing but identity-mapped pages have frames, the lowest    *)
(* free frame is the one with the number of the page.                      *)
LEMMA IdentityFrame ==
  ASSUME TypeOK, FramesInv, i \in Pages, i <= FullWords, frames = 0..(i - 1),
         i \notin p_present, AllocFrame(i), ~panic'
  PROVE  /\ i < FullWords
         /\ frames' = 0..i /\ p_present' = p_present \cup {i}
         /\ p_frame' = [p_frame EXCEPT ![i] = i]
<1>1. p_frame[i] = 0 /\ i \in Nat
  BY DEF FramesInv, TypeOK
<1>2. FreeFrames = i..(FullWords - 1)
  BY <1>1, FullWordsBound DEF FreeFrames, FullWords
<1>3. FreeFrames # {}
  BY <1>1 DEF AllocFrame
<1>4. PICK f \in FreeFrames :
        /\ IsFirst(f)
        /\ frames' = frames \cup {Marked(f)} /\ p_frame' = [p_frame EXCEPT ![i] = f]
        /\ p_present' = p_present \cup {i}
  BY <1>1, <1>3 DEF AllocFrame
<1>5. f = i /\ i < FullWords
  BY <1>1, <1>2, <1>3, <1>4, FullWordsBound DEF IsFirst
<1>6. Marked(f) = i
  BY <1>1, <1>5, Cancel
<1> QED
  BY <1>1, <1>4, <1>5, <1>6

-----------------------------------------------------------------------------
(* The steps before memory is mapped                                       *)

LEMMA PagingInit == Init => PInv
<1> SUFFICES ASSUME Init PROVE PInv
  OBVIOUS
<1>1. TypeOK
  <2>1. placement_address \in Nat /\ i \in Nat /\ heap_end \in Nat
    BY PagingAssumption DEF Init
  <2>2. 0 \in 0..(nframes - 1)
    BY PagingAssumption
  <2> QED  BY <2>1, <2>2 DEF Init, TypeOK
<1>2. FramesInv
  <2>1. FramesAccounted
    BY DEF Init, FramesAccounted
  <2> QED  BY <2>1 DEF Init, FramesInv, NoSharedFrame
<1>3. TablesInv /\ IdentityInv
  BY DEF Init, TablesInv, IdentityInv
<1>4. HeapInv
  BY PagingAssumption DEF Init, HeapInv, HeapEnd
<1> QED
  BY <1>1, <1>2, <1>3, <1>4 DEF Init, PInv

LEMMA AlignedType ==
  ASSUME NEW a \in Nat
  PROVE  Aligned(a) \in Nat
  BY PagingAssumption DEF Aligned

LEMMA PlacementType ==
  ASSUME TypeOK, NEW p
  PROVE  PlacementWith(p) \in Nat
  BY AlignedType, PagingAssumption DEF PlacementWith, TypeOK

LEMMA AllocateStep ==
  ASSUME PInv, AllocBitset \/ AllocDirectory \/ AllocHeap
  PROVE  PInv'
<1> USE DEF At
<1>1. UNCHANGED <<frames, tables, p_frame, p_present, heap_end, panic>>
  BY DEF AllocBitset, AllocDirectory, AllocHeap
<1>2. /\ step \in {"frames", "directory", "heap"}
      /\ step' = IF step = "frames" THEN "directory"
                 ELSE IF step = "directory" THEN "heap_tables" ELSE "identity"
      /\ i' = IF step = "directory" THEN FirstHeapPage ELSE 0
  BY DEF AllocBitset, AllocDirectory, AllocHeap, Proceed, After
<1>3. placement_address' \in Nat /\ i' \in Nat
  BY <1>2, AlignedType, PagingAssumption DEF AllocBitset, AllocDirectory, AllocHeap, PInv, TypeOK
<1>4. TypeOK'
  BY <1>1, <1>3 DEF PInv, TypeOK
<1>5. FramesInv'
  BY <1>1 DEF PInv, FramesInv, NoSharedFrame, FramesAccounted
<1>6. TablesInv'
  BY <1>1, <1>2, PagingAssumption DEF PInv, TablesInv, HeapEnd, TableOf
<1>7. IdentityInv'
  <2>1. 0..(0 - 1) = {}
    OBVIOUS
  <2>2. step' = "identity" => i' = 0 /\ p_present' = {} /\ frames' = {}
    BY <1>1, <1>2 DEF PInv, TablesInv
  <2> QED
    BY <2>1, <2>2, FullWordsBound DEF IdentityInv
<1>8. HeapInv'
  BY <1>1, <1>2 DEF PInv, HeapInv
<1> QED
  BY <1>2, <1>4, <1>5, <1>6, <1>7, <1>8 DEF PInv

LEMMA HeapTablesStep ==
  ASSUME PInv, HeapTables
  PROVE  PInv'
<1> USE DEF At
<1>1. UNCHANGED <<frames, p_frame, p_present, heap_end, panic>>
  BY DEF HeapTables
<1>2. \/ /\ InHeap /\ step' = "heap_tables" /\ i' = i + 1
         /\ tables' = tables \cup {TableOf(i)}
         /\ placement_address' = PlacementWith(i)
      \/ /\ ~InHeap /\ step' = "heap" /\ i' = 0
         /\ UNCHANGED <<placement_address, tables>>
  BY DEF HeapTables, Turn, Proceed, After
<1>3. TypeOK'
  BY <1>1, <1>2, PlacementType DEF PInv, TypeOK, TableOf
<1>4. FramesInv'
  BY <1>1 DEF PInv, FramesInv, NoSharedFrame, FramesAccounted
<1>5. TablesInv'
  <2> USE PagingAssumption DEF PInv, TypeOK
  <2>1. CASE InHeap
    <3>1. i + 1 \in Nat /\ FirstHeapPage <= i + 1 /\ i + 1 <= HeapEnd
      BY <2>1 DEF HeapTables, InHeap, TablesInv, HeapEnd
    <3>2. \A p \in FirstHeapPage..i : TableOf(p) \in tables'
      BY <1>2, <2>1 DEF HeapTables, TablesInv, TableOf
    <3> QED
      BY <1>1, <1>2, <2>1, <3>1, <3>2 DEF HeapTables, TablesInv, TableOf
  <2>2. CASE ~InHeap
    <3>1. i = HeapEnd
      BY <2>2 DEF HeapTables, InHeap, TablesInv, HeapEnd
    <3> QED
      BY <1>1, <1>2, <2>2, <3>1 DEF HeapTables, TablesInv, TableOf, HeapEnd
  <2> QED
    BY <2>1, <2>2
<1>6. IdentityInv'
  BY <1>2 DEF IdentityInv
<1>7. HeapInv'
  BY <1>1, <1>2 DEF PInv, HeapInv, HeapTables
<1> QED
  BY <1>2, <1>3, <1>4, <1>5, <1>6, <1>7 DEF PInv

-----------------------------------------------------------------------------
(* Mapping memory: page i gets frame i, or there is none and the kernel    *)
(* panics; memory ends below the heap, so that the page exists.            *)

LEMMA MapPage ==
  ASSUME PInv, IdentityMap, i * Page < placement_address
  PROVE  PInv'
<1> USE DEF At
<1>1. /\ step = "identity" /\ step' = step /\ ~panic /\ i' = i + 1
      /\ placement_address' = PlacementWith(i)
      /\ tables' = tables \cup {TableOf(i)}
      /\ AllocFrame(i) /\ heap_end' = heap_end
  BY DEF IdentityMap, Turn
<1>2. /\ i \in Nat /\ i \in Pages /\ i <= FullWords /\ i \notin p_present
      /\ p_present = 0..(i - 1) /\ frames = 0..(i - 1)
      /\ \A p \in 0..(i - 1) : p_frame[p] = p
  <2>1. i \in Nat /\ i <= FullWords /\ p_present = 0..(i - 1) /\ frames = 0..(i - 1)
        /\ \A p \in 0..(i - 1) : p_frame[p] = p
    BY <1>1 DEF PInv, IdentityInv, TypeOK
  <2> QED
    BY <2>1, Layout
<1>3. /\ FramesInv'
      /\ frames' \subseteq 0..(nframes - 1)
      /\ p_frame' \in [Pages -> 0..(nframes - 1)]
      /\ panic' \in BOOLEAN
      /\ p_present' \subseteq p_present \cup {i}
  BY <1>1, <1>2, NewFrame DEF PInv
<1>4. TypeOK'
  BY <1>1, <1>2, <1>3, PlacementType DEF PInv, TypeOK, TableOf
<1>5. TablesInv'
  BY <1>1 DEF PInv, TablesInv, TableOf
<1>6. ASSUME ~panic' PROVE IdentityInv'
  <2>1. /\ i < FullWords
        /\ frames' = 0..i /\ p_present' = p_present \cup {i}
        /\ p_frame' = [p_frame EXCEPT ![i] = i]
    BY <1>1, <1>2, <1>6, IdentityFrame DEF PInv
  <2>2. 0..i = 0..(i' - 1) /\ p_present' = 0..i /\ i' <= FullWords
    BY <1>1, <1>2, <2>1, FullWordsBound
  <2>3. \A p \in 0..i : p_frame'[p] = p
    BY <1>2, <2>1 DEF PInv, TypeOK
  <2> QED
    BY <2>1, <2>2, <2>3 DEF IdentityInv
<1>7. HeapInv'
  BY <1>1 DEF PInv, HeapInv
<1> QED
  BY <1>1, <1>3, <1>4, <1>5, <1>6, <1>7 DEF PInv, IdentityInv

(* Everything handed out so far lies below page i.                         *)
LEMMA MapEnds ==
  ASSUME PInv, IdentityMap, ~(i * Page < placement_address)
  PROVE  PInv'
<1> USE DEF At
<1>1. /\ step = "identity" /\ step' = "heap_frames" /\ ~panic /\ i' = FirstHeapPage
      /\ UNCHANGED <<placement_address, tables, frames, p_frame, p_present, panic, heap_end>>
  BY DEF IdentityMap, Proceed, After
<1>2. /\ i \in Nat /\ i <= FirstHeapPage /\ placement_address \in Nat
      /\ p_present = 0..(i - 1) /\ \A p \in 0..(i - 1) : p_frame[p] = p
  BY <1>1, FullWordsBound, PagingAssumption DEF PInv, IdentityInv, TypeOK
<1>3. TypeOK'
  BY <1>1, PagingAssumption DEF PInv, TypeOK, TableOf
<1>4. FramesInv'
  BY <1>1 DEF PInv, FramesInv, NoSharedFrame, FramesAccounted
<1>5. TablesInv' /\ IdentityInv'
  BY <1>1 DEF PInv, TablesInv, IdentityInv, TableOf
<1>6. ASSUME NEW p \in Pages, p * Page < placement_address
      PROVE  p \in p_present /\ p_frame[p] = p
  <2>1. p \in Nat
    BY PagingAssumption DEF Pages
  <2>2. p < i
    BY <1>2, <1>6, <2>1, Below
  <2> QED
    BY <1>2, <2>1, <2>2
<1>7. HeapInv'
  <2>1. FirstHeapPage <= FirstHeapPage /\ FirstHeapPage <= HeapEnd
    BY Layout
  <2>2. \A p \in p_present : p < FirstHeapPage
    BY <1>2, PagingAssumption
  <2> QED
    BY <1>1, <1>6, <2>1, <2>2 DEF PInv, HeapInv
<1> QED
  BY <1>1, <1>3, <1>4, <1>5, <1>7 DEF PInv

-----------------------------------------------------------------------------
(* The heap takes frames for pages behind all that have one.               *)

LEMMA HeapFramesStep ==
  ASSUME PInv, HeapFrames
  PROVE  PInv'
<1> USE DEF At
<1>1. step = "heap_frames" /\ UNCHANGED <<placement_address, tables, heap_end>>
  BY DEF HeapFrames
<1>2. /\ i \in Nat /\ FirstHeapPage <= i /\ i <= HeapEnd /\ heap_end = HeapEnd
      /\ \A p \in p_present : p < i
  BY <1>1 DEF PInv, TypeOK, HeapInv
<1>3. CASE InHeap
  <2>1. AllocFrame(i) /\ i' = i + 1 /\ step' = step
    BY <1>3 DEF HeapFrames, Turn
  <2>2. /\ i < HeapEnd /\ i \in Pages /\ i \notin p_present
        /\ TableOf(i) \in tables
    BY <1>1, <1>2, <1>3, PagingAssumption DEF InHeap, HeapEnd, Pages, PInv, TablesInv
  <2>3. /\ FramesInv'
        /\ frames' \subseteq 0..(nframes - 1)
        /\ p_frame' \in [Pages -> 0..(nframes - 1)]
        /\ panic' \in BOOLEAN
        /\ p_present \subseteq p_present' /\ p_present' \subseteq p_present \cup {i}
        /\ \A r \in Pages \ {i} : p_frame'[r] = p_frame[r]
    BY <2>1, <2>2, NewFrame DEF PInv
  <2>4. TypeOK'
    BY <1>1, <1>2, <2>1, <2>2, <2>3 DEF PInv, TypeOK, TableOf
  <2>5. TablesInv' /\ IdentityInv'
    BY <1>1, <2>1 DEF PInv, TablesInv, IdentityInv, TableOf
  <2>6. i' \in Nat /\ FirstHeapPage <= i' /\ i' <= HeapEnd /\ \A p \in p_present' : p < i'
    BY <1>2, <2>1, <2>2, <2>3, PagingAssumption DEF HeapEnd, PInv, TypeOK, Pages
  <2>7. \A p \in Pages : p * Page < placement_address => p \in p_present' /\ p_frame'[p] = p
    BY <1>1, <2>2, <2>3 DEF PInv, HeapInv
  <2>8. HeapInv'
    <3>1. heap_end' = HeapEnd /\ HeapEnd <= heap_end' /\ step' = "heap_frames"
          /\ placement_address' = placement_address
      BY <1>1, <1>2, <2>1, Layout
    <3> QED
      BY <2>6, <2>7, <3>1 DEF HeapInv
  <2> QED
    BY <1>1, <2>1, <2>3, <2>4, <2>5, <2>8 DEF PInv
<1>4. CASE ~InHeap
  <2>1. /\ step' = "run" /\ i' = 0
        /\ UNCHANGED <<frames, p_frame, p_present, panic>>
    BY <1>1, <1>4 DEF HeapFrames, Proceed, After
  <2>2. TypeOK'
    BY <1>1, <2>1 DEF PInv, TypeOK, TableOf
  <2>3. FramesInv'
    BY <2>1 DEF PInv, FramesInv, NoSharedFrame, FramesAccounted
  <2>4. TablesInv' /\ IdentityInv'
    BY <2>1 DEF TablesInv, IdentityInv
  <2>5. i = heap_end
    BY <1>2, <1>4, PagingAssumption DEF InHeap, HeapEnd
  <2>6. HeapInv'
    BY <1>1, <1>2, <2>1, <2>5 DEF PInv, HeapInv
  <2> QED
    BY <2>1, <2>2, <2>3, <2>4, <2>6 DEF PInv
<1> QED
  BY <1>3, <1>4

LEMMA ExpandStep ==
  ASSUME PInv, Expand
  PROVE  PInv'
<1> USE DEF At
<1>1. /\ step = "run" /\ step' = step /\ i' = i
      /\ AllocFrame(heap_end) /\ tables' = tables \cup {TableOf(heap_end)}
      /\ heap_end' = heap_end + 1 /\ placement_address' = placement_address
  BY DEF Expand
<1>2. /\ heap_end \in Nat /\ HeapEnd <= heap_end /\ heap_end \in Pages
      /\ \A p \in p_present : p < heap_end
  BY <1>1, PagingAssumption DEF Expand, PInv, TypeOK, HeapInv, HeapEnd, Pages
<1>3. heap_end \notin p_present
  BY <1>2
<1>4. /\ FramesInv'
      /\ frames' \subseteq 0..(nframes - 1)
      /\ p_frame' \in [Pages -> 0..(nframes - 1)]
      /\ panic' \in BOOLEAN
      /\ p_present \subseteq p_present' /\ p_present' \subseteq p_present \cup {heap_end}
      /\ \A r \in Pages \ {heap_end} : p_frame'[r] = p_frame[r]
  BY <1>1, <1>2, <1>3, NewFrame DEF PInv
<1>5. TypeOK'
  BY <1>1, <1>2, <1>4 DEF PInv, TypeOK, TableOf
<1>6. TablesInv' /\ IdentityInv'
  BY <1>1 DEF TablesInv, IdentityInv
<1>7. HeapEnd <= heap_end' /\ \A p \in p_present' : p < heap_end'
  BY <1>1, <1>2, <1>4, PagingAssumption DEF HeapEnd, PInv, TypeOK, Pages
<1>8. \A p \in Pages : p * Page < placement_address => p \in p_present' /\ p_frame'[p] = p
  BY <1>1, <1>3, <1>4 DEF PInv, HeapInv
<1>9. HeapInv'
  BY <1>1, <1>7, <1>8 DEF HeapInv
<1> QED
  BY <1>1, <1>4, <1>5, <1>6, <1>9 DEF PInv

LEMMA PagingStep ==
  ASSUME PInv, [Boot \/ Expand]_vars
  PROVE  PInv'
<1>1. CASE IdentityMap
  BY <1>1, MapPage, MapEnds
<1>2. CASE UNCHANGED vars
  <2>1. FramesInv'
    BY <1>2 DEF vars, PInv, FramesInv, NoSharedFrame, FramesAccounted
  <2>2. TypeOK' /\ TablesInv' /\ IdentityInv' /\ HeapInv'
    BY <1>2 DEF vars, PInv, TypeOK, TablesInv, IdentityInv, HeapInv, TableOf
  <2> QED
    BY <1>2, <2>1, <2>2 DEF vars, PInv
<1> QED
  BY <1>1, <1>2, AllocateStep, HeapTablesStep, HeapFramesStep, ExpandStep DEF Boot

-----------------------------------------------------------------------------
LEMMA GrowingInv == GrowingSpec => []PInv
  BY PagingInit, PagingStep, PTL DEF GrowingSpec

(* Frames, page tables and the counters of init_paging stay in their       *)
(* ranges, and no page gets a frame without a table that holds it          *)
(* (init_paging, alloc_frame, get_page).                                   *)
THEOREM PagingTypes == GrowingSpec => []TypeOK
<1>1. PInv => TypeOK
  BY DEF PInv
<1> QED
  BY <1>1, GrowingInv, PTL

(* A heap that never contracts shares no frame between two pages, whatever *)
(* the sizes of pages, tables and words (alloc_frame, first_frame).        *)
THEOREM FramesNotShared == GrowingSpec => []NoSharedFrame
<1>1. PInv => NoSharedFrame
  BY DEF PInv, FramesInv
<1> QED
  BY <1>1, GrowingInv, PTL

(* The bitset is exact as long as the heap never contracts (set_frame).    *)
THEOREM BitsetExact == GrowingSpec => []FramesAccounted
<1>1. PInv => FramesAccounted
  BY DEF PInv, FramesInv
<1> QED
  BY <1>1, GrowingInv, PTL

(* Wherever the kernel image ends, memory in use maps to itself when       *)
(* paging is switched on, and growth of the heap does not change that      *)
(* (init_paging).                                                          *)
THEOREM MemoryMapped == GrowingSpec => []IdentityMapped
<1>1. PInv => IdentityMapped
  BY DEF PInv, HeapInv, IdentityMapped
<1> QED
  BY <1>1, GrowingInv, PTL
=============================================================================
