------------------------------- MODULE Heap --------------------------------
(***************************************************************************)
(* The kernel heap: kmalloc and kfree once paging is on (heap.c, with the  *)
(* index of sorted_array.c and the frames of paging.c).                    *)
(*                                                                         *)
(* The unit of memory is the 4-byte word: a header (magic, is_hole, size)  *)
(* takes three, a footer (magic, header) two.  Memory is what the code     *)
(* recognises in it by its magic numbers: `hdr` and `ftr` are partial      *)
(* functions from the addresses where a header or a footer stands.  A      *)
(* header that nothing overwrites stays where it was, in a hole or in a    *)
(* block, as stale data, until bzero or another header overwrites it;      *)
(* what callers write themselves never looks like a header.                *)
(*                                                                         *)
(* One call runs at a time.  alloc calls itself after it has expanded the  *)
(* heap: each of its turns is a step.                                      *)
(***************************************************************************)
EXTENDS Integers, FiniteSets, SequencesExt

CONSTANTS
  Page,                       \* words in a page
  VM_KERN_HEAP_START,         \* where the index and then the heap start
  VM_HEAP_INDEX_SIZE,         \* pointers the index has room for
  VM_KERN_HEAP_INITIAL_SIZE,  \* index and heap, at first
  VM_HEAP_MIN_SIZE,           \* the heap does not contract below it
  HeapMax,                    \* h_addr_max
  WordModulus,                \* sizes and addresses are kept modulo this
  Sizes,                      \* lengths callers ask for
  Flags,                      \* kmalloc's flags callers use, sets of the two below
  MaxLive                     \* bound: blocks allocated at a time

ASSUME HeapAssumption ==
  /\ {Page, VM_HEAP_INDEX_SIZE, VM_KERN_HEAP_START, HeapMax} \subseteq Nat \ {0}
  /\ VM_KERN_HEAP_START % Page = 0 /\ VM_KERN_HEAP_START >= Page
  /\ VM_KERN_HEAP_INITIAL_SIZE % Page = 0 /\ VM_HEAP_MIN_SIZE % Page = 0
  /\ VM_HEAP_MIN_SIZE \in Nat /\ VM_HEAP_MIN_SIZE >= 2 * Page
  /\ WordModulus \in Nat /\ HeapMax < WordModulus
  /\ Sizes \subseteq Nat /\ Flags \subseteq SUBSET {"M_ALIGNED", "M_ZERO"}
  /\ MaxLive \in Nat

VARIABLES
  heap,     \* headers, footers, the index of holes, h_addr_end
  framed,   \* pages with p_frame # 0
  present,  \* pages with p_present = 1
  request,  \* the allocation alloc is working on, and in which turn
  live,     \* history: pointers handed out and not freed, with their length
  panic     \* the kernel has stopped in panic or kassert

vars == <<heap, framed, present, request, live, panic>>

-----------------------------------------------------------------------------
(* Memory                                                                  *)

HeaderSize == 3
FooterSize == 2
Overhead == HeaderSize + FooterSize

Wrap(n) == n % WordModulus

(* The structures of `len` words in f that a write to a .. a+n-1 leaves.   *)
Outside(f, len, a, n) == Restrict(f, {x \in DOMAIN f : x + len <= a \/ x >= a + n})

Clobber(h, a, n) == [hdr |-> Outside(h.hdr, HeaderSize, a, n),
                     ftr |-> Outside(h.ftr, FooterSize, a, n),
                     index |-> h.index, end |-> h.end]

(* f with the value v at a.                                                *)
With(f, a, v) == [x \in DOMAIN f \cup {a} |-> IF x = a THEN v ELSE f[x]]

PutHeader(h, a, isHole, size) ==
  [Clobber(h, a, HeaderSize) EXCEPT !.hdr = With(@, a, [hole |-> isHole, size |-> size])]

PutFooter(h, a, header) ==
  [Clobber(h, a, FooterSize) EXCEPT !.ftr = With(@, a, header)]

IsHeader(h, a) == a \in DOMAIN h.hdr
IsHole(h, a) == IsHeader(h, a) /\ h.hdr[a].hole
SizeOf(h, a) == IF IsHeader(h, a) THEN h.hdr[a].size ELSE 0
SetSize(h, a, size) == IF IsHeader(h, a) THEN [h EXCEPT !.hdr[a].size = size] ELSE h

(* The rounding of init_heap and expand: always on to the next page, from  *)
(* a page boundary too.                                                    *)
NextPage(a) == IF a \div Page > 0 THEN (a \div Page + 1) * Page ELSE a

PagesOf(first, last) == (first \div Page)..(last \div Page)

-----------------------------------------------------------------------------
(* The index: addresses of holes, smaller holes first when they go in.     *)

(* vm_heap_header_cmp(a, b) < 0: a difference of unsigned as an int.       *)
Smaller(h, a, b) == Wrap(SizeOf(h, a) - SizeOf(h, b)) >= WordModulus \div 2

(* insert_sorted_array                                                     *)
InsertHole(h, a) ==
  LET notSmaller == SelectInSeq(h.index, LAMBDA b : ~Smaller(h, b, a))
  IN [h EXCEPT !.index = IF notSmaller = 0 THEN @ \o <<a>>
                         ELSE InsertAt(@, notSmaller, a)]

(* The search of free for an entry, and remove_sorted_array.               *)
RemoveHole(h, a) == [h EXCEPT !.index = RemoveFirst(@, a)]

-----------------------------------------------------------------------------
(* init_heap, after init_paging has given the area its frames: the first   *)
(* hole has no footer.                                                     *)

Start == NextPage(VM_KERN_HEAP_START + VM_HEAP_INDEX_SIZE)
InitialEnd == VM_KERN_HEAP_START + VM_KERN_HEAP_INITIAL_SIZE

(* The heap begins with its minimum size at least, and that holds a block. *)
ASSUME LayoutAssumption ==
  /\ VM_KERN_HEAP_INITIAL_SIZE \in Nat /\ Overhead <= VM_HEAP_MIN_SIZE
  /\ Start + VM_HEAP_MIN_SIZE <= InitialEnd /\ InitialEnd <= HeapMax

NoRequest == [size |-> -1, flags |-> {}, turn |-> 0]
Running == ~panic

Init ==
  /\ heap = [hdr |-> [a \in {Start} |-> [hole |-> TRUE, size |-> InitialEnd - Start]],
             ftr |-> << >>, index |-> <<Start>>, end |-> InitialEnd]
  /\ framed = PagesOf(VM_KERN_HEAP_START, InitialEnd - 1)
  /\ present = framed
  /\ request = NoRequest
  /\ live = << >>
  /\ panic = FALSE

Panic == panic' = TRUE /\ UNCHANGED <<heap, framed, present, request>>

-----------------------------------------------------------------------------
(* alloc                                                                   *)

(* Words in front of an aligned block's header at hole a.                  *)
AlignOffset(a) == Page - ((a + HeaderSize) % Page)

Fits(h, a, size, align) ==
  IF align THEN SizeOf(h, a) - AlignOffset(a) >= size ELSE SizeOf(h, a) >= size

(* find_smallest_hole: the first fit in the index, 0 when there is none.   *)
FindHole(h, size, align) == SelectInSeq(h.index, LAMBDA a : Fits(h, a, size, align))

Need(r) == Wrap(r.size + Overhead)

IsAligned(r) == "M_ALIGNED" \in r.flags

Found == FindHole(heap, Need(request), IsAligned(request))

(* A caller asks for memory.                                               *)
Kmalloc(size, flags) ==
  /\ Running /\ request = NoRequest
  /\ Cardinality(DOMAIN live) < MaxLive
  /\ request' = [size |-> size, flags |-> flags, turn |-> 1]
  /\ UNCHANGED <<heap, framed, present, live, panic>>

(* Mutation: the loop of expand ends one page early.                       *)
PagesButLast(oldLength, newLength) ==
  {(Start + i) \div Page :
     i \in {j \in oldLength..(newLength - Page - 1) : (j - oldLength) % Page = 0}}

(* expand: the pages from the old end on get frames.                       *)
PagesFrom(oldLength, newLength) ==
  {(Start + i) \div Page : i \in {j \in oldLength..(newLength - 1) : (j - oldLength) % Page = 0}}

(* The new room goes to the hole with the highest address, or becomes a    *)
(* hole when there is none.                                                *)
AddRoom(h, oldEnd, room) ==
  IF h.index = << >>
  THEN InsertHole(PutFooter(PutHeader(h, oldEnd, TRUE, room),
                            oldEnd + room - FooterSize, oldEnd), oldEnd)
  ELSE LET last == Max(ToSet(h.index))
           size == SizeOf(h, last) + room
       IN PutFooter(SetSize(h, last, size), last + size - FooterSize, last)

(* Mutation: expand without kassert("don't overflow the heap").            *)
AllocGrowUnchecked ==
  /\ Running /\ request # NoRequest /\ Found = 0
  /\ LET oldLength == heap.end - Start
         newLength == NextPage(oldLength + Need(request))
     IN /\ framed' = framed \cup PagesFrom(oldLength, newLength)
        /\ present' = present \cup PagesFrom(oldLength, newLength)
        /\ heap' = AddRoom([heap EXCEPT !.end = Start + newLength],
                           heap.end, newLength - oldLength)
        /\ request' = [request EXCEPT !.turn = @ + 1]
  /\ UNCHANGED <<live, panic>>

(* Mutation: the room that expand has won is not given to a hole.          *)
AllocGrowUnused ==
  /\ Running /\ request # NoRequest /\ Found = 0
  /\ LET newLength == NextPage(heap.end - Start + Need(request)) IN
       /\ Start + newLength <= HeapMax
       /\ heap' = [heap EXCEPT !.end = Start + newLength]
       /\ request' = [request EXCEPT !.turn = @ + 1]
  /\ UNCHANGED <<framed, present, live, panic>>

(* No hole fits: expand, give the room to a hole, and try again.           *)
AllocGrow ==
  /\ Running /\ request # NoRequest /\ Found = 0
  /\ LET oldLength == heap.end - Start
         newLength == NextPage(oldLength + Need(request))
     IN IF Start + newLength > HeapMax
        THEN Panic
        ELSE /\ framed' = framed \cup PagesFrom(oldLength, newLength)
             /\ present' = present \cup PagesFrom(oldLength, newLength)
             /\ heap' = AddRoom([heap EXCEPT !.end = Start + newLength],
                                heap.end, newLength - oldLength)
             /\ request' = [request EXCEPT !.turn = @ + 1]
             /\ UNCHANGED panic
  /\ UNCHANGED live

(* Mutation: room is kept for a header only.                               *)
ShortForHeader(n) == n < HeaderSize

(* Too short to become a hole of its own.                                  *)
TooShort(n) == n < Overhead

(* Mutation: the header of the block goes to the page boundary.            *)
FrontToPage(a) == Wrap(Page - (a % Page))

(* The hole left in front of an aligned block: the pointer handed out, not *)
(* the header, lies on the page boundary.                                  *)
FrontToPointer(a) == Wrap(Page - (a % Page) - HeaderSize)

(* The block goes into hole a: into its front, or on to a page boundary    *)
(* behind a smaller hole.  What is left behind it becomes a hole, unless   *)
(* it is too short for one.                                                *)
Place(h, a, r) ==
  LET spare == Wrap(SizeOf(h, a) - Need(r))
      absorb == TooShort(spare)
      length == IF absorb THEN r.size + spare ELSE r.size
      block == IF absorb THEN SizeOf(h, a) ELSE Need(r)
      front == IF IsAligned(r) THEN FrontToPointer(a) ELSE 0
      at == IF IsAligned(r) THEN Wrap(a + front) ELSE a
      h1 == IF IsAligned(r)
            THEN PutFooter(PutHeader(h, a, TRUE, front), at - FooterSize, a)
            ELSE RemoveHole(h, a)
      h2 == PutFooter(PutHeader(h1, at, FALSE, block), at + HeaderSize + length, at)
      rest == Wrap(SizeOf(h, a) - front - block)
      hole == at + HeaderSize + length + FooterSize
      h3 == PutHeader(h2, hole, TRUE, rest)
      footer == hole + rest - FooterSize
      h4 == IF footer < h.end THEN PutFooter(h3, footer, hole) ELSE h3
  IN [heap |-> IF rest = 0 THEN h2 ELSE InsertHole(h4, hole),
      pointer |-> at + HeaderSize]

(* A hole fits; _kmalloc zeroes the block when the caller wants that.      *)
AllocPlace ==
  /\ Running /\ request # NoRequest /\ Found # 0
  /\ LET placed == Place(heap, heap.index[Found], request) IN
       /\ heap' = IF "M_ZERO" \in request.flags
                  THEN Clobber(placed.heap, placed.pointer, request.size)
                  ELSE placed.heap
       /\ live' = With(live, placed.pointer, request.size)
  /\ request' = NoRequest
  /\ UNCHANGED <<framed, present, panic>>

-----------------------------------------------------------------------------
(* free                                                                    *)

(* f holds the heap h and free's variables header, footer, do_add and      *)
(* test_header, and the pages contract gives back.                         *)

(* Mutation: no unification with the block in front, or the one behind.    *)
StayApart(f) == f

(* The block in front is a hole: it takes the block over.                  *)
UnifyLeft(f) ==
  LET t == f.header - FooterSize
      left == f.h.ftr[t]
  IN IF t \in DOMAIN f.h.ftr /\ IsHole(f.h, left)
     THEN [f EXCEPT !.h = SetSize([@ EXCEPT !.ftr[f.footer] = left], left,
                                  SizeOf(@, left) + SizeOf(@, f.header)),
                    !.header = left, !.do_add = FALSE]
     ELSE f

(* The block behind is a hole: it is taken over and leaves the index.      *)
UnifyRight(f) ==
  LET right == f.test_header
  IN IF IsHole(f.h, right)
     THEN [f EXCEPT !.h = RemoveHole(SetSize(@, f.header,
                                     SizeOf(@, f.header) + SizeOf(@, right)), right),
                    !.footer = right + SizeOf(f.h, right) - FooterSize]
     ELSE f

(* The length contract leaves: `new_size & 0x1000` tests one bit.          *)
Contracted(length) ==
  LET aligned == IF (length \div Page) % 2 = 1 THEN 2 * Page ELSE length
  IN IF aligned < VM_HEAP_MIN_SIZE THEN VM_HEAP_MIN_SIZE ELSE aligned

(* The pages contract frees: from the last one down while they start       *)
(* behind the new length.                                                  *)
PagesBehind(newLength, oldLength) ==
  {(Start + i) \div Page :
     i \in {j \in (newLength + 1)..(oldLength - Page) : (oldLength - j) % Page = 0}}

(* The hole ends the heap: the heap contracts, and the hole with it.       *)
ContractHeap(f) ==
  LET oldLength == f.h.end - Start
      newLength == Contracted(f.header - Start)
      size == Wrap(SizeOf(f.h, f.header) - (oldLength - newLength))
      h == [f.h EXCEPT !.end = Start + newLength]
  IN IF f.footer + FooterSize = f.h.end
     THEN [f EXCEPT
             !.h = IF size # 0
                   THEN PutFooter(SetSize(h, f.header, size),
                                  f.header + size - FooterSize, f.header)
                   ELSE RemoveHole(h, f.test_header),
             !.freed = PagesBehind(newLength, oldLength)]
     ELSE f

(* Mutation: do_add is not looked at.                                      *)
AddAlways(f) == [f EXCEPT !.h = InsertHole(@, f.header)]

(* if (do_add) insert_sorted_array: a hole that grew is in the index.      *)
AddToIndex(f) ==
  IF f.do_add THEN [f EXCEPT !.h = InsertHole(@, f.header)] ELSE f

(* free's variables when header and footer are found, in the heap h.       *)
Freeing(h, p) ==
  LET header == p - HeaderSize
      footer == header + SizeOf(h, header) - FooterSize
  IN [h |-> IF IsHeader(h, header) THEN [h EXCEPT !.hdr[header].hole = TRUE] ELSE h,
      header |-> header, footer |-> footer, do_add |-> TRUE,
      test_header |-> footer + FooterSize, freed |-> {}]

(* The kasserts on the block's magic numbers.                              *)
NoBlock(h, f) == ~IsHeader(h, f.header) \/ f.footer \notin DOMAIN h.ftr

(* free reads the header behind the block, which page fault or kassert     *)
(* stop when it is behind the mapped pages or missing from the index.      *)
BehindStops(f) ==
  \/ f.test_header \div Page \notin present
  \/ IsHole(f.h, f.test_header) /\ f.test_header \notin ToSet(f.h.index)

FreeStops(p) ==
  LET f == Freeing(heap, p) IN NoBlock(heap, f) \/ BehindStops(f)

(* What comes after: f as free leaves it.                                  *)
Freed(f) == AddToIndex(ContractHeap(UnifyRight(UnifyLeft(f))))

Kfree(p) ==
  /\ Running /\ request = NoRequest /\ p \in DOMAIN live
  /\ live' = Restrict(live, DOMAIN live \ {p})
  /\ IF FreeStops(p)
     THEN Panic
     ELSE LET f == Freed(Freeing(heap, p)) IN
            /\ heap' = f.h
            /\ framed' = framed \ f.freed
            /\ UNCHANGED <<present, request, panic>>

-----------------------------------------------------------------------------
Next ==
  \/ \E n \in Sizes, flags \in Flags : Kmalloc(n, flags)
  \/ AllocGrow
  \/ AllocPlace
  \/ \E p \in DOMAIN live : Kfree(p)

Spec == Init /\ [][Next]_vars

-----------------------------------------------------------------------------
(* Properties                                                              *)

(* The headers from the start of the heap on, each as far behind the one   *)
(* before as that one's size says.                                         *)
BlocksIn(h) ==
  LET from[a \in Nat] == IF a < h.end /\ SizeOf(h, a) > 0
                         THEN {a} \cup from[a + SizeOf(h, a)] ELSE {}
  IN from[Start]

Blocks == BlocksIn(heap)

Holes == {a \in Blocks : IsHole(heap, a)}

BlockOf(p) == p - HeaderSize

(* Types, and the index never outgrows its room (kassert "has enough       *)
(* room").                                                                 *)
TypeOK ==
  /\ \A a \in DOMAIN heap.hdr : heap.hdr[a] \in [hole : BOOLEAN, size : 0..(WordModulus - 1)]
  /\ \A a \in DOMAIN heap.ftr : heap.ftr[a] \in Nat
  /\ heap.index \in Seq(Nat) /\ Len(heap.index) <= VM_HEAP_INDEX_SIZE
  /\ heap.end \in Start..HeapMax
  /\ framed \subseteq present
  /\ request \in [size : Sizes, flags : Flags, turn : Nat] \cup {NoRequest}
  /\ \A p \in DOMAIN live : live[p] \in Sizes
  /\ panic \in BOOLEAN

(* From header to header the blocks fill the heap from its start to its    *)
(* end, the allocated ones are exactly those handed out, long enough for   *)
(* what was asked for, and their footers name them (alloc, free).          *)
HeapTiled ==
  /\ \A a \in Blocks : a + SizeOf(heap, a) \in Blocks \cup {heap.end}
  /\ Blocks \ Holes = {BlockOf(p) : p \in DOMAIN live}
  /\ \A p \in DOMAIN live :
       LET a == BlockOf(p)
           footer == a + SizeOf(heap, a) - FooterSize
       IN /\ SizeOf(heap, a) >= live[p] + Overhead
          /\ footer \in DOMAIN heap.ftr /\ heap.ftr[footer] = a

(* The index holds every hole once and nothing else: no free memory is     *)
(* lost and no allocated block can be handed out again (alloc, free).      *)
IndexIsHoles ==
  /\ ToSet(heap.index) = Holes
  /\ Len(heap.index) = Cardinality(Holes)

(* No hole has a hole behind it: a block that is freed unites with both    *)
(* neighbours, so that memory freed completely is one hole again (free).   *)
Coalesced == \A a \in Holes : a + SizeOf(heap, a) \notin Holes

(* Every page of the heap has a frame, whatever expand and contract have   *)
(* done to its end.                                                        *)
Backed == PagesOf(Start, heap.end - 1) \subseteq framed

(* The end of the heap stays on a page boundary (expand, contract).        *)
EndOnPage == heap.end % Page = 0

(* Blocks of different callers do not overlap and lie in the heap.         *)
LiveDisjoint ==
  \A p \in DOMAIN live :
    /\ p >= Start + HeaderSize /\ p + live[p] + FooterSize <= heap.end
    /\ \A q \in DOMAIN live : q # p => p + live[p] <= q \/ q + live[q] <= p

(* Every block alloc has handed out can be given back without stopping the *)
(* kernel (heap.h: "Frees a block of memory previously allocated").        *)
Freeable ==
  Running /\ request = NoRequest => \A p \in DOMAIN live : ~FreeStops(p)

(* alloc calls itself once at most, for an aligned block twice: the heap   *)
(* it has expanded has a hole that fits, or one that is too short only by  *)
(* the words in front of the page boundary (alloc, expand).                *)
FewRetries == request.turn <= IF IsAligned(request) THEN 3 ELSE 2
=============================================================================
