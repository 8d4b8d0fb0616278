------------------------------ MODULE HeapInv ------------------------------
(***************************************************************************)
(* The inductive invariant of Heap with careful callers.  Its centre is    *)
(* the tiling: blocks, free or not, that follow one another from the start *)
(* of the heap to its end.  Every call replaces the blocks of one stretch  *)
(* of the heap by others and leaves headers and footers outside it alone.  *)
(* The parts take the heap and its set of blocks as parameters.            *)
(***************************************************************************)
EXTENDS MCHeap

HasFooter(h, t) == t \in DOMAIN h.ftr

(* Where the footer of the block at a stands, and that it names the block. *)
Footer(h, a) == a + SizeOf(h, a) - FooterSize
Named(h, a)  == HasFooter(h, Footer(h, a)) /\ h.ftr[Footer(h, a)] = a

(* A heap and the range of what stands in it.                              *)
Typed(h) ==
  /\ h = [hdr |-> h.hdr, ftr |-> h.ftr, index |-> h.index, end |-> h.end]
  /\ DOMAIN h.hdr \subseteq Nat /\ DOMAIN h.ftr \subseteq Nat
  /\ \A a \in DOMAIN h.hdr : h.hdr[a] \in [hole : BOOLEAN, size : 0..(WordModulus - 1)]
  /\ \A t \in DOMAIN h.ftr : h.ftr[t] \in Nat

(* From header to header the blocks B fill the heap, without overlapping.  *)
Tiling(h, B) ==
  /\ B \subseteq Nat /\ Start \in B
  /\ \A a \in B : /\ SizeOf(h, a) >= Overhead
                  /\ Start <= a /\ a + SizeOf(h, a) <= h.end
                  /\ a + SizeOf(h, a) \in B \cup {h.end}
  /\ \A a, c \in B : a < c => a + SizeOf(h, a) <= c

(* Every allocated block has a footer that names it, and every hole one,   *)
(* though it may name another: only the hole at the end may lack it.       *)
Footed(h, B) ==
  \A a \in B :
    /\ ~IsHole(h, a) => Named(h, a)
    /\ a + SizeOf(h, a) # h.end => HasFooter(h, Footer(h, a))

(* The first block has no footer in front of it.                           *)
NoneBefore(h) == ~HasFooter(h, Start - FooterSize)

(* The index lists the holes, each once.                                   *)
Distinct(s) == \A i, j \in 1..Len(s) : s[i] = s[j] => i = j

Indexed(h, B) ==
  /\ h.index \in Seq(Nat) /\ Distinct(h.index)
  /\ ToSet(h.index) = {a \in B : IsHole(h, a)}

(* No hole has a hole behind it.                                           *)
United(h, B) ==
  \A a \in B : IsHole(h, a) /\ a + SizeOf(h, a) \in B => ~IsHole(h, a + SizeOf(h, a))

(* The other blocks are those in callers' hands, and long enough.          *)
Owned(h, B, held) ==
  /\ \A a \in B : ~IsHole(h, a) => a + HeaderSize \in DOMAIN held
  /\ \A p \in DOMAIN held :
       /\ p \in Nat /\ held[p] \in Sizes
       /\ BlockOf(p) \in B /\ ~IsHole(h, BlockOf(p))
       /\ SizeOf(h, BlockOf(p)) >= held[p] + Overhead

HeapOK(h, B, held) ==
  /\ Typed(h) /\ Tiling(h, B) /\ Footed(h, B) /\ Indexed(h, B) /\ United(h, B)
  /\ Owned(h, B, held) /\ NoneBefore(h)

(* The end is on a page boundary, and the pages before it have frames.     *)
EndInv ==
  /\ heap.end \in (Start + VM_HEAP_MIN_SIZE)..HeapMax /\ EndOnPage
  /\ Backed /\ framed \subseteq present /\ framed \subseteq Nat

(* The last hole is long enough for r, if not on a page boundary.          *)
LastHolds(r) ==
  heap.index # << >> /\ SizeOf(heap, Max(ToSet(heap.index))) >= Need(r)

(* The heap in which the request finds its hole.                           *)
HeapAtLast ==
  LET once == Ready(heap, request)
  IN CASE request.turn = 1 -> Ready(once, request)
       [] request.turn = 2 -> once
       [] OTHER -> heap

(* A request for which the heap has to grow finds room after that, or, if  *)
(* it is aligned, after growing once more, and leaves holes there.         *)
RequestInv ==
  request # NoRequest =>
    /\ request.size \in Sizes /\ request.flags \in Flags
    /\ request = [size |-> request.size, flags |-> request.flags, turn |-> request.turn]
    /\ request.turn \in 1..3
    /\ request.turn = 3 => IsAligned(request)
    /\ Found = 0 =>
         /\ GrowsAtEnd
         /\ request.turn = 1 \/ (request.turn = 2 /\ IsAligned(request) /\ LastHolds(request))
    /\ IsAligned(request) => LeavesHoles(HeapAtLast, request)

(* The state after every call: a tiled heap whose holes the index lists    *)
(* and whose other blocks are in callers' hands (alloc, expand, free,      *)
(* contract).                                                              *)
HeapInvariant ==
  /\ HeapOK(heap, Blocks, live)
  /\ EndInv /\ RequestInv /\ panic \in BOOLEAN
=============================================================================
