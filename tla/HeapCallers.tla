---------------------------- MODULE HeapCallers ----------------------------
(***************************************************************************)
(* What callers of the heap have to heed for it to keep its promises: the  *)
(* situations in which alloc and free damage it.                           *)
(***************************************************************************)
EXTENDS Heap

(* The room alloc gains by expanding lands behind the endmost hole only if *)
(* that hole ends the heap.                                                *)
GrowsAtEnd ==
  heap.index # << >> =>
    LET last == Max(ToSet(heap.index)) IN last + SizeOf(heap, last) = heap.end

HasFit(h, r) == FindHole(h, Need(r), IsAligned(r)) # 0

(* The heap h when alloc has expanded it for r.                            *)
Expanded(h, r) ==
  LET oldLength == h.end - Start
      newLength == NextPage(oldLength + Need(r))
  IN AddRoom([h EXCEPT !.end = Start + newLength], h.end, newLength - oldLength)

(* The heap after one turn of alloc that finds no hole, or as it is.  In   *)
(* the heap after two turns alloc finds its hole: an aligned block may     *)
(* need room in front of it that one expansion does not give.              *)
Ready(h, r) == IF HasFit(h, r) THEN h ELSE Expanded(h, r)

(* An aligned block leaves room in h for a hole in front of it and behind  *)
(* it.                                                                     *)
LeavesHoles(h, r) ==
  LET a == h.index[FindHole(h, Need(r), TRUE)]
      front == Page - HeaderSize - (a % Page)
  IN front >= Overhead /\ SizeOf(h, a) - front - Need(r) >= Overhead

(* The footer in front of p's block names the hole it ends.                *)
FooterNamesHole(p) ==
  \A a \in Holes : a + SizeOf(heap, a) = BlockOf(p) =>
    heap.ftr[BlockOf(p) - FooterSize] = a

(* p's block is not the last of the heap.                                  *)
HasBehind(p) == Freeing(heap, p).test_header < heap.end

(* When the freed memory ends the heap, contract leaves a hole of the      *)
(* minimum size or more.                                                   *)
KeepsMinimum(p) ==
  LET f == UnifyRight(UnifyLeft(Freeing(heap, p))) IN
    f.footer + FooterSize = heap.end =>
      f.header - Start <= VM_HEAP_MIN_SIZE - Overhead
=============================================================================
