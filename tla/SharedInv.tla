----------------------------- MODULE SharedInv -----------------------------
(***************************************************************************)
(* The inductive invariant of SharedHeap, until two calls overlap.  While  *)
(* no thread is in a call the heap is in order; while one is, the heap is  *)
(* what its steps so far have made of the heap the call began with.        *)
(***************************************************************************)
EXTENDS MCSharedHeap, HeapInv

Freers == {t \in Threads : th[t].at \in {"free", "left", "right", "contract", "add", "freed"}}

(* The blocks that have been handed out: those in the threads' hands, and  *)
(* the one that is being freed.                                            *)
InHands  == UNION {{b.pointer : b \in ToSet(th[t].got)} : t \in Threads}
Pointers == InHands \cup {th[t].pointer : t \in Freers}

(* Each is in one place.                                                   *)
HeldOnce ==
  /\ \A t, u \in Threads : \A i \in DOMAIN th[t].got, j \in DOMAIN th[u].got :
       th[t].got[i].pointer = th[u].got[j].pointer => t = u /\ i = j
  /\ \A t \in Freers : th[t].pointer \notin InHands

(* held has them and their lengths.                                        *)
Hands(held) ==
  /\ DOMAIN held = Pointers
  /\ \A t \in Threads : \A i \in DOMAIN th[t].got :
       held[th[t].got[i].pointer] = th[t].got[i].size

ThreadsOK ==
  /\ th = [t \in Threads |-> th[t]]
  /\ \A t \in Threads :
       /\ th[t] = [at |-> th[t].at, got |-> th[t].got, size |-> th[t].size, i |-> th[t].i,
                   hole |-> th[t].hole, hole_size |-> th[t].hole_size,
                   pointer |-> th[t].pointer, freeing |-> th[t].freeing]
       /\ th[t].got \in Seq([pointer : Nat, size : Sizes])

(* The heap as calls find it.                                              *)
InOrder(h, held) ==
  /\ HeapOK(h, BlocksIn(h), held)
  /\ h.end \in (Start + VM_HEAP_MIN_SIZE)..HeapMax /\ h.end % Page = 0

-----------------------------------------------------------------------------
(* What alloc has made of h, hole a of which it takes: a block of b words, *)
(* and behind it a hole of the rest.                                       *)
Headed(h, a, b)  == PutHeader(RemoveHole(h, a), a, FALSE, b)
Blocked(h, a, b) == PutFooter(Headed(h, a, b), a + b - FooterSize, a)
RestHeaded(h, a, b, rest) == PutHeader(Blocked(h, a, b), a + b, TRUE, rest)
RestFooted(h, a, b, rest) ==
  LET footer == a + b + rest - FooterSize
      g == RestHeaded(h, a, b, rest)
  IN IF footer < h.end THEN PutFooter(g, footer, a + b) ELSE g
Allocated(h, a, b, rest) ==
  IF rest = 0 THEN Blocked(h, a, b) ELSE InsertHole(RestFooted(h, a, b, rest), a + b)

(* The search has not found a hole that fits; when there is none, the heap *)
(* can grow.                                                               *)
Seeks(t, h) ==
  LET need == Need(Request(t))
      found == FindHole(h, need, FALSE)
  IN /\ heap = h
     /\ found = 0 => GrowsAtEnd
     /\ \/ /\ th[t].at = "search"
           /\ th[t].i \in 1..(Len(h.index) + 1)
           /\ \A j \in 1..(th[t].i - 1) : ~Fits(h, h.index[j], need, FALSE)
        \/ th[t].at = "grow" /\ found = 0
        \/ th[t].at = "lookup" /\ found # 0 /\ th[t].i = found

(* It has found the first one that fits, and takes it in steps.            *)
Takes(t, h) ==
  LET a == th[t].hole
      b == BlockSize(t)
      rest == Rest(t)
      found == FindHole(h, Need(Request(t)), FALSE)
  IN /\ found # 0 /\ th[t].i = found /\ a = h.index[found] /\ th[t].hole_size = SizeOf(h, a)
     /\ \/ th[t].at = "remove" /\ heap = h
        \/ th[t].at = "header" /\ heap = RemoveHole(h, a)
        \/ th[t].at = "footer" /\ heap = Headed(h, a, b)
        \/ th[t].at = "rest_header" /\ rest # 0 /\ heap = Blocked(h, a, b)
        \/ th[t].at = "rest_footer" /\ rest # 0 /\ heap = RestHeaded(h, a, b, rest)
        \/ th[t].at = "insert" /\ rest # 0 /\ heap = RestFooted(h, a, b, rest)
        \/ th[t].at = "return" /\ heap = Allocated(h, a, b, rest)

Allocating(t, h) == th[t].size \in Sizes /\ (Seeks(t, h) \/ Takes(t, h))

-----------------------------------------------------------------------------
(* A careful caller frees p (FooterNamesHole, HasBehind, KeepsMinimum).    *)
MayFree(h, p) ==
  LET x == BlockOf(p)
      f == UnifyRight(UnifyLeft(Freeing(h, p)))
  IN /\ \A a \in BlocksIn(h) :
          IsHole(h, a) /\ a + SizeOf(h, a) = x => h.ftr[x - FooterSize] = a
     /\ Freeing(h, p).test_header < h.end
     /\ f.footer + FooterSize = h.end => f.header - Start <= VM_HEAP_MIN_SIZE - Overhead

(* free has come as far as f, the heap in which is that of all.            *)
IsAt(t, f) == heap = f.h /\ th[t].freeing = [f EXCEPT !.h = << >>]

Releasing(t, h) ==
  LET f == Freeing(h, th[t].pointer)
  IN /\ MayFree(h, th[t].pointer)
     /\ \/ th[t].at = "free"     /\ heap = h
        \/ th[t].at = "left"     /\ IsAt(t, f)
        \/ th[t].at = "right"    /\ IsAt(t, UnifyLeft(f))
        \/ th[t].at = "contract" /\ IsAt(t, UnifyRight(UnifyLeft(f)))
        \/ th[t].at = "add"      /\ IsAt(t, ContractHeap(UnifyRight(UnifyLeft(f))))
        \/ th[t].at = "freed"    /\ IsAt(t, Freed(f))

-----------------------------------------------------------------------------
(* Until two calls overlap, the heap between calls is in order, and within *)
(* a call it is the heap the call began with and the steps it has done.    *)
SharedInvariant ==
  alone # {} =>
    /\ ThreadsOK /\ HeldOnce
    /\ \E held \in [Pointers -> Sizes] :
         /\ Hands(held)
         /\ IF Inside = {} THEN InOrder(heap, held)
            ELSE \E t \in Threads, h \in alone :
                   /\ Inside = {t} /\ alone = {h} /\ InOrder(h, held)
                   /\ Allocating(t, h) \/ Releasing(t, h)
=============================================================================
