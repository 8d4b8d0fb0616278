------------------------------ MODULE MCHeap -------------------------------
(***************************************************************************)
(* The heap with callers that stay within what it can do, and with callers *)
(* that leave that range in one way.                                       *)
(***************************************************************************)
EXTENDS HeapCallers

CONSTANT Liberties  \* the conditions callers do not heed: "growth",
                    \* "alignment", "coalescing", "contraction"

(* The calls of such callers.                                              *)
Asks(n, flags) ==
  LET r == [size |-> n, flags |-> flags] IN
    /\ HasFit(heap, r) \/ GrowsAtEnd \/ "growth" \in Liberties
    /\ IsAligned(r) => "alignment" \in Liberties \/ LeavesHoles(Ready(Ready(heap, r), r), r)
    /\ Kmalloc(n, flags)

GivesBack(p) ==
  /\ FooterNamesHole(p) \/ "coalescing" \in Liberties
  /\ HasBehind(p)
  /\ KeepsMinimum(p) \/ "contraction" \in Liberties
  /\ Kfree(p)

Calls ==
  \/ \E n \in Sizes, flags \in Flags : Asks(n, flags)
  \/ \E p \in DOMAIN live : GivesBack(p)

CallerSpec == Init /\ [][Calls \/ AllocGrow \/ AllocPlace]_vars

-----------------------------------------------------------------------------
A == INSTANCE Allocator WITH
       Addresses <- Start..(HeapMax - 1),
       NoRequest <- [size |-> -1, flags |-> {}],
       request <- [size |-> request.size, flags |-> request.flags],
       stopped <- panic

(* What kmalloc grants overlaps nothing other callers hold and is aligned  *)
(* when asked for, and only kmalloc, never kfree, may stop the kernel: no  *)
(* step of alloc and free, whatever came before, does anything else to     *)
(* what callers see (alloc, free).  That an alloc ends is not said here,   *)
(* see FewRetries.                                                         *)
AllocatorSpec == A!Spec
=============================================================================
