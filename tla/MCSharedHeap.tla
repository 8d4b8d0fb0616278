---------------------------- MODULE MCSharedHeap ---------------------------
(***************************************************************************)
(* Threads that share the heap.  While no two calls overlap they heed what *)
(* a single caller has to.                                                 *)
(***************************************************************************)
EXTENDS SharedHeap, HeapCallers

CarefulNext ==
  \E t \in Threads :
    \/ /\ Inside = {} => GrowsAtEnd
       /\ \E n \in Sizes : Kmallocs(t, n)
    \/ \E k \in DOMAIN th[t].got :
         /\ Inside = {} =>
              LET p == th[t].got[k].pointer IN
                FooterNamesHole(p) /\ HasBehind(p) /\ KeepsMinimum(p)
         /\ Kfrees(t, k)
    \/ Work(t)

Symmetry == Permutations(Threads)

CarefulSpec == SharedInit /\ [][CarefulNext]_sharedVars
=============================================================================
