----------------------------- MODULE RemovalInv -----------------------------
(***************************************************************************)
(* The inductive invariant of ThreadRemoval when main() alone calls the    *)
(* queue's functions, and is preempted anywhere in them.  An interrupted   *)
(* thread_not_ready holds pointers into a ring that turns under it; what   *)
(* it knows is therefore said of the ring, from wherever it is read: which *)
(* node comes before which, going round from the caller's own node.        *)
(***************************************************************************)
EXTENDS ThreadRemoval, SchedulerInv

(* The threads that are kept from running: from the store that takes the   *)
(* node out of the queue on, before the call has returned.                 *)
Out == not_ready \cup IF pc[Main] = "free_node" THEN {thread[Main]} ELSE {}

(* Only the caller is in a call, and the pointers it holds are to nodes in *)
(* use.                                                                    *)
LocalsInv ==
  /\ tmp \in [Threads -> Nodes \cup {NULL}] /\ next \in [Threads -> Nodes \cup {NULL}]
  /\ \A t \in Threads \ {Main} :
       /\ pc[t] \notin InitPC \cup ReadyPC \cup NotReadyPC
       /\ iterator[t] = NULL /\ tmp[t] = NULL /\ next[t] = NULL
  /\ iterator[Main] \in used \cup {NULL}
  /\ tmp[Main] \in used \cup {NULL} /\ next[Main] \in used \cup {NULL}
  /\ not_ready \subseteq Threads
  /\ pc[Main] \in {"run", "check_head"} \cup BootPC \cup InitPC => iterator[Main] = NULL

(* The ring's positions: 0 is the current node, 1..n are the queue.        *)
Ring(n, q) == [i \in 0..n |-> IF i = 0 THEN current_thread ELSE q[i]]
Pred(n, i) == IF i = 0 THEN n ELSE i - 1
Succ(n, i) == IF i = n THEN 0 ELSE i + 1

(* Going round from a, b comes strictly before d.                          *)
InOrder(a, b, d) ==
  (a < b /\ b < d) \/ (b < d /\ d < a) \/ (d < a /\ a < b)

(* thread_not_ready works on a thread of the ring: its search is between   *)
(* the caller's node, at a, and the thread's, at d; the node it has found  *)
(* is the thread's, with its neighbours where these are not the caller.    *)
SearchInv(n, R) ==
  pc[Main] \in {"check_head", "search", "load_next", "unlink"} =>
    \E a, d \in 0..n :
      /\ a # d /\ node_thread[R[a]] = Main /\ node_thread[R[d]] = thread[Main]
      /\ pc[Main] = "search" => \E b \in 0..n : iterator[Main] = R[b] /\ InOrder(a, b, d)
      /\ pc[Main] \in {"load_next", "unlink"} =>
           tmp[Main] = R[d] /\ iterator[Main] = IF Pred(n, d) = a THEN NULL ELSE R[Pred(n, d)]
      /\ pc[Main] = "unlink" => next[Main] = IF Succ(n, d) = a THEN NULL ELSE R[Succ(n, d)]

(* The node that is about to be freed is in no list.                       *)
FreeInv(n, R) ==
  pc[Main] = "free_node" =>
    tmp[Main] \in Nodes /\ \A i \in 0..n : R[i] # tmp[Main]

(* The ring with the stopped threads outside it, and what the caller knows *)
(* of it (thread_not_ready, thread_is_ready, schedule).                    *)
RemovalInvariant ==
  /\ TypeOK /\ LocalsInv
  /\ \E n \in Lengths : \E q \in [1..n -> Nodes] :
       /\ RingInv(n, q, Out)
       /\ SearchInv(n, Ring(n, q)) /\ FreeInv(n, Ring(n, q))
=============================================================================
