--------------------------- MODULE ThreadRemoval ---------------------------
(***************************************************************************)
(* thread_not_ready (scheduler.c) beside thread creation and the timer:    *)
(* a thread takes others out of the ready queue and makes them ready       *)
(* again.  No code of the kernel calls thread_not_ready yet: the callers   *)
(* here are the uses its documentation allows.  The steps extend those of  *)
(* thread code in Scheduler and are cut by the same interrupt.             *)
(***************************************************************************)
EXTENDS Scheduler

CONSTANTS
  Removers,  \* the threads that call thread_not_ready
  Targets    \* the threads they call it for

ASSUME RemovalAssumption == Removers \subseteq Threads /\ Targets \subseteq Threads

VARIABLES
  tmp,       \* thread_not_ready's node to remove
  next,      \* the next pointer it has loaded from that node
  not_ready  \* threads whose last call was thread_not_ready, not thread_is_ready

removal_vars == <<tmp, next, not_ready>>
all_vars     == <<vars, removal_vars>>

RemovalInit ==
  /\ Init
  /\ tmp = [t \in Threads |-> NULL]
  /\ next = [t \in Threads |-> NULL]
  /\ not_ready = {}

-----------------------------------------------------------------------------

(* thread_not_ready(u) is entered.                                         *)
CallNotReady(t, u) ==
  /\ Executes(t) /\ pc[t] = "run" /\ t \in Removers
  /\ u \in Targets \ not_ready /\ pc[u] \in {"run", "exited"}
  /\ \A s \in Threads : thread[s] # u
  /\ thread' = [thread EXCEPT ![t] = u]
  /\ Goto(t, "check_head")
  /\ UNCHANGED <<tid, item, iterator, queue_vars, struct_vars, irq_vars, removal_vars>>

(* thread_not_ready returns.                                               *)
ReturnNotReady(t) ==
  /\ not_ready' = not_ready \cup {thread[t]}
  /\ thread' = [thread EXCEPT ![t] = NULL]
  /\ iterator' = [iterator EXCEPT ![t] = NULL]
  /\ tmp' = [tmp EXCEPT ![t] = NULL]
  /\ next' = [next EXCEPT ![t] = NULL]
  /\ Goto(t, "run")

(* The node that is found is the one whose next pointer is loaded next.    *)
Found(t, n) ==
  /\ tmp' = [tmp EXCEPT ![t] = n]
  /\ Goto(t, "load_next")

(* Mutation: no special case, the search begins behind the head.           *)
CheckHeadSkipped(t) ==
  /\ Executes(t) /\ pc[t] = "check_head"
  /\ \/ ready_queue = NULL /\ ReturnNotReady(t)
     \/ /\ ready_queue # NULL
        /\ iterator' = [iterator EXCEPT ![t] = ready_queue]
        /\ Goto(t, "search")
        /\ UNCHANGED <<thread, removal_vars>>
  /\ UNCHANGED <<tid, item, queue_vars, struct_vars, irq_vars>>

(* The special case of the head: the queue is empty, its head holds the    *)
(* thread, or the search starts there.                                     *)
CheckHead(t) ==
  /\ Executes(t) /\ pc[t] = "check_head"
  /\ \/ /\ ready_queue = NULL
        /\ ReturnNotReady(t)
     \/ /\ ready_queue # NULL /\ node_thread[ready_queue] = thread[t]
        /\ Found(t, ready_queue)
        /\ UNCHANGED <<thread, iterator, next, not_ready>>
     \/ /\ ready_queue # NULL /\ node_thread[ready_queue] # thread[t]
        /\ iterator' = [iterator EXCEPT ![t] = ready_queue]
        /\ Goto(t, "search")
        /\ UNCHANGED <<thread, removal_vars>>
  /\ UNCHANGED <<tid, item, queue_vars, struct_vars, irq_vars>>

(* One turn of the loop over iterator->next.                               *)
Search(t) ==
  /\ Executes(t) /\ pc[t] = "search"
  /\ LET n == node_next[iterator[t]] IN
       \/ n = NULL /\ ReturnNotReady(t)
       \/ /\ n # NULL /\ node_thread[n] = thread[t]
          /\ Found(t, n)
          /\ UNCHANGED <<thread, iterator, next, not_ready>>
       \/ /\ n # NULL /\ node_thread[n] # thread[t]
          /\ iterator' = [iterator EXCEPT ![t] = n]
          /\ UNCHANGED <<pc, thread, removal_vars>>
  /\ UNCHANGED <<tid, item, queue_vars, struct_vars, irq_vars>>

(* The load of tmp->next, or of iterator->next for the head ...            *)
LoadNext(t) ==
  /\ Executes(t) /\ pc[t] = "load_next"
  /\ next' = [next EXCEPT ![t] = node_next[tmp[t]]]
  /\ Goto(t, "unlink")
  /\ UNCHANGED <<thread, tid, item, iterator, tmp, not_ready, queue_vars,
                 struct_vars, irq_vars>>

(* Mutation: the node is freed before it is unlinked.                      *)
UnlinkNothing(t) ==
  /\ Executes(t) /\ pc[t] = "unlink"
  /\ Goto(t, "free_node")
  /\ UNCHANGED <<thread, tid, item, iterator, queue_vars, struct_vars, irq_vars,
                 removal_vars>>

(* Mutation: iterator->next = 0 instead of tmp->next.                      *)
UnlinkTail(t) ==
  /\ Executes(t) /\ pc[t] = "unlink"
  /\ \/ /\ iterator[t] = NULL
        /\ ready_queue' = next[t] /\ UNCHANGED node_next
     \/ /\ iterator[t] # NULL
        /\ node_next' = [node_next EXCEPT ![iterator[t]] = NULL]
        /\ UNCHANGED ready_queue
  /\ Goto(t, "free_node")
  /\ UNCHANGED <<current_thread, used, node_thread, thread, tid, item, iterator,
                 struct_vars, irq_vars, removal_vars>>

(* ... and the store that takes the node out of the list.                  *)
Unlink(t) ==
  /\ Executes(t) /\ pc[t] = "unlink"
  /\ \/ /\ iterator[t] = NULL
        /\ ready_queue' = next[t] /\ UNCHANGED node_next
     \/ /\ iterator[t] # NULL
        /\ node_next' = [node_next EXCEPT ![iterator[t]] = next[t]]
        /\ UNCHANGED ready_queue
  /\ Goto(t, "free_node")
  /\ UNCHANGED <<current_thread, used, node_thread, thread, tid, item, iterator,
                 struct_vars, irq_vars, removal_vars>>

(* kfree of the node; what freed memory holds is the heap's affair, and    *)
(* NoDanglingNode says that nobody reads it.                               *)
FreeNode(t) ==
  /\ Executes(t) /\ pc[t] = "free_node"
  /\ used' = used \ {tmp[t]}
  /\ node_thread' = [node_thread EXCEPT ![tmp[t]] = NULL]
  /\ node_next' = [node_next EXCEPT ![tmp[t]] = NULL]
  /\ ReturnNotReady(t)
  /\ UNCHANGED <<ready_queue, current_thread, tid, item, struct_vars, irq_vars>>

ThreadNotReady(t) ==
  CheckHead(t) \/ Search(t) \/ LoadNext(t) \/ Unlink(t) \/ FreeNode(t)

(* thread_is_ready(u) for a thread that thread_not_ready has stopped.      *)
WakeThread(t, u) ==
  /\ Executes(t) /\ pc[t] = "run" /\ t \in Removers
  /\ u \in not_ready
  /\ not_ready' = not_ready \ {u}
  /\ thread' = [thread EXCEPT ![t] = u]
  /\ Goto(t, "new_node")
  /\ UNCHANGED <<tid, item, iterator, tmp, next, queue_vars, struct_vars, irq_vars>>

RemovalNext ==
  \/ Next /\ UNCHANGED removal_vars
  \/ \E t \in Threads :
       \/ ThreadNotReady(t)
       \/ \E u \in Threads : CallNotReady(t, u) \/ WakeThread(t, u)

RemovalSpec == RemovalInit /\ [][RemovalNext]_all_vars

-----------------------------------------------------------------------------
(* Properties, for one thread at a time that calls the queue's functions   *)
(* and is preempted anywhere in them.                                      *)

(* A removal keeps the list whole: its nodes are in use, and every thread  *)
(* that has not been stopped still runs or is in the queue, so the nodes   *)
(* behind the removed one are not cut off (thread_not_ready).              *)
RemovalKeepsList ==
  \E n \in Lengths : \E q \in [1..n -> Nodes] :
    /\ ReadyQueueIs(n, q)
    /\ \A i \in 1..n : q[i] \in used
    /\ \A u \in Threads \ not_ready :
         pc[u] # "none" /\ (\A t \in Threads : thread[t] # u)
           => u = cpu \/ Queued(n, q, u)

(* No local pointer of an interrupted call is left at freed memory, and no *)
(* node is freed while the list or the CPU still uses it.                  *)
NoDanglingNode ==
  /\ current_thread # NULL => current_thread \in used
  /\ \A t \in Threads :
       /\ {iterator[t], tmp[t], next[t]} \subseteq used \cup {NULL}
       /\ irq[t] \in {"walk", "switch"} => scan[t] \in used

(* thread_not_ready(u) "removes a thread from the ready queue": until it   *)
(* is made ready again u is not going to be picked by schedule.            *)
NotReadyNotQueued ==
  \A u \in not_ready :
    \E n \in Lengths : \E q \in [1..n -> Nodes] :
      ReadyQueueIs(n, q) /\ ~Queued(n, q, u)

(* Nor does it run: so it stands still, if it is another thread that has   *)
(* called thread_not_ready for it.                                         *)
NotReadyNeverRuns == NotReadyNotQueued /\ cpu \notin not_ready
=============================================================================
