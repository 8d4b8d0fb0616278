------------------------ MODULE SchedulerRefinement ------------------------
(* The linked list of Scheduler as the queue of RoundRobin.                *)
EXTENDS Scheduler
LOCAL INSTANCE Sequences

(* The nodes of the list that starts at head, NULL past its end.           *)
Chain(head, next) ==
  LET node[i \in 1..Cardinality(Nodes) + 1] ==
        IF i = 1 THEN head
        ELSE IF node[i - 1] = NULL THEN NULL ELSE next[node[i - 1]]
  IN node

ChainLength(chain) == Cardinality({i \in 1..Cardinality(Nodes) : chain[i] # NULL})

(* What the nodes of a list hold, from its head on.                        *)
Listed(head, next, held) ==
  [i \in 1..ChainLength(Chain(head, next)) |-> held[Chain(head, next)[i]]]

(* The threads of the ready queue.                                         *)
ReadyThreads == Listed(ready_queue, node_next, node_thread)

RR == INSTANCE RoundRobin WITH running <- cpu, queue <- ReadyThreads

(* The scheduler is a fair round robin: at every step, whatever it cuts,   *)
(* the interrupt gives the CPU to the thread that has waited longest, and  *)
(* create_thread adds its thread at the end (schedule, thread_is_ready).   *)
RoundRobinSpec == RR!Spec
=============================================================================
