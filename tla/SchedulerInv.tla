---------------------------- MODULE SchedulerInv ----------------------------
(***************************************************************************)
(* The inductive invariant of Scheduler.  Its centre is a ring: the        *)
(* current node followed by the n nodes q of the ready queue.  The timer   *)
(* only turns the ring, thread_is_ready inserts in front of the current    *)
(* node, and an interrupted thread_is_ready holds on to the node before    *)
(* its own thread's node, which stays the node before it.                  *)
(*                                                                         *)
(* The parts also serve ThreadRemoval, where a set out of threads is kept  *)
(* from running; in Scheduler itself out is empty.                         *)
(***************************************************************************)
EXTENDS Scheduler

(* The current node is the one node in use for the running thread.         *)
CurrentInv(n, q) ==
  /\ current_thread = NULL <=> pc[Main] \in BootPC
  /\ current_thread = NULL => n = 0 /\ cpu = Main
  /\ current_thread # NULL =>
       current_thread \in used /\ node_thread[current_thread] = cpu
  /\ \A i \in 1..n : q[i] # current_thread
  /\ \A t \in Threads \ {Main} : pc[t] \notin BootPC

(* The nodes of the queue are in use for threads that do not run, one each.*)
NodesInv(n, q) ==
  /\ \A i \in 1..n : q[i] \in used
  /\ \A i \in 1..n : node_thread[q[i]] \in Threads \ {cpu}
  /\ \A i, j \in 1..n : node_thread[q[i]] = node_thread[q[j]] => i = j

(* A queued thread has the context switch_thread or create_thread gave it. *)
ContextInv(n, q) ==
  /\ pc[cpu] # "none"
  /\ \A i \in 1..n :
       LET u == node_thread[q[i]] IN
         /\ pc[u] # "none" /\ irq[u] \in {"none", "iret"}
         /\ esp[u] = u /\ (eflags[u] <=> irq[u] = "none")

(* One handler at a time, on the stack of the running thread; schedule     *)
(* walks the nodes of the queue and stops at the last one.                 *)
InterruptInv(n, q) ==
  /\ IFlag <=> irq[cpu] = "none"
  /\ in_service <=> irq[cpu] = "handler"
  /\ \A t \in Threads \ {cpu} : irq[t] \in {"none", "iret"}
  /\ \A t \in Threads : pc[t] = "none" => irq[t] = "none"
  /\ irq[cpu] \in {"walk", "switch"} =>
       /\ current_thread # NULL
       /\ n > 0 /\ \E i \in 1..n : scan[cpu] = q[i]
  /\ irq[cpu] = "switch" => scan[cpu] = q[n]

(* A call has the thread it works on; a thread that is to be queued is the *)
(* caller's alone, is not in the ring and has the context it starts with,  *)
(* or resumes with when it was stopped before.                             *)
CreationInv(n, q) ==
  \A t \in Threads :
    /\ pc[t] \in InitPC \cup ReadyPC \cup NotReadyPC <=> thread[t] # NULL
    /\ pc[t] \in InitPC \cup ReadyPC =>
         LET u == thread[t] IN
           /\ u # cpu /\ ~Queued(n, q, u)
           /\ irq[u] \in {"none", "iret"} /\ thread[u] = NULL
           /\ \A s \in Threads : thread[s] = u => s = t
    /\ pc[t] \in InitPC => pc[thread[t]] = "none"
    /\ pc[t] \in ReadyPC =>
         LET u == thread[t] IN
           pc[u] \in {"run", "exited"} /\ esp[u] = u /\ (eflags[u] <=> irq[u] = "none")

(* The node before the one of thread t, when t is in the ring.             *)
Before(n, q, t, p) ==
  /\ t = cpu => p = q[n]
  /\ \A i \in 1..n :
       node_thread[q[i]] = t => p = IF i = 1 THEN current_thread ELSE q[i - 1]

(* The new node of thread_is_ready ends a list and is in no list; the walk *)
(* is at a node of the ring other than the caller's, and it appends behind *)
(* the node before the caller's, the last one whenever the caller runs.    *)
InsertInv(n, q) ==
  \A t \in Threads :
    /\ pc[t] \in ReadyPC \ {"new_node"} =>
         item[t] \in used /\ node_thread[item[t]] = thread[t]
                          /\ node_next[item[t]] = NULL
    /\ pc[t] = "set_head" => n = 0 /\ cpu = t
    /\ pc[t] = "walk" =>
         /\ n > 0
         /\ iterator[t] = current_thread \/ \E i \in 1..n : iterator[t] = q[i]
         /\ node_thread[iterator[t]] # t
    /\ pc[t] = "append" => n > 0 /\ Before(n, q, t, iterator[t])

(* The threads in out do not run, wait nowhere and can be queued again.    *)
StoppedInv(n, q, out) ==
  \A u \in out :
    /\ u \in Threads /\ u # cpu /\ ~Queued(n, q, u)
    /\ pc[u] \in {"run", "exited"} /\ irq[u] \in {"none", "iret"}
    /\ esp[u] = u /\ (eflags[u] <=> irq[u] = "none")
    /\ \A s \in Threads : pc[s] \in InitPC \cup ReadyPC => thread[s] # u

(* Every thread with a context runs, waits, is about to be queued, or out. *)
NoneLostInv(n, q, out) ==
  \A u \in Threads :
    pc[u] # "none" =>
      u = cpu \/ Queued(n, q, u) \/ u \in out \/ \E t \in Threads : thread[t] = u

RingInv(n, q, out) ==
  /\ ReadyQueueIs(n, q)
  /\ CurrentInv(n, q) /\ NodesInv(n, q) /\ ContextInv(n, q)
  /\ InterruptInv(n, q) /\ CreationInv(n, q) /\ InsertInv(n, q)
  /\ StoppedInv(n, q, out) /\ NoneLostInv(n, q, out)

(* The state after every step: a ring, and everything that hangs on it     *)
(* (thread_is_ready, create_thread, schedule, switch_thread).              *)
IInv == TypeOK /\ \E n \in Lengths : \E q \in [1..n -> Nodes] : RingInv(n, q, {})
=============================================================================
