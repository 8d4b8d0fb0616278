----------------------------- MODULE Scheduler -----------------------------
(***************************************************************************)
(* Threads, the ready queue and the timer interrupt of the kernel, on its  *)
(* one CPU (thread.c, scheduler.c, thread_asm.s, timer.c, main.c and the   *)
(* IRQ path of descriptor_tables.c and interrupt.s).                       *)
(*                                                                         *)
(* Two kinds of code manipulate the same linked list.  Thread code         *)
(* (create_thread, thread_is_ready) runs with interrupts enabled and can   *)
(* be cut between any two of the steps below.  The timer interrupt runs    *)
(* schedule() on the stack of the thread it cut, with interrupts disabled, *)
(* and may continue with another thread.  Every read or write of a shared  *)
(* variable by thread code, and every turn of a list traversal, is a step. *)
(*                                                                         *)
(* kmalloc is one atomic step here and always succeeds: a node is any node *)
(* that is not in use.                                                     *)
(***************************************************************************)
EXTENDS Naturals, FiniteSets

CONSTANTS
  Threads,   \* the thread_t structures there may ever be
  Main,      \* the thread that runs main()
  Creators,  \* the threads whose code calls create_thread
  Nodes,     \* the thread_list_t nodes kmalloc can return
  NULL       \* the null pointer

ASSUME SchedulerAssumption ==
  /\ Main \in Threads
  /\ Creators \subseteq Threads
  /\ IsFiniteSet(Threads)
  /\ IsFiniteSet(Nodes)
  /\ NULL \notin Threads \cup Nodes

VARIABLES
  \* globals of scheduler.c and thread.c
  ready_queue,     \* head node of the ready queue, or NULL
  current_thread,  \* node of the running thread, NULL before init_scheduler
  next_tid,        \* the id the next thread gets
  \* the heap: list nodes and thread structures
  used,            \* nodes kmalloc has handed out
  node_thread,     \* node->thread
  node_next,       \* node->next
  id,              \* thread->id, NULL while there is none
  esp,             \* thread->esp, as the thread whose stack it points into
  eflags,          \* the interrupt flag of thread->eflags
  \* the code of each thread and its local variables
  pc,              \* the step the thread's own code takes next
  thread,          \* create_thread's new thread_t
  tid,             \* next_tid as create_thread has loaded it
  item,            \* thread_is_ready's new node
  iterator,        \* thread_is_ready's position in the queue
  irq,             \* the step of the interrupt handler on this thread's stack
  scan,            \* schedule's position in the queue
  \* the processor and the interrupt controller
  cpu,             \* the thread whose stack the CPU is on
  IFlag,           \* the CPU's interrupt flag
  in_service       \* IRQ0 taken by the CPU and not yet acknowledged

queue_vars  == <<ready_queue, current_thread, used, node_thread, node_next>>
struct_vars == <<id, esp, eflags, next_tid>>
code_vars   == <<pc, thread, tid, item, iterator>>
irq_vars    == <<irq, scan, cpu, IFlag, in_service>>
vars        == <<queue_vars, struct_vars, code_vars, irq_vars>>

-----------------------------------------------------------------------------
(* The steps of a thread's own code.  "none": no context yet; "run": the   *)
(* thread is outside the calls modelled here; "exited": thread_exit.       *)

BootPC   == {"init_threading", "init_scheduler"}
InitPC   == {"load_tid", "store_tid", "set_context"}     \* in create_thread
ReadyPC  == {"new_node", "read_queue", "walk", "append", "set_head"}
                                                         \* in thread_is_ready
NotReadyPC == {"check_head", "search", "load_next", "unlink", "free_node"}
                                  \* in thread_not_ready, see ThreadRemoval
ThreadPC == {"none", "run", "exited"} \cup BootPC \cup InitPC \cup ReadyPC \cup NotReadyPC
IrqPC    == {"none", "handler", "walk", "switch", "iret"}

(* main() after sti: the descriptor tables, paging and the timer are set   *)
(* up, interrupts are enabled, and neither threading nor the scheduler is. *)
Init ==
  /\ ready_queue = NULL /\ current_thread = NULL
  /\ next_tid = 0
  /\ used = {}
  /\ node_thread = [n \in Nodes |-> NULL]
  /\ node_next = [n \in Nodes |-> NULL]
  /\ id = [t \in Threads |-> NULL]
  /\ esp = [t \in Threads |-> NULL]
  /\ eflags = [t \in Threads |-> FALSE]
  /\ pc = [t \in Threads |-> IF t = Main THEN "init_threading" ELSE "none"]
  /\ thread = [t \in Threads |-> NULL]
  /\ tid = [t \in Threads |-> 0]
  /\ item = [t \in Threads |-> NULL]
  /\ iterator = [t \in Threads |-> NULL]
  /\ irq = [t \in Threads |-> "none"]
  /\ scan = [t \in Threads |-> NULL]
  /\ cpu = Main
  /\ IFlag = TRUE
  /\ in_service = FALSE

(* The CPU executes thread t's own code: it is on t's stack and no handler *)
(* is on top of that code.                                                 *)
Executes(t) == cpu = t /\ irq[t] = "none"

(* The CPU executes the interrupt handler cut into thread t, at step s.    *)
Handles(t, s) == cpu = t /\ irq[t] = s

Goto(t, s) == pc' = [pc EXCEPT ![t] = s]

-----------------------------------------------------------------------------
(* Boot                                                                    *)

(* Mutation: the initial thread takes next_tid without incrementing it.    *)
InitThreadingKeepsTid(t) ==
  /\ Executes(t) /\ pc[t] = "init_threading"
  /\ id' = [id EXCEPT ![t] = next_tid]
  /\ Goto(t, "init_scheduler")
  /\ UNCHANGED <<next_tid, esp, eflags, thread, tid, item, iterator, queue_vars,
                 irq_vars>>

(* init_threading: the thread_t of main() gets id 0.                       *)
InitThreading(t) ==
  /\ Executes(t) /\ pc[t] = "init_threading"
  /\ id' = [id EXCEPT ![t] = next_tid]
  /\ next_tid' = next_tid + 1
  /\ Goto(t, "init_scheduler")
  /\ UNCHANGED <<esp, eflags, thread, tid, item, iterator, queue_vars, irq_vars>>

(* init_scheduler: a node for the initial thread, an empty ready queue.    *)
InitScheduler(t) ==
  /\ Executes(t) /\ pc[t] = "init_scheduler"
  /\ \E n \in Nodes \ used :
       /\ used' = used \cup {n}
       /\ current_thread' = n
       /\ node_thread' = [node_thread EXCEPT ![n] = t]
       /\ node_next' = [node_next EXCEPT ![n] = NULL]
  /\ ready_queue' = NULL
  /\ Goto(t, "run")
  /\ UNCHANGED <<thread, tid, item, iterator, struct_vars, irq_vars>>

-----------------------------------------------------------------------------
(* create_thread                                                           *)

(* kmalloc and memset of a thread_t no thread uses.                        *)
CreateThread(t, u) ==
  /\ Executes(t) /\ pc[t] = "run" /\ t \in Creators
  /\ pc[u] = "none" /\ \A s \in Threads : thread[s] # u
  /\ thread' = [thread EXCEPT ![t] = u]
  /\ Goto(t, "load_tid")
  /\ UNCHANGED <<tid, item, iterator, queue_vars, struct_vars, irq_vars>>

(* thread->id = next_tid++ loads next_tid ...                              *)
LoadTid(t) ==
  /\ Executes(t) /\ pc[t] = "load_tid"
  /\ tid' = [tid EXCEPT ![t] = next_tid]
  /\ Goto(t, "store_tid")
  /\ UNCHANGED <<thread, item, iterator, queue_vars, struct_vars, irq_vars>>

(* ... and stores it back, incremented, in a later instruction.            *)
StoreTid(t) ==
  /\ Executes(t) /\ pc[t] = "store_tid"
  /\ next_tid' = tid[t] + 1
  /\ id' = [id EXCEPT ![thread[t]] = tid[t]]
  /\ tid' = [tid EXCEPT ![t] = 0]
  /\ Goto(t, "set_context")
  /\ UNCHANGED <<esp, eflags, thread, item, iterator, queue_vars, irq_vars>>

(* The new thread's stack (argument, thread_exit, fn) and its registers:   *)
(* from here on the thread can be switched to and starts in fn with        *)
(* interrupts enabled (eflags = 0x200).                                    *)
InterruptsMasked == FALSE   \* Mutation: eflags = 0
InitialEflags == TRUE

SetContext(t) ==
  /\ Executes(t) /\ pc[t] = "set_context"
  /\ esp' = [esp EXCEPT ![thread[t]] = thread[t]]
  /\ eflags' = [eflags EXCEPT ![thread[t]] = InitialEflags]
  /\ pc' = [pc EXCEPT ![thread[t]] = "run", ![t] = "new_node"]
  /\ UNCHANGED <<id, next_tid, thread, tid, item, iterator, queue_vars, irq_vars>>

-----------------------------------------------------------------------------
(* thread_is_ready                                                         *)

(* A fresh node that holds the thread and ends the list.                   *)
NewNode(t) ==
  /\ Executes(t) /\ pc[t] = "new_node"
  /\ \E n \in Nodes \ used :
       /\ used' = used \cup {n}
       /\ item' = [item EXCEPT ![t] = n]
       /\ node_thread' = [node_thread EXCEPT ![n] = thread[t]]
       /\ node_next' = [node_next EXCEPT ![n] = NULL]
  /\ Goto(t, "read_queue")
  /\ UNCHANGED <<ready_queue, current_thread, thread, tid, iterator,
                 struct_vars, irq_vars>>

(* if (!ready_queue) ... else iterator = ready_queue: one load of it.      *)
ReadQueue(t) ==
  /\ Executes(t) /\ pc[t] = "read_queue"
  /\ iterator' = [iterator EXCEPT ![t] = ready_queue]
  /\ Goto(t, IF ready_queue = NULL THEN "set_head" ELSE "walk")
  /\ UNCHANGED <<thread, tid, item, queue_vars, struct_vars, irq_vars>>

(* Mutation: while (iterator->next && iterator->next->next).               *)
WalkToLastButOne(t) ==
  /\ Executes(t) /\ pc[t] = "walk"
  /\ LET n == node_next[iterator[t]] IN
       IF n = NULL \/ node_next[n] = NULL
       THEN Goto(t, "append") /\ UNCHANGED iterator
       ELSE iterator' = [iterator EXCEPT ![t] = n] /\ UNCHANGED pc
  /\ UNCHANGED <<thread, tid, item, queue_vars, struct_vars, irq_vars>>

(* One turn of while (iterator->next) iterator = iterator->next.           *)
Walk(t) ==
  /\ Executes(t) /\ pc[t] = "walk"
  /\ LET n == node_next[iterator[t]] IN
       IF n = NULL
       THEN Goto(t, "append") /\ UNCHANGED iterator
       ELSE iterator' = [iterator EXCEPT ![t] = n] /\ UNCHANGED pc
  /\ UNCHANGED <<thread, tid, item, queue_vars, struct_vars, irq_vars>>

(* create_thread returns to its caller.                                    *)
ReturnToCaller(t) ==
  /\ Goto(t, "run")
  /\ thread' = [thread EXCEPT ![t] = NULL]
  /\ item' = [item EXCEPT ![t] = NULL]
  /\ iterator' = [iterator EXCEPT ![t] = NULL]

(* iterator->next = item: the new thread is in the ready queue.            *)
AppendItem(t) ==
  /\ Executes(t) /\ pc[t] = "append"
  /\ node_next' = [node_next EXCEPT ![iterator[t]] = item[t]]
  /\ ReturnToCaller(t)
  /\ UNCHANGED <<ready_queue, current_thread, used, node_thread, tid,
                 struct_vars, irq_vars>>

(* ready_queue = item, when the queue was found empty.                     *)
SetHead(t) ==
  /\ Executes(t) /\ pc[t] = "set_head"
  /\ ready_queue' = item[t]
  /\ ReturnToCaller(t)
  /\ UNCHANGED <<current_thread, used, node_thread, node_next, tid,
                 struct_vars, irq_vars>>

(* The function of a created thread returns into thread_exit, which spins: *)
(* the thread stays scheduled.  main() never returns.                      *)
ThreadExit(t) ==
  /\ Executes(t) /\ pc[t] = "run" /\ t # Main
  /\ Goto(t, "exited")
  /\ UNCHANGED <<thread, tid, item, iterator, queue_vars, struct_vars, irq_vars>>

-----------------------------------------------------------------------------
(* The timer interrupt                                                     *)

(* The CPU takes IRQ0 through an interrupt gate whose stub begins with     *)
(* cli: interrupts go off, and IRQ0 is in service until it is acknowledged.*)
GateFlag == FALSE
TimerIrq(t) ==
  /\ Executes(t) /\ IFlag /\ ~in_service
  /\ in_service' = TRUE
  /\ IFlag' = GateFlag
  /\ irq' = [irq EXCEPT ![t] = "handler"]
  /\ UNCHANGED <<scan, cpu, queue_vars, struct_vars, code_vars>>

(* Mutation: schedule without if (!ready_queue) return.                    *)
IrqHandlerUnchecked(t) ==
  /\ Handles(t, "handler")
  /\ in_service' = FALSE
  /\ scan' = [scan EXCEPT ![t] = ready_queue]
  /\ irq' = [irq EXCEPT ![t] = "walk"]
  /\ UNCHANGED <<cpu, IFlag, queue_vars, struct_vars, code_vars>>

(* irq_handler acknowledges the interrupt, then timer_callback calls       *)
(* schedule, which returns at once when no thread is ready.                *)
IrqHandler(t) ==
  /\ Handles(t, "handler")
  /\ in_service' = FALSE
  /\ scan' = [scan EXCEPT ![t] = ready_queue]
  /\ irq' = [irq EXCEPT ![t] = IF ready_queue = NULL THEN "iret" ELSE "walk"]
  /\ UNCHANGED <<cpu, IFlag, queue_vars, struct_vars, code_vars>>

(* One turn of schedule's traversal to the last node.                      *)
ScheduleWalk(t) ==
  /\ Handles(t, "walk")
  /\ LET n == node_next[scan[t]] IN
       IF n = NULL
       THEN irq' = [irq EXCEPT ![t] = "switch"] /\ UNCHANGED scan
       ELSE scan' = [scan EXCEPT ![t] = n] /\ UNCHANGED irq
  /\ UNCHANGED <<cpu, IFlag, in_service, queue_vars, struct_vars, code_vars>>

(* Mutation: current_thread->next = 0 forgotten.                           *)
RequeueUnterminated(t) ==
  /\ node_next' = [node_next EXCEPT ![scan[t]] = current_thread]
  /\ ready_queue' = node_next'[ready_queue]
  /\ UNCHANGED <<used, node_thread>>

(* Mutation: the current node becomes the head of the queue, not its end.  *)
RequeueAtHead(t) ==
  /\ node_next' = [node_next EXCEPT ![current_thread] = node_next[ready_queue]]
  /\ ready_queue' = current_thread
  /\ UNCHANGED <<used, node_thread>>

(* The current node goes to the end of the queue, the head leaves it.      *)
Requeue(t) ==
  /\ node_next' = [node_next EXCEPT ![scan[t]] = current_thread,
                                    ![current_thread] = NULL]
  /\ ready_queue' = node_next'[ready_queue]
  /\ UNCHANGED <<used, node_thread>>

(* Mutation: [current_thread] is left at the old node.                     *)
SwitchThreadKeepsCurrent(old, new) ==
  /\ esp' = [esp EXCEPT ![node_thread[old]] = cpu]
  /\ eflags' = [eflags EXCEPT ![node_thread[old]] = IFlag]
  /\ cpu' = esp'[node_thread[new]]
  /\ IFlag' = eflags'[node_thread[new]]
  /\ UNCHANGED current_thread

(* switch_thread: the context goes into the structure current_thread       *)
(* names, current_thread becomes the new node, and stack and flags come    *)
(* from the structure that node names.                                     *)
SwitchThread(old, new) ==
  /\ current_thread' = new
  /\ esp' = [esp EXCEPT ![node_thread[old]] = cpu]
  /\ eflags' = [eflags EXCEPT ![node_thread[old]] = IFlag]
  /\ cpu' = esp'[node_thread[new]]
  /\ IFlag' = eflags'[node_thread[new]]

(* The rest of schedule, straight-line code with interrupts off.  The      *)
(* thread that is switched out resumes at the end of the handler.          *)
ScheduleSwitch(t) ==
  /\ Handles(t, "switch")
  /\ Requeue(t)
  /\ SwitchThread(current_thread, ready_queue)
  /\ irq' = [irq EXCEPT ![t] = "iret"]
  /\ scan' = [scan EXCEPT ![t] = NULL]
  /\ UNCHANGED <<in_service, id, next_tid, code_vars>>

(* iret restores the flags of the interrupted code, which had interrupts   *)
(* enabled.                                                                *)
IrqReturn(t) ==
  /\ Handles(t, "iret")
  /\ irq' = [irq EXCEPT ![t] = "none"]
  /\ IFlag' = TRUE
  /\ UNCHANGED <<scan, cpu, in_service, queue_vars, struct_vars, code_vars>>

-----------------------------------------------------------------------------

ThreadIsReady(t) ==
  NewNode(t) \/ ReadQueue(t) \/ Walk(t) \/ AppendItem(t) \/ SetHead(t)

(* A step of an operation thread t is in the middle of.                    *)
OperationStep(t) ==
  \/ InitThreading(t) \/ InitScheduler(t)
  \/ LoadTid(t) \/ StoreTid(t) \/ SetContext(t)
  \/ ThreadIsReady(t)

HandlerStep(t) ==
  IrqHandler(t) \/ ScheduleWalk(t) \/ ScheduleSwitch(t) \/ IrqReturn(t)

Next ==
  \E t \in Threads :
    \/ OperationStep(t)
    \/ \E u \in Threads : CreateThread(t, u)
    \/ ThreadExit(t)
    \/ TimerIrq(t)
    \/ HandlerStep(t)

Spec == Init /\ [][Next]_vars

(* The timer never stops, the CPU does not stop inside a handler, and a    *)
(* thread that gets the CPU again and again gets through its next          *)
(* instruction: a time slice is 50 ms.                                     *)
Fairness ==
  /\ WF_vars(\E t \in Threads : TimerIrq(t))
  /\ WF_vars(\E t \in Threads : HandlerStep(t))
  /\ \A t \in Threads : SF_vars(OperationStep(t))

FairSpec == Spec /\ Fairness

-----------------------------------------------------------------------------
(* Properties                                                              *)

(* The nodes q[1], ..., q[n] are the list that starts at ready_queue: no   *)
(* node occurs twice and the last one ends it.                             *)
ReadyQueueIs(n, q) ==
  /\ ready_queue = IF n = 0 THEN NULL ELSE q[1]
  /\ \A i \in 1..n : node_next[q[i]] = IF i < n THEN q[i + 1] ELSE NULL
  /\ \A i, j \in 1..n : q[i] = q[j] => i = j

Lengths == 0..Cardinality(Nodes)

Queued(n, q, t) == \E i \in 1..n : node_thread[q[i]] = t

(* Types, and no step dereferences NULL: a walk stands at a node, a call   *)
(* has the structure it works on (thread_is_ready, schedule).              *)
TypeOK ==
  /\ ready_queue \in Nodes \cup {NULL} /\ current_thread \in Nodes \cup {NULL}
  /\ used \subseteq Nodes
  /\ node_thread \in [Nodes -> Threads \cup {NULL}]
  /\ node_next \in [Nodes -> Nodes \cup {NULL}]
  /\ next_tid \in Nat
  /\ id \in [Threads -> Nat \cup {NULL}]
  /\ esp \in [Threads -> Threads \cup {NULL}]
  /\ eflags \in [Threads -> BOOLEAN]
  /\ pc \in [Threads -> ThreadPC]
  /\ thread \in [Threads -> Threads \cup {NULL}]
  /\ tid \in [Threads -> Nat]
  /\ item \in [Threads -> Nodes \cup {NULL}]
  /\ iterator \in [Threads -> Nodes \cup {NULL}]
  /\ irq \in [Threads -> IrqPC]
  /\ scan \in [Threads -> Nodes \cup {NULL}]
  /\ cpu \in Threads
  /\ IFlag \in BOOLEAN /\ in_service \in BOOLEAN
  /\ \A t \in Threads :
       /\ pc[t] \in InitPC \cup ReadyPC => thread[t] # NULL
       /\ pc[t] \in ReadyPC \ {"new_node"} => item[t] # NULL
       /\ pc[t] \in {"walk", "append"} => iterator[t] # NULL
       /\ irq[t] \in {"walk", "switch"} => scan[t] # NULL /\ current_thread # NULL

(* The ready queue is at every moment a finite list of nodes in use that   *)
(* ends in NULL, never holds the current node, and names no thread twice,  *)
(* whatever thread_is_ready was doing when the timer cut it                *)
(* (thread_is_ready, schedule).                                            *)
ReadyListWellFormed ==
  \E n \in Lengths : \E q \in [1..n -> Nodes] :
    /\ ReadyQueueIs(n, q)
    /\ \A i \in 1..n : q[i] \in used /\ q[i] # current_thread
    /\ \A i, j \in 1..n : node_thread[q[i]] = node_thread[q[j]] => i = j

(* A thread that has a context and whose creation is over runs or is in    *)
(* the ready queue: no interleaving of thread_is_ready and schedule drops  *)
(* one from the list.                                                      *)
NoThreadLost ==
  \E n \in Lengths : \E q \in [1..n -> Nodes] :
    /\ ReadyQueueIs(n, q)
    /\ \A u \in Threads :
         pc[u] # "none" /\ (\A t \in Threads : thread[t] # u)
           => u = cpu \/ Queued(n, q, u)

(* current_thread names the thread whose stack the CPU is on, and every    *)
(* thread schedule can pick resumes on its own stack, with interrupts      *)
(* enabled when it starts in its function and disabled when it resumes in  *)
(* the handler that cut it (switch_thread, create_thread).                 *)
ContextsResumable ==
  /\ current_thread # NULL => node_thread[current_thread] = cpu
  /\ \E n \in Lengths : \E q \in [1..n -> Nodes] :
       /\ ReadyQueueIs(n, q)
       /\ \A i \in 1..n :
            LET u == node_thread[q[i]] IN
              esp[u] = u /\ (eflags[u] <=> irq[u] = "none")

(* No two threads have the same id (create_thread: "Assign a unique thread *)
(* ID").                                                                   *)
UniqueIds ==
  \A t, u \in Threads : t # u /\ id[t] # NULL => id[t] # id[u]

(* A thread that is ready or preempted gets the CPU again: the rotation    *)
(* leaves nobody behind, and the interrupt is acknowledged before the      *)
(* switch, so that the next one comes even when the new thread does not    *)
(* return through a handler (irq_handler, schedule).                       *)
EveryThreadRuns ==
  \A t \in Threads : (pc[t] # "none" /\ \A s \in Threads : thread[s] # t) ~> cpu = t

(* create_thread returns, however often the timer cuts it: the traversal   *)
(* of thread_is_ready reaches the end of a list that rotates and grows     *)
(* under it.                                                               *)
CreationCompletes ==
  \A t \in Threads : thread[t] # NULL ~> thread[t] = NULL
=============================================================================
