-------------------------- MODULE SchedulerProofs --------------------------
(***************************************************************************)
(* Proofs about Scheduler, for any finite sets of threads and nodes: the   *)
(* invariant of SchedulerInv is inductive, and implies what the runs check.*)
(* One lemma per action; the steps of a lemma are the parts of the ring    *)
(* invariant.  n and q are the ring's queue.                               *)
(***************************************************************************)
EXTENDS SchedulerInv, SchedulerRefinement, FiniteSetTheorems, SequenceTheorems,
        WellFoundedInduction, TLAPS

USE DEF BootPC, InitPC, ReadyPC, NotReadyPC, ThreadPC, IrqPC

-----------------------------------------------------------------------------
(* Lemmas about the parts                                                  *)

(* A thread that is being created is not the running thread, nor its       *)
(* creator.                                                                *)
LEMMA CreatedElsewhere ==
  ASSUME TypeOK, NEW n \in Lengths, NEW q \in [1..n -> Nodes], CreationInv(n, q),
         NEW s \in Threads, pc[s] \in InitPC \cup ReadyPC
  PROVE  thread[s] \in Threads /\ thread[s] # cpu /\ thread[s] # s
  BY DEF CreationInv, TypeOK

(* The queue is empty exactly when ready_queue is NULL.                    *)
LEMMA EmptyQueue ==
  ASSUME NEW n \in Lengths, NEW q \in [1..n -> Nodes], ReadyQueueIs(n, q)
  PROVE  ready_queue = NULL <=> n = 0
  BY SchedulerAssumption DEF ReadyQueueIs, Lengths

(* No thread gets lost by a step that turns neither the ring nor a thread  *)
(* into one with a context, and that keeps the structures being created.   *)
LEMMA NoneLostFrame ==
  ASSUME TypeOK, NEW n \in Lengths, NEW q \in [1..n -> Nodes], NEW out, NoneLostInv(n, q, out),
         cpu' = cpu,
         \A i \in 1..n : node_thread'[q[i]] = node_thread[q[i]],
         \A u \in Threads : pc'[u] # "none" => pc[u] # "none",
         \A s \in Threads : thread[s] # NULL => thread'[s] = thread[s]
  PROVE  NoneLostInv(n, q, out)'
  <1>. SUFFICES ASSUME NEW u \in Threads, pc'[u] # "none", u # cpu, ~Queued(n, q, u)',
                       u \notin out
                PROVE  \E s \in Threads : thread'[s] = u
    BY DEF NoneLostInv
  <1>1. ~Queued(n, q, u)
    BY DEF Queued
  <1>2. PICK s \in Threads : thread[s] = u
    BY <1>1 DEF NoneLostInv
  <1>. QED BY <1>2, SchedulerAssumption

-----------------------------------------------------------------------------
(* Steps that leave the ring as it is                                      *)

LEMMA InitThreadingStep ==
  ASSUME TypeOK, NEW n \in Lengths, NEW q \in [1..n -> Nodes], NEW out, RingInv(n, q, out),
         NEW t \in Threads, InitThreading(t)
  PROVE  TypeOK' /\ RingInv(n, q, out)'
  <1>. USE SchedulerAssumption DEF InitThreading, Executes, Goto, queue_vars, struct_vars, irq_vars, RingInv, Lengths
  <1>1. TypeOK'
    BY DEF TypeOK
  <1>2. ReadyQueueIs(n, q)'
    BY DEF ReadyQueueIs
  <1>3. CurrentInv(n, q)'
    BY DEF CurrentInv, TypeOK
  <1>4. NodesInv(n, q)'
    BY DEF NodesInv, TypeOK
  <1>5. ContextInv(n, q)'
    BY DEF ContextInv, TypeOK
  <1>6. InterruptInv(n, q)'
    BY DEF InterruptInv, TypeOK
  <1>7. CreationInv(n, q)'
    <2>1. \A s \in Threads : /\ pc'[s] \in InitPC <=> pc[s] \in InitPC
                             /\ pc'[s] \in ReadyPC <=> pc[s] \in ReadyPC
      BY DEF TypeOK
    <2>2. \A s \in Threads : pc[s] \in InitPC \cup ReadyPC => pc'[thread[s]] = pc[thread[s]]
      BY CreatedElsewhere DEF TypeOK
    <2>3. \A s \in Threads : pc'[s] \in NotReadyPC <=> pc[s] \in NotReadyPC
      BY DEF TypeOK
    <2>. QED BY <2>1, <2>2, <2>3 DEF CreationInv, Queued
  <1>8. InsertInv(n, q)'
    BY DEF InsertInv, Before, TypeOK
  <1>9. NoneLostInv(n, q, out)'
    BY NoneLostFrame DEF TypeOK
  <1>10. StoppedInv(n, q, out)'
    BY DEF StoppedInv, Queued, NodesInv, CreationInv, TypeOK
  <1>. QED BY <1>1, <1>2, <1>3, <1>4, <1>5, <1>6, <1>7, <1>8, <1>9, <1>10

LEMMA InitSchedulerStep ==
  ASSUME TypeOK, NEW n \in Lengths, NEW q \in [1..n -> Nodes], NEW out, RingInv(n, q, out),
         NEW t \in Threads, InitScheduler(t)
  PROVE  TypeOK' /\ RingInv(n, q, out)'
  <1>. USE SchedulerAssumption DEF InitScheduler, Executes, Goto, struct_vars, irq_vars, RingInv, Lengths
  <1>0. n = 0 /\ t = Main
    BY DEF CurrentInv
  <1>1. TypeOK'
    BY DEF TypeOK, InterruptInv
  <1>2. ReadyQueueIs(n, q)'
    BY <1>0 DEF ReadyQueueIs
  <1>3. CurrentInv(n, q)'
    BY <1>0 DEF CurrentInv, TypeOK
  <1>4. NodesInv(n, q)'
    BY <1>0 DEF NodesInv
  <1>5. ContextInv(n, q)'
    BY <1>0 DEF ContextInv, TypeOK
  <1>6. InterruptInv(n, q)'
    BY DEF InterruptInv, TypeOK
  <1>7. CreationInv(n, q)'
    <2>1. \A s \in Threads : pc[s] \in InitPC \cup ReadyPC => thread[s] # t
      BY CreatedElsewhere
    <2>. QED BY <1>0, <2>1 DEF CreationInv, Queued, TypeOK
  <1>8. InsertInv(n, q)'
    BY <1>0 DEF InsertInv, Before, TypeOK
  <1>9. NoneLostInv(n, q, out)'
    <2>1. \A i \in 1..n : node_thread'[q[i]] = node_thread[q[i]]
      BY <1>0 DEF NodesInv, TypeOK
    <2>2. \A u \in Threads : pc'[u] # "none" => pc[u] # "none"
      BY DEF TypeOK
    <2>. QED BY <2>1, <2>2, NoneLostFrame
  <1>10. StoppedInv(n, q, out)'
    BY DEF StoppedInv, Queued, NodesInv, CreationInv, TypeOK
  <1>. QED BY <1>1, <1>2, <1>3, <1>4, <1>5, <1>6, <1>7, <1>8, <1>9, <1>10

LEMMA LoadTidStep ==
  ASSUME TypeOK, NEW n \in Lengths, NEW q \in [1..n -> Nodes], NEW out, RingInv(n, q, out),
         NEW t \in Threads, LoadTid(t)
  PROVE  TypeOK' /\ RingInv(n, q, out)'
  <1>. USE SchedulerAssumption DEF LoadTid, Executes, Goto, queue_vars, struct_vars, irq_vars, RingInv, Lengths
  <1>1. TypeOK'
    BY DEF TypeOK
  <1>2. ReadyQueueIs(n, q)'
    BY DEF ReadyQueueIs
  <1>3. CurrentInv(n, q)'
    BY DEF CurrentInv, TypeOK
  <1>4. NodesInv(n, q)'
    BY DEF NodesInv, TypeOK
  <1>5. ContextInv(n, q)'
    BY DEF ContextInv, TypeOK
  <1>6. InterruptInv(n, q)'
    BY DEF InterruptInv, TypeOK
  <1>7. CreationInv(n, q)'
    BY DEF CreationInv, Queued, TypeOK
  <1>8. InsertInv(n, q)'
    BY DEF InsertInv, Before, TypeOK
  <1>9. NoneLostInv(n, q, out)'
    BY NoneLostFrame DEF TypeOK
  <1>10. StoppedInv(n, q, out)'
    BY DEF StoppedInv, Queued, NodesInv, CreationInv, TypeOK
  <1>. QED BY <1>1, <1>2, <1>3, <1>4, <1>5, <1>6, <1>7, <1>8, <1>9, <1>10

LEMMA StoreTidStep ==
  ASSUME TypeOK, NEW n \in Lengths, NEW q \in [1..n -> Nodes], NEW out, RingInv(n, q, out),
         NEW t \in Threads, StoreTid(t)
  PROVE  TypeOK' /\ RingInv(n, q, out)'
  <1>. USE SchedulerAssumption DEF StoreTid, Executes, Goto, queue_vars, struct_vars, irq_vars, RingInv, Lengths
  <1>1. TypeOK'
    BY DEF TypeOK
  <1>2. ReadyQueueIs(n, q)'
    BY DEF ReadyQueueIs
  <1>3. CurrentInv(n, q)'
    BY DEF CurrentInv, TypeOK
  <1>4. NodesInv(n, q)'
    BY DEF NodesInv, TypeOK
  <1>5. ContextInv(n, q)'
    BY DEF ContextInv, TypeOK
  <1>6. InterruptInv(n, q)'
    BY DEF InterruptInv, TypeOK
  <1>7. CreationInv(n, q)'
    BY DEF CreationInv, Queued, TypeOK
  <1>8. InsertInv(n, q)'
    BY DEF InsertInv, Before, TypeOK
  <1>9. NoneLostInv(n, q, out)'
    BY NoneLostFrame DEF TypeOK
  <1>10. StoppedInv(n, q, out)'
    BY DEF StoppedInv, Queued, NodesInv, CreationInv, TypeOK
  <1>. QED BY <1>1, <1>2, <1>3, <1>4, <1>5, <1>6, <1>7, <1>8, <1>9, <1>10

LEMMA SetContextStep ==
  ASSUME TypeOK, NEW n \in Lengths, NEW q \in [1..n -> Nodes], NEW out, RingInv(n, q, out),
         NEW t \in Threads, SetContext(t)
  PROVE  TypeOK' /\ RingInv(n, q, out)'
  <1>. USE SchedulerAssumption DEF SetContext, Executes, Goto, queue_vars, struct_vars, irq_vars, InitialEflags, RingInv, Lengths
  <1>1. TypeOK'
    BY DEF TypeOK
  <1>2. ReadyQueueIs(n, q)'
    BY DEF ReadyQueueIs
  <1>3. CurrentInv(n, q)'
    BY DEF CurrentInv, CreationInv, TypeOK
  <1>4. NodesInv(n, q)'
    BY DEF NodesInv, TypeOK
  <1>5. ContextInv(n, q)'
    BY DEF ContextInv, CreationInv, NodesInv, Queued, TypeOK
  <1>6. InterruptInv(n, q)'
    BY DEF InterruptInv, CreationInv, ContextInv, TypeOK
  <1>7. CreationInv(n, q)'
    <2>0. PICK u \in Threads : u = thread[t] /\ u # t /\ pc[u] = "none" /\ irq[u] = "none"
      BY CreatedElsewhere DEF CreationInv, InterruptInv
    <2>1. \A s \in Threads : pc[s] \in InitPC \cup ReadyPC => thread[s] # t
      BY CreatedElsewhere
    <2>2. pc' = [pc EXCEPT ![u] = "run", ![t] = "new_node"]
      BY <2>0
    <2>3. pc'[t] = "new_node" /\ pc'[u] = "run" /\ \A s \in Threads \ {t, u} : pc'[s] = pc[s]
      BY <2>0, <2>2 DEF TypeOK
    <2>4. \A s \in Threads : esp'[s] = (IF s = u THEN u ELSE esp[s])
                              /\ eflags'[s] = (IF s = u THEN TRUE ELSE eflags[s])
      BY <2>0 DEF TypeOK
    <2>5. \A s \in Threads \ {t} : pc[s] \in InitPC \cup ReadyPC => thread[s] # u
      BY <2>0 DEF CreationInv
    <2>6. \A s \in Threads : pc'[s] \in InitPC \cup ReadyPC \cup NotReadyPC
                             <=> thread[s] # NULL
      BY <2>0, <2>3 DEF CreationInv
    <2>7. ASSUME NEW s \in Threads, pc'[s] \in InitPC \cup ReadyPC
          PROVE  /\ pc[s] \in InitPC \cup ReadyPC
                 /\ pc'[s] \in InitPC => s # t /\ pc[s] \in InitPC
                 /\ pc'[s] \in ReadyPC => s = t \/ pc[s] \in ReadyPC
                 /\ thread[s] # t /\ (s # t => thread[s] # u)
      BY <2>0, <2>1, <2>3, <2>5, <2>7
    <2>8. ASSUME NEW s \in Threads, pc'[s] \in InitPC \cup ReadyPC
          PROVE  LET v == thread[s] IN
                   /\ v # cpu /\ ~Queued(n, q, v)
                   /\ irq[v] \in {"none", "iret"} /\ thread[v] = NULL
                   /\ \A w \in Threads : thread[w] = v => w = s
      BY <2>7, <2>8 DEF CreationInv
    <2>9. ASSUME NEW s \in Threads, pc'[s] \in InitPC PROVE pc'[thread[s]] = "none"
      <3>1. PICK v \in Threads : v = thread[s]
        BY <2>7, <2>9, CreatedElsewhere
      <3>2. v # t /\ v # u /\ pc[v] = "none"
        BY <3>1, <2>7, <2>9 DEF CreationInv
      <3>. QED BY <3>1, <3>2, <2>3
    <2>10. ASSUME NEW s \in Threads, pc'[s] \in ReadyPC
           PROVE  LET v == thread[s] IN
                    pc'[v] \in {"run", "exited"} /\ esp'[v] = v /\ (eflags'[v] <=> irq[v] = "none")
      <3>0. PICK v \in Threads : v = thread[s]
        BY <2>7, <2>10, CreatedElsewhere
      <3>1. CASE s = t
        BY <3>0, <2>0, <2>3, <2>4, <3>1
      <3>2. CASE s # t
        <4>1. pc[v] \in {"run", "exited"} /\ esp[v] = v /\ (eflags[v] <=> irq[v] = "none")
          BY <3>0, <2>7, <2>10, <3>2 DEF CreationInv
        <4>2. v # t /\ v # u
          BY <3>0, <2>7, <2>10, <3>2
        <4>3. pc'[v] = pc[v] /\ esp'[v] = esp[v] /\ eflags'[v] = eflags[v]
          BY <4>2, <2>3, <2>4
        <4>. QED BY <3>0, <4>1, <4>3
      <3>. QED BY <3>1, <3>2
    <2>11. UNCHANGED <<thread, cpu, irq, node_thread>>
      OBVIOUS
    <2>12. ASSUME NEW s \in Threads
           PROVE  /\ pc'[s] \in InitPC \cup ReadyPC \cup NotReadyPC <=> thread[s] # NULL
                  /\ pc'[s] \in InitPC \cup ReadyPC =>
                       LET v == thread[s] IN
                         /\ v # cpu /\ ~Queued(n, q, v)
                         /\ irq[v] \in {"none", "iret"} /\ thread[v] = NULL
                         /\ \A w \in Threads : thread[w] = v => w = s
                  /\ pc'[s] \in InitPC => pc'[thread[s]] = "none"
                  /\ pc'[s] \in ReadyPC =>
                       LET v == thread[s] IN
                         pc'[v] \in {"run", "exited"} /\ esp'[v] = v
                         /\ (eflags'[v] <=> irq[v] = "none")
      BY <2>6, <2>8, <2>9, <2>10
    <2>. HIDE DEF SetContext, RingInv, InitPC, ReadyPC, NotReadyPC
    <2>. QED BY <2>11, <2>12 DEF CreationInv, Queued
  <1>8. InsertInv(n, q)'
    BY DEF InsertInv, Before, CreationInv, TypeOK
  <1>9. NoneLostInv(n, q, out)'
    <2>1. SUFFICES ASSUME NEW u \in Threads, pc'[u] # "none"
                   PROVE  u = cpu \/ Queued(n, q, u) \/ u \in out \/ \E s \in Threads : thread[s] = u
      BY DEF NoneLostInv, Queued
    <2>2. CASE pc[u] # "none"
      BY <2>2 DEF NoneLostInv
    <2>3. CASE pc[u] = "none"
      BY <2>1, <2>3 DEF TypeOK
    <2>. QED BY <2>2, <2>3
  <1>10. StoppedInv(n, q, out)'
    BY DEF StoppedInv, Queued, NodesInv, CreationInv, TypeOK
  <1>. QED BY <1>1, <1>2, <1>3, <1>4, <1>5, <1>6, <1>7, <1>8, <1>9, <1>10

LEMMA NewNodeStep ==
  ASSUME TypeOK, NEW n \in Lengths, NEW q \in [1..n -> Nodes], NEW out, RingInv(n, q, out),
         NEW t \in Threads, NewNode(t)
  PROVE  TypeOK' /\ RingInv(n, q, out)'
  <1>. USE SchedulerAssumption DEF NewNode, Executes, Goto, struct_vars, irq_vars, RingInv, Lengths
  <1>1. TypeOK'
    BY DEF TypeOK
  <1>2. ReadyQueueIs(n, q)'
    BY DEF ReadyQueueIs, NodesInv, TypeOK
  <1>3. CurrentInv(n, q)'
    BY DEF CurrentInv, TypeOK
  <1>4. NodesInv(n, q)'
    BY DEF NodesInv, TypeOK
  <1>5. ContextInv(n, q)'
    BY DEF ContextInv, NodesInv, TypeOK
  <1>6. InterruptInv(n, q)'
    BY DEF InterruptInv, TypeOK
  <1>7. CreationInv(n, q)'
    BY DEF CreationInv, NodesInv, Queued, TypeOK
  <1>8. InsertInv(n, q)'
    BY DEF InsertInv, Before, NodesInv, CurrentInv, TypeOK
  <1>9. NoneLostInv(n, q, out)'
    <2>1. \A i \in 1..n : node_thread'[q[i]] = node_thread[q[i]]
      BY DEF NodesInv, TypeOK
    <2>2. \A u \in Threads : pc'[u] # "none" => pc[u] # "none"
      BY DEF TypeOK
    <2>. QED BY <2>1, <2>2, NoneLostFrame
  <1>10. StoppedInv(n, q, out)'
    BY DEF StoppedInv, Queued, NodesInv, CreationInv, TypeOK
  <1>. QED BY <1>1, <1>2, <1>3, <1>4, <1>5, <1>6, <1>7, <1>8, <1>9, <1>10

LEMMA ReadQueueStep ==
  ASSUME TypeOK, NEW n \in Lengths, NEW q \in [1..n -> Nodes], NEW out, RingInv(n, q, out),
         NEW t \in Threads, ReadQueue(t)
  PROVE  TypeOK' /\ RingInv(n, q, out)'
  <1>. USE SchedulerAssumption DEF ReadQueue, Executes, Goto, queue_vars, struct_vars, irq_vars, RingInv, Lengths
  <1>1. TypeOK'
    BY DEF TypeOK
  <1>2. ReadyQueueIs(n, q)'
    BY DEF ReadyQueueIs
  <1>3. CurrentInv(n, q)'
    BY DEF CurrentInv, TypeOK
  <1>4. NodesInv(n, q)'
    BY DEF NodesInv, TypeOK
  <1>5. ContextInv(n, q)'
    BY DEF ContextInv, TypeOK
  <1>6. InterruptInv(n, q)'
    BY DEF InterruptInv, TypeOK
  <1>7. CreationInv(n, q)'
    BY DEF CreationInv, Queued, TypeOK
  <1>8. InsertInv(n, q)'
    BY EmptyQueue DEF InsertInv, Before, ReadyQueueIs, NodesInv, TypeOK
  <1>9. NoneLostInv(n, q, out)'
    BY NoneLostFrame DEF TypeOK
  <1>10. StoppedInv(n, q, out)'
    BY DEF StoppedInv, Queued, NodesInv, CreationInv, TypeOK
  <1>. QED BY <1>1, <1>2, <1>3, <1>4, <1>5, <1>6, <1>7, <1>8, <1>9, <1>10

LEMMA WalkStep ==
  ASSUME TypeOK, NEW n \in Lengths, NEW q \in [1..n -> Nodes], NEW out, RingInv(n, q, out),
         NEW t \in Threads, Walk(t)
  PROVE  TypeOK' /\ RingInv(n, q, out)'
  <1>. USE SchedulerAssumption DEF Walk, Executes, Goto, queue_vars, struct_vars, irq_vars, RingInv, Lengths
  <1>1. TypeOK'
    <2>1. iterator[t] \in Nodes
      BY DEF TypeOK
    <2>2. node_next[iterator[t]] \in Nodes \cup {NULL}
      BY <2>1 DEF TypeOK
    <2>3. CASE node_next[iterator[t]] = NULL
      <3>1. pc' = [pc EXCEPT ![t] = "append"] /\ iterator' = iterator
        BY <2>3
      <3>2. pc' \in [Threads -> ThreadPC] /\ iterator'[t] # NULL
        BY <2>1, <3>1 DEF TypeOK, ThreadPC, ReadyPC
      <3>. QED BY <3>1, <3>2 DEF TypeOK, InitPC, ReadyPC
    <2>4. CASE node_next[iterator[t]] # NULL
      <3>1. iterator' = [iterator EXCEPT ![t] = node_next[iterator[t]]] /\ UNCHANGED pc
        BY <2>4
      <3>2. iterator' \in [Threads -> Nodes \cup {NULL}] /\ iterator'[t] # NULL
        BY <2>2, <2>4, <3>1 DEF TypeOK
      <3>. QED BY <3>1, <3>2 DEF TypeOK
    <2>. QED BY <2>3, <2>4
  <1>2. ReadyQueueIs(n, q)'
    BY DEF ReadyQueueIs
  <1>3. CurrentInv(n, q)'
    BY DEF CurrentInv, TypeOK
  <1>4. NodesInv(n, q)'
    BY DEF NodesInv, TypeOK
  <1>5. ContextInv(n, q)'
    BY DEF ContextInv, NodesInv, TypeOK
  <1>6. InterruptInv(n, q)'
    BY DEF InterruptInv, TypeOK
  <1>7. CreationInv(n, q)'
    BY DEF CreationInv, Queued, TypeOK
  <1>8. InsertInv(n, q)'
    <2>1. t = cpu /\ pc[t] = "walk" /\ n > 0 /\ node_thread[iterator[t]] # t
      BY DEF InsertInv
    <2>2. PICK i \in 1..n : iterator[t] = q[i]
      BY <2>1 DEF InsertInv, CurrentInv
    <2>3. CASE node_next[iterator[t]] = NULL
      <3>1. pc' = [pc EXCEPT ![t] = "append"] /\ iterator' = iterator
        BY <2>3
      <3>2. i = n
        BY <2>2, <2>3 DEF ReadyQueueIs
      <3>3. Before(n, q, t, iterator[t])
        BY <2>1, <2>2, <3>2 DEF Before, NodesInv
      <3>. QED BY <2>1, <3>1, <3>3 DEF InsertInv, Before, TypeOK
    <2>4. CASE node_next[iterator[t]] # NULL
      <3>1. iterator' = [iterator EXCEPT ![t] = node_next[iterator[t]]] /\ UNCHANGED pc
        BY <2>4
      <3>2. i + 1 \in 1..n /\ node_next[iterator[t]] = q[i + 1]
        BY <2>2, <2>4 DEF ReadyQueueIs
      <3>3. iterator'[t] = q[i + 1] /\ node_thread[iterator'[t]] # t
        BY <2>1, <3>1, <3>2 DEF NodesInv, TypeOK
      <3>4. \A s \in Threads \ {t} : iterator'[s] = iterator[s]
        BY <3>1 DEF TypeOK
      <3>. QED BY <2>1, <3>1, <3>2, <3>3, <3>4 DEF InsertInv, Before
    <2>. QED BY <2>3, <2>4
  <1>9. NoneLostInv(n, q, out)'
    BY NoneLostFrame DEF TypeOK
  <1>10. StoppedInv(n, q, out)'
    BY DEF StoppedInv, Queued, NodesInv, CreationInv, TypeOK
  <1>. QED BY <1>1, <1>2, <1>3, <1>4, <1>5, <1>6, <1>7, <1>8, <1>9, <1>10

LEMMA ThreadExitStep ==
  ASSUME TypeOK, NEW n \in Lengths, NEW q \in [1..n -> Nodes], NEW out, RingInv(n, q, out),
         NEW t \in Threads, ThreadExit(t)
  PROVE  TypeOK' /\ RingInv(n, q, out)'
  <1>. USE SchedulerAssumption DEF ThreadExit, Executes, Goto, queue_vars, struct_vars, irq_vars, RingInv, Lengths
  <1>1. TypeOK'
    BY DEF TypeOK
  <1>2. ReadyQueueIs(n, q)'
    BY DEF ReadyQueueIs
  <1>3. CurrentInv(n, q)'
    BY DEF CurrentInv, TypeOK
  <1>4. NodesInv(n, q)'
    BY DEF NodesInv, TypeOK
  <1>5. ContextInv(n, q)'
    BY DEF ContextInv, TypeOK
  <1>6. InterruptInv(n, q)'
    BY DEF InterruptInv, TypeOK
  <1>7. CreationInv(n, q)'
    <2>1. \A s \in Threads : /\ pc'[s] \in InitPC <=> pc[s] \in InitPC
                             /\ pc'[s] \in ReadyPC <=> pc[s] \in ReadyPC
      BY DEF TypeOK
    <2>2. \A s \in Threads : pc[s] \in InitPC \cup ReadyPC => pc'[thread[s]] = pc[thread[s]]
      BY CreatedElsewhere DEF TypeOK
    <2>3. \A s \in Threads : pc'[s] \in NotReadyPC <=> pc[s] \in NotReadyPC
      BY DEF TypeOK
    <2>. QED BY <2>1, <2>2, <2>3 DEF CreationInv, Queued
  <1>8. InsertInv(n, q)'
    BY DEF InsertInv, Before, TypeOK
  <1>9. NoneLostInv(n, q, out)'
    BY NoneLostFrame DEF TypeOK
  <1>10. StoppedInv(n, q, out)'
    BY DEF StoppedInv, Queued, NodesInv, CreationInv, TypeOK
  <1>. QED BY <1>1, <1>2, <1>3, <1>4, <1>5, <1>6, <1>7, <1>8, <1>9, <1>10

LEMMA TimerIrqStep ==
  ASSUME TypeOK, NEW n \in Lengths, NEW q \in [1..n -> Nodes], NEW out, RingInv(n, q, out),
         NEW t \in Threads, TimerIrq(t)
  PROVE  TypeOK' /\ RingInv(n, q, out)'
  <1>. USE SchedulerAssumption DEF TimerIrq, queue_vars, struct_vars, code_vars, Executes, GateFlag, RingInv, Lengths
  <1>1. TypeOK'
    BY DEF TypeOK
  <1>2. ReadyQueueIs(n, q)'
    BY DEF ReadyQueueIs
  <1>3. CurrentInv(n, q)'
    BY DEF CurrentInv, TypeOK
  <1>4. NodesInv(n, q)'
    BY DEF NodesInv, TypeOK
  <1>5. ContextInv(n, q)'
    BY DEF ContextInv, NodesInv, TypeOK
  <1>6. InterruptInv(n, q)'
    BY DEF InterruptInv, ContextInv, TypeOK
  <1>7. CreationInv(n, q)'
    BY CreatedElsewhere DEF CreationInv, Queued, TypeOK
  <1>8. InsertInv(n, q)'
    BY DEF InsertInv, Before, TypeOK
  <1>9. NoneLostInv(n, q, out)'
    BY NoneLostFrame DEF TypeOK
  <1>10. StoppedInv(n, q, out)'
    BY DEF StoppedInv, Queued, NodesInv, CreationInv, TypeOK
  <1>. QED BY <1>1, <1>2, <1>3, <1>4, <1>5, <1>6, <1>7, <1>8, <1>9, <1>10

LEMMA IrqHandlerStep ==
  ASSUME TypeOK, NEW n \in Lengths, NEW q \in [1..n -> Nodes], NEW out, RingInv(n, q, out),
         NEW t \in Threads, IrqHandler(t)
  PROVE  TypeOK' /\ RingInv(n, q, out)'
  <1>. USE SchedulerAssumption DEF IrqHandler, queue_vars, struct_vars, code_vars, Handles, RingInv, Lengths
  <1>1. TypeOK'
    BY EmptyQueue DEF CurrentInv, TypeOK
  <1>2. ReadyQueueIs(n, q)'
    BY DEF ReadyQueueIs
  <1>3. CurrentInv(n, q)'
    BY DEF CurrentInv, TypeOK
  <1>4. NodesInv(n, q)'
    BY DEF NodesInv, TypeOK
  <1>5. ContextInv(n, q)'
    BY DEF ContextInv, NodesInv, TypeOK
  <1>6. InterruptInv(n, q)'
    BY EmptyQueue DEF InterruptInv, ContextInv, CurrentInv, ReadyQueueIs, TypeOK
  <1>7. CreationInv(n, q)'
    BY CreatedElsewhere DEF CreationInv, Queued, TypeOK
  <1>8. InsertInv(n, q)'
    BY DEF InsertInv, Before, TypeOK
  <1>9. NoneLostInv(n, q, out)'
    BY NoneLostFrame DEF TypeOK
  <1>10. StoppedInv(n, q, out)'
    BY DEF StoppedInv, Queued, NodesInv, CreationInv, TypeOK
  <1>. QED BY <1>1, <1>2, <1>3, <1>4, <1>5, <1>6, <1>7, <1>8, <1>9, <1>10

LEMMA ScheduleWalkStep ==
  ASSUME TypeOK, NEW n \in Lengths, NEW q \in [1..n -> Nodes], NEW out, RingInv(n, q, out),
         NEW t \in Threads, ScheduleWalk(t)
  PROVE  TypeOK' /\ RingInv(n, q, out)'
  <1>. USE SchedulerAssumption DEF ScheduleWalk, queue_vars, struct_vars, code_vars, Handles, RingInv, Lengths
  <1>1. TypeOK'
    <2>1. scan[t] \in Nodes
      BY DEF TypeOK
    <2>2. node_next[scan[t]] \in Nodes \cup {NULL}
      BY <2>1 DEF TypeOK
    <2>3. CASE node_next[scan[t]] = NULL
      <3>1. irq' = [irq EXCEPT ![t] = "switch"] /\ scan' = scan
        BY <2>3
      <3>2. irq' \in [Threads -> IrqPC]
        BY <3>1 DEF TypeOK, IrqPC
      <3>. QED BY <3>1, <3>2 DEF TypeOK
    <2>4. CASE node_next[scan[t]] # NULL
      <3>1. scan' = [scan EXCEPT ![t] = node_next[scan[t]]] /\ UNCHANGED irq
        BY <2>4
      <3>2. scan' \in [Threads -> Nodes \cup {NULL}] /\ scan'[t] # NULL
        BY <2>2, <2>4, <3>1 DEF TypeOK
      <3>. QED BY <3>1, <3>2 DEF TypeOK
    <2>. QED BY <2>3, <2>4
  <1>2. ReadyQueueIs(n, q)'
    BY DEF ReadyQueueIs
  <1>3. CurrentInv(n, q)'
    BY DEF CurrentInv, TypeOK
  <1>4. NodesInv(n, q)'
    BY DEF NodesInv, TypeOK
  <1>5. ContextInv(n, q)'
    BY DEF ContextInv, NodesInv, TypeOK
  <1>6. InterruptInv(n, q)'
    BY DEF InterruptInv, ContextInv, ReadyQueueIs, TypeOK
  <1>7. CreationInv(n, q)'
    BY CreatedElsewhere DEF CreationInv, Queued, TypeOK
  <1>8. InsertInv(n, q)'
    BY DEF InsertInv, Before, TypeOK
  <1>9. NoneLostInv(n, q, out)'
    BY NoneLostFrame DEF TypeOK
  <1>10. StoppedInv(n, q, out)'
    BY DEF StoppedInv, Queued, NodesInv, CreationInv, TypeOK
  <1>. QED BY <1>1, <1>2, <1>3, <1>4, <1>5, <1>6, <1>7, <1>8, <1>9, <1>10

LEMMA IrqReturnStep ==
  ASSUME TypeOK, NEW n \in Lengths, NEW q \in [1..n -> Nodes], NEW out, RingInv(n, q, out),
         NEW t \in Threads, IrqReturn(t)
  PROVE  TypeOK' /\ RingInv(n, q, out)'
  <1>. USE SchedulerAssumption DEF IrqReturn, queue_vars, struct_vars, code_vars, Handles, RingInv, Lengths
  <1>1. TypeOK'
    BY DEF TypeOK
  <1>2. ReadyQueueIs(n, q)'
    BY DEF ReadyQueueIs
  <1>3. CurrentInv(n, q)'
    BY DEF CurrentInv, TypeOK
  <1>4. NodesInv(n, q)'
    BY DEF NodesInv, TypeOK
  <1>5. ContextInv(n, q)'
    BY DEF ContextInv, NodesInv, TypeOK
  <1>6. InterruptInv(n, q)'
    BY DEF InterruptInv, ContextInv, TypeOK
  <1>7. CreationInv(n, q)'
    BY CreatedElsewhere DEF CreationInv, Queued, TypeOK
  <1>8. InsertInv(n, q)'
    BY DEF InsertInv, Before, TypeOK
  <1>9. NoneLostInv(n, q, out)'
    BY NoneLostFrame DEF TypeOK
  <1>10. StoppedInv(n, q, out)'
    BY DEF StoppedInv, Queued, NodesInv, CreationInv, TypeOK
  <1>. QED BY <1>1, <1>2, <1>3, <1>4, <1>5, <1>6, <1>7, <1>8, <1>9, <1>10

(* create_thread has taken a structure without a context.                  *)
LEMMA CreateThreadStep ==
  ASSUME TypeOK, NEW n \in Lengths, NEW q \in [1..n -> Nodes], NEW out, RingInv(n, q, out),
         NEW t \in Threads, NEW u \in Threads, CreateThread(t, u)
  PROVE  TypeOK' /\ RingInv(n, q, out)'
  <1>. USE SchedulerAssumption
       DEF CreateThread, Executes, Goto, queue_vars, struct_vars, irq_vars, RingInv
  <1>1. TypeOK'
    BY DEF TypeOK
  <1>2. ReadyQueueIs(n, q)'
    BY DEF ReadyQueueIs
  <1>3. CurrentInv(n, q)'
    BY DEF CurrentInv, TypeOK
  <1>4. NodesInv(n, q)'
    BY DEF NodesInv
  <1>5. ContextInv(n, q)'
    BY DEF ContextInv, TypeOK
  <1>6. InterruptInv(n, q)'
    BY DEF InterruptInv, TypeOK
  <1>7. CreationInv(n, q)'
    <2>1. irq[u] = "none" /\ u # t /\ thread[u] = NULL /\ ~Queued(n, q, u)
      BY DEF CreationInv, Queued, ContextInv, InterruptInv
    <2>2. thread[t] = NULL
      BY DEF CreationInv
    <2>3. thread' = [thread EXCEPT ![t] = u] /\ pc' = [pc EXCEPT ![t] = "load_tid"]
      OBVIOUS
    <2>4. \A s \in Threads : /\ thread'[s] = (IF s = t THEN u ELSE thread[s])
                             /\ pc'[s] = (IF s = t THEN "load_tid" ELSE pc[s])
      BY <2>3 DEF TypeOK
    <2>5. \A s \in Threads : pc[s] \in InitPC \cup ReadyPC => thread[s] # t
      BY CreatedElsewhere
    <2>. QED BY <2>1, <2>2, <2>4, <2>5 DEF CreationInv, Queued
  <1>8. InsertInv(n, q)'
    BY DEF InsertInv, Before, TypeOK, CreationInv
  <1>9. NoneLostInv(n, q, out)'
    <2>1. pc'[t] # "none" /\ pc[t] # "none" /\ thread[t] = NULL
      BY DEF CreationInv, TypeOK
    <2>2. \A v \in Threads : pc'[v] # "none" => pc[v] # "none"
      BY <2>1 DEF TypeOK
    <2>3. \A s \in Threads : thread[s] # NULL => thread'[s] = thread[s]
      BY <2>1 DEF TypeOK
    <2>. QED BY <2>2, <2>3, NoneLostFrame
  <1>10. StoppedInv(n, q, out)'
    BY DEF StoppedInv, Queued, NodesInv, CreationInv, TypeOK
  <1>. QED BY <1>1, <1>2, <1>3, <1>4, <1>5, <1>6, <1>7, <1>8, <1>9, <1>10

-----------------------------------------------------------------------------
(* Steps that change the ring                                              *)

(* A queue without repetitions is no longer than there are nodes.          *)
LEMMA InjectiveLength ==
  ASSUME NEW m \in Nat, NEW f \in [1..m -> Nodes],
         \A i, j \in 1..m : f[i] = f[j] => i = j
  PROVE  m \in Lengths
  <1>1. IsFiniteSet(1..m) /\ Cardinality(1..m) = m
    BY FS_Interval
  <1>2. IsFiniteSet(Nodes) /\ Cardinality(Nodes) \in Nat
    BY SchedulerAssumption, FS_CardinalityType
  <1>3. ~(Cardinality(Nodes) < Cardinality(1..m))
    BY <1>1, <1>2, FS_PigeonHole
  <1>. QED BY <1>1, <1>2, <1>3 DEF Lengths

(* The two ends of thread_is_ready put the new node behind the last one.   *)
LEMMA InsertStep ==
  ASSUME TypeOK, NEW n \in Lengths, NEW q \in [1..n -> Nodes], NEW out, RingInv(n, q, out),
         NEW t \in Threads, AppendItem(t) \/ SetHead(t)
  PROVE  TypeOK' /\ \E m \in Lengths : \E r \in [1..m -> Nodes] : RingInv(m, r, out)'
  <1>. USE SchedulerAssumption DEF RingInv
  <1>0. n \in Nat
    BY SchedulerAssumption, FS_CardinalityType DEF Lengths
  <1>1. t = cpu /\ irq[t] = "none" /\ pc[t] \in {"append", "set_head"}
    BY DEF AppendItem, SetHead, Executes
  <1>a. PICK u \in Threads : u = thread[t]
    BY <1>1 DEF TypeOK
  <1>b. PICK x \in Nodes : x = item[t]
    BY <1>1 DEF TypeOK
  <1>c. PICK r : r = [i \in 1..n + 1 |-> IF i <= n THEN q[i] ELSE x]
    OBVIOUS
  <1>d. r \in [1..n + 1 -> Nodes]
    BY <1>0, <1>c
  <1>2. /\ thread' = [thread EXCEPT ![t] = NULL] /\ pc' = [pc EXCEPT ![t] = "run"]
        /\ item' = [item EXCEPT ![t] = NULL] /\ iterator' = [iterator EXCEPT ![t] = NULL]
        /\ UNCHANGED <<current_thread, used, node_thread, tid>>
        /\ UNCHANGED <<struct_vars, irq_vars>>
    BY DEF AppendItem, SetHead, ReturnToCaller, Goto
  <1>3. /\ u # cpu /\ ~Queued(n, q, u) /\ pc[u] \in {"run", "exited"}
        /\ irq[u] \in {"none", "iret"} /\ thread[u] = NULL
        /\ esp[u] = u /\ (eflags[u] <=> irq[u] = "none")
        /\ \A s \in Threads : thread[s] = u => s = t
    BY <1>1, <1>a DEF CreationInv, TypeOK
  <1>4. x \in used /\ node_thread[x] = u /\ node_next[x] = NULL
    BY <1>1, <1>a, <1>b DEF InsertInv, TypeOK
  <1>5. \A i \in 1..n : q[i] # x
    BY <1>3, <1>4 DEF Queued
  <1>6. current_thread # NULL /\ node_thread[current_thread] = t /\ x # current_thread
    BY <1>1, <1>3, <1>4 DEF CurrentInv
  <1>7. /\ r[n + 1] = x /\ \A i \in 1..n : r[i] = q[i]
        /\ 1..n + 1 = (1..n) \cup {n + 1}
    BY <1>0, <1>c
  <1>8. \A i, j \in 1..n + 1 : r[i] = r[j] => i = j
    BY <1>0, <1>5, <1>7 DEF ReadyQueueIs
  <1>9. n + 1 \in Lengths
    BY <1>0, <1>8, <1>d, InjectiveLength
  <1>10. TypeOK'
    <2>1. ready_queue' \in Nodes \cup {NULL} /\ node_next' \in [Nodes -> Nodes \cup {NULL}]
      BY <1>b DEF TypeOK, AppendItem, SetHead
    <2>2. /\ pc' \in [Threads -> ThreadPC] /\ thread' \in [Threads -> Threads \cup {NULL}]
          /\ item' \in [Threads -> Nodes \cup {NULL}]
          /\ iterator' \in [Threads -> Nodes \cup {NULL}]
      BY <1>2 DEF TypeOK, ThreadPC
    <2>. QED BY <1>1, <1>2, <2>1, <2>2 DEF TypeOK, InitPC, ReadyPC, struct_vars, irq_vars
  <1>11. ReadyQueueIs(n + 1, r)'
    <2>1. CASE AppendItem(t)
      <3>1. n > 0 /\ iterator[t] = q[n]
        BY <2>1, <1>1 DEF AppendItem, InsertInv, Before
      <3>2. node_next' = [node_next EXCEPT ![q[n]] = x] /\ ready_queue' = ready_queue
        BY <2>1, <3>1, <1>b DEF AppendItem
      <3>3. \A i \in 1..n : node_next'[q[i]] = IF i < n THEN q[i + 1] ELSE x
        BY <1>0, <3>1, <3>2 DEF ReadyQueueIs, TypeOK
      <3>4. node_next'[x] = NULL
        BY <1>0, <1>4, <1>5, <3>1, <3>2 DEF TypeOK
      <3>. QED BY <1>0, <1>7, <1>8, <3>1, <3>2, <3>3, <3>4 DEF ReadyQueueIs
    <2>2. CASE SetHead(t)
      <3>1. n = 0
        BY <2>2 DEF SetHead, InsertInv
      <3>. QED BY <2>2, <3>1, <1>4, <1>7, <1>8, <1>b DEF SetHead, ReadyQueueIs
    <2>. QED BY <2>1, <2>2
  <1>12. \A s \in Threads : Queued(n + 1, r, s) <=> Queued(n, q, s) \/ s = u
    BY <1>0, <1>4, <1>7 DEF Queued
  <1>13. CurrentInv(n + 1, r)'
    BY <1>0, <1>1, <1>2, <1>6, <1>7 DEF CurrentInv, TypeOK, irq_vars
  <1>14. NodesInv(n + 1, r)'
    <2>1. \A i \in 1..n : node_thread[q[i]] # u
      BY <1>3 DEF Queued
    <2>2. \A i \in 1..n + 1 :
            \/ i \in 1..n /\ r[i] = q[i]
            \/ i = n + 1 /\ r[i] = x
      BY <1>0, <1>7
    <2>3. \A i \in 1..n + 1 : r[i] \in used /\ node_thread[r[i]] \in Threads \ {cpu}
      BY <1>3, <1>4, <2>2 DEF NodesInv
    <2>4. \A i, j \in 1..n + 1 : node_thread[r[i]] = node_thread[r[j]] => i = j
      BY <1>4, <2>1, <2>2 DEF NodesInv
    <2>. QED BY <1>2, <2>3, <2>4 DEF NodesInv, irq_vars
  <1>15. ContextInv(n + 1, r)'
    <2>1. \A i \in 1..n + 1 : (\E j \in 1..n : r[i] = q[j]) \/ r[i] = x
      BY <1>0, <1>7
    <2>2. \A v \in Threads : pc'[v] = IF v = t THEN "run" ELSE pc[v]
      BY <1>2 DEF TypeOK
    <2>3. \A i \in 1..n : node_thread[q[i]] \in Threads \ {t}
      BY <1>1 DEF NodesInv
    <2>4. \A i \in 1..n + 1 :
            LET v == node_thread[r[i]] IN
              /\ pc'[v] # "none" /\ irq[v] \in {"none", "iret"}
              /\ esp[v] = v /\ (eflags[v] <=> irq[v] = "none")
      BY <1>1, <1>3, <1>4, <2>1, <2>2, <2>3 DEF ContextInv
    <2>. QED BY <1>1, <1>2, <2>2, <2>4 DEF ContextInv, irq_vars, struct_vars
  <1>16. InterruptInv(n + 1, r)'
    BY <1>0, <1>1, <1>2 DEF InterruptInv, TypeOK, irq_vars
  <1>17. CreationInv(n + 1, r)'
    <2>1. \A s \in Threads : Queued(n + 1, r, s)' <=> Queued(n, q, s) \/ s = u
      BY <1>2, <1>12 DEF Queued
    <2>. QED BY <1>1, <1>2, <1>3, <2>1 DEF CreationInv, TypeOK, irq_vars, struct_vars
  <1>18. InsertInv(n + 1, r)'
    <2>. SUFFICES ASSUME NEW s \in Threads, pc'[s] \in ReadyPC \ {"new_node"}
                  PROVE  /\ item[s] \in used /\ node_thread[item[s]] = thread[s]
                         /\ node_next'[item[s]] = NULL
                         /\ pc[s] # "set_head"
                         /\ pc[s] = "walk" =>
                              /\ iterator[s] = current_thread
                                   \/ \E i \in 1..n + 1 : iterator[s] = r[i]
                              /\ node_thread[iterator[s]] # s
                         /\ pc[s] = "append" => Before(n + 1, r, s, iterator[s])
      BY <1>0, <1>1, <1>2 DEF InsertInv, Before, TypeOK, irq_vars
    <2>0. s # t /\ pc[s] = pc'[s]
      BY <1>2 DEF TypeOK
    <2>1. /\ item[s] \in used /\ node_thread[item[s]] = thread[s]
          /\ node_next[item[s]] = NULL /\ pc[s] # "set_head"
      BY <1>1, <2>0 DEF InsertInv
    <2>2. \A i \in 1..n : item[s] # q[i]
      BY <2>0, <2>1 DEF CreationInv, Queued
    <2>3. node_next'[item[s]] = NULL
      <3>1. CASE AppendItem(t)
        <4>1. n > 0 /\ iterator[t] = q[n]
          BY <3>1, <1>1 DEF AppendItem, InsertInv, Before
        <4>. QED BY <3>1, <4>1, <1>0, <2>1, <2>2 DEF AppendItem, TypeOK
      <3>2. CASE SetHead(t)
        BY <3>2, <2>1 DEF SetHead
      <3>. QED BY <3>1, <3>2
    <2>4. ASSUME pc[s] = "walk"
          PROVE  /\ iterator[s] = current_thread
                      \/ \E i \in 1..n + 1 : iterator[s] = r[i]
                 /\ node_thread[iterator[s]] # s
      BY <2>4, <1>0, <1>7 DEF InsertInv
    <2>5. ASSUME pc[s] = "append" PROVE Before(n + 1, r, s, iterator[s])
      <3>1. Before(n, q, s, iterator[s]) /\ s # cpu /\ s # u
        BY <2>0, <2>5, <1>1, <1>3 DEF InsertInv
      <3>. QED BY <3>1, <1>0, <1>4, <1>7 DEF Before
    <2>. QED BY <2>1, <2>3, <2>4, <2>5
  <1>19. NoneLostInv(n + 1, r, out)'
    <2>. SUFFICES ASSUME NEW v \in Threads, pc'[v] # "none", v # cpu,
                         ~Queued(n, q, v), v # u, v \notin out
                  PROVE  \E s \in Threads : thread'[s] = v
      BY <1>2, <1>12 DEF NoneLostInv, Queued, irq_vars
    <2>1. pc[v] # "none"
      BY <1>1, <1>2 DEF TypeOK
    <2>2. PICK s \in Threads : thread[s] = v
      BY <2>1 DEF NoneLostInv
    <2>3. s # t
      BY <1>a, <2>2
    <2>. QED BY <1>2, <2>2, <2>3 DEF TypeOK
  <1>20. StoppedInv(n + 1, r, out)'
    <2>1. \A v \in out : v \in Threads /\ v # t /\ v # u /\ ~Queued(n, q, v)
      BY <1>1, <1>a DEF StoppedInv
    <2>2. \A v \in out : ~Queued(n + 1, r, v)'
      BY <2>1, <1>2, <1>12 DEF Queued
    <2>3. \A v \in Threads \ {t} : pc'[v] = pc[v] /\ thread'[v] = thread[v]
      BY <1>2 DEF TypeOK
    <2>4. pc'[t] \notin InitPC \cup ReadyPC
      BY <1>2 DEF TypeOK
    <2>. QED BY <1>2, <2>1, <2>2, <2>3, <2>4 DEF StoppedInv, irq_vars, struct_vars
  <1>. QED BY <1>d, <1>9, <1>10, <1>11, <1>13, <1>14, <1>15, <1>16, <1>17, <1>18, <1>19, <1>20

(* The queue after the current node has gone to its end.                   *)
Turned(n, q) == [i \in 1..n |-> IF i < n THEN q[i + 1] ELSE current_thread]

(* schedule turns the ring by one node, and the thread at its new current  *)
(* node gets the CPU.                                                      *)
LEMMA ScheduleSwitchStep ==
  ASSUME TypeOK, NEW n \in Lengths, NEW q \in [1..n -> Nodes], NEW out, RingInv(n, q, out),
         NEW t \in Threads, ScheduleSwitch(t),
         NEW r, r = Turned(n, q)
  PROVE  TypeOK' /\ r \in [1..n -> Nodes] /\ RingInv(n, r, out)'
  <1>. USE SchedulerAssumption DEF RingInv
  <1>0. n \in Nat
    BY SchedulerAssumption, FS_CardinalityType DEF Lengths
  <1>1. t = cpu /\ irq[t] = "switch" /\ n > 0 /\ scan[t] = q[n] /\ ~IFlag
        /\ ~in_service /\ ready_queue = q[1]
    BY <1>0 DEF ScheduleSwitch, Handles, InterruptInv, ReadyQueueIs
  <1>a. PICK c \in Nodes : c = current_thread
    BY <1>1 DEF InterruptInv, TypeOK
  <1>2. c \in used /\ node_thread[c] = t /\ \A i \in 1..n : q[i] # c
    BY <1>1, <1>a, SchedulerAssumption DEF CurrentInv
  <1>b. PICK h \in Threads : h = node_thread[q[1]]
    BY <1>0, <1>1 DEF NodesInv
  <1>c. r = [i \in 1..n |-> IF i < n THEN q[i + 1] ELSE c]
    BY <1>a DEF Turned
  <1>3. /\ r \in [1..n -> Nodes] /\ r[n] = c
        /\ \A i \in 1..n :
             \/ i < n /\ i + 1 \in 1..n /\ r[i] = q[i + 1]
             \/ i = n /\ r[i] = c
    <2>1. r \in [1..n -> Nodes]
      BY <1>0, <1>a, <1>c
    <2>2. r[n] = c /\ n \in 1..n
      BY <1>0, <1>1, <1>c
    <2>3. \A i \in 1..n : i # n => i < n /\ i + 1 \in 1..n /\ r[i] = q[i + 1]
      BY <1>0, <1>c
    <2>. QED BY <2>1, <2>2, <2>3
  <1>4. /\ h # t /\ esp[h] = h /\ (eflags[h] <=> irq[h] = "none")
        /\ irq[h] \in {"none", "iret"} /\ pc[h] # "none"
    BY <1>0, <1>1, <1>b DEF NodesInv, ContextInv
  <1>5. node_next' = [node_next EXCEPT ![q[n]] = c, ![c] = NULL]
    BY <1>1, <1>a DEF ScheduleSwitch, Requeue
  <1>6. /\ \A i \in 1..n : node_next'[q[i]] = IF i < n THEN q[i + 1] ELSE c
        /\ node_next'[c] = NULL
        /\ \A x \in Nodes : x # q[n] /\ x # c => node_next'[x] = node_next[x]
    BY <1>0, <1>1, <1>2, <1>5 DEF ReadyQueueIs, TypeOK
  <1>7. ready_queue' = node_next'[q[1]] /\ UNCHANGED <<used, node_thread>>
    BY <1>1 DEF ScheduleSwitch, Requeue
  <1>8. /\ current_thread' = q[1]
        /\ esp' = [esp EXCEPT ![t] = t] /\ eflags' = [eflags EXCEPT ![t] = FALSE]
        /\ cpu' = h /\ IFlag' = eflags[h]
    BY <1>1, <1>2, <1>4, <1>a, <1>b DEF ScheduleSwitch, SwitchThread, TypeOK
  <1>9. /\ irq' = [irq EXCEPT ![t] = "iret"] /\ scan' = [scan EXCEPT ![t] = NULL]
        /\ UNCHANGED <<in_service, id, next_tid, pc, thread, tid, item, iterator>>
    BY DEF ScheduleSwitch, code_vars
  <1>10. TypeOK'
    <2>1. ready_queue' \in Nodes \cup {NULL} /\ current_thread' \in Nodes
      BY <1>0, <1>1, <1>6, <1>7, <1>8
    <2>2. node_next' \in [Nodes -> Nodes \cup {NULL}]
      BY <1>5 DEF TypeOK
    <2>. QED BY <1>7, <1>8, <1>9, <2>1, <2>2 DEF TypeOK
  <1>11. ReadyQueueIs(n, r)'
    <2>1. ready_queue' = r[1]
      BY <1>0, <1>1, <1>3, <1>6, <1>7
    <2>2. \A i \in 1..n : node_next'[r[i]] = IF i < n THEN r[i + 1] ELSE NULL
      <3>. SUFFICES ASSUME NEW i \in 1..n
                    PROVE  node_next'[r[i]] = IF i < n THEN r[i + 1] ELSE NULL
        OBVIOUS
      <3>1. CASE i = n
        BY <3>1, <1>3, <1>6
      <3>2. CASE i < n
        <4>1. r[i] = q[i + 1] /\ i + 1 \in 1..n
          BY <3>2, <1>3
        <4>2. r[i + 1] = IF i + 1 < n THEN q[i + 2] ELSE c
          BY <3>2, <1>0, <1>c
        <4>. QED BY <3>2, <4>1, <4>2, <1>0, <1>6
      <3>. QED BY <3>1, <3>2, <1>0
    <2>3. \A i, j \in 1..n : r[i] = r[j] => i = j
      BY <1>0, <1>2, <1>c DEF ReadyQueueIs
    <2>. QED BY <1>1, <2>1, <2>2, <2>3 DEF ReadyQueueIs
  <1>12. \A i \in 1..n : r[i] # q[1]
    BY <1>0, <1>1, <1>2, <1>c DEF ReadyQueueIs
  <1>13. CurrentInv(n, r)'
    BY <1>0, <1>1, <1>a, <1>b, <1>7, <1>8, <1>9, <1>12 DEF CurrentInv, NodesInv
  <1>14. NodesInv(n, r)'
    <2>1. \A i \in 1..n : r[i] \in used /\ node_thread[r[i]] \in Threads
      BY <1>2, <1>3 DEF NodesInv
    <2>2. \A i \in 1..n : node_thread[r[i]] # h
      BY <1>0, <1>1, <1>2, <1>3, <1>4, <1>b DEF NodesInv
    <2>3. \A i, j \in 1..n : node_thread[r[i]] = node_thread[r[j]] => i = j
      BY <1>0, <1>1, <1>2, <1>3 DEF NodesInv
    <2>. QED BY <1>7, <1>8, <2>1, <2>2, <2>3 DEF NodesInv
  <1>15. ContextInv(n, r)'
    <2>1. \A i \in 1..n :
            LET v == node_thread[r[i]] IN
              /\ pc[v] # "none" /\ irq'[v] \in {"none", "iret"}
              /\ esp'[v] = v /\ (eflags'[v] <=> irq'[v] = "none")
      <3>. SUFFICES ASSUME NEW i \in 1..n, NEW v \in Threads, v = node_thread[r[i]]
                    PROVE  /\ pc[v] # "none" /\ irq'[v] \in {"none", "iret"}
                           /\ esp'[v] = v /\ (eflags'[v] <=> irq'[v] = "none")
        BY <1>2, <1>3 DEF NodesInv
      <3>1. CASE v = t
        BY <3>1, <1>1, <1>8, <1>9 DEF ContextInv, TypeOK
      <3>2. CASE v # t
        <4>1. PICK j \in 1..n : r[i] = q[j]
          BY <3>2, <1>2, <1>3
        <4>. QED BY <3>2, <4>1, <1>8, <1>9 DEF ContextInv, TypeOK
      <3>. QED BY <3>1, <3>2
    <2>. QED BY <1>4, <1>7, <1>8, <1>9, <2>1 DEF ContextInv
  <1>16. InterruptInv(n, r)'
    BY <1>1, <1>4, <1>8, <1>9 DEF InterruptInv, ContextInv, TypeOK
  <1>17. \A s \in Threads : Queued(n, r, s) <=> (s = t \/ (Queued(n, q, s) /\ s # h))
    <2>1. ASSUME NEW i \in 1..n, i # 1 PROVE Queued(n, r, node_thread[q[i]])
      <3>1. i - 1 \in 1..n /\ r[i - 1] = q[i]
        BY <2>1, <1>0, <1>c
      <3>. QED BY <3>1 DEF Queued
    <2>2. Queued(n, r, t)
      BY <1>0, <1>1, <1>2, <1>3 DEF Queued
    <2>3. \A i \in 1..n : node_thread[r[i]] # h
      BY <1>0, <1>1, <1>2, <1>3, <1>4, <1>b DEF NodesInv
    <2>4. \A i \in 1..n : node_thread[r[i]] = t \/ Queued(n, q, node_thread[r[i]])
      BY <1>2, <1>3 DEF Queued
    <2>5. \A s \in Threads : Queued(n, r, s) => (s = t \/ (Queued(n, q, s) /\ s # h))
      BY <2>3, <2>4 DEF Queued
    <2>6. ASSUME NEW s \in Threads, Queued(n, q, s), s # h PROVE Queued(n, r, s)
      <3>1. PICK i \in 1..n : node_thread[q[i]] = s
        BY <2>6 DEF Queued
      <3>. QED BY <2>1, <2>6, <3>1, <1>b
    <2>. QED BY <2>2, <2>5, <2>6
  <1>18. CreationInv(n, r)'
    <2>1. \A s \in Threads : Queued(n, r, s)' <=> Queued(n, r, s)
      BY <1>7 DEF Queued
    <2>2. Queued(n, q, h)
      BY <1>0, <1>1, <1>b DEF Queued
    <2>3. ASSUME NEW s \in Threads, NEW v \in Threads, thread[s] = v,
                 pc[s] \in InitPC \cup ReadyPC
          PROVE  v # t /\ v # h /\ ~Queued(n, r, v)'
      <3>1. v # t /\ ~Queued(n, q, v)
        BY <2>3, <1>1 DEF CreationInv
      <3>2. v # h
        BY <2>2, <3>1
      <3>. QED BY <2>1, <3>1, <3>2, <1>17
    <2>4. \A v \in Threads \ {t} : esp'[v] = esp[v] /\ eflags'[v] = eflags[v]
                                   /\ irq'[v] = irq[v]
      BY <1>8, <1>9 DEF TypeOK
    <2>. QED BY <1>8, <1>9, <2>3, <2>4 DEF CreationInv, TypeOK
  <1>19. InsertInv(n, r)'
    <2>. SUFFICES ASSUME NEW s \in Threads, pc[s] \in ReadyPC \ {"new_node"}
                  PROVE  /\ item[s] \in used /\ node_thread[item[s]] = thread[s]
                         /\ node_next'[item[s]] = NULL
                         /\ pc[s] # "set_head"
                         /\ pc[s] = "walk" =>
                              /\ iterator[s] = q[1] \/ \E i \in 1..n : iterator[s] = r[i]
                              /\ node_thread[iterator[s]] # s
                         /\ pc[s] = "append" =>
                              /\ s = h => iterator[s] = r[n]
                              /\ \A i \in 1..n : node_thread[r[i]] = s =>
                                   iterator[s] = IF i = 1 THEN q[1] ELSE r[i - 1]
      BY <1>1, <1>7, <1>8, <1>9 DEF InsertInv, Before
    <2>1. /\ item[s] \in used /\ node_thread[item[s]] = thread[s]
          /\ node_next[item[s]] = NULL /\ pc[s] # "set_head"
      BY <1>1 DEF InsertInv
    <2>2. item[s] # q[n] /\ item[s] # c
      BY <2>1, <1>0, <1>1, <1>2 DEF CreationInv, Queued
    <2>3. node_next'[item[s]] = NULL
      BY <2>1, <2>2, <1>6 DEF TypeOK
    <2>4. ASSUME pc[s] = "walk"
          PROVE  /\ iterator[s] = q[1] \/ \E i \in 1..n : iterator[s] = r[i]
                 /\ node_thread[iterator[s]] # s
      <3>1. /\ iterator[s] = c \/ \E i \in 1..n : iterator[s] = q[i]
            /\ node_thread[iterator[s]] # s
        BY <2>4, <1>a DEF InsertInv
      <3>2. \A i \in 1..n : i = 1 \/ \E j \in 1..n : r[j] = q[i]
        <4>. SUFFICES ASSUME NEW i \in 1..n, i # 1 PROVE r[i - 1] = q[i] /\ i - 1 \in 1..n
          OBVIOUS
        <4>. QED BY <1>0, <1>c
      <3>3. n \in 1..n
        BY <1>0, <1>1
      <3>. QED BY <3>1, <3>2, <3>3, <1>3
    <2>5. ASSUME pc[s] = "append"
          PROVE  /\ s = h => iterator[s] = r[n]
                 /\ \A i \in 1..n : node_thread[r[i]] = s =>
                      iterator[s] = IF i = 1 THEN q[1] ELSE r[i - 1]
      <3>1. /\ s = t => iterator[s] = q[n]
            /\ \A i \in 1..n : node_thread[q[i]] = s =>
                 iterator[s] = IF i = 1 THEN c ELSE q[i - 1]
        BY <2>5, <1>1, <1>a DEF InsertInv, Before
      <3>2. s = h => iterator[s] = r[n]
        BY <3>1, <1>0, <1>1, <1>3, <1>b
      <3>3. ASSUME NEW i \in 1..n, node_thread[r[i]] = s
            PROVE  iterator[s] = IF i = 1 THEN q[1] ELSE r[i - 1]
        <4>1. CASE i = n
          BY <3>1, <3>3, <4>1, <1>0, <1>1, <1>2, <1>c
        <4>2. CASE i < n
          <5>1. r[i] = q[i + 1] /\ i + 1 \in 1..n /\ i + 1 # 1
            BY <4>2, <1>3
          <5>2. iterator[s] = q[i]
            BY <3>1, <3>3, <5>1
          <5>. QED BY <4>2, <5>2, <1>0, <1>c
        <4>. QED BY <4>1, <4>2, <1>0
      <3>. QED BY <3>2, <3>3
    <2>. QED BY <2>1, <2>3, <2>4, <2>5
  <1>20. NoneLostInv(n, r, out)'
    BY <1>1, <1>7, <1>8, <1>9, <1>17 DEF NoneLostInv, Queued
  <1>21. StoppedInv(n, r, out)'
    <2>1. Queued(n, q, h)
      BY <1>0, <1>1, <1>b DEF Queued
    <2>2. \A v \in out : v \in Threads /\ v # t /\ v # h /\ ~Queued(n, q, v)
      BY <1>1, <2>1 DEF StoppedInv
    <2>3. \A v \in out : ~Queued(n, r, v)'
      BY <2>2, <1>7, <1>17 DEF Queued
    <2>4. \A v \in Threads \ {t} : esp'[v] = esp[v] /\ eflags'[v] = eflags[v]
                                   /\ irq'[v] = irq[v]
      BY <1>8, <1>9 DEF TypeOK
    <2>. QED BY <1>8, <1>9, <2>2, <2>3, <2>4 DEF StoppedInv
  <1>. QED BY <1>3, <1>10, <1>11, <1>13, <1>14, <1>15, <1>16, <1>18, <1>19, <1>20, <1>21

-----------------------------------------------------------------------------
(* The invariant                                                           *)

LEMMA InitIInv == Init => IInv
  <1>. SUFFICES ASSUME Init PROVE IInv
    OBVIOUS
  <1>. USE SchedulerAssumption DEF Init
  <1>1. 0 \in Lengths
    BY FS_CardinalityType DEF Lengths
  <1>2. PICK q : q = [i \in 1..0 |-> Main]
    OBVIOUS
  <1>3. q \in [1..0 -> Nodes] /\ 1..0 = {}
    BY <1>2
  <1>4. TypeOK
    BY DEF TypeOK
  <1>5. RingInv(0, q, {})
    BY <1>3 DEF RingInv, ReadyQueueIs, CurrentInv, NodesInv, ContextInv, InterruptInv,
                CreationInv, InsertInv, StoppedInv, NoneLostInv, Queued
  <1>. QED BY <1>1, <1>3, <1>4, <1>5 DEF IInv

LEMMA NextIInv == IInv /\ [Next]_vars => IInv'
  <1>. SUFFICES ASSUME IInv, [Next]_vars PROVE IInv'
    OBVIOUS
  <1>a. PICK n \in Lengths : \E q \in [1..n -> Nodes] : RingInv(n, q, {})
    BY DEF IInv
  <1>b. PICK q \in [1..n -> Nodes] : RingInv(n, q, {})
    BY <1>a
  <1>1. TypeOK
    BY DEF IInv
  <1>2. CASE UNCHANGED vars
    <2>1. TypeOK'
      BY <1>1, <1>2 DEF TypeOK, vars, queue_vars, struct_vars, code_vars, irq_vars
    <2>2. RingInv(n, q, {})'
      BY <1>b, <1>2 DEF RingInv, ReadyQueueIs, CurrentInv, NodesInv, ContextInv, InterruptInv,
                  CreationInv, InsertInv, Before, StoppedInv, NoneLostInv, Queued,
                  vars, queue_vars, struct_vars, code_vars, irq_vars
    <2>. QED BY <2>1, <2>2 DEF IInv
  <1>3. ASSUME NEW t \in Threads, OperationStep(t) PROVE IInv'
    <2>1. CASE InitThreading(t)
      BY <1>1, <1>b, <2>1, InitThreadingStep DEF IInv
    <2>2. CASE InitScheduler(t)
      BY <1>1, <1>b, <2>2, InitSchedulerStep DEF IInv
    <2>3. CASE LoadTid(t)
      BY <1>1, <1>b, <2>3, LoadTidStep DEF IInv
    <2>4. CASE StoreTid(t)
      BY <1>1, <1>b, <2>4, StoreTidStep DEF IInv
    <2>5. CASE SetContext(t)
      BY <1>1, <1>b, <2>5, SetContextStep DEF IInv
    <2>6. CASE NewNode(t)
      BY <1>1, <1>b, <2>6, NewNodeStep DEF IInv
    <2>7. CASE ReadQueue(t)
      BY <1>1, <1>b, <2>7, ReadQueueStep DEF IInv
    <2>8. CASE Walk(t)
      BY <1>1, <1>b, <2>8, WalkStep DEF IInv
    <2>9. CASE AppendItem(t) \/ SetHead(t)
      BY <1>1, <1>b, <2>9, InsertStep DEF IInv
    <2>. QED BY <1>3, <2>1, <2>2, <2>3, <2>4, <2>5, <2>6, <2>7, <2>8, <2>9
             DEF OperationStep, ThreadIsReady
  <1>4. ASSUME NEW t \in Threads, HandlerStep(t) PROVE IInv'
    <2>1. CASE IrqHandler(t)
      BY <1>1, <1>b, <2>1, IrqHandlerStep DEF IInv
    <2>2. CASE ScheduleWalk(t)
      BY <1>1, <1>b, <2>2, ScheduleWalkStep DEF IInv
    <2>3. CASE ScheduleSwitch(t)
      <3>1. PICK r : r = Turned(n, q)
        OBVIOUS
      <3>2. TypeOK' /\ r \in [1..n -> Nodes] /\ RingInv(n, r, {})'
        BY <1>1, <1>b, <2>3, <3>1, ScheduleSwitchStep
      <3>. QED BY <3>2 DEF IInv
    <2>4. CASE IrqReturn(t)
      BY <1>1, <1>b, <2>4, IrqReturnStep DEF IInv
    <2>. QED BY <1>4, <2>1, <2>2, <2>3, <2>4 DEF HandlerStep
  <1>5. ASSUME NEW t \in Threads, NEW u \in Threads, CreateThread(t, u) PROVE IInv'
    BY <1>1, <1>b, <1>5, CreateThreadStep DEF IInv
  <1>6. ASSUME NEW t \in Threads, ThreadExit(t) PROVE IInv'
    BY <1>1, <1>b, <1>6, ThreadExitStep DEF IInv
  <1>7. ASSUME NEW t \in Threads, TimerIrq(t) PROVE IInv'
    BY <1>1, <1>b, <1>7, TimerIrqStep DEF IInv
  <1>. QED BY <1>2, <1>3, <1>4, <1>5, <1>6, <1>7 DEF Next

(* The ring, and what hangs on it, survives every step of threads and      *)
(* timer (thread_is_ready, create_thread, schedule, switch_thread).        *)
THEOREM RingInvariant == Spec => []IInv
  BY InitIInv, NextIInv, PTL DEF Spec

(* Every variable keeps its type and no step dereferences NULL             *)
(* (thread_is_ready, schedule).                                            *)
THEOREM TypeCorrect == Spec => []TypeOK
  <1>1. IInv => TypeOK
    BY DEF IInv
  <1>. QED BY <1>1, RingInvariant, PTL

(* The ready queue is a finite list of nodes in use, without the current   *)
(* node and with one node for a thread (thread_is_ready, schedule).        *)
THEOREM ReadyListCorrect == Spec => []ReadyListWellFormed
  <1>1. IInv => ReadyListWellFormed
    <2>. SUFFICES ASSUME NEW n \in Lengths, NEW q \in [1..n -> Nodes], RingInv(n, q, {})
                  PROVE  ReadyListWellFormed
      BY DEF IInv
    <2>1. /\ ReadyQueueIs(n, q)
          /\ \A i \in 1..n : q[i] \in used /\ q[i] # current_thread
          /\ \A i, j \in 1..n : node_thread[q[i]] = node_thread[q[j]] => i = j
      BY DEF RingInv, CurrentInv, NodesInv
    <2>. QED BY <2>1 DEF ReadyListWellFormed
  <1>. QED BY <1>1, RingInvariant, PTL

(* No interleaving of thread_is_ready with schedule loses a thread.        *)
THEOREM NoThreadIsLost == Spec => []NoThreadLost
  <1>1. IInv => NoThreadLost
    BY DEF IInv, RingInv, NoneLostInv, NoThreadLost
  <1>. QED BY <1>1, RingInvariant, PTL

(* Whatever schedule picks can be resumed: switch_thread loads a stack     *)
(* pointer that points into the thread's own stack and the flags it needs. *)
THEOREM ContextsCorrect == Spec => []ContextsResumable
  <1>1. ASSUME NEW n \in Lengths, NEW q \in [1..n -> Nodes], RingInv(n, q, {})
        PROVE  ContextsResumable
    <2>1. current_thread # NULL => node_thread[current_thread] = cpu
      BY <1>1 DEF RingInv, CurrentInv
    <2>2. ReadyQueueIs(n, q)
      BY <1>1 DEF RingInv
    <2>3. \A i \in 1..n :
            LET u == node_thread[q[i]] IN esp[u] = u /\ (eflags[u] <=> irq[u] = "none")
      BY <1>1 DEF RingInv, ContextInv
    <2>. QED BY <2>1, <2>2, <2>3 DEF ContextsResumable
  <1>2. IInv => ContextsResumable
    BY <1>1 DEF IInv
  <1>. QED BY <1>2, RingInvariant, PTL

-----------------------------------------------------------------------------
(* Thread ids                                                              *)

(* What keeps the ids apart when only one thread creates threads: every id *)
(* is below next_tid, and the value create_thread has loaded is still the  *)
(* current one when it is used.                                            *)
IdInv ==
  /\ \A t \in Threads : id[t] # NULL => id[t] < next_tid
  /\ \A t \in Threads : pc[t] = "store_tid" => tid[t] = next_tid
  /\ \A t \in Threads : pc[t] \in InitPC => t \in Creators
  /\ pc[Main] \in BootPC => \A t \in Threads \ {Main} : pc[t] = "none"
  /\ UniqueIds

(* With one creator no two threads get the same id, wherever the timer     *)
(* cuts next_tid++ (init_threading, create_thread).                        *)
THEOREM IdsUnique ==
  ASSUME \A s, t \in Creators : s = t, NULL \notin Nat
  PROVE  Spec => []UniqueIds
  <1>. USE SchedulerAssumption DEF IdInv, UniqueIds
  <1>1. Init => IdInv
    BY DEF Init
  <1>2. ASSUME IInv, IdInv, [Next]_vars PROVE IdInv'
    <2>. USE <1>2
    <2>0. TypeOK /\ \A t \in Threads \ {Main} : pc[t] \notin BootPC
      BY DEF IInv, RingInv, CurrentInv
    <2>1. CASE UNCHANGED vars
      BY <2>1 DEF vars, queue_vars, struct_vars, code_vars, irq_vars
    <2>2. ASSUME NEW t \in Threads, InitThreading(t) PROVE IdInv'
      BY <2>0, <2>2 DEF InitThreading, Goto, TypeOK
    <2>3. ASSUME NEW t \in Threads, LoadTid(t) PROVE IdInv'
      BY <2>0, <2>3 DEF LoadTid, Goto, TypeOK, queue_vars, struct_vars, irq_vars
    <2>4. ASSUME NEW t \in Threads, StoreTid(t) PROVE IdInv'
      <3>1. thread[t] \in Threads /\ tid[t] = next_tid
        BY <2>0, <2>4 DEF StoreTid, TypeOK
      <3>2. \A s \in Threads : s # t => pc[s] # "store_tid"
        BY <2>4 DEF StoreTid
      <3>. QED BY <2>0, <2>4, <3>1, <3>2 DEF StoreTid, Goto, TypeOK
    <2>5. ASSUME NEW t \in Threads, SetContext(t) PROVE IdInv'
      BY <2>0, <2>5 DEF SetContext, TypeOK
    <2>6. ASSUME NEW t \in Threads, NEW u \in Threads, CreateThread(t, u) PROVE IdInv'
      BY <2>0, <2>6 DEF CreateThread, Goto, TypeOK, queue_vars, struct_vars, irq_vars
    <2>7. ASSUME NEW t \in Threads,
                 InitScheduler(t) \/ ThreadIsReady(t) \/ ThreadExit(t)
          PROVE  IdInv'
      <3>1. UNCHANGED <<id, next_tid, tid>>
        BY <2>7 DEF InitScheduler, ThreadIsReady, NewNode, ReadQueue, Walk, AppendItem,
                    SetHead, ReturnToCaller, ThreadExit, struct_vars
      <3>2. PICK s \in ReadyPC \cup {"run", "exited"} :
              pc[t] # "none" /\ pc' = [pc EXCEPT ![t] = s]
        BY <2>0, <2>7
           DEF InitScheduler, ThreadIsReady, NewNode, ReadQueue, Walk, AppendItem,
               SetHead, ReturnToCaller, ThreadExit, Goto, TypeOK
      <3>. QED BY <2>0, <3>1, <3>2 DEF TypeOK
    <2>8. ASSUME NEW t \in Threads, TimerIrq(t) \/ HandlerStep(t) PROVE IdInv'
      BY <2>8 DEF TimerIrq, HandlerStep, IrqHandler, ScheduleWalk, ScheduleSwitch,
                  IrqReturn, struct_vars, code_vars
    <2>. QED BY <2>1, <2>2, <2>3, <2>4, <2>5, <2>6, <2>7, <2>8 DEF Next, OperationStep
  <1>3. IdInv => UniqueIds
    OBVIOUS
  <1>. QED BY <1>1, <1>2, <1>3, RingInvariant, PTL DEF Spec

-----------------------------------------------------------------------------
(***************************************************************************)
(* The scheduler's linked list, turned by the timer and extended by        *)
(* interrupted threads, implements the queue of RoundRobin: every step of  *)
(* the kernel is a step of the round robin or leaves it alone.             *)
(***************************************************************************)

(* The least-number principle, from which what a recursive function        *)
(* computes follows.                                                       *)
Less == {p \in Nat \X Nat : p[1] < p[2]}

LEMMA LessWellFounded == IsWellFoundedOn(Less, Nat)
  BY NatLessThanWellFounded DEF OpToRel, Less

LEMMA LeastNumber ==
  ASSUME NEW T, T \subseteq Nat, T # {}
  PROVE  \E m \in T : \A k \in T : m <= k
<1>1. \A k, m \in T : k < m => <<k, m>> \in Less
  BY DEF Less
<1>2. PICK m \in T : \A k \in T : ~(<<k, m>> \in Less)
  BY LessWellFounded, WFMin
<1>3. ASSUME NEW k \in T PROVE m <= k
  <2>1. ~(k < m)
    BY <1>1, <1>2
  <2>2. k \in Nat /\ m \in Nat
    OBVIOUS
  <2> QED BY <2>1, <2>2
<1> QED BY <1>3

-----------------------------------------------------------------------------
(* The list and its sequence                                               *)

(* q[1], ..., q[n] is the list that starts at head, and holds threads.     *)
IsList(head, next, held, n, q) ==
  /\ \A i \in 1..n : held[q[i]] \in Threads
  /\ head = IF n = 0 THEN NULL ELSE q[1]
  /\ \A i \in 1..n : next[q[i]] = IF i < n THEN q[i + 1] ELSE NULL

(* Following a list gives its nodes: the function that lists them solves   *)
(* the recursion, and no other one does, as the least place at which two   *)
(* solutions differ would have to be behind one at which they agree.       *)
LEMMA ChainIsList ==
  ASSUME NEW head, NEW next, NEW held, NEW n \in Lengths, NEW q \in [1..n -> Nodes],
         IsList(head, next, held, n, q), NEW i \in 1..Cardinality(Nodes) + 1
  PROVE  Chain(head, next)[i] = IF i <= n THEN q[i] ELSE NULL
<1> DEFINE N == Cardinality(Nodes)
           Rec(f) == [j \in 1..N + 1 |->
                       IF j = 1 THEN head
                       ELSE IF f[j - 1] = NULL THEN NULL ELSE next[f[j - 1]]]
           g == [j \in 1..N + 1 |-> IF j <= n THEN q[j] ELSE NULL]
<1>1. N \in Nat /\ n \in Nat /\ n <= N
  BY SchedulerAssumption, FS_CardinalityType DEF Lengths
<1>2. NULL \notin Nodes
  BY SchedulerAssumption
<1>3. g = Rec(g)
  <2>1. ASSUME NEW j \in 1..N + 1 PROVE g[j] = Rec(g)[j]
    <3>1. CASE j = 1
      BY <1>1, <3>1 DEF IsList
    <3>2. CASE j # 1 /\ j - 1 <= n
      <4>1. j - 1 \in 1..n /\ j - 1 \in 1..N + 1
        BY <1>1, <3>2
      <4>2. g[j - 1] = q[j - 1] /\ g[j - 1] # NULL
        BY <1>2, <4>1
      <4>3. Rec(g)[j] = next[q[j - 1]]
        BY <3>2, <4>2
      <4>4. next[q[j - 1]] = IF j <= n THEN q[j] ELSE NULL
        BY <1>1, <4>1 DEF IsList
      <4> QED BY <4>3, <4>4
    <3>3. CASE j # 1 /\ ~(j - 1 <= n)
      BY <1>1, <3>3
    <3> QED BY <3>1, <3>2, <3>3
  <2> QED BY <2>1
<1>4. Chain(head, next) = Rec(Chain(head, next))
  <2>1. Chain(head, next) = CHOOSE f : f = Rec(f)
    BY DEF Chain
  <2>2. \E f : f = Rec(f)
    BY <1>3
  <2> HIDE DEF Rec
  <2> QED BY <2>1, <2>2
<1> DEFINE c == Chain(head, next)
           T == {j \in 1..N + 1 : c[j] # g[j]}
<1>5. T = {}
  <2> SUFFICES ASSUME T # {} PROVE FALSE
    OBVIOUS
  <2>0. T \subseteq Nat
    BY <1>1
  <2>1. PICK m \in T : \A k \in T : m <= k
    <3> HIDE DEF T
    <3> QED BY <2>0, LeastNumber
  <2>2. m # 1
    BY <1>3, <1>4
  <2>3. m - 1 \in 1..N + 1 /\ m - 1 \notin T
    BY <1>1, <2>1, <2>2
  <2>4. c[m - 1] = g[m - 1]
    BY <2>3
  <2>5. c[m] = g[m]
    <3>1. Rec(c)[m] = Rec(g)[m]
      <4> HIDE DEF c, g
      <4> QED BY <2>1, <2>4
    <3>2. c = Rec(c)
      BY <1>4
    <3> HIDE DEF c, g, Rec
    <3> QED BY <1>3, <3>1, <3>2
  <2> QED BY <2>5
<1> QED BY <1>5

(* The length of the list is the number of nodes it has.                   *)
LEMMA ListedIsSequence ==
  ASSUME NEW head, NEW next, NEW held, NEW n \in Lengths, NEW q \in [1..n -> Nodes],
         IsList(head, next, held, n, q)
  PROVE  /\ Listed(head, next, held) \in Seq(Threads)
         /\ Len(Listed(head, next, held)) = n
         /\ \A i \in 1..n : Listed(head, next, held)[i] = held[q[i]]
<1>1. Cardinality(Nodes) \in Nat /\ n \in Nat /\ n <= Cardinality(Nodes) /\ NULL \notin Nodes
  BY SchedulerAssumption, FS_CardinalityType DEF Lengths
<1>2. \A i \in 1..Cardinality(Nodes) + 1 :
        Chain(head, next)[i] = IF i <= n THEN q[i] ELSE NULL
  BY ChainIsList
<1>3. {i \in 1..Cardinality(Nodes) : Chain(head, next)[i] # NULL} = 1..n
  <2>1. ASSUME NEW i \in 1..Cardinality(Nodes)
        PROVE  Chain(head, next)[i] # NULL <=> i \in 1..n
    BY <1>1, <1>2
  <2> QED BY <1>1, <2>1
<1>4. ChainLength(Chain(head, next)) = n
  <2>1. Cardinality(1..n) = n
    BY <1>1, FS_Interval
  <2> QED BY <1>3, <2>1 DEF ChainLength
<1>5. Listed(head, next, held) = [i \in 1..n |-> held[q[i]]]
  BY <1>1, <1>2, <1>4 DEF Listed
<1>6. [i \in 1..n |-> held[q[i]]] \in [1..n -> Threads]
  BY DEF IsList
<1> QED
  BY <1>1, <1>5, <1>6

(* A node behind the last one adds its thread behind the last one.         *)
LEMMA ListExtended ==
  ASSUME NEW s \in Seq(Threads), NEW r \in Seq(Threads), NEW u \in Threads,
         Len(r) = Len(s) + 1, r[Len(s) + 1] = u,
         \A i \in 1..Len(s) : r[i] = s[i]
  PROVE  r = Append(s, u)
<1>1. /\ Append(s, u) \in Seq(Threads) /\ Len(Append(s, u)) = Len(s) + 1
      /\ \A i \in 1..Len(s) + 1 : Append(s, u)[i] = IF i <= Len(s) THEN s[i] ELSE u
  OBVIOUS
<1>2. \A i \in 1..Len(r) : r[i] = Append(s, u)[i]
  BY <1>1
<1> QED
  BY <1>1, <1>2, SeqEqual

(* The list turned by one place is the round robin's queue after a slice.  *)
LEMMA ListTurned ==
  ASSUME NEW s \in Seq(Threads), NEW r \in Seq(Threads), NEW u \in Threads, s # <<>>,
         Len(r) = Len(s), r[Len(s)] = u,
         \A i \in 1..Len(s) : i < Len(s) => r[i] = s[i + 1]
  PROVE  r = Append(Tail(s), u) /\ Head(s) = s[1]
<1>1. Len(s) \in Nat /\ Len(s) > 0
  BY EmptySeq
<1>2. /\ Tail(s) \in Seq(Threads) /\ Len(Tail(s)) = Len(s) - 1
      /\ \A i \in 1..Len(s) - 1 : Tail(s)[i] = s[i + 1]
  BY <1>1
<1>3. Len(Tail(s)) + 1 = Len(s) /\ \A i \in 1..Len(Tail(s)) : r[i] = Tail(s)[i]
  BY <1>1, <1>2
<1> QED
  BY <1>1, <1>2, <1>3, ListExtended

-----------------------------------------------------------------------------
(* The steps                                                               *)

(* The ring's queue is the round robin's, and its threads are waiting.     *)
LEMMA RingIsQueue ==
  ASSUME TypeOK, NEW n \in Lengths, NEW q \in [1..n -> Nodes], RingInv(n, q, {})
  PROVE  /\ n \in Nat /\ IsList(ready_queue, node_next, node_thread, n, q)
         /\ ReadyThreads \in Seq(Threads) /\ Len(ReadyThreads) = n
         /\ \A i \in 1..n : ReadyThreads[i] = node_thread[q[i]]
<1>1. n \in Nat
  BY SchedulerAssumption, FS_CardinalityType DEF Lengths
<1>2. IsList(ready_queue, node_next, node_thread, n, q)
  BY DEF RingInv, ReadyQueueIs, NodesInv, IsList
<1> QED
  BY <1>1, <1>2, ListedIsSequence DEF ReadyThreads

(* A step that changes neither the list nor what its nodes hold, though    *)
(* perhaps other nodes, is not seen.                                       *)
LEMMA ListKept ==
  ASSUME TypeOK, NEW n \in Lengths, NEW q \in [1..n -> Nodes], RingInv(n, q, {}),
         ready_queue' = ready_queue, cpu' = cpu,
         \A i \in 1..n : /\ node_next'[q[i]] = node_next[q[i]]
                         /\ node_thread'[q[i]] = node_thread[q[i]]
  PROVE  UNCHANGED RR!vars
<1>1. /\ IsList(ready_queue, node_next, node_thread, n, q)
      /\ ReadyThreads \in Seq(Threads) /\ Len(ReadyThreads) = n
      /\ \A i \in 1..n : ReadyThreads[i] = node_thread[q[i]]
  BY RingIsQueue
<1>2. IsList(ready_queue', node_next', node_thread', n, q)
  BY <1>1 DEF IsList
<1>3. /\ ReadyThreads' \in Seq(Threads) /\ Len(ReadyThreads') = n
      /\ \A i \in 1..n : ReadyThreads'[i] = node_thread'[q[i]]
  BY <1>2, ListedIsSequence DEF ReadyThreads
<1>4. ReadyThreads' = ReadyThreads
  BY <1>1, <1>3, SeqEqual
<1> QED
  BY <1>4 DEF RR!vars

(* init_scheduler and the first half of thread_is_ready write to nodes     *)
(* that are not in the list.                                               *)
LEMMA FreshNode ==
  ASSUME TypeOK, NEW n \in Lengths, NEW q \in [1..n -> Nodes], RingInv(n, q, {}),
         NEW t \in Threads, InitScheduler(t) \/ NewNode(t)
  PROVE  UNCHANGED RR!vars
<1>1. PICK x \in Nodes \ used :
        /\ \E u : node_thread' = [node_thread EXCEPT ![x] = u]
        /\ node_next' = [node_next EXCEPT ![x] = NULL]
  BY DEF InitScheduler, NewNode
<1>2. \A i \in 1..n : q[i] \in Nodes /\ q[i] # x
  BY DEF RingInv, NodesInv
<1>3. \A i \in 1..n : /\ node_next'[q[i]] = node_next[q[i]]
                      /\ node_thread'[q[i]] = node_thread[q[i]]
  BY <1>1, <1>2 DEF TypeOK
<1>4. ready_queue' = ready_queue /\ cpu' = cpu
  <2>1. CASE InitScheduler(t)
    <3>1. ready_queue = NULL
      <4>1. pc[Main] \in BootPC
        BY <2>1 DEF InitScheduler, RingInv, CurrentInv
      <4> QED BY <4>1, EmptyQueue DEF RingInv, CurrentInv
    <3> QED BY <2>1, <3>1 DEF InitScheduler, irq_vars
  <2>2. CASE NewNode(t)
    BY <2>2 DEF NewNode, irq_vars
  <2> QED BY <2>1, <2>2
<1> QED
  BY <1>3, <1>4, ListKept

(* The end of thread_is_ready lets its thread join at the end.             *)
LEMMA InsertionAdmits ==
  ASSUME TypeOK, NEW n \in Lengths, NEW q \in [1..n -> Nodes], RingInv(n, q, {}),
         NEW t \in Threads, AppendItem(t) \/ SetHead(t)
  PROVE  \E u \in Threads : RR!Admit(u)
<1> USE SchedulerAssumption DEF RingInv
<1>1. t = cpu /\ pc[t] \in {"append", "set_head"}
  BY DEF AppendItem, SetHead, Executes
<1>2. PICK u \in Threads : u = thread[t]
  BY <1>1 DEF TypeOK
<1>3. PICK x \in Nodes : x = item[t]
  BY <1>1 DEF TypeOK
<1>4. /\ n \in Nat /\ IsList(ready_queue, node_next, node_thread, n, q)
      /\ ReadyThreads \in Seq(Threads) /\ Len(ReadyThreads) = n
      /\ \A i \in 1..n : ReadyThreads[i] = node_thread[q[i]]
  BY RingIsQueue
<1>5. u # cpu /\ ~Queued(n, q, u)
  BY <1>1, <1>2 DEF CreationInv
<1>6. node_thread[x] = u /\ node_next[x] = NULL
  BY <1>1, <1>2, <1>3 DEF InsertInv
<1>7. \A i \in 1..n : q[i] # x
  BY <1>5, <1>6 DEF Queued
<1>8. PICK r : r = [i \in 1..n + 1 |-> IF i <= n THEN q[i] ELSE x]
  OBVIOUS
<1>9. /\ r \in [1..n + 1 -> Nodes] /\ r[n + 1] = x
      /\ \A i \in 1..n : r[i] = q[i]
      /\ 1..n + 1 = (1..n) \cup {n + 1}
  BY <1>4, <1>8
<1>10. \A i, j \in 1..n + 1 : r[i] = r[j] => i = j
  BY <1>4, <1>7, <1>9 DEF ReadyQueueIs
<1>11. n + 1 \in Lengths
  BY <1>4, <1>9, <1>10, InjectiveLength
<1>12. node_thread' = node_thread /\ cpu' = cpu
  BY DEF AppendItem, SetHead, irq_vars
<1>13. \A i \in 1..n + 1 : node_thread'[r[i]] \in Threads
  BY <1>4, <1>6, <1>9, <1>12 DEF IsList
<1>14. IsList(ready_queue', node_next', node_thread', n + 1, r)
  <2>1. CASE AppendItem(t)
    <3>1. n > 0 /\ iterator[t] = q[n]
      BY <1>1, <2>1 DEF AppendItem, InsertInv, Before
    <3>2. node_next' = [node_next EXCEPT ![q[n]] = x] /\ ready_queue' = q[1]
      BY <1>3, <1>4, <2>1, <3>1 DEF AppendItem, IsList
    <3>3. node_next'[q[n]] = x /\ node_next'[x] = NULL
      BY <1>4, <1>6, <1>7, <3>1, <3>2 DEF TypeOK
    <3>4. \A i \in 1..n : i < n => node_next'[q[i]] = q[i + 1]
      BY <1>4, <3>1, <3>2 DEF TypeOK, IsList, ReadyQueueIs
    <3>5. \A i \in 1..n : i < n => i + 1 \in 1..n
      BY <1>4
    <3>6. \A i \in 1..n : i < n => node_next'[r[i]] = r[i + 1]
      BY <1>4, <1>9, <3>4, <3>5
    <3>7. node_next'[r[n]] = r[n + 1] /\ node_next'[r[n + 1]] = NULL
      BY <1>4, <1>9, <3>1, <3>3
    <3>8. \A i \in 1..n + 1 : node_next'[r[i]] = IF i < n + 1 THEN r[i + 1] ELSE NULL
      BY <1>4, <3>6, <3>7
    <3>9. ready_queue' = r[1] /\ n + 1 # 0
      BY <1>4, <1>9, <3>1, <3>2
    <3> QED BY <1>13, <3>8, <3>9 DEF IsList
  <2>2. CASE SetHead(t)
    <3>1. n = 0 /\ ready_queue' = x /\ node_next' = node_next
      BY <1>1, <1>3, <2>2 DEF SetHead, InsertInv
    <3> QED BY <1>6, <1>9, <1>13, <3>1 DEF IsList
  <2> QED BY <2>1, <2>2
<1>15. /\ ReadyThreads' \in Seq(Threads) /\ Len(ReadyThreads') = n + 1
       /\ \A i \in 1..n + 1 : ReadyThreads'[i] = node_thread'[r[i]]
  BY <1>11, <1>9, <1>14, ListedIsSequence DEF ReadyThreads
<1>16. ReadyThreads' = Append(ReadyThreads, u)
  <2>1. ReadyThreads'[n + 1] = u
    BY <1>6, <1>9, <1>12, <1>15
  <2>2. \A i \in 1..n : ReadyThreads'[i] = ReadyThreads[i]
    BY <1>4, <1>9, <1>12, <1>15
  <2> QED BY <1>4, <1>15, <2>1, <2>2, ListExtended
<1>17. u \notin RR!Waiting
  BY <1>4, <1>5 DEF RR!Waiting, Queued
<1> QED
  BY <1>5, <1>12, <1>16, <1>17 DEF RR!Admit

(* schedule is the end of a slice.                                         *)
LEMMA SwitchPreempts ==
  ASSUME TypeOK, NEW n \in Lengths, NEW q \in [1..n -> Nodes], RingInv(n, q, {}),
         NEW t \in Threads, ScheduleSwitch(t)
  PROVE  RR!Preempt
<1>1. PICK r : r = Turned(n, q)
  OBVIOUS
<1>2. TypeOK' /\ r \in [1..n -> Nodes] /\ RingInv(n, r, {})'
  BY <1>1, ScheduleSwitchStep
<1>3. /\ n \in Nat
      /\ ReadyThreads \in Seq(Threads) /\ Len(ReadyThreads) = n
      /\ \A i \in 1..n : ReadyThreads[i] = node_thread[q[i]]
  BY RingIsQueue
<1>4. IsList(ready_queue', node_next', node_thread', n, r)
  BY <1>2 DEF RingInv, ReadyQueueIs, NodesInv, IsList
<1>5. /\ ReadyThreads' \in Seq(Threads) /\ Len(ReadyThreads') = n
      /\ \A i \in 1..n : ReadyThreads'[i] = node_thread'[r[i]]
  BY <1>2, <1>4, ListedIsSequence DEF ReadyThreads
<1>6. t = cpu /\ n > 0 /\ current_thread \in Nodes /\ node_thread[current_thread] = cpu
  BY <1>3, SchedulerAssumption
     DEF ScheduleSwitch, Handles, RingInv, InterruptInv, CurrentInv, TypeOK
<1>7. node_thread' = node_thread /\ current_thread' = q[1]
  BY <1>3, <1>6 DEF ScheduleSwitch, Requeue, SwitchThread, RingInv, ReadyQueueIs
<1>8. cpu' = node_thread[q[1]]
  <2>1. q[1] \in Nodes /\ q[1] # NULL
    BY <1>3, <1>6, SchedulerAssumption
  <2>2. current_thread' # NULL => node_thread'[current_thread'] = cpu'
    BY <1>2 DEF RingInv, CurrentInv
  <2> QED BY <1>7, <2>1, <2>2
<1>9. /\ r[n] = current_thread
      /\ \A i \in 1..n : i < n => r[i] = q[i + 1] /\ i + 1 \in 1..n
  BY <1>1, <1>3, <1>6 DEF Turned
<1>10. ReadyThreads # <<>>
  BY <1>3, <1>6
<1>11. ReadyThreads' = Append(Tail(ReadyThreads), cpu) /\ Head(ReadyThreads) = ReadyThreads[1]
  <2>1. ReadyThreads'[n] = cpu
    BY <1>3, <1>5, <1>6, <1>7, <1>9
  <2>2. \A i \in 1..n : i < n => ReadyThreads'[i] = ReadyThreads[i + 1]
    BY <1>3, <1>5, <1>7, <1>9
  <2>3. cpu \in Threads
    BY DEF TypeOK
  <2> QED BY <1>3, <1>5, <1>10, <2>1, <2>2, <2>3, ListTurned
<1> QED
  BY <1>3, <1>6, <1>8, <1>10, <1>11 DEF RR!Preempt

(* Every step of the kernel is a step of the round robin or none.          *)
LEMMA StepImplements == IInv /\ [Next]_vars => [RR!Next]_(RR!vars)
<1> SUFFICES ASSUME IInv, [Next]_vars PROVE [RR!Next]_(RR!vars)
  OBVIOUS
<1>1. TypeOK /\ \E n \in Lengths : \E q \in [1..n -> Nodes] : RingInv(n, q, {})
  BY DEF IInv
<1>2. PICK n \in Lengths : \E q \in [1..n -> Nodes] : RingInv(n, q, {})
  BY <1>1
<1>3. PICK q \in [1..n -> Nodes] : RingInv(n, q, {})
  BY <1>2
<1>4. ASSUME UNCHANGED queue_vars, cpu' = cpu PROVE UNCHANGED RR!vars
  BY <1>4 DEF RR!vars, ReadyThreads, queue_vars
<1>5. CASE UNCHANGED vars
  BY <1>4, <1>5 DEF vars, irq_vars
<1>6. ASSUME NEW t \in Threads, InitScheduler(t) \/ NewNode(t) PROVE UNCHANGED RR!vars
  BY <1>1, <1>3, <1>6, FreshNode
<1>7. ASSUME NEW t \in Threads, AppendItem(t) \/ SetHead(t) PROVE RR!Next
  BY <1>1, <1>3, <1>7, InsertionAdmits DEF RR!Next
<1>8. ASSUME NEW t \in Threads, ScheduleSwitch(t) PROVE RR!Next
  BY <1>1, <1>3, <1>8, SwitchPreempts DEF RR!Next
<1>9. ASSUME NEW t \in Threads,
             \/ InitThreading(t) \/ LoadTid(t) \/ StoreTid(t) \/ SetContext(t)
             \/ ReadQueue(t) \/ Walk(t) \/ ThreadExit(t)
             \/ \E u \in Threads : CreateThread(t, u)
      PROVE  UNCHANGED RR!vars
  BY <1>4, <1>9 DEF InitThreading, LoadTid, StoreTid, SetContext, ReadQueue, Walk,
                    ThreadExit, CreateThread, irq_vars
<1>10. ASSUME NEW t \in Threads,
              TimerIrq(t) \/ IrqHandler(t) \/ ScheduleWalk(t) \/ IrqReturn(t)
       PROVE  UNCHANGED RR!vars
  BY <1>4, <1>10 DEF TimerIrq, IrqHandler, ScheduleWalk, IrqReturn
<1> QED
  BY <1>5, <1>6, <1>7, <1>8, <1>9, <1>10
     DEF Next, OperationStep, ThreadIsReady, HandlerStep

(* From boot on, with any number of creators preempted anywhere, the CPU   *)
(* goes round: it is given to the thread that has waited longest, and who  *)
(* becomes ready joins at the end (schedule, thread_is_ready).             *)
THEOREM ImplementsRoundRobin == Spec => RR!Init /\ [][RR!Next]_(RR!vars)
<1>1. Init => RR!Init
  <2> SUFFICES ASSUME Init PROVE RR!Init
    OBVIOUS
  <2>1. PICK q : q = [i \in 1..0 |-> Main]
    OBVIOUS
  <2>2. 0 \in Lengths /\ q \in [1..0 -> Nodes] /\ IsList(ready_queue, node_next, node_thread, 0, q)
    BY <2>1, SchedulerAssumption, FS_CardinalityType DEF Lengths, IsList, Init
  <2>3. Len(ReadyThreads) = 0 /\ ReadyThreads \in Seq(Threads)
    BY <2>2, ListedIsSequence DEF ReadyThreads
  <2>4. ReadyThreads = <<>>
    BY <2>3, EmptySeq
  <2> QED BY <2>4 DEF RR!Init, Init
<1>2. IInv /\ [Next]_vars => [RR!Next]_(RR!vars)
  BY StepImplements
<1> QED
  BY <1>1, <1>2, RingInvariant, PTL DEF Spec
=============================================================================
