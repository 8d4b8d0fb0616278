---------------------------- MODULE RemovalProofs ----------------------------
(***************************************************************************)
(* Proofs about ThreadRemoval, for any finite sets of threads and nodes,   *)
(* when main() alone calls the queue's functions: the invariant of         *)
(* RemovalInv is inductive, and implies what the run checks.  The actions  *)
(* of Scheduler keep the ring by the lemmas of SchedulerProofs; what is    *)
(* new is that they keep what an interrupted thread_not_ready knows of it, *)
(* and that thread_not_ready keeps the ring.  n and q are the ring's       *)
(* queue, R is the ring and out the threads that are kept from running.    *)
(***************************************************************************)
EXTENDS RemovalInv, SchedulerProofs

(* main() makes threads and stops the others.  It is the initial thread:   *)
(* without it there are no other callers.                                  *)
OneCaller == Creators \cup Removers \subseteq {Main} /\ Main \notin Targets

USE DEF BootPC, InitPC, ReadyPC, NotReadyPC, ThreadPC, IrqPC

-----------------------------------------------------------------------------
(* The ring                                                                *)

LEMMA LengthsNat == Lengths \subseteq Nat
  BY SchedulerAssumption, FS_CardinalityType DEF Lengths

(* Going one node on and one node back are inverse, and turning the ring   *)
(* does not change the order of its nodes.                                 *)
LEMMA Positions ==
  ASSUME NEW n \in Nat, NEW i \in 0..n
  PROVE  /\ Pred(n, i) \in 0..n /\ Succ(n, i) \in 0..n
         /\ Succ(n, Pred(n, i)) = i /\ Pred(n, Succ(n, i)) = i
  BY DEF Pred, Succ

LEMMA OrderTurns ==
  ASSUME NEW n \in Nat, NEW a \in 0..n, NEW b \in 0..n, NEW d \in 0..n, InOrder(a, b, d)
  PROVE  InOrder(Pred(n, a), Pred(n, b), Pred(n, d))
  BY DEF Pred, InOrder

(* The ring seen by main() while it runs: its own node is at position 0    *)
(* and nowhere else, and the ready queue is the rest.                      *)
LEMMA RingOfMain ==
  ASSUME TypeOK, NEW n \in Lengths, NEW q \in [1..n -> Nodes], NEW out, RingInv(n, q, out),
         NEW R, R = Ring(n, q), Executes(Main), pc[Main] \in {"run"} \cup NotReadyPC
  PROVE  /\ n \in Nat /\ R \in [0..n -> Nodes]
         /\ R[0] = current_thread /\ \A i \in 1..n : R[i] = q[i]
         /\ ready_queue = IF n = 0 THEN NULL ELSE R[1]
         /\ \A i \in 0..n : R[i] \in used /\ (node_thread[R[i]] = Main <=> i = 0)
         /\ \A i \in 1..n : node_next[R[i]] = IF i < n THEN R[i + 1] ELSE NULL
         /\ \A i, j \in 0..n : node_thread[R[i]] = node_thread[R[j]] => i = j
  <1>. USE SchedulerAssumption DEF RingInv
  <1>1. n \in Nat
    BY LengthsNat
  <1>2. cpu = Main /\ current_thread \in Nodes /\ current_thread \in used
        /\ node_thread[current_thread] = Main
    BY DEF Executes, CurrentInv, TypeOK
  <1>3. R[0] = current_thread /\ \A i \in 1..n : R[i] = q[i]
    BY <1>1 DEF Ring
  <1>4. R \in [0..n -> Nodes]
    BY <1>1, <1>2 DEF Ring
  <1>5. \A i \in 1..n : R[i] \in used /\ node_thread[R[i]] # Main
    BY <1>2, <1>3 DEF NodesInv
  <1>6. \A i \in 0..n : i = 0 \/ i \in 1..n
    BY <1>1
  <1>7. \A i \in 0..n : R[i] \in used /\ (node_thread[R[i]] = Main <=> i = 0)
    BY <1>2, <1>3, <1>5, <1>6
  <1>8. \A i, j \in 1..n : node_thread[R[i]] = node_thread[R[j]] => i = j
    BY <1>3 DEF NodesInv
  <1>9. \A i, j \in 0..n : node_thread[R[i]] = node_thread[R[j]] => i = j
    BY <1>6, <1>7, <1>8
  <1>10. /\ ready_queue = IF n = 0 THEN NULL ELSE R[1]
         /\ \A i \in 1..n : node_next[R[i]] = IF i < n THEN R[i + 1] ELSE NULL
    BY <1>1, <1>3 DEF ReadyQueueIs
  <1>. QED BY <1>1, <1>3, <1>4, <1>7, <1>9, <1>10

-----------------------------------------------------------------------------
(* The steps of Scheduler                                                  *)

(* A step that keeps the ring, and either is no step of thread_not_ready's *)
(* caller or is not in that call.                                          *)
LEMMA QuietStep ==
  ASSUME NEW n \in Lengths, NEW q \in [1..n -> Nodes], NEW out, out = Out,
         SearchInv(n, Ring(n, q)), FreeInv(n, Ring(n, q)),
         TypeOK', LocalsInv', RingInv(n, q, out)', UNCHANGED removal_vars,
         pc'[Main] \in NotReadyPC <=> pc[Main] \in NotReadyPC,
         pc[Main] \in NotReadyPC =>
           /\ UNCHANGED <<current_thread, node_thread>> /\ pc'[Main] = pc[Main]
           /\ thread'[Main] = thread[Main] /\ iterator'[Main] = iterator[Main]
  PROVE  RemovalInvariant'
  <1>1. out = Out'
    BY DEF Out, removal_vars
  <1>2. CASE pc[Main] \notin NotReadyPC
    <2>1. SearchInv(n, Ring(n, q))' /\ FreeInv(n, Ring(n, q))'
      BY <1>2 DEF SearchInv, FreeInv
    <2>. QED BY <1>1, <2>1 DEF RemovalInvariant
  <1>3. CASE pc[Main] \in NotReadyPC
    <2>1. PICK R : R = Ring(n, q)
      OBVIOUS
    <2>2. R = Ring(n, q)'
      BY <1>3, <2>1 DEF Ring
    <2>3. SearchInv(n, R)' /\ FreeInv(n, R)'
      BY <1>3, <2>1 DEF SearchInv, FreeInv, removal_vars
    <2>4. SearchInv(n, Ring(n, q))' /\ FreeInv(n, Ring(n, q))'
      BY <2>2, <2>3
    <2>. QED BY <1>1, <2>4 DEF RemovalInvariant
  <1>. QED BY <1>2, <1>3

(* The steps of create_thread and thread_is_ready before the last one.     *)
LEMMA MainStep ==
  ASSUME TypeOK, LocalsInv, NEW n \in Lengths, NEW q \in [1..n -> Nodes], NEW out, out = Out,
         RingInv(n, q, out), SearchInv(n, Ring(n, q)), FreeInv(n, Ring(n, q)),
         UNCHANGED removal_vars,
         \/ InitThreading(Main) \/ InitScheduler(Main) \/ LoadTid(Main) \/ StoreTid(Main)
         \/ SetContext(Main) \/ NewNode(Main) \/ ReadQueue(Main) \/ Walk(Main)
         \/ \E u \in Threads : CreateThread(Main, u)
  PROVE  RemovalInvariant'
  <1>. USE SchedulerAssumption
  <1>1. TypeOK' /\ RingInv(n, q, out)'
    BY InitThreadingStep, InitSchedulerStep, LoadTidStep, StoreTidStep, SetContextStep,
       NewNodeStep, ReadQueueStep, WalkStep, CreateThreadStep
  <1>2. PICK x \in BootPC \cup InitPC \cup ReadyPC \cup {"run"} :
          \/ pc' = [pc EXCEPT ![Main] = x]
          \/ x = pc[Main] /\ pc' = pc
          \/ pc' = [pc EXCEPT ![thread[Main]] = "run", ![Main] = x]
    BY DEF InitThreading, InitScheduler, LoadTid, StoreTid, SetContext, NewNode, ReadQueue,
           Walk, CreateThread, Goto
  <1>3. pc[Main] \notin NotReadyPC
    BY DEF InitThreading, InitScheduler, LoadTid, StoreTid, SetContext, NewNode, ReadQueue,
           Walk, CreateThread
  <1>4. pc'[Main] = x /\ \A t \in Threads \ {Main} : pc'[t] \in {pc[t], "run"}
    BY <1>2 DEF TypeOK
  <1>5. used \subseteq used'
    BY DEF InitThreading, InitScheduler, LoadTid, StoreTid, SetContext, NewNode, ReadQueue,
           Walk, CreateThread, queue_vars
  <1>6. \/ iterator' = iterator /\ (x \in BootPC \cup InitPC \cup {"run"} =>
                                    pc[Main] \in BootPC \cup InitPC \cup {"run"})
        \/ ReadQueue(Main) \/ Walk(Main)
    BY <1>4 DEF InitThreading, InitScheduler, LoadTid, StoreTid, SetContext, NewNode,
                CreateThread, Goto, TypeOK
  <1>7. \A t \in Threads \ {Main} : iterator'[t] = iterator[t]
    BY <1>6 DEF ReadQueue, Walk, TypeOK
  <1>8. /\ iterator'[Main] \in used' \cup {NULL}
        /\ x \in {"run", "check_head"} \cup BootPC \cup InitPC => iterator'[Main] = NULL
    <2>1. CASE iterator' = iterator /\ (x \in BootPC \cup InitPC \cup {"run"} =>
                                       pc[Main] \in BootPC \cup InitPC \cup {"run"})
      BY <2>1, <1>2, <1>5 DEF LocalsInv
    <2>2. CASE ReadQueue(Main)
      <3>1. x \in ReadyPC
        BY <2>2, <1>4 DEF ReadQueue, Goto, TypeOK
      <3>2. ready_queue \in used \cup {NULL}
        BY LengthsNat DEF RingInv, ReadyQueueIs, NodesInv
      <3>. QED BY <2>2, <3>1, <3>2, <1>5 DEF ReadQueue, TypeOK
    <2>3. CASE Walk(Main)
      <3>1. x \in {"walk", "append"} /\ (x = "append" => iterator' = iterator)
        BY <2>3, <1>4 DEF Walk, Goto, TypeOK
      <3>2. current_thread' \in used' \cup {NULL} /\ \A i \in 1..n : q[i] \in used'
        BY <1>1 DEF RingInv, CurrentInv, NodesInv
      <3>3. x = "walk" => \/ iterator'[Main] = current_thread'
                         \/ \E i \in 1..n : iterator'[Main] = q[i]
        BY <1>1, <1>4 DEF RingInv, InsertInv
      <3>. QED BY <3>1, <3>2, <3>3, <1>5 DEF LocalsInv
    <2>. QED BY <2>1, <2>2, <2>3, <1>6
  <1>9. LocalsInv'
    BY <1>4, <1>5, <1>7, <1>8 DEF LocalsInv, removal_vars
  <1>. QED BY <1>1, <1>2, <1>3, <1>4, <1>9, QuietStep

(* The timer and the walk of schedule, and a thread that ends, do not      *)
(* change the ring.                                                        *)
LEMMA OthersStep ==
  ASSUME TypeOK, LocalsInv, NEW n \in Lengths, NEW q \in [1..n -> Nodes], NEW out, out = Out,
         RingInv(n, q, out), SearchInv(n, Ring(n, q)), FreeInv(n, Ring(n, q)),
         UNCHANGED removal_vars, NEW t \in Threads,
         \/ ThreadExit(t) \/ TimerIrq(t)
         \/ IrqHandler(t) \/ ScheduleWalk(t) \/ IrqReturn(t)
  PROVE  RemovalInvariant'
  <1>. USE SchedulerAssumption
  <1>1. TypeOK' /\ RingInv(n, q, out)'
    BY ThreadExitStep, TimerIrqStep, IrqHandlerStep, ScheduleWalkStep, IrqReturnStep
  <1>2. UNCHANGED <<queue_vars, thread, iterator>>
    BY DEF ThreadExit, TimerIrq, IrqHandler, ScheduleWalk, IrqReturn, code_vars
  <1>3. pc' = pc \/ (t # Main /\ pc[t] = "run" /\ pc' = [pc EXCEPT ![t] = "exited"])
    BY DEF ThreadExit, TimerIrq, IrqHandler, ScheduleWalk, IrqReturn, code_vars, Goto
  <1>4. pc'[Main] = pc[Main] /\ \A s \in Threads \ {Main} : pc'[s] \in {pc[s], "exited"}
    BY <1>3 DEF TypeOK
  <1>5. LocalsInv'
    BY <1>2, <1>4 DEF LocalsInv, removal_vars, queue_vars
  <1>. QED BY <1>1, <1>2, <1>4, <1>5, QuietStep DEF queue_vars

(* thread_is_ready returns with its node in the ring.                      *)
LEMMA ReturnStep ==
  ASSUME TypeOK, LocalsInv, NEW n \in Lengths, NEW q \in [1..n -> Nodes], NEW out, out = Out,
         RingInv(n, q, out), UNCHANGED removal_vars, AppendItem(Main) \/ SetHead(Main)
  PROVE  RemovalInvariant'
  <1>. USE SchedulerAssumption
  <1>1. TypeOK' /\ \E m \in Lengths : \E r \in [1..m -> Nodes] : RingInv(m, r, out)'
    BY InsertStep
  <1>2. /\ pc[Main] \in ReadyPC /\ pc' = [pc EXCEPT ![Main] = "run"]
        /\ iterator' = [iterator EXCEPT ![Main] = NULL] /\ used' = used
    BY DEF AppendItem, SetHead, ReturnToCaller, Goto
  <1>3. /\ pc'[Main] = "run" /\ iterator'[Main] = NULL
        /\ \A t \in Threads \ {Main} : pc'[t] = pc[t] /\ iterator'[t] = iterator[t]
    BY <1>2 DEF TypeOK
  <1>4. LocalsInv'
    BY <1>2, <1>3 DEF LocalsInv, removal_vars
  <1>5. out = Out'
    BY <1>2, <1>3 DEF Out, removal_vars
  <1>6. ASSUME NEW m, NEW r PROVE SearchInv(m, Ring(m, r))' /\ FreeInv(m, Ring(m, r))'
    BY <1>3 DEF SearchInv, FreeInv
  <1>. QED BY <1>1, <1>4, <1>5, <1>6 DEF RemovalInvariant

(* schedule turns the ring: the order of its nodes, and each one's         *)
(* neighbours, are what they were.                                         *)
LEMMA SwitchStep ==
  ASSUME TypeOK, LocalsInv, NEW n \in Lengths, NEW q \in [1..n -> Nodes], NEW out, out = Out,
         RingInv(n, q, out), SearchInv(n, Ring(n, q)), FreeInv(n, Ring(n, q)),
         UNCHANGED removal_vars, NEW t \in Threads, ScheduleSwitch(t)
  PROVE  RemovalInvariant'
  <1>. USE SchedulerAssumption
  <1>0. n \in Nat /\ n > 0
    BY LengthsNat DEF RingInv, InterruptInv, ScheduleSwitch, Handles
  <1>1. PICK r : r = Turned(n, q)
    OBVIOUS
  <1>2. TypeOK' /\ r \in [1..n -> Nodes] /\ RingInv(n, r, out)'
    BY <1>1, ScheduleSwitchStep
  <1>3. /\ UNCHANGED <<used, node_thread, code_vars>>
        /\ current_thread' = q[1]
    BY <1>0 DEF ScheduleSwitch, Requeue, SwitchThread, RingInv, ReadyQueueIs
  <1>4. LocalsInv'
    BY <1>3 DEF LocalsInv, removal_vars, code_vars
  <1>5. out = Out'
    BY <1>3 DEF Out, removal_vars, code_vars
  <1>6. PICK R : R = Ring(n, q)
    OBVIOUS
  <1>7. PICK S : S = Ring(n, r)'
    OBVIOUS
  <1>8. \A i \in 0..n : S[i] = R[Succ(n, i)]
    <2>. SUFFICES ASSUME NEW i \in 0..n PROVE S[i] = R[Succ(n, i)]
      OBVIOUS
    <2>1. S[i] = IF i = 0 THEN q[1] ELSE r[i]
      BY <1>3, <1>7 DEF Ring
    <2>2. i \in 1..n => r[i] = IF i < n THEN q[i + 1] ELSE current_thread
      BY <1>1 DEF Turned
    <2>3. \A j \in 0..n : R[j] = IF j = 0 THEN current_thread ELSE q[j]
      BY <1>6 DEF Ring
    <2>. QED BY <1>0, <2>1, <2>2, <2>3 DEF Succ
  <1>9. \A i \in 0..n : Pred(n, i) \in 0..n /\ S[Pred(n, i)] = R[i]
    BY <1>0, <1>8, Positions
  <1>10. SearchInv(n, S)'
    <2>. SUFFICES ASSUME pc[Main] \in {"check_head", "search", "load_next", "unlink"}
                  PROVE  SearchInv(n, S)'
      BY <1>3 DEF SearchInv, code_vars
    <2>1. PICK a \in 0..n, d \in 0..n :
            /\ a # d /\ node_thread[R[a]] = Main /\ node_thread[R[d]] = thread[Main]
            /\ pc[Main] = "search" => \E b \in 0..n : iterator[Main] = R[b] /\ InOrder(a, b, d)
            /\ pc[Main] \in {"load_next", "unlink"} =>
                 tmp[Main] = R[d] /\ iterator[Main] = IF Pred(n, d) = a THEN NULL ELSE R[Pred(n, d)]
            /\ pc[Main] = "unlink" =>
                 next[Main] = IF Succ(n, d) = a THEN NULL ELSE R[Succ(n, d)]
      BY <1>6 DEF SearchInv
    <2>2. PICK e \in 0..n, f \in 0..n : e = Pred(n, a) /\ f = Pred(n, d)
      BY <1>9
    <2>0. e # f
      BY <1>0, <2>1, <2>2 DEF Pred
    <2>3. node_thread[S[e]] = Main /\ node_thread[S[f]] = thread[Main]
      BY <1>9, <2>1, <2>2
    <2>4. pc[Main] = "search" => \E b \in 0..n : iterator[Main] = S[b] /\ InOrder(e, b, f)
      <3>. SUFFICES ASSUME NEW b \in 0..n, iterator[Main] = R[b], InOrder(a, b, d)
                    PROVE  \E g \in 0..n : iterator[Main] = S[g] /\ InOrder(e, g, f)
        BY <2>1
      <3>. QED BY <1>0, <1>9, <2>2, OrderTurns
    <2>5. pc[Main] \in {"load_next", "unlink"} =>
            tmp[Main] = S[f] /\ iterator[Main] = IF Pred(n, f) = e THEN NULL ELSE S[Pred(n, f)]
      <3>1. Pred(n, f) = e <=> Pred(n, d) = a
        BY <1>0, <2>2 DEF Pred
      <3>2. S[f] = R[d] /\ S[Pred(n, f)] = R[Pred(n, d)]
        BY <1>9, <2>2
      <3>. QED BY <2>1, <3>1, <3>2
    <2>6. pc[Main] = "unlink" =>
            next[Main] = IF Succ(n, f) = e THEN NULL ELSE S[Succ(n, f)]
      <3>1. Succ(n, f) = d
        BY <1>0, <2>2, Positions
      <3>2. d = e <=> Succ(n, d) = a
        BY <1>0, <2>2 DEF Pred, Succ
      <3>3. S[d] = R[Succ(n, d)]
        BY <1>8
      <3>. QED BY <2>1, <3>1, <3>2, <3>3
    <2>. QED BY <1>3, <2>0, <2>3, <2>4, <2>5, <2>6 DEF SearchInv, code_vars, removal_vars
  <1>11. FreeInv(n, S)'
    <2>1. FreeInv(n, R)
      BY <1>6
    <2>2. \A i \in 0..n : Succ(n, i) \in 0..n
      BY <1>0, Positions
    <2>. QED BY <1>3, <1>8, <2>1, <2>2 DEF FreeInv, code_vars, removal_vars
  <1>12. SearchInv(n, Ring(n, r))' /\ FreeInv(n, Ring(n, r))'
    BY <1>7, <1>10, <1>11
  <1>. QED BY <1>2, <1>4, <1>5, <1>12 DEF RemovalInvariant

-----------------------------------------------------------------------------
(* The steps of thread_not_ready                                           *)

(* What thread_not_ready does to its own variables does not touch the ring.*)
LEMMA RingStays ==
  ASSUME TypeOK, LocalsInv, NEW n \in Lengths, NEW q \in [1..n -> Nodes], NEW out,
         RingInv(n, q, out), Executes(Main), pc[Main] \in {"run"} \cup NotReadyPC,
         NEW x \in NotReadyPC, pc' = [pc EXCEPT ![Main] = x],
         NEW u \in Threads, thread' = [thread EXCEPT ![Main] = u],
         thread[Main] \in {u, NULL}, iterator' \in [Threads -> Nodes \cup {NULL}],
         UNCHANGED <<tid, item, queue_vars, struct_vars, irq_vars>>
  PROVE  TypeOK' /\ RingInv(n, q, out)'
  <1>. USE SchedulerAssumption DEF Executes, queue_vars, struct_vars, irq_vars, RingInv
  <1>1. /\ pc'[Main] = x /\ \A t \in Threads \ {Main} : pc'[t] = pc[t]
        /\ thread'[Main] = u /\ \A t \in Threads \ {Main} : thread'[t] = thread[t]
    BY DEF TypeOK
  <1>2. \A t \in Threads : pc[t] \notin InitPC \cup ReadyPC /\ pc'[t] \notin InitPC \cup ReadyPC
    BY <1>1 DEF LocalsInv
  <1>3. TypeOK'
    <2>1. pc' \in [Threads -> ThreadPC] /\ thread' \in [Threads -> Threads \cup {NULL}]
      BY DEF TypeOK
    <2>. QED BY <1>2, <2>1 DEF TypeOK
  <1>4. ReadyQueueIs(n, q)'
    BY DEF ReadyQueueIs
  <1>5. CurrentInv(n, q)'
    <2>1. \A t \in Threads : pc'[t] \in BootPC <=> pc[t] \in BootPC
      BY <1>1
    <2>. QED BY <2>1 DEF CurrentInv
  <1>6. NodesInv(n, q)'
    BY DEF NodesInv
  <1>7. \A t \in Threads : pc'[t] = "none" <=> pc[t] = "none"
    BY <1>1
  <1>8. ContextInv(n, q)'
    BY <1>7 DEF ContextInv, NodesInv, TypeOK
  <1>9. InterruptInv(n, q)'
    BY <1>7 DEF InterruptInv, TypeOK
  <1>10. CreationInv(n, q)'
    <2>1. \A t \in Threads : pc'[t] \in NotReadyPC <=> thread'[t] # NULL
      BY <1>1, <1>2 DEF CreationInv, LocalsInv
    <2>. QED BY <1>2, <2>1 DEF CreationInv
  <1>11. InsertInv(n, q)'
    BY <1>2 DEF InsertInv
  <1>12. StoppedInv(n, q, out)'
    BY <1>1, <1>2 DEF StoppedInv, Queued
  <1>13. NoneLostInv(n, q, out)'
    BY <1>1, <1>7, NoneLostFrame
  <1>. QED BY <1>3, <1>4, <1>5, <1>6, <1>8, <1>9, <1>10, <1>11, <1>12, <1>13

(* The call is for a thread of the queue.                                  *)
LEMMA CallStep ==
  ASSUME TypeOK, LocalsInv, NEW n \in Lengths, NEW q \in [1..n -> Nodes], NEW out, out = Out,
         RingInv(n, q, out), OneCaller, NEW t \in Threads, NEW u \in Threads, CallNotReady(t, u)
  PROVE  RemovalInvariant'
  <1>. USE SchedulerAssumption
  <1>1. t = Main /\ Executes(Main) /\ pc[Main] = "run" /\ cpu = Main /\ u # Main /\ u \notin not_ready
    BY DEF CallNotReady, OneCaller, Executes
  <1>2. /\ pc' = [pc EXCEPT ![Main] = "check_head"] /\ thread' = [thread EXCEPT ![Main] = u]
        /\ UNCHANGED <<tid, item, iterator, queue_vars, struct_vars, irq_vars, removal_vars>>
    BY <1>1 DEF CallNotReady, Goto
  <1>3. thread[Main] = NULL
    BY <1>1 DEF RingInv, CreationInv
  <1>4. iterator' \in [Threads -> Nodes \cup {NULL}]
    BY <1>2 DEF TypeOK
  <1>5. TypeOK' /\ RingInv(n, q, out)'
    BY <1>1, <1>2, <1>3, <1>4, RingStays
  <1>6. pc'[Main] = "check_head" /\ thread'[Main] = u /\ \A s \in Threads \ {Main} : pc'[s] = pc[s]
    BY <1>2 DEF TypeOK
  <1>7. LocalsInv'
    BY <1>1, <1>2, <1>6 DEF LocalsInv, removal_vars, queue_vars
  <1>8. out = Out'
    BY <1>1, <1>2, <1>6 DEF Out, removal_vars
  <1>9. Queued(n, q, u)
    <2>1. pc[u] # "none" /\ (\A s \in Threads : thread[s] # u) /\ u \notin out
      BY <1>1 DEF CallNotReady, Out
    <2>. QED BY <1>1, <2>1 DEF RingInv, NoneLostInv
  <1>10. PICK R : R = Ring(n, q)
    OBVIOUS
  <1>11. SearchInv(n, R)'
    <2>1. PICK d \in 1..n : node_thread[q[d]] = u
      BY <1>9 DEF Queued
    <2>2. n \in Nat /\ d \in 0..n /\ 0 \in 0..n /\ node_thread[R[d]] = u /\ node_thread[R[0]] = Main
      BY <1>1, <1>10, <2>1, RingOfMain
    <2>. QED BY <1>2, <1>6, <2>2 DEF SearchInv, queue_vars
  <1>12. R = Ring(n, q)' /\ FreeInv(n, R)'
    BY <1>2, <1>6, <1>10 DEF Ring, FreeInv, queue_vars
  <1>13. SearchInv(n, Ring(n, q))' /\ FreeInv(n, Ring(n, q))'
    BY <1>11, <1>12
  <1>. QED BY <1>5, <1>7, <1>8, <1>13 DEF RemovalInvariant

(* The search ends at the node of the thread before it ends the queue, and *)
(* knows the node's neighbours when it gets there.                         *)
LEMMA SearchStep ==
  ASSUME TypeOK, LocalsInv, NEW n \in Lengths, NEW q \in [1..n -> Nodes], NEW out, out = Out,
         RingInv(n, q, out), SearchInv(n, Ring(n, q)),
         CheckHead(Main) \/ Search(Main) \/ LoadNext(Main)
  PROVE  RemovalInvariant'
  <1>. USE SchedulerAssumption
  <1>1. PICK R : R = Ring(n, q)
    OBVIOUS
  <1>2. Executes(Main) /\ pc[Main] \in {"check_head", "search", "load_next"}
    BY DEF CheckHead, Search, LoadNext
  <1>3. /\ n \in Nat /\ R \in [0..n -> Nodes]
        /\ ready_queue = IF n = 0 THEN NULL ELSE R[1]
        /\ \A i \in 0..n : R[i] \in used /\ (node_thread[R[i]] = Main <=> i = 0)
        /\ \A i \in 1..n : node_next[R[i]] = IF i < n THEN R[i + 1] ELSE NULL
        /\ \A i, j \in 0..n : node_thread[R[i]] = node_thread[R[j]] => i = j
    BY <1>1, <1>2, RingOfMain
  <1>4. PICK u \in Threads : thread[Main] = u
    BY <1>2 DEF RingInv, CreationInv, TypeOK
  <1>5. PICK a \in 0..n, d \in 0..n :
          /\ a # d /\ node_thread[R[a]] = Main /\ node_thread[R[d]] = u
          /\ pc[Main] = "search" => \E b \in 0..n : iterator[Main] = R[b] /\ InOrder(a, b, d)
          /\ pc[Main] = "load_next" =>
               tmp[Main] = R[d] /\ iterator[Main] = IF Pred(n, d) = a THEN NULL ELSE R[Pred(n, d)]
    BY <1>1, <1>2, <1>4 DEF SearchInv
  <1>6. a = 0 /\ d \in 1..n /\ n \in 1..n
    BY <1>3, <1>5
  <1>7. iterator \in [Threads -> Nodes \cup {NULL}] /\ tmp \in [Threads -> Nodes \cup {NULL}]
        /\ next \in [Threads -> Nodes \cup {NULL}] /\ pc \in [Threads -> ThreadPC]
    BY DEF TypeOK, LocalsInv
  <1>8. PICK x \in {"search", "load_next", "unlink"} :
          /\ pc' = [pc EXCEPT ![Main] = x]
          /\ UNCHANGED <<thread, tid, item, not_ready, queue_vars, struct_vars, irq_vars>>
          /\ \A t \in Threads \ {Main} :
               iterator'[t] = iterator[t] /\ tmp'[t] = tmp[t] /\ next'[t] = next[t]
          /\ iterator' \in [Threads -> Nodes \cup {NULL}]
          /\ tmp' \in [Threads -> Nodes \cup {NULL}] /\ next' \in [Threads -> Nodes \cup {NULL}]
          /\ iterator'[Main] \in used \cup {NULL}
          /\ tmp'[Main] \in used \cup {NULL} /\ next'[Main] \in used \cup {NULL}
          /\ x = "search" => \E b \in 0..n : iterator'[Main] = R[b] /\ InOrder(0, b, d)
          /\ x \in {"load_next", "unlink"} =>
               tmp'[Main] = R[d]
               /\ iterator'[Main] = IF Pred(n, d) = 0 THEN NULL ELSE R[Pred(n, d)]
          /\ x = "unlink" =>
               next'[Main] = IF Succ(n, d) = 0 THEN NULL ELSE R[Succ(n, d)]
    <2>1. CASE CheckHead(Main)
      <3>1. ready_queue = R[1] /\ ready_queue # NULL /\ 1 \in 0..n
        BY <1>3, <1>6
      <3>2. iterator[Main] = NULL
        BY <2>1 DEF CheckHead, LocalsInv
      <3>3. CASE node_thread[R[1]] = u
        <4>1. d = 1
          BY <1>3, <1>5, <3>1, <3>3
        <4>2. /\ tmp' = [tmp EXCEPT ![Main] = R[1]] /\ pc' = [pc EXCEPT ![Main] = "load_next"]
              /\ UNCHANGED <<thread, iterator, next, not_ready>>
          BY <2>1, <3>1, <3>3, <1>4 DEF CheckHead, Found, Goto
        <4>. QED BY <2>1, <3>1, <3>2, <4>1, <4>2, <1>3, <1>7 DEF CheckHead, Pred, LocalsInv
      <3>4. CASE node_thread[R[1]] # u
        <4>1. 1 < d
          BY <1>5, <1>6, <3>4
        <4>2. /\ iterator' = [iterator EXCEPT ![Main] = R[1]] /\ pc' = [pc EXCEPT ![Main] = "search"]
              /\ UNCHANGED <<thread, removal_vars>>
          BY <2>1, <3>1, <3>4, <1>4 DEF CheckHead, Goto
        <4>3. InOrder(0, 1, d)
          BY <4>1 DEF InOrder
        <4>. QED BY <2>1, <3>1, <4>2, <4>3, <1>3, <1>7 DEF CheckHead, LocalsInv, removal_vars
      <3>. QED BY <3>3, <3>4
    <2>2. CASE Search(Main)
      <3>1. PICK b \in 0..n : iterator[Main] = R[b] /\ InOrder(0, b, d)
        BY <2>2, <1>5, <1>6 DEF Search
      <3>2. b \in 1..n /\ b < n /\ b + 1 \in 1..n /\ b + 1 \in 0..n /\ b < d
        BY <1>3, <1>6, <3>1 DEF InOrder
      <3>3. node_next[iterator[Main]] = R[b + 1] /\ R[b + 1] # NULL /\ R[b + 1] \in used
        BY <1>3, <3>1, <3>2
      <3>4. CASE node_thread[R[b + 1]] = u
        <4>1. d = b + 1
          BY <1>3, <1>5, <3>2, <3>4
        <4>2. /\ tmp' = [tmp EXCEPT ![Main] = R[b + 1]] /\ pc' = [pc EXCEPT ![Main] = "load_next"]
              /\ UNCHANGED <<thread, iterator, next, not_ready>>
          BY <2>2, <3>3, <3>4, <1>4 DEF Search, Found, Goto
        <4>3. Pred(n, d) = b /\ b # 0
          BY <1>3, <3>2, <4>1 DEF Pred
        <4>. QED BY <2>2, <3>1, <3>2, <3>3, <4>1, <4>2, <4>3, <1>3, <1>7 DEF Search, LocalsInv
      <3>5. CASE node_thread[R[b + 1]] # u
        <4>1. b + 1 < d
          BY <1>3, <1>5, <3>2, <3>5
        <4>2. /\ iterator' = [iterator EXCEPT ![Main] = R[b + 1]]
              /\ UNCHANGED <<pc, thread, removal_vars>>
          BY <2>2, <3>3, <3>5, <1>4 DEF Search
        <4>3. pc' = [pc EXCEPT ![Main] = "search"]
          BY <2>2, <4>2, <1>7 DEF Search
        <4>4. InOrder(0, b + 1, d)
          BY <1>3, <4>1, <3>2 DEF InOrder
        <4>. QED BY <2>2, <3>2, <3>3, <4>2, <4>3, <4>4, <1>3, <1>7 DEF Search, LocalsInv, removal_vars
      <3>. QED BY <3>4, <3>5
    <2>3. CASE LoadNext(Main)
      <3>1. tmp[Main] = R[d] /\ iterator[Main] = IF Pred(n, d) = 0 THEN NULL ELSE R[Pred(n, d)]
        BY <2>3, <1>5, <1>6 DEF LoadNext
      <3>2. node_next[R[d]] = IF Succ(n, d) = 0 THEN NULL ELSE R[Succ(n, d)]
        BY <1>3, <1>6 DEF Succ
      <3>3. node_next[R[d]] \in used \cup {NULL}
        BY <1>3, <1>6, <3>2, Positions
      <3>4. /\ next' = [next EXCEPT ![Main] = node_next[R[d]]] /\ pc' = [pc EXCEPT ![Main] = "unlink"]
            /\ UNCHANGED <<thread, tid, item, iterator, tmp, not_ready, queue_vars,
                          struct_vars, irq_vars>>
        BY <2>3, <3>1 DEF LoadNext, Goto
      <3>5. used \subseteq Nodes
        BY DEF TypeOK
      <3>. QED BY <3>1, <3>2, <3>3, <3>4, <3>5, <1>7 DEF LocalsInv
    <2>. QED BY <2>1, <2>2, <2>3
  <1>9. pc'[Main] = x /\ \A t \in Threads \ {Main} : pc'[t] = pc[t]
    BY <1>7, <1>8
  <1>10. TypeOK' /\ RingInv(n, q, out)'
    <2>1. thread' = [thread EXCEPT ![Main] = u]
      BY <1>4, <1>8 DEF TypeOK
    <2>. QED BY <1>2, <1>4, <1>8, <2>1, RingStays
  <1>11. LocalsInv'
    BY <1>8, <1>9 DEF LocalsInv, queue_vars
  <1>12. out = Out'
    BY <1>2, <1>8, <1>9 DEF Out
  <1>13. R = Ring(n, q)'
    BY <1>1, <1>8 DEF Ring, queue_vars
  <1>14. SearchInv(n, R)' /\ FreeInv(n, R)'
    <2>1. 0 \in 0..n /\ 0 # d /\ node_thread'[R[0]] = Main /\ node_thread'[R[d]] = thread'[Main]
      BY <1>4, <1>5, <1>6, <1>8 DEF queue_vars
    <2>. QED BY <1>8, <1>9, <2>1 DEF SearchInv, FreeInv
  <1>15. SearchInv(n, Ring(n, q))' /\ FreeInv(n, Ring(n, q))'
    BY <1>13, <1>14
  <1>. QED BY <1>10, <1>11, <1>12, <1>15 DEF RemovalInvariant

(* The store of thread_not_ready takes the node, and only it, out of the   *)
(* ring.                                                                   *)
LEMMA UnlinkStep ==
  ASSUME TypeOK, LocalsInv, NEW n \in Lengths, NEW q \in [1..n -> Nodes], NEW out, out = Out,
         RingInv(n, q, out), SearchInv(n, Ring(n, q)), Unlink(Main)
  PROVE  RemovalInvariant'
  <1>. USE SchedulerAssumption
  <1>1. PICK R : R = Ring(n, q)
    OBVIOUS
  <1>2. cpu = Main /\ irq[Main] = "none" /\ Executes(Main) /\ pc[Main] = "unlink"
    BY DEF Unlink, Executes
  <1>3. /\ n \in Nat /\ R \in [0..n -> Nodes]
        /\ R[0] = current_thread /\ \A i \in 1..n : R[i] = q[i]
        /\ ready_queue = IF n = 0 THEN NULL ELSE R[1]
        /\ \A i \in 0..n : R[i] \in used /\ (node_thread[R[i]] = Main <=> i = 0)
        /\ \A i \in 1..n : node_next[R[i]] = IF i < n THEN R[i + 1] ELSE NULL
        /\ \A i, j \in 0..n : node_thread[R[i]] = node_thread[R[j]] => i = j
    BY <1>1, <1>2, RingOfMain
  <1>4. PICK u \in Threads : thread[Main] = u
    BY <1>2 DEF RingInv, CreationInv, TypeOK
  <1>5. PICK a \in 0..n, d \in 0..n :
          /\ a # d /\ node_thread[R[a]] = Main /\ node_thread[R[d]] = u
          /\ tmp[Main] = R[d] /\ iterator[Main] = IF Pred(n, d) = a THEN NULL ELSE R[Pred(n, d)]
          /\ next[Main] = IF Succ(n, d) = a THEN NULL ELSE R[Succ(n, d)]
    BY <1>1, <1>2, <1>4 DEF SearchInv
  <1>6. a = 0 /\ d \in 1..n /\ n \in 1..n /\ n - 1 \in Nat /\ u # Main
    BY <1>3, <1>5
  <1>7. /\ iterator[Main] = IF d = 1 THEN NULL ELSE R[d - 1]
        /\ next[Main] = IF d = n THEN NULL ELSE R[d + 1]
    BY <1>3, <1>5, <1>6 DEF Pred, Succ
  <1>8. /\ pc' = [pc EXCEPT ![Main] = "free_node"]
        /\ UNCHANGED <<current_thread, used, node_thread, thread, tid, item, iterator,
                      struct_vars, irq_vars, removal_vars>>
        /\ d = 1 => ready_queue' = next[Main] /\ node_next' = node_next
        /\ d # 1 => /\ ready_queue' = ready_queue
                    /\ node_next' = [node_next EXCEPT ![R[d - 1]] = next[Main]]
    <2>1. d # 1 => R[d - 1] # NULL
      BY <1>3, <1>6
    <2>. QED BY <2>1, <1>7 DEF Unlink, Goto
  <1>9. pc'[Main] = "free_node" /\ \A t \in Threads \ {Main} : pc'[t] = pc[t]
    BY <1>8 DEF TypeOK
  <1>10. PICK m \in Nat : m = n - 1
    BY <1>6
  <1>11. PICK r : r = [i \in 1..m |-> IF i < d THEN R[i] ELSE R[i + 1]]
    OBVIOUS
  <1>12. /\ r \in [1..m -> Nodes]
         /\ \A i \in 1..m : i < d => r[i] = R[i]
         /\ \A i \in 1..m : ~(i < d) => i + 1 \in 1..n /\ r[i] = R[i + 1]
    <2>1. \A i \in 1..m : i \in 0..n /\ i + 1 \in 1..n /\ i + 1 \in 0..n
      BY <1>3, <1>6, <1>10
    <2>2. \A i \in 1..m : (IF i < d THEN R[i] ELSE R[i + 1]) \in Nodes
      BY <2>1, <1>3
    <2>. QED BY <2>1, <2>2, <1>11
  <1>13. \A i \in 1..m : \E j \in 1..n : j # d /\ r[i] = R[j] /\ r[i] = q[j]
    <2>. SUFFICES ASSUME NEW i \in 1..m
                  PROVE  \E j \in 1..n : j # d /\ r[i] = R[j]
      BY <1>3
    <2>1. CASE i < d
      BY <2>1, <1>3, <1>6, <1>10, <1>12
    <2>2. CASE ~(i < d)
      BY <2>2, <1>3, <1>6, <1>10, <1>12
    <2>. QED BY <2>1, <2>2
  <1>14. \A j \in 1..n : j # d => \E i \in 1..m : r[i] = R[j]
    <2>. SUFFICES ASSUME NEW j \in 1..n, j # d PROVE \E i \in 1..m : r[i] = R[j]
      OBVIOUS
    <2>1. CASE j < d
      BY <2>1, <1>3, <1>6, <1>10, <1>12
    <2>2. CASE j > d
      <3>1. j - 1 \in 1..m /\ ~(j - 1 < d) /\ j - 1 + 1 = j
        BY <2>2, <1>3, <1>6, <1>10
      <3>. QED BY <3>1, <1>12
    <2>. QED BY <2>1, <2>2, <1>6
  <1>15. \A i, j \in 1..m : node_thread[r[i]] = node_thread[r[j]] => i = j
    <2>. SUFFICES ASSUME NEW i \in 1..m, NEW j \in 1..m, node_thread[r[i]] = node_thread[r[j]]
                  PROVE  i = j
      OBVIOUS
    <2>1. PICK v \in 0..n : v = (IF i < d THEN i ELSE i + 1) /\ r[i] = R[v]
      BY <1>3, <1>6, <1>10, <1>12
    <2>2. PICK w \in 0..n : w = (IF j < d THEN j ELSE j + 1) /\ r[j] = R[w]
      BY <1>3, <1>6, <1>10, <1>12
    <2>3. v = w
      BY <2>1, <2>2, <1>3
    <2>. QED BY <2>1, <2>2, <2>3, <1>6
  <1>16. \A v \in Threads : Queued(m, r, v)' <=> Queued(n, q, v) /\ v # u
    <2>1. \A v \in Threads : Queued(m, r, v)' => Queued(n, q, v) /\ v # u
      BY <1>3, <1>5, <1>6, <1>8, <1>13 DEF Queued
    <2>2. ASSUME NEW v \in Threads, Queued(n, q, v), v # u PROVE Queued(m, r, v)'
      <3>1. PICK j \in 1..n : node_thread[q[j]] = v
        BY <2>2 DEF Queued
      <3>2. j # d
        BY <2>2, <3>1, <1>3, <1>5
      <3>. QED BY <3>1, <3>2, <1>3, <1>8, <1>14 DEF Queued
    <2>. QED BY <2>1, <2>2
  <1>17. m \in Lengths
    BY <1>3, <1>6, <1>10, FS_CardinalityType DEF Lengths
  <1>18. TypeOK'
    <2>1. next[Main] \in Nodes \cup {NULL} /\ R[d - 1] \in Nodes
      BY <1>3, <1>6 DEF LocalsInv
    <2>2. ready_queue' \in Nodes \cup {NULL} /\ node_next' \in [Nodes -> Nodes \cup {NULL}]
      BY <2>1, <1>8 DEF TypeOK
    <2>3. pc' \in [Threads -> ThreadPC]
      BY <1>8 DEF TypeOK
    <2>4. \A t \in Threads : pc'[t] \notin InitPC \cup ReadyPC
      BY <1>9 DEF LocalsInv
    <2>. QED BY <1>8, <2>2, <2>3, <2>4 DEF TypeOK, struct_vars, irq_vars
  <1>19. ReadyQueueIs(m, r)'
    <2>1. \A j \in 1..n : j # d =>
            node_next'[R[j]] = IF j = d - 1 THEN next[Main]
                               ELSE IF j < n THEN R[j + 1] ELSE NULL
      <3>. SUFFICES ASSUME NEW j \in 1..n, j # d
                    PROVE  node_next'[R[j]] = IF j = d - 1 THEN next[Main]
                                              ELSE IF j < n THEN R[j + 1] ELSE NULL
        OBVIOUS
      <3>1. CASE d = 1
        BY <3>1, <1>3, <1>8
      <3>2. CASE d # 1
        <4>1. d - 1 \in 1..n /\ (R[j] = R[d - 1] => j = d - 1)
          BY <3>2, <1>3, <1>6
        <4>2. R[j] \in Nodes /\ node_next \in [Nodes -> Nodes \cup {NULL}]
          BY <1>3 DEF TypeOK
        <4>. QED BY <3>2, <4>1, <4>2, <1>3, <1>8
      <3>. QED BY <3>1, <3>2
    <2>2. \A i \in 1..m : node_next'[r[i]] = IF i < m THEN r[i + 1] ELSE NULL
      <3>. SUFFICES ASSUME NEW i \in 1..m
                    PROVE  node_next'[r[i]] = IF i < m THEN r[i + 1] ELSE NULL
        OBVIOUS
      <3>1. CASE i < d - 1
        <4>1. i + 1 \in 1..m /\ i + 1 < d /\ i < d /\ i \in 1..n /\ i # d /\ i # d - 1 /\ i < n /\ i < m
          BY <3>1, <1>3, <1>6, <1>10
        <4>. QED BY <4>1, <1>12, <2>1
      <3>2. CASE i = d - 1
        <4>1. i \in 1..n /\ i # d /\ i < d /\ i + 1 = d /\ (i < m <=> d # n)
              /\ (d # n => d \in 1..m)
          BY <3>2, <1>3, <1>6, <1>10
        <4>. QED BY <3>2, <4>1, <1>6, <1>7, <1>12, <2>1
      <3>3. CASE i > d - 1
        <4>1. i + 1 \in 1..n /\ i + 1 # d /\ i + 1 # d - 1 /\ ~(i < d) /\ ~(i + 1 < d)
              /\ (i < m <=> i + 1 < n) /\ (i < m => i + 1 \in 1..m)
          BY <3>3, <1>3, <1>6, <1>10
        <4>. QED BY <4>1, <1>12, <2>1
      <3>. QED BY <3>1, <3>2, <3>3, <1>6, <1>10
    <2>3. ready_queue' = IF m = 0 THEN NULL ELSE r[1]
      <3>1. CASE d = 1
        <4>1. ready_queue' = IF n = 1 THEN NULL ELSE R[2]
          BY <3>1, <1>7, <1>8
        <4>2. m # 0 => 1 \in 1..m /\ ~(1 < d)
          BY <3>1, <1>3, <1>6, <1>10
        <4>3. m # 0 => r[1] = R[2]
          BY <4>2, <1>12
        <4>4. m = 0 <=> n = 1
          BY <1>3, <1>10
        <4>. QED BY <4>1, <4>3, <4>4
      <3>2. CASE d # 1
        <4>1. 1 \in 1..m /\ 1 < d /\ m # 0
          BY <3>2, <1>3, <1>6, <1>10
        <4>2. r[1] = R[1]
          BY <4>1, <1>12
        <4>3. ready_queue = R[1]
          BY <1>3, <1>6
        <4>4. ready_queue' = ready_queue
          BY <3>2, <1>8
        <4>. QED BY <4>1, <4>2, <4>3, <4>4
      <3>. QED BY <3>1, <3>2
    <2>4. \A i, j \in 1..m : r[i] = r[j] => i = j
      BY <1>15
    <2>. QED BY <2>2, <2>3, <2>4 DEF ReadyQueueIs
  <1>20. \A t \in Threads : /\ pc'[t] = "none" <=> pc[t] = "none"
                            /\ pc'[t] \in BootPC <=> pc[t] \in BootPC
                            /\ pc'[t] \notin InitPC \cup ReadyPC
    BY <1>2, <1>9 DEF LocalsInv
  <1>21. CurrentInv(m, r)'
    <2>1. current_thread # NULL
      BY <1>3
    <2>2. \A i \in 1..m : r[i] # current_thread
      BY <1>13 DEF RingInv, CurrentInv
    <2>. QED BY <1>8, <1>20, <2>1, <2>2 DEF RingInv, CurrentInv, irq_vars
  <1>22. NodesInv(m, r)'
    <2>1. \A i \in 1..m : r[i] \in used /\ node_thread[r[i]] \in Threads \ {cpu}
      BY <1>13 DEF RingInv, NodesInv
    <2>. QED BY <1>8, <1>15, <2>1 DEF NodesInv, irq_vars
  <1>23. ContextInv(m, r)'
    <2>1. \A i \in 1..m :
            LET v == node_thread[r[i]] IN
              /\ v \in Threads /\ pc[v] # "none" /\ irq[v] \in {"none", "iret"}
              /\ esp[v] = v /\ (eflags[v] <=> irq[v] = "none")
      BY <1>13 DEF RingInv, ContextInv, NodesInv
    <2>. QED BY <1>2, <1>8, <1>9, <1>20, <2>1 DEF ContextInv, irq_vars, struct_vars
  <1>24. InterruptInv(m, r)'
    BY <1>2, <1>8, <1>20 DEF RingInv, InterruptInv, irq_vars
  <1>25. CreationInv(m, r)'
    <2>1. \A t \in Threads : pc'[t] \in NotReadyPC <=> thread[t] # NULL
      BY <1>2, <1>4, <1>9, <1>20 DEF RingInv, CreationInv
    <2>. QED BY <1>8, <1>20, <2>1 DEF CreationInv
  <1>26. InsertInv(m, r)'
    BY <1>20 DEF InsertInv
  <1>27. PICK stopped : stopped = out \cup {u}
    OBVIOUS
  <1>28. stopped = Out'
    BY <1>2, <1>4, <1>8, <1>9, <1>27 DEF Out, removal_vars
  <1>29. StoppedInv(m, r, stopped)'
    <2>1. pc[u] \notin BootPC \cup InitPC \cup ReadyPC \cup NotReadyPC
      BY <1>6 DEF LocalsInv, RingInv, CurrentInv
    <2>2. pc[u] \in ThreadPC
      BY DEF TypeOK
    <2>3. /\ pc[u] # "none" /\ irq[u] \in {"none", "iret"}
          /\ esp[u] = u /\ (eflags[u] <=> irq[u] = "none")
      BY <1>3, <1>5, <1>6 DEF RingInv, ContextInv
    <2>4. pc[u] \in {"run", "exited"}
      BY <2>1, <2>2, <2>3
    <2>5. ASSUME NEW v \in stopped
          PROVE  /\ v \in Threads /\ v # cpu /\ ~Queued(m, r, v)'
                 /\ pc[v] \in {"run", "exited"} /\ irq[v] \in {"none", "iret"}
                 /\ esp[v] = v /\ (eflags[v] <=> irq[v] = "none")
      <3>1. CASE v = u
        BY <3>1, <2>3, <2>4, <1>2, <1>6, <1>16
      <3>2. CASE v \in out
        BY <3>2, <1>16 DEF RingInv, StoppedInv
      <3>. QED BY <3>1, <3>2, <1>27
    <2>. QED BY <2>5, <1>2, <1>8, <1>9, <1>20 DEF StoppedInv, irq_vars, struct_vars
  <1>30. NoneLostInv(m, r, stopped)'
    BY <1>8, <1>16, <1>20, <1>27 DEF RingInv, NoneLostInv, irq_vars
  <1>31. RingInv(m, r, stopped)'
    BY <1>19, <1>21, <1>22, <1>23, <1>24, <1>25, <1>26, <1>29, <1>30 DEF RingInv
  <1>32. LocalsInv'
    BY <1>8, <1>9 DEF LocalsInv, removal_vars
  <1>33. SearchInv(m, Ring(m, r))' /\ FreeInv(m, Ring(m, r))'
    <2>1. R[d] \in Nodes /\ current_thread # R[d] /\ \A i \in 1..m : r[i] # R[d]
      BY <1>3, <1>5, <1>6, <1>13
    <2>2. \A i \in 0..m : i = 0 \/ i \in 1..m
      OBVIOUS
    <2>. QED BY <1>5, <1>8, <1>9, <2>1, <2>2 DEF SearchInv, FreeInv, Ring, removal_vars
  <1>34. RingInv(m, r, Out)'
    BY <1>28, <1>31
  <1>. QED BY <1>12, <1>17, <1>18, <1>32, <1>33, <1>34 DEF RemovalInvariant

(* The node that is freed is nobody's: the ring is what it was.            *)
LEMMA FreeStep ==
  ASSUME TypeOK, LocalsInv, NEW n \in Lengths, NEW q \in [1..n -> Nodes], NEW out, out = Out,
         RingInv(n, q, out), FreeInv(n, Ring(n, q)), FreeNode(Main)
  PROVE  RemovalInvariant'
  <1>. USE SchedulerAssumption
  <1>1. PICK R : R = Ring(n, q)
    OBVIOUS
  <1>2. cpu = Main /\ irq[Main] = "none" /\ Executes(Main) /\ pc[Main] = "free_node"
    BY DEF FreeNode, Executes
  <1>3. /\ n \in Nat /\ R \in [0..n -> Nodes] /\ R[0] = current_thread /\ \A i \in 1..n : R[i] = q[i]
    BY <1>1, <1>2, RingOfMain
  <1>4. PICK u \in Threads : thread[Main] = u
    BY <1>2 DEF RingInv, CreationInv, TypeOK
  <1>5. PICK x \in Nodes : x = tmp[Main] /\ x # current_thread /\ \A i \in 1..n : q[i] # x
    BY <1>1, <1>2, <1>3 DEF FreeInv
  <1>6. /\ pc' = [pc EXCEPT ![Main] = "run"] /\ thread' = [thread EXCEPT ![Main] = NULL]
        /\ iterator' = [iterator EXCEPT ![Main] = NULL] /\ tmp' = [tmp EXCEPT ![Main] = NULL]
        /\ next' = [next EXCEPT ![Main] = NULL] /\ not_ready' = not_ready \cup {u}
        /\ used' = used \ {x} /\ node_thread' = [node_thread EXCEPT ![x] = NULL]
        /\ node_next' = [node_next EXCEPT ![x] = NULL]
        /\ UNCHANGED <<ready_queue, current_thread, tid, item, struct_vars, irq_vars>>
    BY <1>4, <1>5 DEF FreeNode, ReturnNotReady, Goto
  <1>7. /\ pc'[Main] = "run" /\ thread'[Main] = NULL
        /\ iterator'[Main] = NULL /\ tmp'[Main] = NULL /\ next'[Main] = NULL
        /\ \A t \in Threads \ {Main} :
             /\ pc'[t] = pc[t] /\ thread'[t] = thread[t]
             /\ iterator'[t] = iterator[t] /\ tmp'[t] = tmp[t] /\ next'[t] = next[t]
        /\ \A y \in Nodes \ {x} : node_thread'[y] = node_thread[y] /\ node_next'[y] = node_next[y]
    BY <1>6 DEF TypeOK, LocalsInv
  <1>8. \A t \in Threads : /\ pc'[t] = "none" <=> pc[t] = "none"
                           /\ pc'[t] \in BootPC <=> pc[t] \in BootPC
                           /\ pc[t] \notin InitPC \cup ReadyPC
                           /\ pc'[t] \notin InitPC \cup ReadyPC \cup NotReadyPC
                           /\ thread'[t] = NULL /\ (t # Main => thread[t] = NULL)
    BY <1>2, <1>7 DEF LocalsInv, RingInv, CreationInv
  <1>9. \A i \in 1..n : node_thread'[q[i]] = node_thread[q[i]] /\ node_next'[q[i]] = node_next[q[i]]
    BY <1>5, <1>7
  <1>10. TypeOK'
    <2>1. /\ node_thread' \in [Nodes -> Threads \cup {NULL}]
          /\ node_next' \in [Nodes -> Nodes \cup {NULL}]
          /\ pc' \in [Threads -> ThreadPC] /\ thread' \in [Threads -> Threads \cup {NULL}]
          /\ iterator' \in [Threads -> Nodes \cup {NULL}]
      BY <1>6 DEF TypeOK
    <2>. QED BY <1>6, <1>8, <2>1 DEF TypeOK, struct_vars, irq_vars
  <1>11. ReadyQueueIs(n, q)'
    BY <1>6, <1>9 DEF RingInv, ReadyQueueIs
  <1>12. CurrentInv(n, q)'
    <2>1. current_thread # NULL => current_thread \in Nodes \ {x}
      BY <1>5 DEF TypeOK
    <2>. QED BY <1>6, <1>7, <1>8, <2>1 DEF RingInv, CurrentInv, irq_vars
  <1>13. NodesInv(n, q)'
    BY <1>5, <1>6, <1>9 DEF RingInv, NodesInv, irq_vars
  <1>14. ContextInv(n, q)'
    BY <1>6, <1>7, <1>8, <1>9 DEF RingInv, ContextInv, NodesInv, TypeOK, irq_vars, struct_vars
  <1>15. InterruptInv(n, q)'
    BY <1>2, <1>6, <1>8 DEF RingInv, InterruptInv, irq_vars
  <1>16. CreationInv(n, q)' /\ InsertInv(n, q)'
    BY <1>8 DEF CreationInv, InsertInv
  <1>17. \A v \in Threads : Queued(n, q, v)' <=> Queued(n, q, v)
    BY <1>9 DEF Queued
  <1>18. StoppedInv(n, q, out)'
    <2>1. ASSUME NEW v \in out
          PROVE  /\ v \in Threads /\ v # cpu /\ ~Queued(n, q, v)'
                 /\ pc'[v] \in {"run", "exited"} /\ irq[v] \in {"none", "iret"}
                 /\ esp[v] = v /\ (eflags[v] <=> irq[v] = "none")
      BY <1>2, <1>7, <1>17 DEF RingInv, StoppedInv
    <2>. QED BY <2>1, <1>6, <1>8 DEF StoppedInv, irq_vars, struct_vars
  <1>19. NoneLostInv(n, q, out)'
    <2>1. u \in out
      BY <1>2, <1>4 DEF Out
    <2>2. \A v \in Threads : pc[v] # "none" => v = cpu \/ Queued(n, q, v) \/ v \in out
      BY <1>4, <1>8, <2>1 DEF RingInv, NoneLostInv
    <2>. QED BY <1>6, <1>8, <1>17, <2>2 DEF NoneLostInv, irq_vars
  <1>20. out = Out'
    BY <1>2, <1>4, <1>6, <1>7 DEF Out
  <1>21. RingInv(n, q, Out)'
    BY <1>11, <1>12, <1>13, <1>14, <1>15, <1>16, <1>18, <1>19, <1>20 DEF RingInv
  <1>22. LocalsInv'
    BY <1>6, <1>7 DEF LocalsInv
  <1>23. SearchInv(n, Ring(n, q))' /\ FreeInv(n, Ring(n, q))'
    BY <1>7 DEF SearchInv, FreeInv
  <1>. QED BY <1>10, <1>21, <1>22, <1>23 DEF RemovalInvariant

(* A stopped thread is the caller's again, with the context it was stopped *)
(* with: thread_is_ready can queue it like a new one.                      *)
LEMMA WakeStep ==
  ASSUME TypeOK, LocalsInv, NEW n \in Lengths, NEW q \in [1..n -> Nodes], NEW out, out = Out,
         RingInv(n, q, out), OneCaller, NEW t \in Threads, NEW u \in Threads, WakeThread(t, u)
  PROVE  RemovalInvariant'
  <1>. USE SchedulerAssumption
  <1>1. t = Main /\ cpu = Main /\ irq[Main] = "none" /\ pc[Main] = "run" /\ u \in not_ready
    BY DEF WakeThread, OneCaller, Executes
  <1>2. /\ pc' = [pc EXCEPT ![Main] = "new_node"] /\ thread' = [thread EXCEPT ![Main] = u]
        /\ not_ready' = not_ready \ {u}
        /\ UNCHANGED <<tid, item, iterator, tmp, next, queue_vars, struct_vars, irq_vars>>
    BY <1>1 DEF WakeThread, Goto
  <1>3. /\ pc'[Main] = "new_node" /\ thread'[Main] = u
        /\ \A s \in Threads \ {Main} : pc'[s] = pc[s] /\ thread'[s] = thread[s]
    BY <1>2 DEF TypeOK
  <1>4. out = not_ready /\ u \in out
    BY <1>1 DEF Out
  <1>5. /\ u # cpu /\ ~Queued(n, q, u)
        /\ pc[u] \in {"run", "exited"} /\ irq[u] \in {"none", "iret"}
        /\ esp[u] = u /\ (eflags[u] <=> irq[u] = "none")
    BY <1>4 DEF RingInv, StoppedInv
  <1>6. \A s \in Threads : /\ pc'[s] = "none" <=> pc[s] = "none"
                           /\ pc'[s] \in BootPC <=> pc[s] \in BootPC
                           /\ pc[s] \notin InitPC \cup ReadyPC \cup NotReadyPC
                           /\ s # Main => pc'[s] \notin InitPC \cup ReadyPC \cup NotReadyPC
                           /\ thread[s] = NULL
    BY <1>1, <1>3 DEF LocalsInv, RingInv, CreationInv
  <1>7. TypeOK'
    <2>1. pc' \in [Threads -> ThreadPC] /\ thread' \in [Threads -> Threads \cup {NULL}]
      BY <1>2 DEF TypeOK
    <2>. QED BY <1>2, <1>3, <1>6, <2>1 DEF TypeOK, queue_vars, struct_vars, irq_vars
  <1>8. ReadyQueueIs(n, q)' /\ NodesInv(n, q)'
    BY <1>2 DEF RingInv, ReadyQueueIs, NodesInv, queue_vars, irq_vars
  <1>9. CurrentInv(n, q)'
    BY <1>2, <1>6 DEF RingInv, CurrentInv, queue_vars, irq_vars
  <1>10. ContextInv(n, q)'
    BY <1>2, <1>6 DEF RingInv, ContextInv, NodesInv, TypeOK, queue_vars, irq_vars, struct_vars
  <1>11. InterruptInv(n, q)'
    BY <1>1, <1>2, <1>6 DEF RingInv, InterruptInv, queue_vars, irq_vars
  <1>12. \A v \in Threads : Queued(n, q, v)' <=> Queued(n, q, v)
    BY <1>2 DEF Queued, queue_vars
  <1>13. CreationInv(n, q)'
    <2>1. u # Main /\ thread'[u] = NULL /\ pc'[u] \in {"run", "exited"}
      BY <1>1, <1>3, <1>5, <1>6
    <2>2. \A s \in Threads : s # Main => thread'[s] = NULL
      BY <1>3, <1>6
    <2>3. u # NULL
      OBVIOUS
    <2>4. ~Queued(n, q, u)'
      BY <1>5, <1>12
    <2>5. UNCHANGED <<cpu, irq, esp, eflags>>
      BY <1>2 DEF irq_vars, struct_vars
    <2>. QED BY <1>3, <1>5, <1>6, <2>1, <2>2, <2>3, <2>4, <2>5 DEF CreationInv, Queued
  <1>14. InsertInv(n, q)'
    BY <1>3, <1>6 DEF InsertInv
  <1>15. PICK stopped : stopped = out \ {u}
    OBVIOUS
  <1>16. StoppedInv(n, q, stopped)'
    <2>1. ASSUME NEW v \in stopped
          PROVE  /\ v \in Threads /\ v # cpu /\ ~Queued(n, q, v)'
                 /\ pc'[v] \in {"run", "exited"} /\ irq[v] \in {"none", "iret"}
                 /\ esp[v] = v /\ (eflags[v] <=> irq[v] = "none")
                 /\ \A s \in Threads : thread'[s] # v
      <3>1. v \in out /\ v # u
        BY <1>15
      <3>2. /\ v \in Threads /\ v # cpu /\ ~Queued(n, q, v)
            /\ pc[v] \in {"run", "exited"} /\ irq[v] \in {"none", "iret"}
            /\ esp[v] = v /\ (eflags[v] <=> irq[v] = "none")
        BY <3>1 DEF RingInv, StoppedInv
      <3>. QED BY <3>1, <3>2, <1>1, <1>3, <1>6, <1>12
    <2>. QED BY <2>1, <1>2 DEF StoppedInv, irq_vars, struct_vars
  <1>17. NoneLostInv(n, q, stopped)'
    <2>1. \A v \in Threads : pc[v] # "none" => v = cpu \/ Queued(n, q, v) \/ v \in out
      BY <1>6 DEF RingInv, NoneLostInv
    <2>. QED BY <2>1, <1>2, <1>3, <1>6, <1>12, <1>15 DEF NoneLostInv, irq_vars
  <1>18. stopped = Out'
    BY <1>2, <1>3, <1>4, <1>15 DEF Out
  <1>19. RingInv(n, q, Out)'
    BY <1>8, <1>9, <1>10, <1>11, <1>13, <1>14, <1>16, <1>17, <1>18 DEF RingInv
  <1>20. LocalsInv'
    BY <1>2, <1>3, <1>6 DEF LocalsInv, queue_vars
  <1>21. SearchInv(n, Ring(n, q))' /\ FreeInv(n, Ring(n, q))'
    BY <1>3 DEF SearchInv, FreeInv
  <1>. QED BY <1>7, <1>19, <1>20, <1>21 DEF RemovalInvariant

-----------------------------------------------------------------------------
(* The invariant                                                           *)

LEMMA InitRemoval == RemovalInit => RemovalInvariant
  <1>. SUFFICES ASSUME RemovalInit PROVE RemovalInvariant
    OBVIOUS
  <1>. USE SchedulerAssumption
  <1>1. TypeOK /\ \E n \in Lengths : \E q \in [1..n -> Nodes] : RingInv(n, q, {})
    BY InitIInv DEF RemovalInit, IInv
  <1>2. Out = {} /\ pc[Main] = "init_threading" /\ LocalsInv
    BY DEF RemovalInit, Init, Out, LocalsInv
  <1>3. ASSUME NEW n, NEW q PROVE SearchInv(n, Ring(n, q)) /\ FreeInv(n, Ring(n, q))
    BY <1>2 DEF SearchInv, FreeInv
  <1>. QED BY <1>1, <1>2, <1>3 DEF RemovalInvariant

LEMMA NextRemoval ==
  ASSUME OneCaller, RemovalInvariant, [RemovalNext]_all_vars
  PROVE  RemovalInvariant'
  <1>. USE SchedulerAssumption
  <1>a. PICK n \in Lengths : \E q \in [1..n -> Nodes] :
          RingInv(n, q, Out) /\ SearchInv(n, Ring(n, q)) /\ FreeInv(n, Ring(n, q))
    BY DEF RemovalInvariant
  <1>b. PICK q \in [1..n -> Nodes] :
          RingInv(n, q, Out) /\ SearchInv(n, Ring(n, q)) /\ FreeInv(n, Ring(n, q))
    BY <1>a
  <1>c. PICK out : out = Out
    OBVIOUS
  <1>d. RingInv(n, q, out) /\ TypeOK /\ LocalsInv
    BY <1>b, <1>c DEF RemovalInvariant
  <1>e. \A t \in Threads : t # Main => pc[t] \notin BootPC \cup InitPC \cup ReadyPC \cup NotReadyPC
    BY <1>d DEF LocalsInv, RingInv, CurrentInv
  <1>1. CASE UNCHANGED all_vars
    <2>1. TypeOK' /\ LocalsInv'
      BY <1>1, <1>d DEF all_vars, removal_vars, TypeOK, LocalsInv, vars, queue_vars, struct_vars,
                        code_vars, irq_vars
    <2>2. RingInv(n, q, out)'
      BY <1>1, <1>d DEF RingInv, ReadyQueueIs, CurrentInv, NodesInv, ContextInv, InterruptInv,
                        CreationInv, InsertInv, Before, StoppedInv, NoneLostInv, Queued,
                        all_vars, vars, queue_vars, struct_vars, code_vars, irq_vars
    <2>. QED BY <1>1, <1>b, <1>c, <2>1, <2>2, QuietStep
             DEF all_vars, vars, queue_vars, code_vars
  <1>2. CASE Next /\ UNCHANGED removal_vars
    <2>1. ASSUME NEW t \in Threads, OperationStep(t) PROVE RemovalInvariant'
      <3>1. t = Main
        BY <1>e, <2>1 DEF OperationStep, ThreadIsReady, InitThreading, InitScheduler, LoadTid,
                          StoreTid, SetContext, NewNode, ReadQueue, Walk, AppendItem, SetHead
      <3>2. CASE AppendItem(Main) \/ SetHead(Main)
        BY <3>2, <1>2, <1>c, <1>d, ReturnStep
      <3>3. CASE \/ InitThreading(Main) \/ InitScheduler(Main) \/ LoadTid(Main) \/ StoreTid(Main)
                 \/ SetContext(Main) \/ NewNode(Main) \/ ReadQueue(Main) \/ Walk(Main)
        BY <3>3, <1>2, <1>b, <1>c, <1>d, MainStep
      <3>. QED BY <2>1, <3>1, <3>2, <3>3 DEF OperationStep, ThreadIsReady
    <2>2. ASSUME NEW t \in Threads, NEW u \in Threads, CreateThread(t, u) PROVE RemovalInvariant'
      <3>1. t = Main
        BY <2>2 DEF CreateThread, OneCaller
      <3>. QED BY <3>1, <2>2, <1>2, <1>b, <1>c, <1>d, MainStep
    <2>3. ASSUME NEW t \in Threads,
                 ThreadExit(t) \/ TimerIrq(t) \/ IrqHandler(t) \/ ScheduleWalk(t) \/ IrqReturn(t)
          PROVE  RemovalInvariant'
      BY <2>3, <1>2, <1>b, <1>c, <1>d, OthersStep
    <2>4. ASSUME NEW t \in Threads, ScheduleSwitch(t) PROVE RemovalInvariant'
      BY <2>4, <1>2, <1>b, <1>c, <1>d, SwitchStep
    <2>. QED BY <1>2, <2>1, <2>2, <2>3, <2>4 DEF Next, HandlerStep
  <1>3. ASSUME NEW t \in Threads, ThreadNotReady(t) PROVE RemovalInvariant'
    <2>1. t = Main
      BY <1>e, <1>3 DEF ThreadNotReady, CheckHead, Search, LoadNext, Unlink, FreeNode
    <2>2. CASE CheckHead(Main) \/ Search(Main) \/ LoadNext(Main)
      BY <2>2, <1>b, <1>c, <1>d, SearchStep
    <2>3. CASE Unlink(Main)
      BY <2>3, <1>b, <1>c, <1>d, UnlinkStep
    <2>4. CASE FreeNode(Main)
      BY <2>4, <1>b, <1>c, <1>d, FreeStep
    <2>. QED BY <1>3, <2>1, <2>2, <2>3, <2>4 DEF ThreadNotReady
  <1>4. ASSUME NEW t \in Threads, NEW u \in Threads, CallNotReady(t, u) \/ WakeThread(t, u)
        PROVE  RemovalInvariant'
    BY <1>4, <1>b, <1>c, <1>d, CallStep, WakeStep
  <1>. QED BY <1>1, <1>2, <1>3, <1>4 DEF RemovalNext

(* The ring, the stopped threads outside it, and what an interrupted       *)
(* thread_not_ready knows of it, survive every step of main() and of the   *)
(* timer (thread_not_ready, thread_is_ready, schedule).                    *)
THEOREM RemovalRing ==
  ASSUME OneCaller PROVE RemovalSpec => []RemovalInvariant
  <1>1. RemovalInvariant /\ [RemovalNext]_all_vars => RemovalInvariant'
    BY NextRemoval
  <1>. QED BY InitRemoval, <1>1, PTL DEF RemovalSpec

(* A removal leaves a list of nodes in use, and loses no thread but the    *)
(* one it is called for (thread_not_ready).                                *)
THEOREM RemovalKeepsTheList ==
  ASSUME OneCaller PROVE RemovalSpec => []RemovalKeepsList
  <1>1. ASSUME NEW n \in Lengths, NEW q \in [1..n -> Nodes], RingInv(n, q, Out)
        PROVE  RemovalKeepsList
    <2>1. ReadyQueueIs(n, q) /\ \A i \in 1..n : q[i] \in used
      BY <1>1 DEF RingInv, NodesInv
    <2>2. ASSUME NEW u \in Threads \ not_ready, pc[u] # "none", \A t \in Threads : thread[t] # u
          PROVE  u = cpu \/ Queued(n, q, u)
      <3>1. u \notin Out
        BY <2>2, SchedulerAssumption DEF Out
      <3>. QED BY <1>1, <2>2, <3>1 DEF RingInv, NoneLostInv
    <2>. QED BY <2>1, <2>2 DEF RemovalKeepsList
  <1>2. RemovalInvariant => RemovalKeepsList
    BY <1>1 DEF RemovalInvariant
  <1>. QED BY <1>2, RemovalRing, PTL

(* Neither the CPU nor an interrupted call holds a node that kfree has     *)
(* taken back (thread_not_ready, schedule).                                *)
THEOREM NothingDangles ==
  ASSUME OneCaller PROVE RemovalSpec => []NoDanglingNode
  <1>1. ASSUME TypeOK, LocalsInv, NEW n \in Lengths, NEW q \in [1..n -> Nodes], RingInv(n, q, Out)
        PROVE  NoDanglingNode
    <2>1. current_thread # NULL => current_thread \in used
      BY <1>1 DEF RingInv, CurrentInv
    <2>2. \A t \in Threads : {iterator[t], tmp[t], next[t]} \subseteq used \cup {NULL}
      BY <1>1 DEF LocalsInv
    <2>3. \A t \in Threads : irq[t] \in {"walk", "switch"} => scan[t] \in used
      BY <1>1 DEF RingInv, InterruptInv, NodesInv
    <2>. QED BY <2>1, <2>2, <2>3 DEF NoDanglingNode
  <1>2. RemovalInvariant => NoDanglingNode
    BY <1>1 DEF RemovalInvariant
  <1>. QED BY <1>2, RemovalRing, PTL

(* A thread that thread_not_ready has returned for does not run and is not *)
(* in the queue until it is made ready again.                              *)
THEOREM StoppedStaysStopped ==
  ASSUME OneCaller PROVE RemovalSpec => []NotReadyNeverRuns
  <1>1. ASSUME NEW n \in Lengths, NEW q \in [1..n -> Nodes], RingInv(n, q, Out)
        PROVE  NotReadyNeverRuns
    <2>1. \A u \in not_ready : u # cpu /\ ReadyQueueIs(n, q) /\ ~Queued(n, q, u)
      BY <1>1 DEF RingInv, StoppedInv, Out
    <2>2. NotReadyNotQueued
      BY <2>1 DEF NotReadyNotQueued
    <2>. QED BY <2>1, <2>2 DEF NotReadyNeverRuns
  <1>2. RemovalInvariant => NotReadyNeverRuns
    BY <1>1 DEF RemovalInvariant
  <1>. QED BY <1>2, RemovalRing, PTL
=============================================================================
