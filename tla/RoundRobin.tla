----------------------------- MODULE RoundRobin -----------------------------
(***************************************************************************)
(* What the scheduler promises: one thread runs, the others that are ready *)
(* wait in a queue.  A new thread joins at the end.  At the end of a time  *)
(* slice the running thread goes to the end of the queue and the first one *)
(* of the queue runs.                                                      *)
(***************************************************************************)
EXTENDS Sequences, Naturals

CONSTANTS Threads, Main

VARIABLES
  running,   \* the thread that has the CPU
  queue      \* the threads that wait for it, in order

Waiting == {queue[i] : i \in 1..Len(queue)}

Init == running = Main /\ queue = <<>>

(* Thread t is ready to run for the first time.                            *)
Admit(t) ==
  /\ t # running /\ t \notin Waiting
  /\ queue' = Append(queue, t)
  /\ UNCHANGED running

(* The end of a time slice.                                                *)
Preempt ==
  /\ queue # <<>>
  /\ running' = Head(queue)
  /\ queue' = Append(Tail(queue), running)

Next == Preempt \/ \E t \in Threads : Admit(t)

vars == <<running, queue>>

(* Slices end.                                                             *)
Spec == Init /\ [][Next]_vars /\ WF_vars(Preempt)
=============================================================================
