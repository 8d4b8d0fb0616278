---------------------------- MODULE BootSequence ---------------------------
(***************************************************************************)
(* The kernel from boot to running threads: the calls of main() in their   *)
(* order, init_paging step by step within them, and afterwards interrupts  *)
(* between the steps of threads that make the heap grow.                   *)
(***************************************************************************)
EXTENDS Paging, Interrupts

bootVars == <<vars, interruptVars>>

BootInit == Init /\ InterruptInit

(* init_paging registers its handler when the frames of the heap are       *)
(* there, and then turns paging on.                                        *)
init_paging ==
  /\ main = "init_paging"
  /\ Boot
  /\ IF step' = "run" THEN RegisterPageFault ELSE UNCHANGED interruptVars

(* A thread runs the heap into new pages.                                  *)
ThreadStep ==
  /\ cpu.at = "thread"
  /\ Expand
  /\ UNCHANGED interruptVars

Kernel ==
  \/ Boots /\ UNCHANGED vars
  \/ init_paging
  \/ Handles /\ UNCHANGED vars

BootNext ==
  \/ Kernel
  \/ ThreadStep
  \/ Interrupt /\ UNCHANGED vars
  \/ \E v \in Exceptions : Trap(v) /\ UNCHANGED vars

(* The processor does not stop, and takes an interrupt that is let through *)
(* before it has run for ever.                                             *)
BootSpec ==
  /\ BootInit
  /\ [][BootNext]_bootVars
  /\ WF_bootVars(Kernel)
  /\ \A n \in Sources : WF_bootVars(Accept(n) /\ UNCHANGED vars)

-----------------------------------------------------------------------------
BootTypeOK == TypeOK /\ InterruptTypeOK

(* A tick of the timer, also one that comes while main() is still setting  *)
(* up, gets to schedule, unless the kernel has panicked or an exception or *)
(* another request has been misled (timer_callback).                       *)
Stopped ==
  \/ cpu.at = "panic" \/ (panic /\ main # "threads")
  \/ cpu.at = "astray" /\ cpu.vector \in Misled
TickReachesSchedule ==
  0 \in irr ~> Stopped \/ (cpu.at = "schedule" /\ cpu.vector = IRQ0)
=============================================================================
