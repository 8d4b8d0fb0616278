----------------------------- MODULE Interrupts ----------------------------
(***************************************************************************)
(* Interrupts from the gates of init_idt to the handler and back           *)
(* (descriptor_tables.c, interrupt.s, timer.c), with the two interrupt     *)
(* controllers, in the order in which main() sets them up.                 *)
(*                                                                         *)
(* init_idt adds numbers of bytes to the address of the first stub, so a   *)
(* gate leads into the code of a stub, which is modelled at the length     *)
(* nasm gives its instructions.                                            *)
(***************************************************************************)
EXTENDS Integers, Sequences, FiniteSets

CONSTANTS
  Sources,     \* the interrupt requests that devices raise, of 0..15
  Exceptions,  \* the exceptions that the running code raises, of 0..31
  Freqs        \* what main() may ask init_timer for

VARIABLES
  main,      \* the call main() is at, or "threads" after its sti
  gates,     \* the IDT: where the gate of a vector leads
  handlers,  \* interrupt_handlers, by int_no
  irr,       \* requests the controllers hold
  isr,       \* lines in service; a line of the slave is also line 2's
  iflag,     \* the interrupt flag
  cpu,       \* what the processor does, for which vector, with what frame
  reload     \* the divisor the timer chip got

interruptVars == <<main, gates, handlers, irr, isr, iflag, cpu, reload>>

Vectors == 0..47
Lines == 0..15
IRQ0 == 32
PAGE_FAULT == 14
BaseFrequency == 1193180
MaxReload == 65535

(* The frequencies are those whose divisor the timer chip can hold.        *)
ASSUME InterruptAssumption ==
  /\ Sources \subseteq Lines /\ Exceptions \subseteq 0..31
  /\ Freqs \subseteq 19..BaseFrequency

None == "none"
Absent == [frame |-> "absent", int_no |-> 0]
Thread == [at |-> "thread", vector |-> 0, frame |-> "whole", int_no |-> 0]

-----------------------------------------------------------------------------
(* The stubs: cli (1 byte), push 0 (2) unless the processor pushes an      *)
(* error code, push of the number (2), and a jump, which is near (5) from  *)
(* the first fifteen exceptions' stubs and short (2) from the IRQs'.       *)
WithErrorCode == {8, 10, 11, 12, 13, 14}

IsrStubs ==
  [n \in 0..14 |->
     [number |-> n, pushes |-> IF n \in WithErrorCode THEN 1 ELSE 2, jump |-> 5]]
IrqStubs == [n \in Lines |-> [number |-> 32 + n, pushes |-> 2, jump |-> 2]]
Length(stub) == 1 + 2 * stub.pushes + stub.jump

(* How far behind the first of the stubs each of them starts.              *)
Starts(stubs) ==
  LET start[n \in DOMAIN stubs] ==
        IF n = 0 THEN 0 ELSE start[n - 1] + Length(stubs[n - 1])
  IN start
Holds(stubs, n, offset) ==
  Starts(stubs)[n] <= offset /\ offset < Starts(stubs)[n] + Length(stubs[n])

(* Execution that enters a stub at one of its bytes, with some words       *)
(* pushed by the processor: the stub pushes words, the last of them its    *)
(* number, unless the byte is not the first of an instruction.             *)
Entered(s, byte, pushed) ==
  LET done == IF byte <= 1 THEN 0 ELSE (byte - 1) \div 2    \* pushes left out
      lost == (byte > 1 /\ byte % 2 = 0) \/ done >= s.pushes
      words == pushed + s.pushes - done
  IN [frame |-> IF lost THEN "lost" ELSE IF words = 2 THEN "whole" ELSE "skewed",
      int_no |-> s.number]

(* What is some bytes behind the start of the first of the stubs.          *)
Landing(stubs, offset, pushed) ==
  LET n == CHOOSE k \in DOMAIN stubs : Holds(stubs, k, offset)
  IN Entered(stubs[n], offset - Starts(stubs)[n], pushed)

(* Mutation: the number of the vector is not counted from the first IRQ.   *)
GateByVector(v) ==
  IF v < 32 THEN Landing(IsrStubs, v, IF v \in WithErrorCode THEN 1 ELSE 0)
  ELSE Landing(IrqStubs, v, 0)

(* isr0 + i and irq0 + i - 32.                                             *)
Gate(v) ==
  IF v < 32 THEN Landing(IsrStubs, v, IF v \in WithErrorCode THEN 1 ELSE 0)
  ELSE Landing(IrqStubs, v - 32, 0)

InterruptInit ==
  /\ main = "init_descriptor_tables"
  /\ gates = [v \in Vectors |-> Absent]
  /\ handlers = [n \in Vectors |-> None]
  /\ irr = {} /\ isr = {}
  /\ iflag = FALSE
  /\ cpu = [Thread EXCEPT !.at = "main"]
  /\ reload = 0

-----------------------------------------------------------------------------
(* main()                                                                  *)

register_interrupt_handler(n, h) == handlers' = [handlers EXCEPT ![n] = h]

init_descriptor_tables ==
  /\ main = "init_descriptor_tables" /\ main' = "init_paging"
  /\ gates' = [v \in Vectors |-> Gate(v)]
  /\ UNCHANGED <<handlers, irr, isr, iflag, cpu, reload>>

(* The end of init_paging.                                                 *)
RegisterPageFault ==
  /\ main = "init_paging" /\ main' = "init_timer"
  /\ register_interrupt_handler(PAGE_FAULT, "page_fault_handler")
  /\ UNCHANGED <<gates, irr, isr, iflag, cpu, reload>>

(* Mutation: the high byte goes out first.                                 *)
SentHighFirst(divisor) == ((divisor \div 256) % 256) + 256 * (divisor % 256)
(* The two bytes, the low one first.                                       *)
Sent(divisor) == (divisor % 256) + 256 * ((divisor \div 256) % 256)

init_timer(freq) ==
  /\ main = "init_timer" /\ main' = "sti"
  /\ register_interrupt_handler(IRQ0, "timer_callback")
  /\ reload' = Sent(BaseFrequency \div freq)
  /\ UNCHANGED <<gates, irr, isr, iflag, cpu>>

sti ==
  /\ main = "sti" /\ main' = "threads"
  /\ iflag' = TRUE
  /\ cpu' = Thread
  /\ UNCHANGED <<gates, handlers, irr, isr, reload>>

-----------------------------------------------------------------------------
(* The processor and the controllers.                                      *)

Raise(n) ==
  /\ irr' = irr \cup {n}
  /\ UNCHANGED <<main, gates, handlers, isr, iflag, cpu, reload>>

(* The controllers let a request through that nothing in service outranks. *)
Line(n) == IF n >= 8 THEN 2 ELSE n
Outranks(n, m) == Line(n) < Line(m) \/ (n >= 8 /\ m >= 8 /\ n < m)
Admitted(n) ==
  /\ n \in irr
  /\ \A m \in isr : IF m < 8 THEN Line(n) < m ELSE n < 8 \/ n < m
  /\ \A m \in irr \ {n} : Outranks(n, m)

(* Through the gate, an interrupt gate, into the stub.                     *)
Enter(v, at) ==
  /\ cpu' = [at |-> IF gates[v].frame \in {"absent", "lost"} THEN "astray" ELSE at,
             vector |-> v, frame |-> gates[v].frame, int_no |-> gates[v].int_no]
  /\ iflag' = FALSE

Accept(n) ==
  /\ iflag /\ cpu.at = "thread"
  /\ Admitted(n)
  /\ irr' = irr \ {n}
  /\ isr' = isr \cup {n, Line(n)}
  /\ Enter(32 + n, "irq_handler")
  /\ UNCHANGED <<main, gates, handlers, reload>>

Trap(v) ==
  /\ cpu.at = "thread"
  /\ Enter(v, "idt_handler")
  /\ UNCHANGED <<main, gates, handlers, irr, isr, reload>>

(* An unspecific end of interrupt ends the highest line in service.        *)
Ended(lines) == {n \in isr \cap lines : \A m \in isr \cap lines : n <= m}

(* Mutation: only the slave is told.                                       *)
AcknowledgedSlave(int_no) == IF int_no >= 40 THEN Ended(8..15) ELSE {}
(* The slave, then the master.                                             *)
Acknowledged(int_no) ==
  Ended(0..7) \cup (IF int_no >= 40 THEN Ended(8..15) ELSE {})

(* irq_handler: the controllers first, then the handler, if there is one.  *)
irq_handler ==
  /\ cpu.at = "irq_handler"
  /\ isr' = isr \ Acknowledged(cpu.int_no)
  /\ cpu' = [cpu EXCEPT !.at =
               IF handlers[cpu.int_no] = "timer_callback" THEN "schedule" ELSE "iret"]
  /\ UNCHANGED <<main, gates, handlers, irr, iflag, reload>>

(* Mutation: a new thread starts with the flags of the handler.            *)
scheduleMasked ==
  /\ cpu.at = "schedule"
  /\ \/ cpu' = [cpu EXCEPT !.at = "iret"] /\ UNCHANGED iflag
     \/ cpu' = Thread /\ iflag' = iflag
  /\ UNCHANGED <<main, gates, handlers, irr, isr, reload>>

(* timer_callback: schedule returns here, or goes on in a thread that has  *)
(* not run before, which starts in its function with interrupts on.        *)
schedule ==
  /\ cpu.at = "schedule"
  /\ \/ cpu' = [cpu EXCEPT !.at = "iret"] /\ UNCHANGED iflag
     \/ cpu' = Thread /\ iflag' = TRUE
  /\ UNCHANGED <<main, gates, handlers, irr, isr, reload>>

(* Back to what was interrupted, if the frame is what the stub unwinds.    *)
iret ==
  /\ cpu.at = "iret"
  /\ IF cpu.frame = "whole" THEN cpu' = Thread /\ iflag' = TRUE
     ELSE cpu' = [cpu EXCEPT !.at = "astray"] /\ UNCHANGED iflag
  /\ UNCHANGED <<main, gates, handlers, irr, isr, reload>>

(* idt_handler: with no handler it panics, and so does page_fault_handler, *)
(* the only one there is for an exception.                                 *)
idt_handler ==
  /\ cpu.at = "idt_handler"
  /\ cpu' = [cpu EXCEPT !.at = "panic"]
  /\ UNCHANGED <<main, gates, handlers, irr, isr, iflag, reload>>

Boots ==
  \/ init_descriptor_tables
  \/ \E freq \in Freqs : init_timer(freq)
  \/ sti

Handles == irq_handler \/ schedule \/ iret \/ idt_handler
Interrupt == \E n \in Sources : Raise(n) \/ Accept(n)
InterruptNext == Boots \/ Handles \/ Interrupt \/ \E v \in Exceptions : Trap(v)

(* The interrupts alone, with nothing of init_paging but its handler.      *)
InterruptSpec == InterruptInit /\ [][InterruptNext \/ RegisterPageFault]_interruptVars

-----------------------------------------------------------------------------
InterruptTypeOK ==
  /\ main \in {"init_descriptor_tables", "init_paging", "init_timer", "sti", "threads"}
  /\ irr \subseteq Sources
  /\ isr \subseteq Lines
  /\ iflag \in BOOLEAN
  /\ cpu.at \in {"main", "thread", "irq_handler", "schedule", "iret", "idt_handler",
                 "panic", "astray"}
  /\ cpu.vector \in Vectors
  /\ reload \in 0..MaxReload

(* While a thread runs, with the switch that schedule makes in the handler *)
(* or without, no interrupt is left in service that would keep later ones  *)
(* of its rank away (irq_handler's acknowledgement before the handler).    *)
ServiceEnds == cpu.at = "thread" => isr = {}

(* Of all exceptions and requests only these do not get to idt_handler or  *)
(* come back from irq_handler: those that enter a stub, ten bytes long the *)
(* first of the exceptions' and seven long the requests', elsewhere than   *)
(* at an instruction, and the requests that enter it behind a push.  The   *)
(* timer and the keyboard are not among them, and no interrupt comes       *)
(* before its gate is there (init_idt, the stubs, the place of sti).       *)
Misled ==
  {v \in 0..31 : v % 10 \notin {0, 1, 3}} \cup {32 + n : n \in {m \in Lines : m % 7 \notin {0, 1}}}
OnlyMisledAstray == cpu.at = "astray" => cpu.vector \in Misled

(* "Handles page faults by printing detailed information and halting       *)
(* execution": a page fault does not lead astray (page_fault_handler).     *)
PageFaultHandled == ~(cpu.at = "astray" /\ cpu.vector = PAGE_FAULT)

(* The timer gets a divisor that makes the frequency asked for, to the     *)
(* next lower count (init_timer).                                          *)
PeriodRight ==
  reload # 0 =>
    \E freq \in Freqs :
      reload * freq <= BaseFrequency /\ BaseFrequency < (reload + 1) * freq

(* irq_handler and idt_handler look up "the interrupt" by the number the   *)
(* stub has pushed: it is the number of the interrupt that came.           *)
NumberIsVector == cpu.at \in {"irq_handler", "idt_handler"} => cpu.int_no = cpu.vector
=============================================================================
