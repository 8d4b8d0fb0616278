# TinyOS in TLA+

A verification project for the small x86 kernel in `src/`: one CPU, protected
mode, paging, a kernel heap, and preemptive round-robin kernel threads driven
by the timer interrupt.  The modules are written from the source, each
definition is tied to its lines in `PROJECT.json` ("map"), TLC checks them on
small instances, and TLAPS proves, for any values of their parameters, the
safety of the scheduler and that it implements a round robin, the removal of
threads from its list, the heap and the promise of its allocator, threads that
share the heap up to the first overlap of their calls, paging, interrupts, their
composition at boot, and the console: its cursor, its buffers, the numbers it
prints and what a text leaves on the screen.

Contents: [the system](#1-the-system), [the modules](#2-the-modules),
[the runs](#3-the-runs), [the proofs](#4-the-proofs),
[what the code does otherwise than it says](#5-what-the-code-does-otherwise-than-it-says),
[what is not modelled](#6-what-is-not-modelled), [the plan](#7-the-plan).

## 1. The system

`main()` sets up the GDT and IDT, paging (with the heap), the timer, enables
interrupts, and then threading and the scheduler; it creates threads and goes
on as a thread itself.  From then on two kinds of code touch the same memory:
threads, with interrupts on, and the handler of IRQ0, with interrupts off, cut
into a thread at any instruction.

| component | source | state | operations | talks to |
|---|---|---|---|---|
| scheduler | `scheduler.c` | `ready_queue`, `current_thread` (list nodes) | `init_scheduler`, `thread_is_ready`, `thread_not_ready`, `schedule` | kmalloc/kfree for nodes; called by `create_thread` and by the timer |
| threads, context switch | `thread.c`, `thread_asm.s` | `next_tid`, per thread `id`, saved `esp` and `eflags`, stack | `init_threading`, `create_thread`, `thread_exit`, `switch_thread` | scheduler, kmalloc |
| timer | `timer.c` | tick counter | `init_timer`, `timer_callback` | dispatch, `schedule` |
| interrupt dispatch | `descriptor_tables.c`, `interrupt.s` | GDT, IDT, handler table, PIC | `init_idt`, stubs, `idt_handler`, `irq_handler`, `register_interrupt_handler` | all handlers |
| kernel heap | `heap.c` | headers and footers in memory, index of holes, `h_addr_end` | `init_heap`, `alloc` (`expand`), `free` (`contract`) | sorted array, `get_page`, `alloc_frame`, `free_frame` |
| sorted array | `sorted_array.c` | array of pointers | insert, lookup, remove | heap |
| kmalloc | `kmalloc.c` | `placement_address` | `kmalloc*`, `kfree` | heap, or placement before there is one |
| paging | `paging.c` | frame bitset, page directory and tables | `init_paging`, `alloc_frame`, `free_frame`, `get_page`, page fault | kmalloc |
| boot | `main.c`, `boot.s`, `linker.ld` | — | the order of the initialisation | everything |
| console | `screen.c`, `system.c` | cursor, video memory, the static buffers of `printk` and `_panic` | `putch`, `scroll`, `move_csr`, `cls`, `screen_write`, `printk`, `_panic` | every thread |
| vsprintf | `vsprintf.c` | — | `number`, `vsprintf` | `printk`, `_panic` |
| system library | `system.c` | — | ports, `memset`, `strlen` | everything |
| keyboard | `keyboard.c` (not built) | buffer of keys | handler, `get_last_key` | dispatch |

What is hard in it, and what has to hold:

* **Scheduler.** No lock anywhere: `thread_is_ready` walks the list that
  `schedule` rotates at any tick and that other threads extend.  The list must
  stay a list; no thread may fall off it; every walk must end; every ready
  thread must get the CPU.
* **Contexts.** A thread starts by a `ret` into its function and resumes by a
  `ret` into `schedule` inside a handler; stack, interrupt flag and the
  acknowledgement of the interrupt must fit either way.
* **Heap.** The structure is kept in the memory it manages: a long sequence of
  legal calls must not bring it into a state where headers, footers and index
  disagree.  Blocks of different callers must not overlap; no free memory may
  get lost.
* **Paging.** `init_paging` allocates the very tables that describe the memory
  it allocates from; what is handed out before paging is on must map to itself
  afterwards, and no two pages may share a frame.
* **Console.** A cursor, a video memory and a text buffer that every thread
  writes, a few instructions at a time, with no lock.  The cursor must come back
  to the screen whoever moved it; a call must end; a text printed undisturbed
  must stand on the screen as it was meant, with its numbers readable.
* **Dispatch.** The gates are computed in bytes, stubs push what the processor
  did not, two controllers wait to be told: an interrupt must arrive at its
  handler, with a frame that its return unwinds, and leave nothing in service.
* **Boot.** Interrupts pend from the first instruction on; none may get in before
  there is a gate, a handler and a heap.

`PROJECT.json` lists these hazards line by line ("hazards") with the properties
that watch over them, or why none does yet.

## 2. The modules

```
Scheduler ── SchedulerInv ── SchedulerProofs                (EXTENDS)
    │  │           └─ MCScheduler
    │  └─ SchedulerRefinement ── INSTANCE RoundRobin
    │              ├─ SchedulerProofs
    │              └─ MCSchedulerFair
    └──── ThreadRemoval ── RemovalInv ── MCThreadRemoval
                               └─ RemovalProofs ── SchedulerProofs

Heap ─┬─ HeapCallers ─┬─ MCHeap ── INSTANCE Allocator
      │               │    └─ HeapInv ── HeapProofs
      └─ SharedHeap ──┴─ MCSharedHeap ── SharedInv ── SharedHeapProofs
                           (SharedInv also EXTENDS HeapInv, and
                            SharedHeapProofs also HeapProofs)

Vsprintf ─┬─ Console ── ConsoleInv ─┬─ MCConsole
          │                         └─ ConsoleProofs
          └─ VsprintfProofs ───────────────┘

Paging ─────┬─ BootSequence ── BootProofs
Interrupts ─┘                      │
Paging ───── PagingProofs ─────────┘
```

### Scheduler

Threads, ready queue, timer interrupt.  The state is the list as it lies in
memory (`node_thread`, `node_next`, `ready_queue`, `current_thread`), the thread
structures (`id`, `esp`, `eflags`), one program counter and the locals of each
thread's own code (`pc`, `thread`, `tid`, `item`, `iterator`), one program
counter for the handler on each thread's stack (`irq`, `scan`), and the
processor (`cpu`: whose stack it is on; `IFlag`; `in_service`: IRQ0 not yet
acknowledged).

| code | actions |
|---|---|
| `init_threading`, `init_scheduler` | `InitThreading`, `InitScheduler` |
| `create_thread` | `CreateThread` (the thread_t), `LoadTid`, `StoreTid` (`next_tid++`), `SetContext` |
| `thread_is_ready` | `NewNode`, `ReadQueue`, `Walk` (each turn of the loop), `AppendItem` or `SetHead` |
| `thread_exit` | `ThreadExit`: the thread spins and stays scheduled |
| gate, stub, `irq_handler`, `timer_callback` | `TimerIrq`, `IrqHandler` |
| `schedule`, `switch_thread` | `ScheduleWalk` (each turn), `ScheduleSwitch` (`Requeue`, `SwitchThread`) |
| return from `schedule`, `iret` | `IrqReturn` |

Thread code is cut between any two accesses to shared variables.  The handler is
several steps of its own (`IrqHandler`, `ScheduleWalk`, `ScheduleSwitch`,
`IrqReturn`), and `IFlag` and `in_service` are state: `TimerIrq` asks for both,
as processor and controller do, so interrupts do not nest as long as the gate
clears the flag, and which flag a thread is resumed with is the code's to get
right.  `kmalloc` is one step and always finds a
node (see [section 6](#6-what-is-not-modelled)).

### RoundRobin, SchedulerRefinement

`RoundRobin` is the scheduler as its callers see it: a running thread and a
sequence of waiting ones; a slice ends, the running thread goes to the end of
the sequence and its head runs.  `SchedulerRefinement` maps the linked list to
that sequence (`queue <- ReadyThreads`, the threads found by following `next`
from `ready_queue`) and `cpu` to `running`; every step of the kernel must be a
step of the round robin or leave list order and CPU alone.

### ThreadRemoval

Adds `thread_not_ready` (`CheckHead`, `Search`, `LoadNext`, `Unlink`,
`FreeNode`) and the waking of a stopped thread.  Nothing in the kernel calls
it, so the callers (`Removers`, `Targets`) stand for the uses its comment
allows.  `not_ready` is a history variable.

### Heap, Allocator, HeapCallers, MCHeap, HeapInv

Memory in 4-byte words.  A header takes three words and a footer two, and they
are recognised by a magic number, so memory is two partial functions, `hdr` and
`ftr`, from the addresses where one stands.  A write removes what it overlaps;
what is not overwritten stays, so stale headers in freed memory are in the
model, as they are in the code.  `heap` also holds the index, in its order, and
the end.  An allocation is a request (`Kmalloc`), at most some turns of
`AllocGrow` (`expand`; alloc then calls itself) and `AllocPlace`; a `Kfree`
is one step composed of the stages of `free` in their order: `Freeing`,
`UnifyLeft`, `UnifyRight`, `ContractHeap`, `AddToIndex`.

`Allocator` is the promise of `kmalloc.h` and `heap.h`: memory nobody else
holds, on a page boundary when asked, or the kernel stops.

A step that maps to one of `Allocator` says that what alloc returns is right, not
that it returns; that alloc does not call itself without end is `FewRetries`:
once at most, or twice for an aligned block, since the room won by expanding may
be too short by the words in front of the page boundary.

The heap keeps its promise only towards callers that avoid five situations.
`HeapCallers` names each as a condition on the call; run `heap` heeds all of them,
and for each there is a configuration that shows what happens without it.  Four
of these drop a condition (`Liberties`); `heap_last.cfg` shows the state in which
the call would have to be made.  There is no other condition: blocks of every
kind are asked for whether a hole fits or not, and of an empty index too.

| condition | without it | shown by |
|---|---|---|
| `GrowsAtEnd`: the heap grows only when the endmost hole ends it, or there is no hole | the room goes to a hole with blocks behind it, which are handed out again | `heap_grow.cfg` |
| `LeavesHoles`: an aligned block leaves a hole in front of it and behind it, in the heap in which alloc finds its hole, after it has expanded as often as it will | the front is too short for a hole or negative; the block stays in the index | `heap_align.cfg` |
| `FooterNamesHole`: the hole in front of a freed block is named by its footer | memory is lost | `heap_coalesce.cfg` |
| `HasBehind`: the last block of the heap is not freed | `free` reads a header behind the heap and the kernel stops | `heap_last.cfg` |
| `KeepsMinimum`: a contraction ends at the minimum size | `contract` masks with one bit and leaves the end between pages | `heap_contract.cfg` |

### SharedHeap, MCSharedHeap, SharedInv

The same heap with threads inside `alloc` and `free` at once: a turn of the
search (`Search`), the second lookup of the hole by its place (`Lookup`),
`remove_sorted_array` (`RemoveEntry`), each header and footer (`BlockHeader`,
`BlockFooter`, `RestHeader`, `RestFooter`), `insert_sorted_array`
(`InsertEntry`), and the stages of `free` (`Mark`, `UnifyToLeft`,
`UnifyToRight`, `Contract`, `AddHole`), the latter through Heap's operators on
the heap as each stage finds it.  The loops of the sorted array are one step
each, and so is `expand` with the new room; finer steps would add ways to go
wrong, and one is enough.  `alone` remembers the heap a call began with until
two calls overlap.  `SharedInv` says for every place a thread can be at what the
heap is there, in terms of the heap the call began with.  Bound: after the first overlap no new call begins.

### Vsprintf, Console

`Vsprintf` is the formatter as operators.  A format is split into what the
scanner takes at a time, literal characters and directives; `number` works on
words of `WordModulus` values with sign, prefix, precision, width and padding in the
code's order.  A `*` that stands where the width or the precision should
(`Starred`) takes an argument; one that comes after a width, after a precision or
after a qualifier does not, and in each case the scanner stops in front of it and
takes it for the conversion.  The operators were compared with the compiled C
functions on all directives the runs use.

`Console` is every caller of the screen, one access to shared memory a step, as
`gcc -O2` arranges them: `putch` loads `cursor_y` on entry and `cursor_x` when
it needs it, works on these two registers, and `move_csr` loads both again.

| code | actions |
|---|---|
| `printk`, `_panic`, `cls` are called | `Enter`, `Return` |
| `vsprintf` into the static buffer, the NUL behind it | `Format`, `Terminate` |
| `screen_write`, the three texts of `_panic` | `Write` |
| `putch` | `LoadY`, `CarriageReturn`, `LoadX`, `StoreX`, `StoreCell`, `WrapX`, `WrapY` |
| `scroll` | `Scroll` (the cells), `ScrollY` |
| `move_csr` | `CsrY`, `CsrX`, `Out` (the four `outb`) |
| `cls` | `Cls` (cells, `cursor_y`, `cursor_x`), then `move_csr` |

The loops of `scroll` and `cls` over the video memory are one step each, and so
are the four `outb`: the properties do not depend on how far they got.
`cursor_x` and `cursor_y` are bytes and wrap.  `AloneShown` compares the screen
with an endless page of which it shows the end (`Page`, `Typed`): the same text
typed on a page that needs no scrolling.  `alone` is a history variable with the
state of the console at the start of a call nobody else has joined.

`ConsoleInv` adds the invariant that `AloneShown` follows from: what the screen
shows at every step of `putch` and `scroll`, between one character and the next
(section 4).

### Interrupts

Gates, stubs, handlers, the two 8259 controllers and the processor.  `init_idt`
adds the number of the vector to the address of the first stub, in bytes; so the
stubs are modelled by the lengths nasm gives their instructions; `Landing` finds
the stub that an offset leads into, and `Entered` computes what execution does
that starts there: which number gets pushed and whether the frame has the words
`iret` will unwind.  `Misled` lists, by their numbers alone, the exceptions and
requests for which it does not.  The
controllers (external: 8259 data sheet behaviour as `init_idt` programs it) hold
requests (`irr`) and lines in service (`isr`); an unspecific end of interrupt
ends the highest line.  `Raise`, `Accept`, `Trap` are the hardware's steps;
`irq_handler`, `schedule`, `iret`, `idt_handler` the code's, in their order;
`schedule` either comes back or goes on in a thread that is new, as
`switch_thread` does.  `init_timer` cuts the divisor in two bytes (`Sent`).

### BootSequence

`Paging` and `Interrupts` composed: `main()`'s calls in their order, with
`init_paging` statement by statement as one of them, requests of devices pending
from the first instruction, exceptions, and afterwards interrupts between the
steps of threads that make the heap grow.

### Paging

`init_paging` statement by statement (`step`, `i`): bitset, directory, the
heap's page tables, the heap struct, the identity loop, the heap's frames.  The
placement allocator rounds as the code does (from a page boundary on to the
*next* page).  `frames` is the set of bits set in the bitset; `set_frame` and
`clear_frame` get their argument as the callers pass it, an address or a frame
number.  `Expand` and `Contract` are the calls of the heap afterwards;
`Contract` goes down to the minimum size (`MinHeapPages`) and, as the loop of
`contract` does, leaves the lowest of the pages behind the new end its frame.
`KernelEnds` are the places the linker may put `__end`, which decide where the
tables fall.

## 3. The runs

All runs finish in seconds to two minutes.

| run | expects | shows |
|---|---|---|
| `sched_safety` | pass | Four threads, each of them a creator, with the timer at every step: `TypeOK` (no null dereference), `ReadyListWellFormed`, `NoThreadLost`, `ContextsResumable`, and the inductive invariant `IInv` |
| `sched_fair` | pass | Four threads, two of them creators, under fairness: `EveryThreadRuns`, `CreationCompletes`, and the refinement of `RoundRobin` with its fairness |
| `not_ready` | pass | One thread creates, stops and wakes three others while the timer rotates the list: `UniqueIds`, `RemovalKeepsList`, `NoDanglingNode`, `NotReadyNeverRuns`, and the inductive invariant `RemovalInvariant` |
| `heap` | pass | Callers that heed the five conditions, any order of plain, zeroed and aligned allocations and of frees, with expansion and contraction: `HeapTiled`, `IndexIsHoles`, `Coalesced`, `Backed`, `FewRetries`, the safety of `Allocator`, and the inductive invariant `HeapInvariant` |
| `heap_grow` | violation | Two callers get overlapping memory (`LiveDisjoint`) |
| `shared_heap` | pass | Two threads in `alloc` and `free`, step by step: the inductive invariant `SharedInvariant` |
| `heap_race` | violation | Two calls that overlap get the same memory (`NewlyAllocated`) |
| `frames_free` | violation | After one contraction the bitset is wrong (`FramesAccounted`) |
| `boot` | pass | `main()` up to running threads, with fifteen ends of the kernel image, then growth until frames run out, interrupts of five lines and all 32 exceptions at every step: `IdentityMapped`, `NoSharedFrame`, `FramesAccounted`, `ServiceEnds`, `PeriodRight`, that what leads the processor astray is among those `Misled` lists (`OnlyMisledAstray`), and under fairness `TickReachesSchedule` |
| `gates` | violation | An interrupt other than the timer is handled under another one's number (`NumberIsVector`) |
| `console` | pass | One thread that prints every number and moves the cursor in every way; two threads that print texts of different lengths for ever, or print against a panic or a `cls`: `TypeOK` (no read behind a buffer), `CursorRepaired`, `AloneShown` and the invariant behind it, `ShownInvariant`, `NumbersReadBack`, and that every call ends (`PrintReturns`) |
| `printk_mixed` | violation | A call of `printk` writes another call's characters (`PrintkWhole`) |

Further configurations settle smaller questions about what the code does
otherwise than it says.  TLC ends each of them in a counterexample:

| configuration | module | ends in |
|---|---|---|
| `ids_race.cfg` | `MCScheduler` | two creators cut between load and store of `next_tid`, and two threads with one id (`UniqueIds`) |
| `not_ready_self.cfg` | `MCThreadRemoval` | a thread that stopped itself and is queued again by the next tick (`NotReadyNotQueued`) |
| `heap_align.cfg` | `HeapInv` | an aligned block on a hole that stays in the index (`IndexIsHoles`) |
| `heap_coalesce.cfg` | `HeapInv` | a freed block that is in no hole of the index (`IndexIsHoles`) |
| `heap_last.cfg` | `HeapInv` | a block in use that cannot be freed without stopping the kernel (`Freeable`) |
| `heap_contract.cfg` | `HeapInv` | a heap that ends between two pages (`EndOnPage`) |
| `page_fault.cfg` | `Interrupts` | a page fault that does not get to its handler (`PageFaultHandled`) |

Bounds, and why they are enough:

* *Scheduler.* Four threads and four nodes: a current thread, a queue of three
  (a head, a middle node, a last one), and every one of them may be inside
  `thread_is_ready` with a pointer into the list, while the fourth is created.
  The interesting cases — the node a walk stopped at has become the current
  one, the head, or a middle one — need three nodes.  The proofs take the bound
  away.  Threads other than `Main` are symmetric, and so are nodes; symmetry is
  used for safety only.  `sched_fair` has the same four threads and nodes and no
  symmetry; two threads create the other two, so that one walks a list of up to
  two nodes while the other one appends to it and the timer turns it.
  `kmalloc` hands out its nodes in order there (`MCSchedulerFair`): no node is
  freed, so this leaves one behaviour of those that differ in names.
* *Thread removal.* One remover and three targets: head, middle and last
  position.  In `not_ready_self.cfg` the remover is among the targets.  `UniqueIds`
  is checked here because it needs a single creator.
* *Heap.* A page of 8 words; requests of 1 word and of 6 (with the 5 of
  overhead: less than a page, and more), so that a hole may be taken whole,
  split, or be too short for a rest; four blocks at a time, so that a block has
  neighbours on both sides, free or not; room to expand twice, as an aligned
  block may need, and to contract.  Sizes are kept modulo `WordModulus`, wide enough that nothing wraps.
  `CHECK_DEADLOCK FALSE`: the kernel stops in `panic`, and careful callers may
  have no call left.
* *Shared heap.* The same sizes, two threads with two blocks each (symmetric);
  while no calls overlap they are careful.  The proofs take the bounds away.
  `CHECK_DEADLOCK FALSE`: after an overlap no new call begins.
* *Paging and boot.* Pages of 8 addresses, 8 pages to a table, 18 frames in words
  of 4 bits (so that the last, partial word is never searched, as in the code), a
  heap of 3 pages that may grow to 14 (more than there are frames), and ends of
  the kernel at, before and behind page and table boundaries: for some of them
  the loop that maps memory allocates the table it needs and so lengthens its
  own way.  All 32 exceptions, and five lines of requests: the timer (0) and the
  keyboard (1), whose gates lead to the start of a stub and behind its first
  instruction, the lines 3 and 5, which go astray, and line 10 of the slave, which
  never gets back to a thread.  What leads astray or into a
  panic stops the kernel, where `boot` allows it to (`Stopped`).  The lines 8, 14
  and 15 are left out, because `ServiceEnds` is false for them; theorem
  `InterruptsReturn` has `OnlyMisledAstray` for all sixteen lines.
  The frequencies of `main.c` and of `readme.md`, and
  1000.  `CHECK_DEADLOCK FALSE`: the heap stops growing at its bound or in
  `panic`, and an exception ends in a panic.
* *Console.* A screen of 3 by 2 with tabs of 2: a text of a few characters wraps,
  scrolls, and meets a tab stop at, before and behind the last column.  Bytes
  are kept modulo 8, which `MON_WIDTH + TabStop` and `MON_HEIGHT` stay below, as
  80 + 8 and 25 do below 256.  Words of 5 bits: the most negative number and
  numbers of two digits in every base; fields wider than the number and
  narrower, precisions longer and shorter.  Buffers of 9 characters, just the
  longest text and its NUL, so that a store behind them would be seen.  Texts of
  up to three cursor movements one after the other.  Two threads are enough for
  a stale register and for a rewritten text: those that print for ever print
  a carriage return against a letter and a carriage return, so that each
  overwrites the NUL the other one is on its way to; two that end print a letter
  and a line against two letters on two lines.  `ConsoleProofs`
  takes these bounds away for every property but `PrintReturns`, which is a
  liveness property and only checked.  `CHECK_DEADLOCK FALSE`: programs end.

Fairness.  `Scheduler!Fairness`, used by `sched_fair`: the timer keeps
interrupting (weak fairness of `TimerIrq`: the 8253 runs in periodic mode), the
CPU does not stop inside a handler (weak fairness of `HandlerStep`), and a
thread that gets the CPU again and again completes its next step (strong
fairness of `OperationStep`: the step is disabled whenever another thread runs,
so weak fairness would not do; a slice is 50 ms, which is far more than an
instruction).  Nothing is assumed about a thread ever calling `create_thread`,
or ever exiting.  `Console!Spec`: weak fairness of every thread's step, which
`EveryThreadRuns` grants each ready thread.  `BootSpec`: weak fairness of the
kernel's own steps, and of the acceptance of a request that is let through
(the processor looks at its interrupt line after every instruction); no device
has to raise anything.

Each property of a passing run has a mutant: the definition a plausible slip in
the code would change (a `while` turned into an `if`, a missing
`current_thread->next = 0`, frames taken before memory is mapped, ...).  The
mutated forms stand in front of the definitions they replace, with a comment
that begins "Mutation:".

## 4. The proofs

### The scheduler

`SchedulerProofs` proves, for any finite sets of threads and nodes and any set
of creators, from `SchedulerAssumption` alone (`Main` is a thread, creators are
threads, the sets are finite, `NULL` is neither a thread nor a node):

| theorem | states |
|---|---|
| `RingInvariant` | `Spec => []IInv` |
| `TypeCorrect` | `Spec => []TypeOK`, with it: no step dereferences NULL |
| `ReadyListCorrect` | `Spec => []ReadyListWellFormed` |
| `NoThreadIsLost` | `Spec => []NoThreadLost` |
| `ContextsCorrect` | `Spec => []ContextsResumable` |
| `IdsUnique` | at most one creator: `Spec => []UniqueIds` |

*Why an invariant is needed.* None of the properties is inductive.  That
`NoThreadLost` survives `AppendItem` depends on where the interrupted caller's
`iterator` points after any number of rotations.  The invariant of
`SchedulerInv` describes the list as a **ring**: the current node followed by
the nodes of the queue.  `schedule` turns the ring by one place and changes
nothing else.  A thread that has walked to the end of the list did so while it
was running, so the node it stands at is the one *before its own* in the ring;
while it is not running, nobody can be appended between the two, because
appending happens at the end of the list, which is in front of the running
thread's node.  So when the thread runs again and writes `iterator->next`, it
again writes to the last node of the list (`InsertInv`).  A thread that found
the queue empty is still alone when it sets the head, since with an empty queue
`schedule` never switches.  Around this stand the facts that tie nodes to
threads (`CurrentInv`, `NodesInv`), queued threads to contexts (`ContextInv`),
the handler to the interrupt flag (`InterruptInv`), a creation to its caller
(`CreationInv`) and every thread to its place (`NoneLostInv`).

The proof has one lemma per action (`...Step`: `IInv` and the action give
`IInv'`), each giving the list after the step as a witness: the same list for
most, the list with one more node for the two inserting steps (`InsertStep`),
the list turned by one for `ScheduleSwitch`.  `sched_safety` checks `IInv`
itself as an invariant too.  `IdsUnique` needs its assumption: with two creators
`UniqueIds` fails (section 5).

### The round robin

`SchedulerProofs` also proves `ImplementsRoundRobin`: every step of the kernel,
seen as the sequence of waiting threads and the running one, is a step of
`RoundRobin` or leaves both alone.  The sequence is what following the list
yields (`Chain`, a recursive function), so the proof has to know what that
function computes, for lists of any length.  It does so in two halves
(`ChainIsList`): the list as `IInv` gives it solves the recursion, so there is a
solution; and no other one exists, because the least place where two solutions
differ would come right behind a place where they agree.  The least-number
principle (`LeastNumber`) comes from the library's theorem that `<` is
well-founded on the naturals.  From there on `Listed` of a ring is a sequence
whose elements are known one by one (`ListedIsSequence`), and each action's
effect on the ring, of which there is a witness already, becomes the effect
on the sequence: an insertion appends, a turn moves the running thread to the
end and takes the head, everything else stutters.

### Thread removal

`RemovalProofs` proves `RemovalKeepsTheList`, `NothingDangles` and
`StoppedStaysStopped` under `OneCaller`: one thread, `Main`, creates, stops and
wakes; the timer cuts it anywhere.  The kernel itself calls `thread_not_ready`
nowhere, and with two callers the list breaks (hazard at `scheduler.c:49`).
The ring lemmas of `SchedulerProofs` are stated with a set `out` of threads the
ring does not account for: empty for the scheduler alone, the stopped threads
here.  The search of `thread_not_ready` holds pointers into a ring that turns
under it, and what it knows cannot be said of places in the list, since they
change at every tick.  `SearchInv` says it of the *cyclic order*: going round
from the caller's own node, the node reached so far comes before the node
looked for; turning the ring keeps that (`Turned`).  When the search has ended,
it holds the node and the nodes before and behind it in the cyclic order, but
for the caller's own, which is never in the queue while the caller runs: there
it holds NULL, as the code does at the ends of the list.

### The heap

`HeapProofs` proves, for any size of page, index, heap and word, any lengths and
any number of blocks:

| theorem | states |
|---|---|
| `HeapInvariantHolds` | `CallerSpec => []HeapInvariant` |
| `HeapTiledHolds`, `IndexIsHolesHolds`, `CoalescedHolds` | the properties of these names |
| `HeapBacked`, `FewRetriesHold` | `Backed`, `FewRetries` |
| `LiveDisjointHolds` | `LiveDisjoint`, which `heap_grow` refutes for other callers |
| `HeapTypes` | `TypeOK`, with it: the index never outgrows its room |
| `ImplementsAllocator` | `CallerSpec => AllocatorSpec`, which is a safety property |

*Hypotheses.* `Liberties = {}`: callers heed the five conditions of
`HeapCallers`.  They are conditions on the state a call finds, so they say
nothing about the state it leaves; that is what is proved.  Without any one of
them a theorem is false, as the runs of the table above show.  `Modest`: a length asked for does not wrap
when the overhead is added (hazard at `heap.c:227`).  `HeapTypes` also asks for
fewer blocks at a time than the index has entries.  `HeapAssumption` and
`LayoutAssumption` say what the code's constants satisfy: in bytes, a page of
0x1000, an index of 0x20000 entries, 0x100000 for index and heap at first, of
which the heap has 0x7F000, and a minimum of 0x70000: all multiples of the page,
and the heap begins with its minimum size or more.

*The invariant.* That a block is long enough, or that the index is exact, is not
inductive: `free` finds the neighbours by following sizes and footers, so what
it does is only right if *every* header in the way is the right one.
`HeapInvariant` says it of a set of blocks that tile the heap (`Tiling`): each
begins where another ends.  The footers follow (`Footed`): of an allocated block
it names the block, of a hole it merely exists, since uniting to the right leaves
a stale pointer there, and the last hole need not have one at all, since
`init_heap` writes none.  `NoneBefore` keeps `free` from finding a footer in
front of the first block.  The rest relates the tiling to the index (`Indexed`),
to the callers (`Owned`), and holes to each other (`United`).  Stale headers in
holes and blocks are in the model and do no harm: nothing leads there.

*The argument.* Every call rewrites one stretch of the heap, and leaves headers
and footers outside of it alone (`Same`).  Lemma `Retiled`: new blocks that tile
the stretch give, with the old ones outside, a tiling of the heap; `Rebuilt` adds
footers, index and callers.  What remains per call is to name the stretch and
its new blocks: the end for `expand` (`GrowOK`), the hole for `alloc`, cut up in
one of three ways (`PlaceWhole`, `PlaceFront`, `PlacePage`, each in turn a few
writes), and for `free` the blocks from the hole in front of the freed one to the
hole behind it, which become one hole (`LeftOK`, `RightOK`, `Contracts`, `FreeOK`,
following the stages of the code).  While a request waits for its turn, `RequestInv`
says that the last hole is long enough for it once the heap has grown, and that
the place an aligned block will get leaves holes on both sides; an expansion adds
at least what is asked for, so a second one makes up for any distance to the page
boundary (`AlignedFits`), and this is `FewRetries`.  `BlocksAre` shows that the set `Blocks` of
the properties, a recursive function over addresses, is the tiling.  The index
has room (`FewHoles`) because behind each hole is a block in use or the end of
the heap, which maps holes one to one to blocks.  The pages `contract` gives
back lie behind the new end, and those `expand` asks for reach from the old end
to the new one (`ContractCovers`, `ExpandCovers`).

### Threads that share the heap

`HeapProofs` is about one call at a time, each of them one step.
`SharedHeapProofs` proves when that is right, for any number of threads that
are in `alloc` and `free` a step at a time:

| theorem | states |
|---|---|
| `SharedInvariantHolds` | `CarefulSpec => []SharedInvariant` |
| `NewUntilOverlap` | up to the first overlap (`alone # {}`), `NewlyAllocated` |

The only hypothesis is `Modest` (above); `CarefulSpec` has the callers heed the
conditions of `HeapCallers` as long as no calls overlap, and lets them do
anything afterwards.  `heap_race` shows that `NewlyAllocated` fails after an
overlap, `NewUntilOverlap` that it takes one.

*The invariant.* Between two calls the heap is in order (`HeapOK`, the invariant
of `HeapProofs`, for the blocks the threads hold), and every block is in one
pair of hands.  Within a call nothing of the kind is true: a header stands
without its footer, a hole is in no index.  There the invariant names the heap
`h` the call began with, which is in order, and says for each place of the
thread what the steps so far have made of `h`: `Headed`, `Blocked`,
`RestHeaded`, `RestFooted` and `Allocated` for `alloc`, the stages of `Freed` for
`free`, and for the search that no hole it has passed fits.  At the last place
this is what `Heap` computes from `h` in one go (`PlacedIs`).

*The argument.* Search and lookup together are `FindHole` (`FirstFit`); removing
the hole by the place the lookup found is removing it by its address, because
the index has each hole once (`RemovesAt`).  `alloc` starts over after an
expansion, with the heap in order again (`GrowFits`: and now a hole does fit,
so the second search does not fail).  When a call returns, that the heap is in
order is what `HeapProofs` says of the one step it amounts to.

### Paging, interrupts, boot

`PagingProofs`: `PagingTypes`, `FramesNotShared`, `BitsetExact` and
`MemoryMapped` for `GrowingSpec` (init_paging, then a heap that grows), with any
page size, table size, number of frames and end of the kernel image.
`PagingAssumption` says what the code's constants satisfy; the assumption that
matters is `nframes <= FirstHeapPage`: physical memory (16 MB) does not reach up
to the page at which the heap is mapped (0xC0000000), so the identity mapping
and the heap never want the same page.  The invariant is that in the identity
loop frame and page go in step: the pages mapped are exactly `0..i-1`, and so
are the frames in use, so the lowest free frame *is* the number of the page
(`IdentityInv`); this is why the order "map memory, then give the heap frames"
works, and the mutant that swaps it does not.  A heap that contracts is left
out, since then `FramesAccounted` is false (section 5).

`BootProofs` has three theorems of `InterruptSpec`.  `InterruptsReturn`, for all
requests and exceptions there are: where the processor is astray, the interrupt
is one of `Misled`; and that list is exact (`MisledIs`: of the exceptions those
and no others are lost, of the requests those and no others come with a frame
that is not whole).  The page fault is in it (section 5).  `InterruptsAcknowledged`, for requests other than the lines 8, 14
and 15: `ServiceEnds`.  These three are the lines of the slave whose gates lead
to a whole frame behind the stub of a line of the *master*, so that the slave is
not told and keeps them in service; the other five lines of the slave never get
back to a thread.  `TimerPeriod`: `PeriodRight`.  The table of the stubs'
addresses is itself computed in the proof, from the lengths of their instructions
(`IrqStarts`, `IsrStarts`), and from it where each gate leads (`IrqGate`,
`IsrGate`).

It then composes the two: `BootGrows` and `BootTakesInterrupts` show that
`BootSpec` is, seen from either part, a behaviour of the part; so what is proved
of the parts holds of the kernel from its first instruction on (`BootSafe`): of
any kernel, with the acknowledgement as the only conjunct that has the condition
on lines.

### The console

`ConsoleProofs` proves, for any number of threads and any programs:

| theorem | states |
|---|---|
| `CursorComesBack` | `Spec => []CursorRepaired` |
| `ConsoleTypes` | `Spec => []TypeOK`, with it: no read or store behind a buffer |
| `NumbersAreReadBack` | `Spec => []NumbersReadBack` |
| `ShownInvariantHolds` | `Spec => []ShownInvariant` |
| `AloneIsShown` | `Spec => []AloneShown` |

`ConsoleAssumption`: the screen is not empty and fits into the bytes the cursor
is kept in.  `CallersAssumption`: what is formatted, with its NUL, fits the
buffer.  `vsprintf` has no bound of its own, so this is up to its callers;
`CursorComesBack` does not need it.  `LinesAssumption`: the two lines `_panic`
writes around its message are strings of C, which have no NUL but the last.

*The cursor* leaves the screen — and it does, for a moment, at every end of a
line — only while a thread stands at the step that will bring it back, and
nobody can take that thread's step away.  The point of the proof is that it does
not matter what the thread finds in its stale registers: a coordinate behind the
end is stored only by a thread that goes on to correct it (lemmas `StoreStep`,
`CorrectStep`), a thread that only loads was not about to correct anything
(`LoadStep`), and a correction stores a constant.  Lemma `Repairs` is the common
core, one lemma per group of actions applies it; the invariant adds to
`CursorRepaired` no more than which fields a thread has.

*The buffers.* What a thread reads may have been replaced by another thread's
text between any two characters, so the invariant cannot say what stands in the
buffer, nor even that the text a thread is in still ends where it did.  What it
can say is that the last place of a buffer is never given anything but a NUL
and that a thread that has got as far as a NUL stops there (`TypeInv`).

*The numbers.* `VsprintfProofs` proves of `number` alone that reading its text
gives back the number (`NumberIsWritten`), for every even `WordModulus`, every
conversion, width, precision and set of flags.  The digits are computed by a recursive function; as for `Chain`, what it
yields is found by showing that the digits solve the recursion and that there
is only one solution.  Reading is the reverse recursion, and padding changes
neither: zeros in front do not change the value, blanks are skipped, and the
field is as wide as asked for or as long as the number.

*The text on the screen.*  `AloneShown` speaks of a thread that is between two
characters, and compares the screen with a page folded over the whole text; the
proof goes one character at a time.

* The page of a text with one more character is one character typed on the page
  of the text (`PageNext`).  `PageWith` is a recursive function over the text;
  like `Chain` and the digits it is read off from a solution of the recursion
  and its uniqueness (`PageRead`).
* `ShownInvariant` says which of the two pages each variable already agrees
  with at every place inside `putch` (`Typing`): the cells follow the character
  at `cell`, or are those of both pages; `cursor_x` and `cursor_y` move on one
  after the other; from `wrap_x` to `scroll` the screen shows the next page from
  the line it showed the last one from.  Each step of `putch` keeps it
  (`LoadYTyping` to `CsrTyping`).
* `scroll` moves the window on by a line (`WindowMoves`).  It clears the last
  line, and so this holds only if nothing stands on the page below the window
  (`Ends`), which every character preserves (`TypedKeeps`).
* Behind the cell the next page is shown with the cursor where `NewX` leaves
  it, a byte that does not wrap because `MON_WIDTH + TabStop` stays below
  `ByteModulus` (`NextIs`).
* Around `putch`: `vsprintf` has stored the text as far as it has come
  (`FormatFollows`), `screen_write` reads a string with its NUL (`WriteNext`,
  `AtNul`), and `_panic` starts its next line on the page its last one has led
  to (`WriteFollows`).
* A call begins with the cursor on the screen because no other thread is under
  way, which is `CursorRepaired` (`EnterFollows`); so the invariant is inductive
  only together with the theorem above.  As soon as another call begins,
  `alone` is empty and nothing is claimed.

### Only model-checked

Liveness (`EveryThreadRuns`, `CreationCompletes`, `PrintReturns`,
`TickReachesSchedule`, and the fairness of `RoundRobinSpec`), which needs
`ENABLED`.  Every invariant that a passing run checks is a theorem.

## 5. What the code does otherwise than it says

Each is an entry of "findings" in `PROJECT.json` with the sentence it
contradicts.  TLC finds each of these in the run or the configuration named:

1. `heap.c:269` — room won by expanding is added to the hole with the highest
   address even when blocks lie behind it; memory in use is handed out again
   (`heap_grow`).
2. `heap.c:230` — a hole is found and taken in separate steps with interrupts
   on: two threads that allocate get one block (`heap_race`).
3. `heap.c:383` — uniting with the hole behind leaves that hole's footer
   pointing at a header that no longer counts; freeing the next block follows
   it and loses memory (`heap_coalesce.cfg`).
4. `heap.c:383` — `free` reads the header behind the block also when the block
   ends the heap: a page fault, or a failed assertion when an old header lies
   there (`heap_last.cfg`).
5. `heap.c:294` — an aligned block in a hole whose header is one of the last
   words of a page: the hole in front has no room and its address stays in the
   index (`heap_align.cfg`).
6. `heap.c:189` — `contract` masks with `0x1000`, one bit, and can leave the heap
   with an unaligned end and a dead hole in the index (`heap_contract.cfg`).
7. `paging.c:118` — `free_frame` gives `clear_frame` a frame number where it
   wants an address: the frame is never free again and frame 0 becomes free
   (`frames_free`).
8. `system.c:95` — two threads in `printk` share one buffer and print each
   other's text (`printk_mixed`); `docs/tinyos-thread-example.png` shows lines
   repeated and missing.
9. `descriptor_tables.c:106` — the gates lie bytes apart, not stubs: every
   interrupt but the timer's and every exception but 0 enters the stub of
   another one, or the middle of an instruction (`gates`);
   `docs/tinyos-unhandle-int-example.png` shows a wrong number.  Most lines of
   the slave controller go astray, and it is never told that they are done.
10. `paging.c:158` — the page fault is one of those that go astray, so its
    handler is never reached (`page_fault.cfg`).
11. `thread.c:51` — `next_tid++` is a load and a store: two creators can get one
    id (`ids_race.cfg`).
12. `scheduler.c:61` — `thread_not_ready` does nothing for the running thread,
    which the next tick queues again (`not_ready_self.cfg`).

Met while modelling, not checked:

* `system.c:134` — `_panic` says it halts the system; only the thread that calls
  it spins, the others go on and print over the message.
* `vsprintf.c:123` — a `*` for width or precision is not stepped over and is
  then taken for the conversion.

## 6. What is not modelled

Assumptions of the modules:

* `kmalloc` and `kfree` called by the scheduler are one step and succeed.
  `SharedInvariantHolds` justifies the one step for calls that do not overlap,
  and `heap_race` shows what happens to those that do: the scheduler's
  properties say nothing about a kernel whose heap two threads have broken.
* `Heap` runs one call at a time, and what callers write into their memory
  never looks like a header or footer of the heap.
* Pages that `contract` gives up keep their contents and stay present (the
  code does not clear the present bit); they are not reused in `Heap` by
  anybody else.
* Page tables needed by `Expand` in `Paging` come from the heap and are not
  accounted for as heap memory.  A table is needed at every fourth megabyte of
  heap only.
* `frames` is the set of marked frames; that the bitset has room for a quarter
  of them only, and the rest of the bits lie in memory nobody reserved, is
  listed as a hazard and not modelled.
* Registers other than `esp` and `eflags`, and the contents of stacks, have no
  part in the control and are left out; so are the read/write and user bits of
  a page.
* Video memory below the last line is written by threads that have been cut at
  the wrong place; it is not seen and not modelled.
* Frequencies of the timer are at least 19 Hz (`InterruptAssumption`): the
  divisor of a lower one loses its upper bits on the way to the chip.
* `%n` writes no text; its store to the caller's memory is left out.
* The number of ticks is counted and read by nothing.

Left out:

* *GDT*: five flat segments, the same for all code; it has no behaviour.
* *Keyboard*: not among the Makefile's objects, called by nothing, and itself
  calling `screen_write_at`, which does not exist: no kernel contains it.
* *System library*: port input and output, `memset`, `bzero` and `strlen` are
  single instructions or loops and appear as their effect.
* *`thread_not_ready` from two threads at once*: the kernel calls it nowhere;
  one caller that stops and wakes others is modelled.
* *Build files, multiboot header, section layout*.

## 7. The plan

Done: all components the kernel is built from, as far as the last section does
not say otherwise, and the theorems of section 4.

Left for larger models: `Heap` and `Paging` composed, with `expand` taking a
page table from the heap that grows; `ThreadRemoval` with two callers.
