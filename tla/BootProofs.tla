----------------------------- MODULE BootProofs -----------------------------
(***************************************************************************)
(* Interrupts of any mix of requests and exceptions: which gates lead      *)
(* astray, and that no other does; and that a request is acknowledged      *)
(* before a thread runs again, if its stub is not another's that does not  *)
(* tell the slave.  And the kernel from boot to running threads does, seen *)
(* from its parts, what each part does by itself; so what is proved of the *)
(* parts holds of it.                                                      *)
(***************************************************************************)
EXTENDS BootSequence, PagingProofs

CpuShape ==
  cpu = [at |-> cpu.at, vector |-> cpu.vector, frame |-> cpu.frame, int_no |-> cpu.int_no]

(* Interrupts wait until main() has set up everything; the gates are there *)
(* before.                                                                 *)
BootInv ==
  /\ cpu.at = "main" <=> main # "threads"
  /\ main = "init_descriptor_tables" \/ gates = [v \in Vectors |-> Gate(v)]

(* What is astray has been misled, and what returns to a frame that is not *)
(* whole will be.                                                          *)
MisledInv ==
  /\ OnlyMisledAstray
  /\ cpu.at \in {"irq_handler", "schedule", "iret"} /\ cpu.frame # "whole" => cpu.vector \in Misled

IntInv ==
  /\ InterruptTypeOK /\ CpuShape
  /\ BootInv /\ MisledInv /\ PeriodRight

(* The lines of the slave whose gates lead to a whole frame, behind the    *)
(* stub of a line of the master.                                           *)
SlaveLines == {8, 14, 15}

(* One interrupt is in service until its handler has told the controllers, *)
(* unless it never returns to a thread.                                    *)
ServiceInv ==
  /\ cpu.at \in {"main", "thread", "schedule"} => isr = {}
  /\ cpu.at = "irq_handler" =>
       \/ \E n \in 0..7 : isr = {n}
       \/ cpu.frame # "whole" /\ cpu.int_no # IRQ0
  /\ cpu.at = "irq_handler" => cpu.int_no \in Vectors
  /\ cpu.at = "iret" => isr = {} \/ cpu.frame # "whole"
  /\ handlers = [n \in Vectors |-> handlers[n]]
  /\ \A n \in Vectors : handlers[n] = "timer_callback" => n = IRQ0

-----------------------------------------------------------------------------
(* Where the gates lead                                                    *)

(* A table of where the stubs start satisfies the equation that defines    *)
(* Starts, so Starts satisfies it as well.                                 *)
LEMMA StartsEquation ==
  ASSUME NEW stubs, NEW f,
         f = [n \in DOMAIN stubs |-> IF n = 0 THEN 0 ELSE f[n - 1] + Length(stubs[n - 1])]
  PROVE  Starts(stubs) =
           [n \in DOMAIN stubs |->
              IF n = 0 THEN 0 ELSE Starts(stubs)[n - 1] + Length(stubs[n - 1])]
<1> DEFINE P(g) == g = [n \in DOMAIN stubs |->
                          IF n = 0 THEN 0 ELSE g[n - 1] + Length(stubs[n - 1])]
<1>1. P(f)
  OBVIOUS
<1>2. P(CHOOSE g : P(g))
  BY <1>1
<1> QED
  BY <1>2 DEF Starts

(* All stubs of IRQs are 7 bytes long.                                     *)
LEMMA IrqStarts ==
  /\ DOMAIN IrqStubs = Lines
  /\ \A n \in Lines : Length(IrqStubs[n]) = 7
  /\ \A n \in Lines : IrqStubs[n].pushes = 2
  /\ \A n \in Lines : Starts(IrqStubs)[n] = 7 * n
<1> DEFINE f == [n \in Lines |-> 7 * n]
<1>1. /\ DOMAIN IrqStubs = Lines
      /\ \A n \in Lines : IrqStubs[n].pushes = 2 /\ Length(IrqStubs[n]) = 7
  BY DEF IrqStubs, Length
<1>2. f = [n \in DOMAIN IrqStubs |->
             IF n = 0 THEN 0 ELSE f[n - 1] + Length(IrqStubs[n - 1])]
  <2>1. ASSUME NEW n \in Lines, n # 0
        PROVE  n - 1 \in Lines /\ 7 * n = 7 * (n - 1) + 7
    BY <2>1 DEF Lines
  <2> QED
    BY <1>1, <2>1
<1> HIDE DEF f
<1>3. ASSUME NEW n \in Lines
      PROVE  Starts(IrqStubs)[n] =
               IF n = 0 THEN 0 ELSE Starts(IrqStubs)[n - 1] + 7
  <2>1. Starts(IrqStubs)[n] =
          IF n = 0 THEN 0 ELSE Starts(IrqStubs)[n - 1] + Length(IrqStubs[n - 1])
    BY <1>1, <1>2, StartsEquation
  <2>2. n # 0 => n - 1 \in Lines
    BY DEF Lines
  <2> QED
    BY <1>1, <2>1, <2>2
<1>4. /\ Starts(IrqStubs)[0] = 0   /\ Starts(IrqStubs)[1] = 7
      /\ Starts(IrqStubs)[2] = 14  /\ Starts(IrqStubs)[3] = 21
      /\ Starts(IrqStubs)[4] = 28  /\ Starts(IrqStubs)[5] = 35
      /\ Starts(IrqStubs)[6] = 42  /\ Starts(IrqStubs)[7] = 49
  BY <1>3 DEF Lines
<1>5. /\ Starts(IrqStubs)[8] = 56  /\ Starts(IrqStubs)[9] = 63
      /\ Starts(IrqStubs)[10] = 70 /\ Starts(IrqStubs)[11] = 77
      /\ Starts(IrqStubs)[12] = 84 /\ Starts(IrqStubs)[13] = 91
      /\ Starts(IrqStubs)[14] = 98 /\ Starts(IrqStubs)[15] = 105
  BY <1>3, <1>4 DEF Lines
<1> QED
  BY <1>1, <1>4, <1>5 DEF Lines

(* The exceptions' stubs up to the fourth are 10 bytes long, and the       *)
(* offsets of the exceptions lie in these.                                 *)
LEMMA IsrStarts ==
  /\ DOMAIN IsrStubs = 0..14
  /\ \A n \in 0..7 : IsrStubs[n].pushes = 2 /\ Length(IsrStubs[n]) = 10
                     /\ Starts(IsrStubs)[n] = 10 * n
  /\ \A n \in 8..14 : Starts(IsrStubs)[n] \in Nat /\ Starts(IsrStubs)[n] >= 80
<1> DEFINE f == [n \in 0..14 |-> IF n <= 8 THEN 10 * n ELSE IF n = 9 THEN 88
                                 ELSE 98 + 8 * (n - 10)]
<1>1. /\ DOMAIN IsrStubs = 0..14
      /\ \A n \in 0..14 : IsrStubs[n].pushes = IF n \in WithErrorCode THEN 1 ELSE 2
      /\ \A n \in 0..14 : Length(IsrStubs[n]) = IF n \in WithErrorCode THEN 8 ELSE 10
  BY DEF IsrStubs, Length
<1>2. f = [n \in DOMAIN IsrStubs |->
             IF n = 0 THEN 0 ELSE f[n - 1] + Length(IsrStubs[n - 1])]
  <2>1. ASSUME NEW n \in 0..14, n # 0
        PROVE  n - 1 \in 0..14 /\ f[n] = f[n - 1] + Length(IsrStubs[n - 1])
    BY <1>1, <2>1 DEF WithErrorCode
  <2>2. f[0] = 0
    OBVIOUS
  <2> HIDE DEF f
  <2>3. \A n \in 0..14 : f[n] = IF n = 0 THEN 0 ELSE f[n - 1] + Length(IsrStubs[n - 1])
    BY <2>1, <2>2
  <2>4. f = [n \in 0..14 |-> f[n]]
    BY DEF f
  <2> QED
    BY <1>1, <2>3, <2>4
<1> HIDE DEF f
<1>3. ASSUME NEW n \in 0..14
      PROVE  Starts(IsrStubs)[n] =
               IF n = 0 THEN 0 ELSE Starts(IsrStubs)[n - 1] + Length(IsrStubs[n - 1])
  <2>1. Starts(IsrStubs) = [m \in DOMAIN IsrStubs |->
          IF m = 0 THEN 0 ELSE Starts(IsrStubs)[m - 1] + Length(IsrStubs[m - 1])]
    BY <1>2, StartsEquation
  <2> QED
    BY <1>1, <2>1
<1>4. /\ Starts(IsrStubs)[0] = 0  /\ Starts(IsrStubs)[1] = 10
      /\ Starts(IsrStubs)[2] = 20 /\ Starts(IsrStubs)[3] = 30
      /\ Starts(IsrStubs)[4] = 40 /\ Starts(IsrStubs)[5] = 50
      /\ Starts(IsrStubs)[6] = 60 /\ Starts(IsrStubs)[7] = 70
      /\ Starts(IsrStubs)[8] = 80
  BY <1>1, <1>3 DEF WithErrorCode
<1>5. /\ Starts(IsrStubs)[9] = 88  /\ Starts(IsrStubs)[10] = 98
      /\ Starts(IsrStubs)[11] = 106 /\ Starts(IsrStubs)[12] = 114
      /\ Starts(IsrStubs)[13] = 122 /\ Starts(IsrStubs)[14] = 130
  BY <1>1, <1>3, <1>4 DEF WithErrorCode
<1> QED
  BY <1>1, <1>4, <1>5 DEF WithErrorCode

(* Seven bytes further on starts the next of the IRQs' stubs.  The gate    *)
(* leads to a whole frame from the first byte and the second, and is lost  *)
(* or skewed from the others.                                              *)
LEMMA IrqGate ==
  ASSUME NEW n \in Lines
  PROVE  /\ Gate(32 + n).int_no = 32 + (n \div 7)
         /\ Gate(32 + n).frame = "whole" <=> n % 7 \in {0, 1}
         /\ Gate(32 + n).frame \in {"whole", "skewed", "lost"}
<1> DEFINE k == n \div 7
<1>1. k \in 0..2 /\ n = 7 * k + (n % 7) /\ n % 7 \in 0..6 /\ n \in 0..15
  BY DEF Lines
<1> HIDE DEF k
<1>2. k \in DOMAIN IrqStubs /\ Holds(IrqStubs, k, n)
  BY <1>1, IrqStarts DEF Holds, Lines
<1>3. ASSUME NEW j \in DOMAIN IrqStubs, Holds(IrqStubs, j, n) PROVE j = k
  <2>1. j \in 0..15 /\ 7 * j <= n /\ n < 7 * j + 7
    BY <1>3, IrqStarts DEF Holds, Lines
  <2> QED
    BY <1>1, <2>1
<1>4. (CHOOSE j \in DOMAIN IrqStubs : Holds(IrqStubs, j, n)) = k
  BY <1>2, <1>3
<1>5. IrqStubs[k].pushes = 2 /\ IrqStubs[k].number = 32 + k /\ n - Starts(IrqStubs)[k] = n % 7
  <2>1. IrqStubs[k].pushes = 2 /\ Starts(IrqStubs)[k] = 7 * k /\ k \in Lines
    BY <1>2, IrqStarts
  <2>2. IrqStubs[k].number = 32 + k
    BY <2>1 DEF IrqStubs
  <2> QED
    BY <1>1, <2>1, <2>2
<1>6. Gate(32 + n) = Entered(IrqStubs[k], n % 7, 0)
  <2>1. Gate(32 + n) = Landing(IrqStubs, n, 0)
    BY DEF Gate, Lines
  <2>2. Landing(IrqStubs, n, 0) = Entered(IrqStubs[k], n - Starts(IrqStubs)[k], 0)
    BY <1>4 DEF Landing
  <2> QED
    BY <1>5, <2>1, <2>2
<1> DEFINE s == IrqStubs[k]
           byte == n % 7
<1> HIDE DEF s, byte
<1>7. s.pushes = 2 /\ s.number = 32 + k /\ byte \in 0..6 /\ byte = n % 7
  BY <1>1, <1>5 DEF s, byte
<1>8. /\ Entered(s, byte, 0).int_no = 32 + k
      /\ Entered(s, byte, 0).frame = "whole" <=> byte \in {0, 1}
      /\ Entered(s, byte, 0).frame \in {"whole", "skewed", "lost"}
  <2> DEFINE done == IF byte <= 1 THEN 0 ELSE (byte - 1) \div 2
             lost == (byte > 1 /\ byte % 2 = 0) \/ done >= s.pushes
             words == 0 + s.pushes - done
             frame == IF lost THEN "lost" ELSE IF words = 2 THEN "whole" ELSE "skewed"
  <2>1. Entered(s, byte, 0) = [frame |-> frame, int_no |-> s.number]
    BY DEF Entered
  <2>2. (~lost /\ words = 2) <=> byte \in {0, 1}
    BY <1>7
  <2> HIDE DEF lost, words
  <2>3. frame \in {"whole", "skewed", "lost"} /\ (frame = "whole" <=> ~lost /\ words = 2)
    OBVIOUS
  <2> QED
    BY <1>7, <2>1, <2>2, <2>3
<1> QED
  BY <1>6, <1>7, <1>8 DEF k, s, byte

(* The gates of the exceptions enter the first four stubs, ten bytes long: *)
(* they are lost but from the first two bytes and the fourth.              *)
LEMMA IsrGate ==
  ASSUME NEW v \in 0..31
  PROVE  Gate(v).frame = "lost" <=> v % 10 \notin {0, 1, 3}
<1> DEFINE k == v \div 10
           pushed == IF v \in WithErrorCode THEN 1 ELSE 0
<1>1. k \in 0..3 /\ v = 10 * k + (v % 10) /\ v % 10 \in 0..9
  OBVIOUS
<1> HIDE DEF k, pushed
<1>2. k \in DOMAIN IsrStubs /\ Holds(IsrStubs, k, v)
  BY <1>1, IsrStarts DEF Holds
<1>3. ASSUME NEW j \in DOMAIN IsrStubs, Holds(IsrStubs, j, v) PROVE j = k
  <2>1. j \in 0..14
    BY <1>3, IsrStarts
  <2>2. j \in 0..7
    <3>1. Starts(IsrStubs)[j] <= v /\ ~(v >= 80)
      BY <1>3 DEF Holds
    <3>2. j \in 8..14 => Starts(IsrStubs)[j] \in Nat /\ Starts(IsrStubs)[j] >= 80
      BY IsrStarts
    <3> QED
      BY <2>1, <3>1, <3>2
  <2>3. 10 * j <= v /\ v < 10 * j + 10
    BY <1>3, <2>2, IsrStarts DEF Holds
  <2> QED
    BY <1>1, <2>2, <2>3
<1>4. (CHOOSE j \in DOMAIN IsrStubs : Holds(IsrStubs, j, v)) = k
  BY <1>2, <1>3
<1>5. IsrStubs[k].pushes = 2 /\ v - Starts(IsrStubs)[k] = v % 10
  BY <1>1, IsrStarts
<1>6. Gate(v) = Entered(IsrStubs[k], v % 10, pushed)
  <2>1. Gate(v) = Landing(IsrStubs, v, pushed)
    BY DEF Gate, pushed
  <2>2. Landing(IsrStubs, v, pushed) = Entered(IsrStubs[k], v - Starts(IsrStubs)[k], pushed)
    BY <1>4 DEF Landing
  <2> QED
    BY <1>5, <2>1, <2>2
<1> DEFINE s == IsrStubs[k]
           byte == v % 10
<1> HIDE DEF s, byte
<1>7. s.pushes = 2 /\ byte \in 0..9 /\ byte = v % 10
  BY <1>1, <1>5 DEF s, byte
<1>8. Entered(s, byte, pushed).frame = "lost" <=> byte \notin {0, 1, 3}
  <2> DEFINE done == IF byte <= 1 THEN 0 ELSE (byte - 1) \div 2
             lost == (byte > 1 /\ byte % 2 = 0) \/ done >= s.pushes
             words == pushed + s.pushes - done
             frame == IF lost THEN "lost" ELSE IF words = 2 THEN "whole" ELSE "skewed"
  <2>1. Entered(s, byte, pushed) = [frame |-> frame, int_no |-> s.number]
    BY DEF Entered
  <2>2. lost <=> byte \notin {0, 1, 3}
    BY <1>7
  <2> HIDE DEF lost, words
  <2>3. frame = "lost" <=> lost
    OBVIOUS
  <2> QED
    BY <2>1, <2>2, <2>3
<1> QED
  BY <1>6, <1>7, <1>8 DEF s, byte

(* Which of them are misled.                                               *)
LEMMA MisledIs ==
  /\ \A v \in 0..31 : Gate(v).frame = "lost" <=> v \in Misled
  /\ \A n \in Lines : Gate(32 + n).frame # "whole" <=> 32 + n \in Misled
  /\ \A v \in Vectors : Gate(v).frame # "absent"
<1>1. ASSUME NEW v \in 0..31 PROVE v \in Misled <=> v % 10 \notin {0, 1, 3}
  BY DEF Misled, Lines
<1>2. ASSUME NEW n \in Lines PROVE 32 + n \in Misled <=> n % 7 \notin {0, 1}
  BY DEF Misled, Lines
<1>3. ASSUME NEW v \in Vectors PROVE Gate(v).frame # "absent"
  BY DEF Gate, Landing, Entered
<1> QED
  BY <1>1, <1>2, <1>3, IsrGate, IrqGate

-----------------------------------------------------------------------------
(* A divisor fits the two bytes that are sent.                             *)
LEMMA SentWhole ==
  ASSUME NEW d \in 0..MaxReload
  PROVE  Sent(d) = d
<1>1. d \in Nat /\ d \div 256 \in 0..255 /\ d = 256 * (d \div 256) + (d % 256)
  BY SMT DEF MaxReload
<1>2. (d \div 256) % 256 = d \div 256
  BY SMT, <1>1
<1> QED
  BY SMT, <1>1, <1>2 DEF Sent

LEMMA DivisorFits ==
  ASSUME NEW freq \in Freqs
  PROVE  LET d == BaseFrequency \div freq IN
           /\ d \in 0..MaxReload /\ Sent(d) = d
           /\ d * freq <= BaseFrequency /\ BaseFrequency < (d + 1) * freq
<1> DEFINE d == BaseFrequency \div freq
<1>1. freq \in Nat /\ freq >= 19
  <2>1. Freqs \subseteq 19..BaseFrequency
    BY InterruptAssumption
  <2>2. BaseFrequency \in Nat
    BY SMT DEF BaseFrequency
  <2> QED
    BY <2>1, <2>2
<1>2. d \in Nat /\ d * freq <= BaseFrequency /\ BaseFrequency < (d + 1) * freq
  BY SMT, <1>1 DEF BaseFrequency
<1>3. d <= MaxReload
  BY SMT, <1>1, <1>2 DEF BaseFrequency, MaxReload
<1>4. d \in 0..MaxReload
  <2>1. MaxReload \in Nat
    BY SMT DEF MaxReload
  <2> QED
    BY <1>2, <1>3, <2>1
<1>5. Sent(d) = d
  BY <1>4, SentWhole
<1> QED
  BY <1>2, <1>4, <1>5

-----------------------------------------------------------------------------
(* The actions                                                             *)

LEMMA InterruptsInit == InterruptInit => IntInv /\ ServiceInv
<1> SUFFICES ASSUME InterruptInit PROVE IntInv /\ ServiceInv
  OBVIOUS
<1>1. cpu = [at |-> "main", vector |-> 0, frame |-> "whole", int_no |-> 0]
  BY DEF InterruptInit, Thread
<1>2. 0 \in 0..MaxReload /\ 0 \in Vectors
  BY SMT DEF MaxReload, Vectors
<1>3. InterruptTypeOK
  <2>1. cpu.at = "main" /\ cpu.vector = 0
    BY <1>1
  <2>2. irr \subseteq Sources /\ isr \subseteq Lines /\ iflag = FALSE /\ reload = 0
        /\ main = "init_descriptor_tables"
    BY DEF InterruptInit
  <2> QED
    BY <1>2, <2>1, <2>2 DEF InterruptTypeOK
<1>4. CpuShape /\ BootInv /\ MisledInv /\ PeriodRight
  BY <1>1 DEF InterruptInit, CpuShape, BootInv, MisledInv, OnlyMisledAstray, PeriodRight
<1>5. ServiceInv
  BY <1>1 DEF InterruptInit, ServiceInv, None
<1> QED
  BY <1>3, <1>4, <1>5 DEF IntInv

LEMMA BootsStep ==
  ASSUME IntInv, Boots \/ RegisterPageFault
  PROVE  IntInv' /\ (ServiceInv => ServiceInv')
<1> USE DEF IntInv
<1>1. CASE init_descriptor_tables \/ RegisterPageFault
  <2>1. IntInv'
    BY <1>1 DEF init_descriptor_tables, RegisterPageFault, InterruptTypeOK, CpuShape,
                BootInv, MisledInv, OnlyMisledAstray, PeriodRight
  <2>2. ServiceInv => ServiceInv'
    BY <1>1 DEF init_descriptor_tables, RegisterPageFault, register_interrupt_handler, ServiceInv
  <2> QED
    BY <2>1, <2>2
<1>2. ASSUME NEW freq \in Freqs, init_timer(freq)
      PROVE  IntInv' /\ (ServiceInv => ServiceInv')
  <2>1. reload' \in 0..MaxReload /\ PeriodRight'
    BY <1>2, DivisorFits DEF init_timer, PeriodRight
  <2>2. IntInv'
    BY <1>2, <2>1 DEF init_timer, InterruptTypeOK, CpuShape, BootInv, MisledInv, OnlyMisledAstray
  <2>3. ServiceInv => ServiceInv'
    BY <1>2 DEF init_timer, register_interrupt_handler, ServiceInv
  <2> QED
    BY <2>2, <2>3
<1>3. CASE sti
  <2>1. cpu' = [at |-> "thread", vector |-> 0, frame |-> "whole", int_no |-> 0]
    BY <1>3 DEF sti, Thread
  <2>2. cpu.at = "main"
    BY <1>3 DEF sti, BootInv
  <2>3. IntInv'
    BY <1>3, <2>1, <2>2 DEF sti, InterruptTypeOK, CpuShape, BootInv, MisledInv, OnlyMisledAstray,
                            PeriodRight, Vectors
  <2>4. ServiceInv => ServiceInv'
    BY <1>3, <2>1, <2>2 DEF sti, ServiceInv
  <2> QED
    BY <2>3, <2>4
<1> QED
  BY <1>1, <1>2, <1>3 DEF Boots

LEMMA InterruptStep ==
  ASSUME IntInv, NEW n \in Sources, Raise(n) \/ Accept(n)
  PROVE  IntInv' /\ (ServiceInv /\ n \notin SlaveLines => ServiceInv')
<1> USE DEF IntInv
<1>1. CASE Raise(n)
  BY <1>1 DEF Raise, InterruptTypeOK, CpuShape, BootInv, ServiceInv, MisledInv, OnlyMisledAstray,
              PeriodRight
<1>2. CASE Accept(n)
  <2> DEFINE v == 32 + n
             g == Gate(v)
  <2>1. n \in Lines /\ v \in Vectors /\ Line(n) \in Lines
    BY InterruptAssumption DEF Line, Lines, Vectors
  <2>2. gates[v] = g /\ main = "threads" /\ cpu.at = "thread"
    BY <1>2, <2>1 DEF Accept, BootInv
  <2>3. g.frame # "absent" /\ g.frame \in {"whole", "skewed", "lost"}
        /\ (g.frame # "whole" <=> v \in Misled) /\ g.int_no = 32 + (n \div 7)
        /\ (g.frame = "whole" <=> n % 7 \in {0, 1})
    BY <2>1, MisledIs, IrqGate
  <2>a. g.int_no \in Vectors
    BY <2>1, <2>3 DEF Lines, Vectors
  <2> HIDE DEF v, g
  <2>4. /\ cpu' = [at |-> IF g.frame = "lost" THEN "astray" ELSE "irq_handler",
                   vector |-> v, frame |-> g.frame, int_no |-> g.int_no]
        /\ iflag' = FALSE
    BY <1>2, <2>2, <2>3 DEF Accept, Enter, v
  <2>5. /\ UNCHANGED <<main, gates, handlers, reload>> /\ irr' \subseteq Sources
        /\ isr' = isr \cup {n, Line(n)}
    BY <1>2 DEF Accept, InterruptTypeOK
  <2>6. InterruptTypeOK'
    BY <2>1, <2>4, <2>5 DEF InterruptTypeOK
  <2>7. CpuShape' /\ MisledInv'
    BY <2>3, <2>4 DEF CpuShape, MisledInv, OnlyMisledAstray
  <2>8. BootInv' /\ PeriodRight'
    BY <2>2, <2>4, <2>5 DEF BootInv, PeriodRight
  <2>9. ASSUME ServiceInv, n \notin SlaveLines PROVE ServiceInv'
    <3>1. isr' = {n, Line(n)}
      BY <2>2, <2>5, <2>9 DEF ServiceInv
    <3>2. CASE n < 8
      <4>1. n \in 0..7 /\ isr' = {n}
        BY <2>1, <3>1, <3>2 DEF Line, Lines
      <4> QED
        BY <2>a, <2>4, <2>5, <2>9, <4>1 DEF ServiceInv
    <3>3. CASE ~(n < 8)
      <4>1. n \in 9..13
        BY <2>1, <2>9, <3>3 DEF SlaveLines, Lines
      <4>2. n \div 7 = 1 /\ n % 7 \notin {0, 1}
        BY <4>1
      <4>3. g.frame # "whole" /\ g.int_no # IRQ0
        BY <2>3, <4>2 DEF IRQ0
      <4> QED
        BY <2>a, <2>4, <2>5, <2>9, <4>3 DEF ServiceInv
    <3> QED
      BY <3>2, <3>3
  <2> QED
    BY <2>6, <2>7, <2>8, <2>9
<1> QED
  BY <1>1, <1>2

LEMMA TrapStep ==
  ASSUME IntInv, NEW v \in Exceptions, Trap(v)
  PROVE  IntInv' /\ (ServiceInv => ServiceInv')
<1> USE DEF IntInv
<1>1. v \in Vectors /\ v \in 0..31 /\ main = "threads" /\ cpu.at = "thread"
  BY InterruptAssumption DEF Vectors, Trap, BootInv
<1>2. gates[v].frame # "absent" /\ (gates[v].frame = "lost" <=> v \in Misled)
  BY <1>1, MisledIs DEF BootInv
<1>3. cpu' = [at |-> IF gates[v].frame = "lost" THEN "astray" ELSE "idt_handler",
              vector |-> v, frame |-> gates[v].frame, int_no |-> gates[v].int_no]
      /\ iflag' = FALSE
  BY <1>2 DEF Trap, Enter
<1>4. UNCHANGED <<main, gates, handlers, irr, isr, reload>>
  BY DEF Trap
<1>5. IntInv'
  BY <1>1, <1>2, <1>3, <1>4 DEF InterruptTypeOK, CpuShape, BootInv, MisledInv, OnlyMisledAstray,
                                PeriodRight
<1>6. ServiceInv => ServiceInv'
  BY <1>1, <1>3, <1>4 DEF ServiceInv
<1> QED
  BY <1>5, <1>6

LEMMA HandlesStep ==
  ASSUME IntInv, Handles
  PROVE  IntInv' /\ (ServiceInv => ServiceInv')
<1> USE DEF IntInv
<1>1. ASSUME NEW at, cpu' = [cpu EXCEPT !.at = at]
      PROVE  /\ CpuShape' /\ cpu'.at = at
             /\ cpu'.vector = cpu.vector /\ cpu'.frame = cpu.frame
  BY <1>1 DEF CpuShape
<1>2. cpu' = Thread =>
        /\ cpu' = [at |-> "thread", vector |-> 0, frame |-> "whole", int_no |-> 0]
        /\ CpuShape' /\ cpu'.at = "thread" /\ cpu'.vector \in Vectors
  BY DEF Thread, CpuShape, Vectors
<1>3. CASE irq_handler
  <2> DEFINE at == IF handlers[cpu.int_no] = "timer_callback" THEN "schedule" ELSE "iret"
  <2>1. /\ cpu' = [cpu EXCEPT !.at = at] /\ cpu.at = "irq_handler"
        /\ isr' = isr \ Acknowledged(cpu.int_no)
        /\ UNCHANGED <<main, gates, handlers, irr, iflag, reload>>
    BY <1>3 DEF irq_handler
  <2>2. at \in {"schedule", "iret"} /\ (at = "schedule" => handlers[cpu.int_no] = "timer_callback")
    OBVIOUS
  <2> HIDE DEF at
  <2>3. /\ CpuShape' /\ cpu'.at = at
        /\ cpu'.vector = cpu.vector /\ cpu'.frame = cpu.frame
    BY <1>1, <2>1
  <2>4. IntInv'
    BY <2>1, <2>2, <2>3 DEF InterruptTypeOK, BootInv, MisledInv, OnlyMisledAstray, PeriodRight
  <2>5. ASSUME ServiceInv PROVE ServiceInv'
    <3>1. CASE \E n \in 0..7 : isr = {n}
      <4>1. PICK n \in 0..7 : isr = {n}
        BY <3>1
      <4>2. n \in Ended(0..7)
        <5>1. n \in Nat /\ n <= n
          OBVIOUS
        <5> QED  BY <4>1, <5>1 DEF Ended
      <4>3. isr' = {}
        BY <2>1, <4>1, <4>2 DEF Acknowledged
      <4> QED
        BY <2>1, <2>2, <2>3, <2>5, <4>3 DEF ServiceInv
    <3>2. CASE cpu.frame # "whole" /\ cpu.int_no # IRQ0
      <4>1. at = "iret"
        <5>1. handlers[cpu.int_no] # "timer_callback"
          BY <2>5, <3>2, <2>1 DEF ServiceInv
        <5> QED  BY <2>2, <5>1
      <4> QED
        BY <2>1, <2>3, <2>5, <3>2, <4>1 DEF ServiceInv
    <3> QED
      BY <2>1, <2>5, <3>1, <3>2 DEF ServiceInv
  <2> QED
    BY <2>4, <2>5
<1>4. CASE schedule
  <2>1. /\ cpu.at = "schedule" /\ UNCHANGED <<main, gates, handlers, irr, isr, reload>>
        /\ iflag' = iflag \/ iflag' = TRUE
        /\ cpu' = Thread \/ cpu' = [cpu EXCEPT !.at = "iret"]
    BY <1>4 DEF schedule
  <2>2. \/ CpuShape' /\ cpu'.at = "thread" /\ cpu'.vector \in Vectors
        \/ CpuShape' /\ cpu'.at = "iret" /\ cpu'.vector = cpu.vector /\ cpu'.frame = cpu.frame
    BY <1>1, <1>2, <2>1
  <2>3. IntInv'
    BY <2>1, <2>2 DEF InterruptTypeOK, BootInv, MisledInv, OnlyMisledAstray, PeriodRight
  <2>4. ServiceInv => ServiceInv'
    BY <2>1, <2>2 DEF ServiceInv
  <2> QED
    BY <2>3, <2>4
<1>5. CASE iret
  <2>1. /\ cpu.at = "iret" /\ UNCHANGED <<main, gates, handlers, irr, isr, reload>>
        /\ iflag' = iflag \/ iflag' = TRUE
        /\ \/ cpu' = Thread /\ cpu.frame = "whole"
           \/ cpu' = [cpu EXCEPT !.at = "astray"] /\ cpu.frame # "whole"
    BY <1>5 DEF iret
  <2>2. \/ CpuShape' /\ cpu'.at = "thread" /\ cpu'.vector \in Vectors /\ cpu.frame = "whole"
        \/ CpuShape' /\ cpu'.at = "astray" /\ cpu'.vector = cpu.vector /\ cpu.vector \in Misled
    BY <1>1, <1>2, <2>1 DEF MisledInv
  <2>3. IntInv'
    BY <2>1, <2>2 DEF InterruptTypeOK, BootInv, MisledInv, OnlyMisledAstray, PeriodRight
  <2>4. ServiceInv => ServiceInv'
    BY <2>1, <2>2 DEF ServiceInv
  <2> QED
    BY <2>3, <2>4
<1>6. CASE idt_handler
  <2>1. CpuShape' /\ cpu'.at = "panic" /\ cpu'.vector = cpu.vector
    BY <1>1, <1>6 DEF idt_handler
  <2>2. IntInv'
    BY <1>6, <2>1 DEF idt_handler, InterruptTypeOK, BootInv, MisledInv, OnlyMisledAstray,
                      PeriodRight
  <2>3. ServiceInv => ServiceInv'
    BY <1>6, <2>1 DEF idt_handler, ServiceInv
  <2> QED
    BY <2>2, <2>3
<1> QED
  BY <1>3, <1>4, <1>5, <1>6 DEF Handles

LEMMA InterruptsStep ==
  ASSUME IntInv, [InterruptNext \/ RegisterPageFault]_interruptVars
  PROVE  IntInv' /\ (ServiceInv /\ Sources \cap SlaveLines = {} => ServiceInv')
<1>1. CASE UNCHANGED interruptVars
  BY <1>1 DEF interruptVars, IntInv, InterruptTypeOK, CpuShape, BootInv, ServiceInv,
              MisledInv, OnlyMisledAstray, PeriodRight
<1>2. Sources \cap SlaveLines = {} => \A n \in Sources : n \notin SlaveLines
  OBVIOUS
<1> QED
  BY <1>1, <1>2, BootsStep, InterruptStep, TrapStep, HandlesStep DEF InterruptNext, Interrupt

-----------------------------------------------------------------------------
LEMMA InterruptsInv == InterruptSpec => []IntInv
<1>1. IntInv /\ [InterruptNext \/ RegisterPageFault]_interruptVars => IntInv'
  BY InterruptsStep
<1> QED
  BY <1>1, InterruptsInit, PTL DEF InterruptSpec

(* Every interrupt that is taken is acknowledged before a thread runs      *)
(* again, with the number the stub pushes, right or wrong (irq_handler):   *)
(* for all exceptions, and for all requests but those of three lines of    *)
(* the slave, which arrive with the number of one of the master.           *)
THEOREM InterruptsAcknowledged ==
  ASSUME Sources \cap SlaveLines = {}
  PROVE  InterruptSpec => []ServiceEnds
<1>1. /\ IntInv /\ ServiceInv /\ [InterruptNext \/ RegisterPageFault]_interruptVars
      => ServiceInv'
  BY InterruptsStep
<1>2. ServiceInv => ServiceEnds
  BY DEF ServiceInv, ServiceEnds
<1> QED
  BY <1>1, <1>2, InterruptsInv, InterruptsInit, PTL DEF InterruptSpec

(* Whatever devices request and threads raise, no interrupt comes before   *)
(* its gate is there, and of all that come, exactly those of Misled may    *)
(* leave the code of the handlers: every other one gets to idt_handler or  *)
(* returns to what it interrupted (init_idt, irq_common_stub).             *)
THEOREM InterruptsReturn == InterruptSpec => []OnlyMisledAstray
<1>1. IntInv => OnlyMisledAstray
  BY DEF IntInv, MisledInv
<1> QED
  BY <1>1, InterruptsInv, PTL

(* The divisor is the right one for every frequency the chip can make      *)
(* (init_timer).                                                           *)
THEOREM TimerPeriod == InterruptSpec => []PeriodRight
<1>1. IntInv => PeriodRight
  BY DEF IntInv
<1> QED
  BY <1>1, InterruptsInv, PTL

-----------------------------------------------------------------------------
(* The composition                                                         *)

LEMMA BootSteps ==
  ASSUME [BootNext]_bootVars
  PROVE  /\ [Boot \/ Expand]_vars
         /\ [InterruptNext \/ RegisterPageFault]_interruptVars
<1>1. CASE Kernel
  BY <1>1 DEF Kernel, init_paging, InterruptNext
<1>2. CASE ThreadStep
  BY <1>2 DEF ThreadStep
<1>3. CASE Interrupt /\ UNCHANGED vars
  BY <1>3 DEF InterruptNext
<1>4. CASE \E v \in Exceptions : Trap(v) /\ UNCHANGED vars
  BY <1>4 DEF InterruptNext
<1>5. CASE UNCHANGED bootVars
  BY <1>5 DEF bootVars
<1> QED
  BY <1>1, <1>2, <1>3, <1>4, <1>5 DEF BootNext

(* main(), the threads and the interrupts together run init_paging and the *)
(* growth of the heap as Paging has them (init_paging, expand).            *)
THEOREM BootGrows == BootSpec => GrowingSpec
<1>1. BootInit => Init
  BY DEF BootInit
<1>2. [BootNext]_bootVars => [Boot \/ Expand]_vars
  BY BootSteps
<1> QED
  BY <1>1, <1>2, PTL DEF BootSpec, GrowingSpec

(* ... and take interrupts as Interrupts has them (main, irq_handler).     *)
THEOREM BootTakesInterrupts == BootSpec => InterruptSpec
<1>1. BootInit => InterruptInit
  BY DEF BootInit
<1>2. [BootNext]_bootVars => [InterruptNext \/ RegisterPageFault]_interruptVars
  BY BootSteps
<1> QED
  BY <1>1, <1>2, PTL DEF BootSpec, InterruptSpec

(* The kernel keeps what its parts promise from its first instruction on,  *)
(* wherever its image ends, whatever exceptions its threads raise and      *)
(* whatever devices request, but for the acknowledgement, from which three *)
(* lines of the slave are left out; that a page fault and some other       *)
(* vectors lead astray, OnlyMisledAstray leaves open (main).               *)
THEOREM BootSafe ==
  BootSpec => [](/\ BootTypeOK
                 /\ IdentityMapped /\ NoSharedFrame /\ FramesAccounted
                 /\ OnlyMisledAstray /\ PeriodRight
                 /\ Sources \cap SlaveLines = {} => ServiceEnds)
<1>1. BootSpec => []PInv
  BY BootGrows, GrowingInv, PTL
<1>2. BootSpec => []IntInv
  BY InterruptsInv, BootTakesInterrupts, PTL
<1>3. BootSpec => [](Sources \cap SlaveLines = {} => ServiceEnds)
  <2>1. CASE Sources \cap SlaveLines = {}
    <3>1. ServiceEnds => (Sources \cap SlaveLines = {} => ServiceEnds)
      OBVIOUS
    <3>2. InterruptSpec => []ServiceEnds
      BY <2>1, InterruptsAcknowledged
    <3> QED
      BY <3>1, <3>2, BootTakesInterrupts, PTL
  <2>2. CASE ~(Sources \cap SlaveLines = {})
    <3>1. Sources \cap SlaveLines = {} => ServiceEnds
      BY <2>2
    <3> QED
      BY <3>1, PTL
  <2> QED
    BY <2>1, <2>2
<1>4. PInv => TypeOK /\ IdentityMapped /\ NoSharedFrame /\ FramesAccounted
  BY DEF PInv, FramesInv, HeapInv, IdentityMapped
<1>5. IntInv => InterruptTypeOK /\ OnlyMisledAstray /\ PeriodRight
  BY DEF IntInv, MisledInv
<1>6. TypeOK /\ InterruptTypeOK => BootTypeOK
  BY DEF BootTypeOK
<1> QED
  BY <1>1, <1>2, <1>3, <1>4, <1>5, <1>6, PTL
=============================================================================
