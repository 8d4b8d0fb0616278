--------------------------- MODULE ConsoleProofs ---------------------------
(***************************************************************************)
(* The cursor is always brought back, the buffers are not left, numbers    *)
(* read back and a call that is alone shows its text, for any number of    *)
(* threads, any calls and any size of the screen.                          *)
(***************************************************************************)
EXTENDS ConsoleInv, VsprintfProofs

(* What a thread does to bring a coordinate back is in front of it.        *)
RightsY(t) == At(t, "scroll") \/ At(t, "scroll_y")
RightsX(t) ==
  \/ At(t, "wrap_x")
  \/ At(t, "cell") /\ NewX(th[t].ch, th[t].x) >= MON_WIDTH

Shape ==
  /\ DOMAIN th = Threads
  /\ \A t \in Threads : DOMAIN th[t] = DOMAIN Idle

IInv == Shape /\ CursorRepaired

(* One thread moves and the others stay where they are.                    *)
Alone(t) == Shape' /\ \A u \in Threads \ {t} : th'[u] = th[u]

-----------------------------------------------------------------------------
(* A step of a thread keeps the cursor repaired if it leaves each          *)
(* coordinate alone and was not about to right it, or goes on to right it, *)
(* or leaves it on the screen.                                             *)
LEMMA Repairs ==
  ASSUME CursorRepaired, NEW t \in Threads, Alone(t),
         \/ cursor_y' = cursor_y /\ ~RightsY(t)
         \/ RightsY(t)'
         \/ ~(cursor_y' >= MON_HEIGHT),
         \/ cursor_x' = cursor_x /\ ~RightsX(t)
         \/ RightsX(t)'
         \/ ~(cursor_x' >= MON_WIDTH)
  PROVE  CursorRepaired'
<1>1. ASSUME NEW u \in Threads, u # t
      PROVE  (RightsY(u) => RightsY(u)') /\ (RightsX(u) => RightsX(u)')
  BY <1>1 DEF Alone, RightsY, RightsX, At, NewX, Special, Other
<1>2. cursor_y' >= MON_HEIGHT => \E u \in Threads : RightsY(u)'
  BY <1>1 DEF CursorRepaired, RightsY
<1>3. cursor_x' >= MON_WIDTH => \E u \in Threads : RightsX(u)'
  BY <1>1 DEF CursorRepaired, RightsX
<1> QED
  BY <1>2, <1>3 DEF CursorRepaired, RightsY, RightsX

(* A thread that only goes elsewhere, or returns.                          *)
LEMMA GoMoves ==
  ASSUME Shape, NEW t \in Threads, NEW at, Go(t, at)
  PROVE  Alone(t) /\ th'[t].at = at
  BY DEF Shape, Go, Alone, Idle

LEMMA ReturnMoves ==
  ASSUME Shape, NEW t \in Threads, Return(t)
  PROVE  Alone(t)
  BY DEF Shape, Return, Alone, Idle

-----------------------------------------------------------------------------
(* Outside putch and cls nothing touches the cursor.                       *)
LEMMA CallStep ==
  ASSUME IInv, NEW t \in Threads,
         Enter(t) \/ Format(t) \/ Terminate(t) \/ Write(t)
  PROVE  IInv'
<1>1. Alone(t)
  <2>1. CASE Enter(t)
    BY <2>1, GoMoves DEF Enter, Formats, FromStart, IInv, Shape, Alone, Idle
  <2>2. CASE Format(t)
    BY <2>2 DEF Format, IInv, Shape, Alone, Idle
  <2>3. CASE Terminate(t)
    BY <2>3, GoMoves DEF Terminate, IInv
  <2>4. CASE Write(t)
    BY <2>4, GoMoves, ReturnMoves DEF Write, Formats, FromStart, PutNext, IInv, Shape, Alone, Idle
  <2> QED  BY <2>1, <2>2, <2>3, <2>4
<1>2. cursor_x' = cursor_x /\ cursor_y' = cursor_y
  BY DEF Enter, Format, Terminate, Write
<1>3. ~RightsY(t) /\ ~RightsX(t)
  BY DEF Enter, Format, Terminate, Write, RightsY, RightsX, At
<1> QED
  BY <1>1, <1>2, <1>3, Repairs DEF IInv, Alone

(* The loads: what a thread finds does not matter, for it is not yet about *)
(* to right anything.                                                      *)
LEMMA LoadStep ==
  ASSUME IInv, NEW t \in Threads,
         LoadY(t) \/ LoadX(t) \/ CsrY(t) \/ CsrX(t) \/ Out(t)
  PROVE  IInv'
<1>1. Alone(t)
  <2>1. CASE LoadY(t) \/ LoadX(t) \/ CsrY(t) \/ CsrX(t)
    BY <2>1 DEF LoadY, LoadX, CsrY, CsrX, IInv, Shape, Alone, Idle
  <2>2. CASE Out(t)
    BY <2>2, ReturnMoves DEF Out, PutchReturns, IInv, Shape, Alone, Idle
  <2> QED  BY <2>1, <2>2
<1>2. cursor_x' = cursor_x /\ cursor_y' = cursor_y
  BY DEF LoadY, LoadX, CsrY, CsrX, Out
<1>3. ~RightsY(t) /\ ~RightsX(t)
  BY DEF LoadY, LoadX, CsrY, CsrX, Out, RightsY, RightsX, At
<1> QED
  BY <1>1, <1>2, <1>3, Repairs DEF IInv, Alone

(* A column behind the last one is stored only by a thread that goes on to *)
(* the new line, directly or past the cell it shows its character in.      *)
LEMMA StoreStep ==
  ASSUME IInv, NEW t \in Threads, StoreX(t) \/ StoreCell(t)
  PROVE  IInv'
<1>1. cursor_y' = cursor_y /\ ~RightsY(t)
  BY DEF StoreX, StoreCell, RightsY, At
<1>2. CASE StoreX(t)
  <2> DEFINE x == NewX(th[t].ch, th[t].x)
  <2>1. Go(t, IF th[t].ch \in Special THEN WrapTest(x, th[t].y) ELSE "cell")
        /\ cursor_x' = x
    BY <1>2 DEF StoreX
  <2>2. Alone(t)
    BY <2>1, GoMoves DEF IInv
  <2>3. th'[t].at = IF th[t].ch \in Special THEN WrapTest(x, th[t].y) ELSE "cell"
    BY <2>1, GoMoves DEF IInv
  <2>4. th'[t].ch = th[t].ch /\ th'[t].x = th[t].x
    BY <2>1 DEF Go, IInv, Shape, Idle
  <2>5. NewX(th[t].ch, th[t].x)' = x
    BY <2>4 DEF NewX, Special, Other
  <2>6. cursor_x' >= MON_WIDTH => RightsX(t)'
    BY <2>1, <2>3, <2>5 DEF RightsX, At, WrapTest
  <2> QED
    BY <1>1, <2>2, <2>6, Repairs DEF IInv, Alone
<1>3. CASE StoreCell(t)
  <2>1. Alone(t)
    BY <1>3, GoMoves DEF StoreCell, IInv
  <2>2. th'[t].at = WrapTest(NewX(th[t].ch, th[t].x), th[t].y)
    BY <1>3, GoMoves DEF StoreCell, IInv
  <2>3. cursor_x' = cursor_x /\ (RightsX(t) => RightsX(t)')
    BY <1>3, <2>2 DEF StoreCell, RightsX, At, WrapTest
  <2> QED
    BY <1>1, <2>1, <2>3, Repairs DEF IInv, Alone
<1> QED
  BY <1>2, <1>3

(* The steps that put a coordinate right, or count cursor_y past the last  *)
(* line and go on to scroll.                                               *)
LEMMA CorrectStep ==
  ASSUME IInv, NEW t \in Threads,
         CarriageReturn(t) \/ WrapX(t) \/ WrapY(t) \/ Scroll(t) \/ ScrollY(t)
  PROVE  IInv'
<1>1. Alone(t)
  <2>1. CASE WrapY(t)
    BY <2>1 DEF WrapY, IInv, Shape, Alone, Idle
  <2>2. CASE CarriageReturn(t) \/ WrapX(t) \/ Scroll(t) \/ ScrollY(t)
    BY <2>2, GoMoves DEF CarriageReturn, WrapX, Scroll, ScrollY, IInv
  <2> QED  BY <2>1, <2>2
<1>2. ~(0 >= MON_WIDTH) /\ ~(MON_HEIGHT - 1 >= MON_HEIGHT)
  BY ConsoleAssumption
<1>3. CASE CarriageReturn(t) \/ WrapX(t)
  <2>1. cursor_x' = 0 /\ cursor_y' = cursor_y /\ ~RightsY(t)
    BY <1>3 DEF CarriageReturn, WrapX, RightsY, At
  <2> QED
    BY <1>1, <1>2, <2>1, Repairs DEF IInv, Alone
<1>4. CASE WrapY(t)
  <2>1. cursor_x' = cursor_x /\ ~RightsX(t)
    BY <1>4 DEF WrapY, RightsX, At
  <2>2. cursor_y' >= MON_HEIGHT => RightsY(t)'
    BY <1>4 DEF WrapY, RightsY, At, ScrollTest, IInv, Shape, Idle
  <2> QED
    BY <1>1, <2>1, <2>2, Repairs DEF IInv, Alone
<1>5. CASE Scroll(t)
  <2>1. cursor_x' = cursor_x /\ ~RightsX(t)
    BY <1>5 DEF Scroll, RightsX, At
  <2>2. RightsY(t)'
    BY <1>5, GoMoves DEF Scroll, RightsY, At, IInv
  <2> QED
    BY <1>1, <2>1, <2>2, Repairs DEF IInv, Alone
<1>6. CASE ScrollY(t)
  <2>1. cursor_x' = cursor_x /\ ~RightsX(t) /\ cursor_y' = MON_HEIGHT - 1
    BY <1>6 DEF ScrollY, RightsX, At
  <2> QED
    BY <1>1, <1>2, <2>1, Repairs DEF IInv, Alone
<1> QED
  BY <1>3, <1>4, <1>5, <1>6

(* cls homes one coordinate after the other.                               *)
LEMMA ClsStep ==
  ASSUME IInv, NEW t \in Threads, Cls(t)
  PROVE  IInv'
<1>1. Alone(t)
  BY GoMoves DEF Cls, IInv
<1>2. ~RightsY(t) /\ ~RightsX(t)
  BY DEF Cls, RightsY, RightsX, At
<1>3. cursor_y' \in {cursor_y, 0} /\ cursor_x' \in {cursor_x, 0}
  BY DEF Cls
<1>4. ~(0 >= MON_WIDTH) /\ ~(0 >= MON_HEIGHT)
  BY ConsoleAssumption
<1> QED
  BY <1>1, <1>2, <1>3, <1>4, Repairs DEF IInv, Alone

-----------------------------------------------------------------------------
(* The cursor leaves the screen only while some thread is on its way to    *)
(* bring it back, however many threads print, clear and panic at once      *)
(* (putch, scroll, cls).                                                   *)
THEOREM CursorComesBack == Spec => []CursorRepaired
<1>1. Init => IInv
  BY ConsoleAssumption DEF Init, IInv, Shape, CursorRepaired
<1>2. IInv /\ [Next]_vars => IInv'
  <2> SUFFICES ASSUME IInv, [Next]_vars PROVE IInv'
    OBVIOUS
  <2>1. CASE Next
    <3> PICK t \in Threads : Step(t)
      BY <2>1 DEF Next
    <3> QED
      BY CallStep, LoadStep, StoreStep, CorrectStep, ClsStep DEF Step, Putch
  <2>2. CASE UNCHANGED vars
    BY <2>2 DEF vars, IInv, Shape, CursorRepaired, At, NewX, Special, Other
  <2> QED
    BY <2>1, <2>2
<1>3. IInv => CursorRepaired
  BY DEF IInv
<1> QED
  BY <1>1, <1>2, <1>3, PTL DEF Spec

-----------------------------------------------------------------------------
(* The characters of a buffer.                                             *)
Char == STRING \cup {NUL}

(* The inductive invariant of the types: what a thread is,                 *)
Thread == [at : Places, call : Nat \ {0},
           source : {"none", "printk", "header", "panic", "footer"},
           text : Seq(STRING), i : Nat, ch : Char, x : Byte, y : Byte]

(* where the NUL of what it is running through stands at the latest,       *)
Limit(source) == CASE source = "header" -> Len(Header) + 1
                   [] source = "footer" -> Len(Footer) + 1
                   [] OTHER             -> BufLen

(* how the place a thread is at goes with the call it has made: which text *)
(* it holds, which string it runs through, and how far it can be in it,    *)
ThreadOK(t, r) ==
  LET c == program.calls[t][r.call] IN
    /\ r.at # "call" => r.call <= Len(program.calls[t])
    /\ r.at \in {"call", "cls", "cls_y", "cls_x"} => r.source = "none"
    /\ r.at = "write" => r.source # "none"
    /\ r.at = "format" => r.source \in {"printk", "panic"} /\ r.i \in 1..(Len(r.text) + 1)
    /\ r.at = "end" => r.source = "printk"
    /\ r.source \in {"header", "panic", "footer"} => c.op = "_panic"
    /\ r.source = "printk" => c.op = "printk"
    /\ r.source \in {"printk", "panic", "footer"} => r.text = Vsprintf(c.fmt, c.args)
    /\ r.source # "none" /\ r.at # "format" => r.i \in 1..Limit(r.source)

(* the console,                                                            *)
ScreenOK ==
  /\ DOMAIN screen = Cells
  /\ cursor_x \in Byte /\ cursor_y \in Byte /\ crtc \in Nat
  /\ alone = {} \/ \E s : alone = {s}

(* and the buffers: the last character of each is always a NUL, so that a  *)
(* reader whose text is being rewritten still stops inside.                *)
BufsOK ==
  /\ bufs \in [{"printk", "panic"} -> [1..BufLen -> Char]]
  /\ \A b \in {"printk", "panic"} : bufs[b][BufLen] = NUL

TypeInv ==
  /\ program \in Programs
  /\ ScreenOK /\ BufsOK
  /\ th \in [Threads -> Thread]
  /\ \A t \in Threads : ThreadOK(t, th[t])

(* A step of one thread that leaves the console and that thread in order   *)
(* leaves everything in order.                                             *)
LEMMA OneMoves ==
  ASSUME TypeInv, NEW t \in Threads, program' = program, ScreenOK', BufsOK',
         NEW r \in Thread, ThreadOK(t, r), th' = [th EXCEPT ![t] = r]
  PROVE  TypeInv'
<1>1. th' \in [Threads -> Thread]
  BY DEF TypeInv
<1>2. ASSUME NEW u \in Threads PROVE ThreadOK(u, th[u])' 
  <2>1. CASE u = t
    BY <2>1 DEF ThreadOK, TypeInv
  <2>2. CASE u # t
    BY <2>2 DEF ThreadOK, TypeInv
  <2> QED BY <2>1, <2>2
<1> QED BY <1>1, <1>2 DEF TypeInv

(* What the callers of printk and _panic see to.                           *)
LEMMA TextFits ==
  ASSUME program \in Programs, NEW t \in Threads, NEW k \in 1..Len(program.calls[t]),
         program.calls[t][k].op \in {"printk", "_panic"}
  PROVE  LET c == program.calls[t][k] IN
           /\ c.fmt \in Seq(Scanned)
           /\ Vsprintf(c.fmt, c.args) \in Seq(STRING)
           /\ Len(Vsprintf(c.fmt, c.args)) < BufLen
           /\ Len(c.fmt) = 1 /\ c.fmt[1].conv \in NumberConvs => Head(c.args) \in Word
  BY CallersAssumption

(* No place in a text or a string lies behind the end of the buffer.       *)
LEMMA TypeInvThen == TypeInv => TypeOK
<1> SUFFICES ASSUME TypeInv PROVE TypeOK
  OBVIOUS
<1>1. Cardinality(alone) <= 1
  BY FS_EmptySet, FS_Singleton DEF TypeInv, ScreenOK
<1>2. ASSUME NEW t \in Threads
      PROVE  /\ th[t].at \in Places
             /\ th[t].source \in {"none", "printk", "header", "panic", "footer"}
             /\ At(t, "format") => th[t].i \in 1..BufLen
             /\ At(t, "write") => th[t].i \in DOMAIN Source(t)
             /\ th[t].x \in Byte /\ th[t].y \in Byte
  <2>1. th[t] \in Thread /\ ThreadOK(t, th[t]) /\ program \in Programs
    BY DEF TypeInv
  <2>2. ASSUME At(t, "format") PROVE th[t].i \in 1..BufLen
    <3> DEFINE c == program.calls[t][th[t].call]
    <3>1. th[t].call \in 1..Len(program.calls[t]) /\ Len(program.calls[t]) \in Nat
      BY <2>1, <2>2, CallersAssumption DEF ThreadOK, At, Thread
    <3>2. c.op \in {"printk", "_panic"} /\ Text(t) = Vsprintf(c.fmt, c.args)
          /\ th[t].i \in 1..(Len(Text(t)) + 1)
      BY <2>1, <2>2 DEF ThreadOK, At, Text
    <3>3. Len(Text(t)) < BufLen /\ Len(Text(t)) \in Nat
      <4>1. Len(Vsprintf(c.fmt, c.args)) < BufLen
        BY <2>1, <3>1, <3>2, TextFits
      <4> QED BY <4>1, <3>2, <2>1 DEF Thread, Text
    <3> QED BY <3>2, <3>3, ConsoleAssumption
  <2>3. ASSUME At(t, "write") PROVE th[t].i \in DOMAIN Source(t)
    <3>1. th[t].source # "none" /\ th[t].i \in 1..Limit(th[t].source)
      BY <2>1, <2>3 DEF ThreadOK, At
    <3>2. CASE th[t].source \in {"header", "footer"}
      BY <3>1, <3>2, ConsoleAssumption DEF Source, Limit
    <3>3. CASE th[t].source \in {"printk", "panic"}
      BY <3>1, <3>3 DEF Source, Limit, TypeInv, BufsOK
    <3> QED BY <2>1, <3>1, <3>2, <3>3 DEF Thread
  <2> QED BY <2>1, <2>2, <2>3 DEF Thread
<1>3. \A b \in {"printk", "panic"} : DOMAIN bufs[b] = 1..BufLen
  BY DEF TypeInv, BufsOK
<1> QED
  BY <1>1, <1>2, <1>3 DEF TypeInv, ScreenOK, TypeOK

(* Where a thread is inside putch.                                         *)
Inside == {"putch", "cr", "load_x", "store_x", "cell", "wrap_x", "wrap_y", "scroll",
           "scroll_y", "csr_y", "csr_x", "out"}

(* The two tests of putch lead on inside it.                               *)
LEMMA TestsLead ==
  ASSUME NEW x, NEW y
  PROVE  ScrollTest(y) \in Inside /\ WrapTest(x, y) \in Inside
  BY DEF ScrollTest, WrapTest, Inside

(* Backspace, tab and a printed character leave a byte in cursor_x.        *)
LEMMA NewXByte ==
  ASSUME NEW c, NEW x \in Byte
  PROVE  NewX(c, x) \in Byte
<1>1. ByteModulus \in Nat /\ ByteModulus > 0 /\ TabStop \in Nat \ {0} /\ x \in Nat
  BY ConsoleAssumption DEF Byte
<1>2. x \div TabStop \in Nat
  BY <1>1
<1>3. (x \div TabStop + 1) * TabStop \in Nat
  <2> DEFINE q == x \div TabStop
  <2> HIDE DEF q
  <2>1. q \in Nat
    BY <1>2 DEF q
  <2>2. (q + 1) * TabStop \in Nat
    BY <1>1, <2>1
  <2> QED BY <2>2 DEF q
<1>4. \A n \in Nat : n % ByteModulus \in Byte
  BY <1>1 DEF Byte
<1>5. ((x \div TabStop + 1) * TabStop) % ByteModulus \in Byte
  BY <1>3, <1>4
<1>6. (x + 1) % ByteModulus \in Byte
  BY <1>1, <1>4
<1>7. x > 0 => x - 1 \in Byte
  BY <1>1 DEF Byte
<1> HIDE DEF Byte
<1> QED BY <1>5, <1>6, <1>7 DEF NewX

(* What the registers hold before they are used.                           *)
LEMMA Nulls == 0 \in Byte /\ NUL \in Char
<1>1. 0 \in Byte
  BY ConsoleAssumption DEF Byte
<1>2. NUL \in Char
  BY DEF Char
<1> QED BY <1>1, <1>2

(* A thread inside putch goes on there, with other values in its           *)
(* registers.                                                              *)
LEMMA StaysInside ==
  ASSUME TypeInv, NEW t \in Threads, program' = program, ScreenOK', BufsOK',
         th[t].at \in Inside, NEW at \in Inside, NEW x \in Byte, NEW y \in Byte,
         th' = [th EXCEPT ![t] = [th[t] EXCEPT !.at = at, !.x = x, !.y = y]]
  PROVE  TypeInv'
<1> DEFINE r == [th[t] EXCEPT !.at = at, !.x = x, !.y = y]
<1>1. th[t] \in Thread /\ ThreadOK(t, th[t])
  BY DEF TypeInv
<1>2. r \in Thread
  BY <1>1 DEF Thread, Places, Inside
<1>3. /\ r.at = at /\ r.call = th[t].call /\ r.source = th[t].source
      /\ r.text = th[t].text /\ r.i = th[t].i
  BY <1>1 DEF Thread
<1>4. ThreadOK(t, r)
  <2> HIDE DEF r
  <2> QED BY <1>1, <1>3 DEF ThreadOK, Inside
<1>5. th' = [th EXCEPT ![t] = r]
  OBVIOUS
<1> HIDE DEF r
<1> QED BY <1>2, <1>4, <1>5, OneMoves

(* putch, scroll and the loads of move_csr.                                *)
LEMMA PutchKeepsTypes ==
  ASSUME TypeInv, NEW t \in Threads,
         \/ LoadY(t) \/ CarriageReturn(t) \/ LoadX(t) \/ StoreX(t) \/ StoreCell(t)
         \/ WrapX(t) \/ WrapY(t) \/ Scroll(t) \/ ScrollY(t) \/ CsrY(t) \/ CsrX(t)
  PROVE  TypeInv'
<1>1. /\ th \in [Threads -> Thread] /\ th[t] \in Thread /\ ThreadOK(t, th[t])
      /\ ScreenOK /\ BufsOK
  BY DEF TypeInv
<1>2. program' = program /\ bufs' = bufs /\ alone' = alone /\ crtc' = crtc
  BY DEF LoadY, CarriageReturn, LoadX, StoreX, StoreCell, WrapX, WrapY, Scroll, ScrollY,
         CsrY, CsrX
<1>3. BufsOK'
  BY <1>1, <1>2 DEF BufsOK
<1>4. th[t].at \in Inside
  BY DEF LoadY, CarriageReturn, LoadX, StoreX, StoreCell, WrapX, WrapY, Scroll, ScrollY,
         CsrY, CsrX, At, Inside
<1>5. th[t].x \in Byte /\ th[t].y \in Byte /\ cursor_x \in Byte /\ cursor_y \in Byte
  BY <1>1 DEF Thread, ScreenOK
<1>6. 0 \in Byte /\ MON_HEIGHT - 1 \in Byte /\ (th[t].y + 1) % ByteModulus \in Byte
  <2>1. ByteModulus \in Nat /\ ByteModulus > 0 /\ MON_HEIGHT \in Nat \ {0}
        /\ MON_HEIGHT < ByteModulus
    BY ConsoleAssumption
  <2>2. \A n \in Nat : n % ByteModulus \in Byte
    BY <2>1 DEF Byte
  <2>3. th[t].y + 1 \in Nat
    BY <1>5, <2>1 DEF Byte
  <2>4. 0 \in Byte /\ MON_HEIGHT - 1 \in Byte
    BY <2>1 DEF Byte
  <2> QED BY <2>2, <2>3, <2>4
<1>7. ASSUME NEW at, Go(t, at)
      PROVE  th' = [th EXCEPT ![t] = [th[t] EXCEPT !.at = at, !.x = th[t].x, !.y = th[t].y]]
  BY <1>1, <1>7 DEF Go, Thread
<1> USE DEF Inside
<1>8. CASE LoadY(t)
  <2> DEFINE at == IF th[t].ch = "\r" THEN "cr" ELSE IF th[t].ch = "\n" THEN "wrap_x"
                   ELSE "load_x"
  <2>1. th' = [th EXCEPT ![t] = [th[t] EXCEPT !.at = at, !.x = th[t].x, !.y = cursor_y]]
    BY <1>1, <1>8 DEF LoadY, Thread
  <2>2. at \in Inside
    OBVIOUS
  <2>3. ScreenOK'
    BY <1>1, <1>8 DEF LoadY, ScreenOK
  <2> HIDE DEF at, Inside
  <2> QED BY <1>2, <1>3, <1>4, <1>5, <2>1, <2>2, <2>3, StaysInside
<1>9. CASE LoadX(t)
  <2> DEFINE at == IF th[t].ch \in Other \/ (th[t].ch = "BS" /\ cursor_x = 0)
                   THEN WrapTest(cursor_x, th[t].y) ELSE "store_x"
  <2>1. th' = [th EXCEPT ![t] = [th[t] EXCEPT !.at = at, !.x = cursor_x, !.y = th[t].y]]
    BY <1>1, <1>9 DEF LoadX, Thread
  <2>2. at \in Inside
    BY TestsLead
  <2>3. ScreenOK'
    BY <1>1, <1>9 DEF LoadX, ScreenOK
  <2> HIDE DEF at, Inside
  <2> QED BY <1>2, <1>3, <1>4, <1>5, <2>1, <2>2, <2>3, StaysInside
<1>10. CASE WrapY(t)
  <2> DEFINE y == (th[t].y + 1) % ByteModulus
  <2>1. th' = [th EXCEPT ![t] = [th[t] EXCEPT !.at = ScrollTest(y), !.x = th[t].x, !.y = y]]
    BY <1>1, <1>10 DEF WrapY, Thread
  <2>2. ScrollTest(y) \in Inside
    BY TestsLead
  <2>3. ScreenOK'
    BY <1>1, <1>6, <1>10 DEF WrapY, ScreenOK
  <2>4. y \in Byte
    BY <1>6
  <2> HIDE DEF y, Inside
  <2> QED BY <1>2, <1>3, <1>4, <1>5, <2>1, <2>2, <2>3, <2>4, StaysInside
<1>11. CASE CsrY(t) \/ CsrX(t)
  <2>1. \E at \in {"csr_x", "out"}, x \in {th[t].x, cursor_x}, y \in {th[t].y, cursor_y} :
          th' = [th EXCEPT ![t] = [th[t] EXCEPT !.at = at, !.x = x, !.y = y]]
    <3>1. CASE CsrY(t)
      <4>1. th' = [th EXCEPT ![t] = [th[t] EXCEPT !.at = "csr_x", !.x = th[t].x, !.y = cursor_y]]
        BY <1>1, <3>1 DEF CsrY, Thread
      <4> QED BY <4>1
    <3>2. CASE CsrX(t)
      <4>1. th' = [th EXCEPT ![t] = [th[t] EXCEPT !.at = "out", !.x = cursor_x, !.y = th[t].y]]
        BY <1>1, <3>2 DEF CsrX, Thread
      <4> QED BY <4>1
    <3> QED BY <1>11, <3>1, <3>2
  <2>2. ScreenOK'
    BY <1>1, <1>11 DEF CsrY, CsrX, ScreenOK
  <2>3. PICK at \in {"csr_x", "out"}, x \in {th[t].x, cursor_x}, y \in {th[t].y, cursor_y} :
          th' = [th EXCEPT ![t] = [th[t] EXCEPT !.at = at, !.x = x, !.y = y]]
    BY <2>1
  <2>4. at \in Inside /\ x \in Byte /\ y \in Byte
    BY <1>5
  <2> HIDE DEF Inside
  <2> QED BY <1>2, <1>3, <1>4, <2>2, <2>3, <2>4, StaysInside
<1>12. CASE CarriageReturn(t) \/ StoreX(t) \/ StoreCell(t) \/ WrapX(t) \/ Scroll(t) \/ ScrollY(t)
  <2>1. \E at \in Inside : Go(t, at)
    BY <1>12, TestsLead DEF CarriageReturn, StoreX, StoreCell, WrapX, Scroll, ScrollY
  <2>2. cursor_x' \in Byte /\ cursor_y' \in Byte
    BY <1>5, <1>6, <1>12, NewXByte DEF CarriageReturn, StoreX, StoreCell, WrapX, Scroll, ScrollY
  <2>3. DOMAIN screen' = Cells
    BY <1>1, <1>12 DEF CarriageReturn, StoreX, StoreCell, WrapX, Scroll, ScrollY, ScreenOK
  <2>4. ScreenOK'
    BY <1>1, <1>2, <2>2, <2>3 DEF ScreenOK
  <2>5. PICK at \in Inside : Go(t, at)
    BY <2>1
  <2>6. th' = [th EXCEPT ![t] = [th[t] EXCEPT !.at = at, !.x = th[t].x, !.y = th[t].y]]
    BY <1>7, <2>5
  <2> HIDE DEF Inside
  <2> QED BY <1>2, <1>3, <1>4, <1>5, <2>4, <2>6, StaysInside
<1> QED BY <1>8, <1>9, <1>10, <1>11, <1>12

(* A call returns, and the thread is before its next one.                  *)
LEMMA ReturnKeepsTypes ==
  ASSUME TypeInv, NEW t \in Threads, program' = program, ScreenOK', BufsOK',
         th[t].call <= Len(Calls(t)), Return(t)
  PROVE  TypeInv'
<1> DEFINE call == IF program.forever THEN (th[t].call % Len(Calls(t))) + 1
                   ELSE th[t].call + 1
           r == [Idle EXCEPT !.call = call]
<1>1. th[t].call \in Nat \ {0} /\ Len(Calls(t)) \in Nat
  BY CallersAssumption DEF TypeInv, Thread, Calls
<1>2. call \in Nat \ {0}
  <2> DEFINE n == Len(Calls(t))
  <2> HIDE DEF n
  <2>1. n \in Nat \ {0}
    BY <1>1 DEF n
  <2>2. th[t].call % n \in Nat
    BY <1>1, <2>1
  <2> QED BY <1>1, <2>2 DEF n
<1>3. th' = [th EXCEPT ![t] = r]
  BY DEF Return
<1> HIDE DEF call
<1>4. r = [at |-> "call", call |-> call, source |-> "none", text |-> << >>,
           i |-> 0, ch |-> NUL, x |-> 0, y |-> 0]
  BY DEF Idle
<1>5. 0 \in Byte /\ NUL \in Char
  BY Nulls
<1>6. r \in Thread
  <2>1. << >> \in Seq(STRING) /\ 0 \in Nat
    OBVIOUS
  <2>2. "call" \in Places
    BY DEF Places
  <2> QED BY <1>2, <1>4, <1>5, <2>1, <2>2 DEF Thread
<1> HIDE DEF r
<1>7. ThreadOK(t, r)
  BY <1>4 DEF ThreadOK
<1> QED BY <1>3, <1>6, <1>7, OneMoves

(* The controller's location is a number, and putch or cls returns.        *)
LEMMA OutKeepsTypes ==
  ASSUME TypeInv, NEW t \in Threads, Out(t)
  PROVE  TypeInv'
<1>1. /\ th \in [Threads -> Thread] /\ th[t] \in Thread /\ ThreadOK(t, th[t])
      /\ ScreenOK /\ BufsOK
  BY DEF TypeInv
<1>2. program' = program /\ BufsOK' /\ th[t].at = "out"
  BY <1>1 DEF Out, BufsOK, At
<1>3. crtc' \in Nat
  <2>1. th[t].y \in Nat /\ th[t].x \in Nat /\ MON_WIDTH \in Nat
    BY <1>1, ConsoleAssumption DEF Thread, Byte
  <2>2. th[t].y * MON_WIDTH \in Nat
    BY <2>1
  <2> QED BY <2>1, <2>2 DEF Out
<1>4. alone' = alone \/ alone' = {}
  BY DEF Out, PutchReturns, Return
<1>5. ScreenOK'
  BY <1>1, <1>3, <1>4 DEF Out, ScreenOK
<1>6. CASE th[t].source = "none"
  <2>1. Return(t)
    BY <1>6 DEF Out, PutchReturns
  <2>2. th[t].call <= Len(Calls(t))
    BY <1>1, <1>2 DEF ThreadOK, Calls
  <2> QED BY <1>2, <1>5, <2>1, <2>2, ReturnKeepsTypes
<1>7. CASE th[t].source # "none"
  <2> DEFINE r == [th[t] EXCEPT !.at = "write", !.ch = NUL, !.x = 0, !.y = 0]
  <2>1. th' = [th EXCEPT ![t] = r]
    BY <1>1, <1>7 DEF Out, PutchReturns, Thread
  <2>2. 0 \in Byte /\ NUL \in Char
    BY Nulls
  <2>3. r \in Thread
    BY <1>1, <2>2 DEF Thread, Places
  <2>4. /\ r.at = "write" /\ r.call = th[t].call /\ r.source = th[t].source
        /\ r.text = th[t].text /\ r.i = th[t].i
    BY <1>1 DEF Thread
  <2> HIDE DEF r
  <2>5. ThreadOK(t, r)
    BY <1>1, <1>2, <1>7, <2>4 DEF ThreadOK
  <2> QED BY <1>2, <1>5, <2>1, <2>3, <2>5, OneMoves
<1> QED BY <1>6, <1>7

(* cls.                                                                    *)
LEMMA ClsKeepsTypes ==
  ASSUME TypeInv, NEW t \in Threads, Cls(t)
  PROVE  TypeInv'
<1>1. /\ th \in [Threads -> Thread] /\ th[t] \in Thread /\ ThreadOK(t, th[t])
      /\ ScreenOK /\ BufsOK
  BY DEF TypeInv
<1>2. program' = program /\ BufsOK' /\ th[t].at \in {"cls", "cls_y", "cls_x"}
  BY <1>1 DEF Cls, BufsOK, At
<1>3. 0 \in Byte
  BY ConsoleAssumption DEF Byte
<1>4. ScreenOK'
  BY <1>1, <1>3 DEF Cls, ScreenOK
<1>5. PICK at \in {"cls_y", "cls_x", "csr_y"} : Go(t, at)
  BY DEF Cls
<1> DEFINE r == [th[t] EXCEPT !.at = at]
<1>6. th' = [th EXCEPT ![t] = r]
  BY <1>1, <1>5 DEF Go, Thread
<1>7. r \in Thread
  BY <1>1 DEF Thread, Places
<1>8. /\ r.at = at /\ r.call = th[t].call /\ r.source = th[t].source
      /\ r.text = th[t].text /\ r.i = th[t].i
  BY <1>1 DEF Thread
<1> HIDE DEF r
<1>9. ThreadOK(t, r)
  BY <1>1, <1>2, <1>8 DEF ThreadOK
<1> QED BY <1>2, <1>4, <1>6, <1>7, <1>9, OneMoves

(* vsprintf starts on the text of the call.                                *)
LEMMA FormatsKeepsTypes ==
  ASSUME TypeInv, NEW t \in Threads, program' = program, ScreenOK', BufsOK',
         th[t].call <= Len(Calls(t)), NEW source, Formats(t, source),
         \/ source = "printk" /\ Call(t).op = "printk"
         \/ source = "panic" /\ Call(t).op = "_panic"
  PROVE  TypeInv'
<1> DEFINE text == Vsprintf(Call(t).fmt, Call(t).args)
           r == [th[t] EXCEPT !.at = "format", !.source = source, !.i = 1, !.text = text]
<1>1. th[t] \in Thread /\ program \in Programs /\ th \in [Threads -> Thread]
  BY DEF TypeInv
<1>2. th[t].call \in 1..Len(program.calls[t]) 
  BY <1>1, CallersAssumption DEF Thread, Calls
<1>3. text \in Seq(STRING)
  BY <1>1, <1>2, TextFits DEF Call, Calls
<1>4. th' = [th EXCEPT ![t] = r]
  BY <1>1 DEF Formats, Thread
<1>5. text = Vsprintf(program.calls[t][th[t].call].fmt, program.calls[t][th[t].call].args)
  BY DEF Call, Calls
<1> HIDE DEF text
<1>6. r \in Thread
  BY <1>1, <1>3 DEF Thread, Places
<1>7. r.at = "format" /\ r.call = th[t].call /\ r.source = source /\ r.text = text /\ r.i = 1
  BY <1>1 DEF Thread
<1> HIDE DEF r
<1>8. 1 \in 1..(Len(text) + 1)
  BY <1>3
<1>9. ThreadOK(t, r)
  BY <1>2, <1>5, <1>7, <1>8 DEF ThreadOK, Call, Calls
<1> QED BY <1>4, <1>6, <1>9, OneMoves

(* _panic starts on one of its own lines, at its first character.          *)
LEMMA FromStartKeepsTypes ==
  ASSUME TypeInv, NEW t \in Threads, program' = program, ScreenOK', BufsOK',
         th[t].call <= Len(Calls(t)), NEW source \in {"header", "footer"},
         FromStart(t, "write", source), Call(t).op = "_panic",
         source = "footer" => th[t].source = "panic"
  PROVE  TypeInv'
<1> DEFINE r == [th[t] EXCEPT !.at = "write", !.source = source, !.i = 1]
<1>1. th[t] \in Thread /\ program \in Programs /\ th \in [Threads -> Thread]
      /\ ThreadOK(t, th[t])
  BY DEF TypeInv
<1>2. th' = [th EXCEPT ![t] = r]
  BY <1>1 DEF FromStart, Thread
<1>3. r \in Thread
  BY <1>1 DEF Thread, Places
<1>4. r.at = "write" /\ r.call = th[t].call /\ r.source = source /\ r.text = th[t].text
      /\ r.i = 1
  BY <1>1 DEF Thread
<1> HIDE DEF r
<1>5. 1 \in 1..Limit(source)
  BY ConsoleAssumption DEF Limit
<1>6. ThreadOK(t, r)
  BY <1>1, <1>4, <1>5 DEF ThreadOK, Call, Calls
<1> QED BY <1>2, <1>3, <1>6, OneMoves

(* A call begins.                                                          *)
LEMMA EnterKeepsTypes ==
  ASSUME TypeInv, NEW t \in Threads, Enter(t)
  PROVE  TypeInv'
<1>1. /\ th \in [Threads -> Thread] /\ th[t] \in Thread /\ ThreadOK(t, th[t])
      /\ ScreenOK /\ BufsOK
  BY DEF TypeInv
<1>2. program' = program /\ BufsOK' /\ th[t].call <= Len(Calls(t)) /\ th[t].at = "call"
  BY <1>1 DEF Enter, BufsOK, At
<1>3. ScreenOK'
  <2>1. alone' = {} \/ \E s : alone' = {s}
    BY DEF Enter
  <2> QED BY <1>1, <2>1 DEF Enter, ScreenOK
<1>4. CASE Call(t).op = "printk" /\ Formats(t, "printk")
  BY <1>2, <1>3, <1>4, FormatsKeepsTypes
<1>5. CASE Call(t).op = "_panic" /\ FromStart(t, "write", "header")
  BY <1>2, <1>3, <1>5, FromStartKeepsTypes
<1>6. CASE Call(t).op = "cls" /\ Go(t, "cls")
  <2> DEFINE r == [th[t] EXCEPT !.at = "cls"]
  <2>1. th' = [th EXCEPT ![t] = r]
    BY <1>1, <1>6 DEF Go, Thread
  <2>2. r \in Thread
    BY <1>1 DEF Thread, Places
  <2>3. /\ r.at = "cls" /\ r.call = th[t].call /\ r.source = th[t].source
        /\ r.text = th[t].text /\ r.i = th[t].i
    BY <1>1 DEF Thread
  <2> HIDE DEF r
  <2>4. ThreadOK(t, r)
    BY <1>1, <1>2, <2>3 DEF ThreadOK, Calls
  <2> QED BY <1>2, <1>3, <2>1, <2>2, <2>4, OneMoves
<1> QED
  BY <1>4, <1>5, <1>6 DEF Enter

(* Where vsprintf stores, and that the last place of the buffer gets       *)
(* nothing but NUL.                                                        *)
LEMMA StoreKeeps ==
  ASSUME BufsOK, NEW t \in Threads, th[t].source \in {"printk", "panic"},
         NEW k \in 1..BufLen, NEW c \in Char, k = BufLen => c = NUL, Store(t, k, c)
  PROVE  BufsOK'
  BY DEF BufsOK, Store

(* vsprintf and printk store inside the buffer.                            *)
LEMMA FormatKeepsTypes ==
  ASSUME TypeInv, NEW t \in Threads, Format(t) \/ Terminate(t)
  PROVE  TypeInv'
<1>1. /\ th \in [Threads -> Thread] /\ th[t] \in Thread /\ ThreadOK(t, th[t])
      /\ ScreenOK /\ BufsOK /\ program \in Programs
  BY DEF TypeInv
<1>2. program' = program /\ ScreenOK' /\ th[t].at \in {"format", "end"}
  BY <1>1 DEF Format, Terminate, ScreenOK, At
<1>3. /\ th[t].source \in {"printk", "panic"} /\ Text(t) \in Seq(STRING)
      /\ th[t].at = "format" => th[t].i \in 1..(Len(Text(t)) + 1)
      /\ th[t].at = "end" => th[t].source = "printk"
  BY <1>1, <1>2 DEF ThreadOK, Text, Thread
<1>4. Len(Text(t)) \in Nat /\ Len(Text(t)) < BufLen
  <2> DEFINE c == program.calls[t][th[t].call]
  <2>1. th[t].call \in 1..Len(program.calls[t])
    BY <1>1, <1>2, CallersAssumption DEF ThreadOK, Thread
  <2>2. c.op \in {"printk", "_panic"} /\ Text(t) = Vsprintf(c.fmt, c.args)
    BY <1>1, <1>3 DEF ThreadOK, Text
  <2>3. Len(Vsprintf(c.fmt, c.args)) < BufLen
    BY <1>1, <2>1, <2>2, TextFits
  <2> QED BY <1>3, <2>2, <2>3
<1>5. BufLen \in Nat \ {0}
  BY ConsoleAssumption
<1>6. ASSUME NEW at \in {"format", "end", "write"}, NEW i \in Nat,
             th' = [th EXCEPT ![t] = [th[t] EXCEPT !.at = at, !.i = i]], BufsOK',
             at = "format" => th[t].at = "format" /\ i \in 1..(Len(Text(t)) + 1),
             at # "format" => i = 1,
             at = "end" => th[t].source = "printk"
      PROVE  TypeInv'
  <2> DEFINE r == [th[t] EXCEPT !.at = at, !.i = i]
  <2>1. r \in Thread
    BY <1>1 DEF Thread, Places
  <2>2. r.at = at /\ r.call = th[t].call /\ r.source = th[t].source /\ r.text = th[t].text
        /\ r.i = i
    BY <1>1 DEF Thread
  <2> HIDE DEF r
  <2>3. ThreadOK(t, r)
    BY <1>1, <1>2, <1>3, <1>5, <1>6, <2>2 DEF ThreadOK, Limit, Text
  <2>4. th' = [th EXCEPT ![t] = r]
    BY <1>6 DEF r
  <2> QED BY <1>2, <1>6, <2>1, <2>3, <2>4, OneMoves
<1>7. CASE Format(t) /\ th[t].i <= Len(Text(t))
  <2>1. th[t].at = "format" /\ Store(t, th[t].i, Text(t)[th[t].i])
        /\ th' = [th EXCEPT ![t].i = th[t].i + 1]
    BY <1>7 DEF Format, At
  <2>2. th[t].i \in 1..Len(Text(t))
    BY <1>3, <1>4, <1>7, <2>1
  <2>3. Text(t)[th[t].i] \in Char
    <3>1. Text(t)[th[t].i] \in STRING
      BY <1>3, <2>2, ElementOfSeq
    <3> QED BY <3>1 DEF Char
  <2>4. th[t].i \in 1..BufLen /\ th[t].i # BufLen /\ th[t].i + 1 \in 1..(Len(Text(t)) + 1)
    BY <1>4, <1>5, <2>2
  <2>5. BufsOK'
    BY <1>1, <1>3, <2>1, <2>3, <2>4, StoreKeeps
  <2> DEFINE at == "format"
             i == th[t].i + 1
  <2>6. th' = [th EXCEPT ![t] = [th[t] EXCEPT !.at = at, !.i = i]]
    BY <1>1, <2>1 DEF Thread
  <2>7. at = "format" /\ i \in 1..(Len(Text(t)) + 1) /\ i \in Nat
    BY <1>4, <2>4
  <2> HIDE DEF at, i
  <2> QED BY <1>6, <2>1, <2>5, <2>6, <2>7
<1>8. CASE Format(t) /\ ~(th[t].i <= Len(Text(t)))
  <2> DEFINE at == IF th[t].source = "printk" THEN "end" ELSE "write"
  <2>1. th[t].at = "format" /\ Store(t, th[t].i, NUL)
        /\ th' = [th EXCEPT ![t].i = 1, ![t].at = at]
    BY <1>8 DEF Format, At
  <2>2. th[t].i \in 1..BufLen
    BY <1>3, <1>4, <1>5, <2>1
  <2>3. BufsOK'
    BY <1>1, <1>3, <2>1, <2>2, Nulls, StoreKeeps
  <2>4. th' = [th EXCEPT ![t] = [th[t] EXCEPT !.at = at, !.i = 1]]
    BY <1>1, <2>1 DEF Thread
  <2>5. at \in {"end", "write"} /\ (at = "end" => th[t].source = "printk")
    OBVIOUS
  <2> HIDE DEF at
  <2> QED BY <2>3, <2>4, <2>5, <1>6
<1>9. CASE Terminate(t)
  <2>1. th[t].at = "end" /\ Store(t, Len(Text(t)) + 1, NUL)
        /\ th' = [th EXCEPT ![t].at = "write"]
    BY <1>9 DEF Terminate, At, Go
  <2>2. Len(Text(t)) + 1 \in 1..BufLen
    BY <1>4, <1>5
  <2>3. BufsOK'
    BY <1>1, <1>3, <2>1, <2>2, Nulls, StoreKeeps
  <2> DEFINE r == [th[t] EXCEPT !.at = "write"]
  <2>4. r \in Thread
    BY <1>1 DEF Thread, Places
  <2>5. r.at = "write" /\ r.call = th[t].call /\ r.source = th[t].source
        /\ r.text = th[t].text /\ r.i = th[t].i
    BY <1>1 DEF Thread
  <2>6. th' = [th EXCEPT ![t] = r]
    BY <1>1, <2>1 DEF Thread
  <2> HIDE DEF r
  <2>7. ThreadOK(t, r)
    BY <1>1, <2>1, <2>5 DEF ThreadOK
  <2> QED BY <1>2, <2>3, <2>4, <2>6, <2>7, OneMoves
<1> QED BY <1>7, <1>8, <1>9

(* screen_write reads up to the NUL, and no further than the last place.   *)
LEMMA WriteKeepsTypes ==
  ASSUME TypeInv, NEW t \in Threads, Write(t)
  PROVE  TypeInv'
<1> DEFINE c == Source(t)[th[t].i]
<1>1. /\ th \in [Threads -> Thread] /\ th[t] \in Thread /\ ThreadOK(t, th[t])
      /\ ScreenOK /\ BufsOK
  BY DEF TypeInv
<1>2. program' = program /\ BufsOK' /\ th[t].at = "write"
  BY <1>1 DEF Write, BufsOK, At
<1>3. /\ th[t].source # "none" /\ th[t].i \in 1..Limit(th[t].source)
      /\ th[t].call <= Len(Calls(t))
  BY <1>1, <1>2 DEF ThreadOK, Calls
<1>4. alone' = alone \/ alone' = {}
  BY DEF Write, Return
<1>5. ScreenOK'
  BY <1>1, <1>4 DEF Write, ScreenOK
<1>6. c \in Char /\ (th[t].i = Limit(th[t].source) => c = NUL)
  <2>1. CASE th[t].source \in {"header", "footer"}
    <3>1. PICK s \in Seq(Char) : Source(t) = Append(s, NUL) /\ Limit(th[t].source) = Len(s) + 1
      <4>1. {Header, Footer} \subseteq Seq(Char)
        BY ConsoleAssumption, SeqMonotonic DEF Char
      <4> QED BY <2>1, <4>1 DEF Source, Limit
    <3> DEFINE q == Append(s, NUL)
    <3>2. q \in Seq(Char) /\ Len(q) = Len(s) + 1 /\ q[Len(s) + 1] = NUL
      BY Nulls, AppendProperties
    <3>3. \A i \in 1..(Len(s) + 1) : q[i] \in Char
      BY <3>2, ElementOfSeq
    <3> HIDE DEF q
    <3> QED BY <1>3, <3>1, <3>2, <3>3 DEF q
  <2>2. CASE th[t].source \in {"printk", "panic"}
    BY <1>1, <1>3, <2>2 DEF Source, Limit, BufsOK
  <2> QED BY <1>1, <1>3, <2>1, <2>2 DEF Thread
<1> HIDE DEF c
<1>7. CASE c # NUL /\ PutNext(t, c)
  <2> DEFINE r == [th[t] EXCEPT !.at = "putch", !.ch = c, !.i = th[t].i + 1]
  <2>1. th' = [th EXCEPT ![t] = r]
    BY <1>1, <1>7 DEF PutNext, Thread
  <2>2. r \in Thread
    <3>1. "putch" \in Places /\ th[t].i + 1 \in Nat
      BY <1>1 DEF Thread, Places
    <3> QED BY <1>1, <1>6, <3>1 DEF Thread
  <2>3. /\ r.at = "putch" /\ r.call = th[t].call /\ r.source = th[t].source
        /\ r.text = th[t].text /\ r.i = th[t].i + 1
    BY <1>1 DEF Thread
  <2> HIDE DEF r
  <2>4. Limit(th[t].source) \in Nat
    BY ConsoleAssumption DEF Limit
  <2>5. th[t].i + 1 \in 1..Limit(th[t].source)
    BY <1>3, <1>6, <1>7, <2>4
  <2>6. ThreadOK(t, r)
    BY <1>1, <1>2, <2>3, <2>5 DEF ThreadOK
  <2> QED BY <1>2, <1>5, <2>1, <2>2, <2>6, OneMoves
<1>8. CASE Return(t)
  BY <1>2, <1>3, <1>5, <1>8, ReturnKeepsTypes
<1>9. CASE th[t].source = "header" /\ Formats(t, "panic")
  <2>1. Call(t).op = "_panic"
    BY <1>1, <1>9 DEF ThreadOK, Call, Calls
  <2> QED BY <1>2, <1>3, <1>5, <1>9, <2>1, FormatsKeepsTypes
<1>10. CASE th[t].source = "panic" /\ FromStart(t, "write", "footer")
  <2>1. Call(t).op = "_panic"
    BY <1>1, <1>10 DEF ThreadOK, Call, Calls
  <2> QED BY <1>2, <1>3, <1>5, <1>10, <2>1, FromStartKeepsTypes
<1>11. CASE th[t].source = "footer" /\ Go(t, "spin")
  <2> DEFINE r == [th[t] EXCEPT !.at = "spin"]
  <2>1. th' = [th EXCEPT ![t] = r]
    BY <1>1, <1>11 DEF Go, Thread
  <2>2. r \in Thread
    BY <1>1 DEF Thread, Places
  <2>3. /\ r.at = "spin" /\ r.call = th[t].call /\ r.source = th[t].source
        /\ r.text = th[t].text /\ r.i = th[t].i
    BY <1>1 DEF Thread
  <2> HIDE DEF r
  <2>4. ThreadOK(t, r)
    BY <1>1, <1>2, <2>3 DEF ThreadOK
  <2> QED BY <1>2, <1>5, <2>1, <2>2, <2>4, OneMoves
<1> QED
  BY <1>7, <1>8, <1>9, <1>10, <1>11 DEF Write, c

(* The invariant holds of every step of every thread.                      *)
LEMMA TypeInvHolds == Spec => []TypeInv
<1>1. Init => TypeInv
  <2> SUFFICES ASSUME Init PROVE TypeInv
    OBVIOUS
  <2>1. MON_WIDTH \in Nat /\ MON_HEIGHT \in Nat /\ BufLen \in Nat \ {0}
    BY ConsoleAssumption
  <2>2. ScreenOK
    BY Nulls, <2>1 DEF Init, ScreenOK
  <2>3. BufsOK
    BY Nulls, <2>1 DEF Init, BufsOK
  <2>4. Idle \in Thread
    <3>1. << >> \in Seq(STRING) /\ 0 \in Nat /\ 1 \in Nat \ {0}
      OBVIOUS
    <3> QED BY <3>1, Nulls DEF Idle, Thread, Places
  <2>5. \A t \in Threads : ThreadOK(t, Idle)
    BY DEF ThreadOK, Idle
  <2> QED BY <2>2, <2>3, <2>4, <2>5 DEF Init, TypeInv
<1>2. TypeInv /\ [Next]_vars => TypeInv'
  <2> SUFFICES ASSUME TypeInv, [Next]_vars PROVE TypeInv'
    OBVIOUS
  <2>1. CASE Next
    <3> PICK t \in Threads : Step(t)
      BY <2>1 DEF Next
    <3> QED
      BY EnterKeepsTypes, FormatKeepsTypes, WriteKeepsTypes, PutchKeepsTypes, OutKeepsTypes,
         ClsKeepsTypes DEF Step, Putch
  <2>2. CASE UNCHANGED vars
    BY <2>2 DEF vars, TypeInv, ScreenOK, BufsOK, ThreadOK
  <2> QED
    BY <2>1, <2>2
<1> QED
  BY <1>1, <1>2, PTL DEF Spec

(* The console's variables keep their types, and no thread stores or reads *)
(* behind the end of a buffer of printk or _panic while others rewrite the *)
(* text it is showing (vsprintf, printk, screen_write).                    *)
THEOREM ConsoleTypes == Spec => []TypeOK
  BY TypeInvHolds, TypeInvThen, PTL

(* vsprintf starts on a text that reads back as the number it is of.       *)
LEMMA TypeInvReads == TypeInv => NumbersReadBack
<1> SUFFICES ASSUME TypeInv, NEW t \in Threads, At(t, "format"),
                    Len(Call(t).fmt) = 1, Call(t).fmt[1].conv \in NumberConvs
             PROVE  ReadsBack(Text(t), Call(t).fmt[1], Head(Call(t).args))
  BY DEF NumbersReadBack
<1> DEFINE c == program.calls[t][th[t].call]
           d == c.fmt[1]
<1>1. th[t] \in Thread /\ ThreadOK(t, th[t]) /\ program \in Programs
  BY DEF TypeInv
<1>2. th[t].call \in 1..Len(program.calls[t]) /\ c = Call(t)
  BY <1>1, CallersAssumption DEF ThreadOK, At, Thread, Call, Calls
<1>3. c.op \in {"printk", "_panic"} /\ Text(t) = Vsprintf(c.fmt, c.args)
  BY <1>1 DEF ThreadOK, At, Text
<1>4. c.fmt \in Seq(Scanned) /\ Head(c.args) \in Word
  BY <1>1, <1>2, <1>3, TextFits
<1>5. d \in Scanned /\ c.fmt = <<d>>
  <2> DEFINE f == c.fmt
  <2>1. f \in Seq(Scanned) /\ Len(f) = 1
    BY <1>2, <1>4
  <2> HIDE DEF f
  <2>2. f[1] \in Scanned /\ f = <<f[1]>>
    BY <2>1
  <2> QED BY <2>2 DEF f
<1>6. d.conv \in NumberConvs
  BY <1>2
<1>7. ReadsBack(Vsprintf(<<d>>, c.args), d, Head(c.args))
  BY <1>4, <1>5, <1>6, NumberIsWritten
<1> QED BY <1>2, <1>3, <1>5, <1>7

(* A number printed through a directive alone reads back as that number,   *)
(* with a minus sign exactly if it was taken as signed and is negative, in *)
(* a field of its width and precision filled up on one side, for every     *)
(* word and every directive (number, vsprintf).                            *)
THEOREM NumbersAreReadBack == Spec => []NumbersReadBack
<1>1. Spec => []TypeInv
  BY TypeInvHolds
<1> QED BY <1>1, TypeInvReads, PTL

-----------------------------------------------------------------------------
(* Pages, on which stands what was on the screen or has been typed.        *)
Marks(s) == STRING \cup {BLANK} \cup {s.screen[a] : a \in Cells}
Pages(s) == [cells : [Nat -> Marks(s)], row : Nat, column : 0..(MON_WIDTH - 1)]

(* From some line on nothing stands on a page.                             *)
BlankFrom(page, line) == \A a \in Nat : a >= line * MON_WIDTH => page.cells[a] = BLANK

(* The screen reaches down to the line of the cursor.                      *)
LEMMA TopIs ==
  ASSUME NEW page, page.row \in Nat
  PROVE  /\ Top(page) \in Nat /\ Top(page) <= page.row
         /\ Top(page) = IF page.row < MON_HEIGHT THEN 0 ELSE page.row - (MON_HEIGHT - 1)
         /\ page.row - Top(page) \in 0..(MON_HEIGHT - 1)
<1> DEFINE r == page.row - (MON_HEIGHT - 1)
           top == IF page.row < MON_HEIGHT THEN 0 ELSE r
<1>1. MON_HEIGHT \in Nat \ {0} /\ r \in Int
  BY ConsoleAssumption
<1>2. top \in {0, r} /\ \A y \in {0, r} : top >= y
  BY <1>1
<1>3. \A x \in {0, r} : (\A y \in {0, r} : x >= y) => x = top
  BY <1>1, <1>2
<1>4. Top(page) = CHOOSE x \in {0, r} : \A y \in {0, r} : x >= y
  BY DEF Top, Max
<1> HIDE DEF r, top
<1>5. Top(page) = top
  BY <1>2, <1>3, <1>4
<1>6. top = IF page.row < MON_HEIGHT THEN 0 ELSE page.row - (MON_HEIGHT - 1)
  BY DEF top, r
<1> QED BY <1>1, <1>5, <1>6

(* The next line leaves the screen where it is or moves it on by one.      *)
LEMMA NextLine ==
  ASSUME NEW page, NEW next, page.row \in Nat, next.row = page.row + 1
  PROVE  LET y == page.row - Top(page)
         IN /\ y + 1 < MON_HEIGHT => Top(next) = Top(page) /\ next.row - Top(next) = y + 1
            /\ y + 1 >= MON_HEIGHT =>
                 Top(next) = Top(page) + 1 /\ next.row - Top(next) = MON_HEIGHT - 1
<1>1. MON_HEIGHT \in Nat \ {0} /\ next.row \in Nat
  BY ConsoleAssumption
<1>2. Top(page) = IF page.row < MON_HEIGHT THEN 0 ELSE page.row - (MON_HEIGHT - 1)
  BY TopIs
<1>3. Top(next) = IF next.row < MON_HEIGHT THEN 0 ELSE next.row - (MON_HEIGHT - 1)
  BY <1>1, TopIs
<1> QED BY <1>1, <1>2, <1>3

(* What a character makes of a page, in terms of putch.                    *)
LEMMA TypedIs ==
  ASSUME NEW s, NEW page \in Pages(s), NEW c \in STRING
  PROVE  LET x == NewX(c, page.column)
             at(row, column) == [page EXCEPT !.row = row, !.column = column]
             onTo(p) == IF x < MON_WIDTH THEN [p EXCEPT !.column = x]
                        ELSE [p EXCEPT !.row = page.row + 1, !.column = 0]
             here == page.row * MON_WIDTH + page.column
         IN /\ c = "\n" => Typed(page, c) = at(page.row + 1, 0)
            /\ c = "\r" => Typed(page, c) = at(page.row, 0)
            /\ c \in Other => Typed(page, c) = page
            /\ c = "BS" => Typed(page, c) = at(page.row, x) /\ x < MON_WIDTH
            /\ c = "\t" => Typed(page, c) = onTo(page)
            /\ c \notin Special \cup Other =>
                 Typed(page, c) = [onTo(page) EXCEPT !.cells = [page.cells EXCEPT ![here] = c]]
            /\ c \notin {"\n", "\r"} => x \in Nat
            /\ c \notin Special \cup Other => x = page.column + 1
<1> DEFINE col == page.column
           tabbed == (col \div TabStop + 1) * TabStop
<1>1. /\ MON_WIDTH \in Nat \ {0} /\ TabStop \in Nat \ {0} /\ ByteModulus \in Nat
      /\ MON_WIDTH + TabStop <= ByteModulus
      /\ page = [cells |-> page.cells, row |-> page.row, column |-> col]
      /\ col \in 0..(MON_WIDTH - 1) /\ page.row \in Nat
  BY ConsoleAssumption DEF Pages
<1>2. tabbed \in Nat /\ tabbed < ByteModulus
  <2> DEFINE q == col \div TabStop
  <2>1. q \in Nat /\ q * TabStop <= col
    BY <1>1
  <2> HIDE DEF q, col
  <2>2. (q + 1) * TabStop = q * TabStop + TabStop /\ q * TabStop \in Nat
    BY <1>1, <2>1
  <2>3. tabbed = (q + 1) * TabStop
    BY DEF q
  <2> HIDE DEF tabbed
  <2> QED BY <1>1, <2>1, <2>2, <2>3
<1>3. \A n \in Nat : n < ByteModulus => n % ByteModulus = n
  BY <1>1
<1>4. c = "\t" => NewX(c, col) = tabbed
  <2>1. c = "\t" => NewX(c, col) = tabbed % ByteModulus
    BY DEF NewX, Special, Other
  <2> HIDE DEF tabbed
  <2> QED BY <1>2, <1>3, <2>1
<1>5. c \notin Special \cup Other => NewX(c, col) = col + 1
  <2>1. c \notin Special \cup Other => NewX(c, col) = (col + 1) % ByteModulus
    BY DEF NewX, Special, Other
  <2> QED BY <1>1, <1>3, <2>1
<1>6. c = "BS" => NewX(c, col) = IF col > 0 THEN col - 1 ELSE col
  BY DEF NewX, Special, Other
<1>7. c \in Other => NewX(c, col) = col
  BY DEF NewX, Special, Other
<1> DEFINE onto(column) == IF column < MON_WIDTH THEN [page EXCEPT !.column = column]
                           ELSE [page EXCEPT !.row = page.row + 1, !.column = 0]
           here == page.row * MON_WIDTH + col
<1>8. /\ c = "\n" => Typed(page, c) = [page EXCEPT !.row = page.row + 1, !.column = 0]
      /\ c = "\r" => Typed(page, c) = [page EXCEPT !.column = 0]
      /\ c = "BS" => Typed(page, c) = [page EXCEPT !.column = IF col > 0 THEN col - 1 ELSE 0]
      /\ c = "\t" => Typed(page, c) = onto(tabbed)
      /\ c \in Other => Typed(page, c) = page
  BY <1>1 DEF Typed, Special, Other
<1>9. c \notin Special \cup Other =>
        Typed(page, c) = [onto(col + 1) EXCEPT !.cells[here] = c]
  BY <1>1 DEF Typed, Special, Other
<1>10. \A column : onto(column).cells = page.cells
  BY <1>1
<1> HIDE DEF tabbed, here
<1>11. ASSUME c = "\r" PROVE Typed(page, c) = [page EXCEPT !.row = page.row, !.column = 0]
  BY <1>1, <1>8, <1>11
<1>12. ASSUME c = "BS"
       PROVE  /\ Typed(page, c) = [page EXCEPT !.row = page.row, !.column = NewX(c, col)]
              /\ NewX(c, col) < MON_WIDTH /\ NewX(c, col) \in Nat
  <2> DEFINE x == IF col > 0 THEN col - 1 ELSE 0
  <2>1. NewX(c, col) = x /\ x < MON_WIDTH /\ x \in Nat
    BY <1>1, <1>6, <1>12
  <2>2. Typed(page, c) = [page EXCEPT !.column = x]
    BY <1>8, <1>12
  <2>3. [page EXCEPT !.column = x] = [page EXCEPT !.row = page.row, !.column = x]
    BY <1>1
  <2> QED BY <2>1, <2>2, <2>3
<1>13. ASSUME c = "\t"
       PROVE  /\ Typed(page, c) = onto(NewX(c, col)) /\ NewX(c, col) \in Nat
  BY <1>2, <1>4, <1>8, <1>13
<1>14. ASSUME c \notin Special \cup Other
       PROVE  /\ Typed(page, c) = [onto(NewX(c, col)) EXCEPT !.cells = [page.cells EXCEPT ![here] = c]]
              /\ NewX(c, col) \in Nat /\ NewX(c, col) = col + 1
  <2> HIDE DEF onto
  <2>1. NewX(c, col) = col + 1 /\ col + 1 \in Nat
    BY <1>1, <1>5, <1>14
  <2>2. \A p : p.cells = page.cells =>
          [p EXCEPT !.cells[here] = c] = [p EXCEPT !.cells = [page.cells EXCEPT ![here] = c]]
    OBVIOUS
  <2>3. [onto(col + 1) EXCEPT !.cells[here] = c]
          = [onto(col + 1) EXCEPT !.cells = [page.cells EXCEPT ![here] = c]]
    BY <1>10, <2>2
  <2> QED BY <1>9, <1>14, <2>1, <2>3
<1>15. ASSUME c \in Other PROVE NewX(c, col) \in Nat
  BY <1>1, <1>7, <1>15
<1>16. c \notin {"\n", "\r"} => NewX(c, col) \in Nat
  BY <1>12, <1>13, <1>14, <1>15 DEF Special
<1> HIDE DEF onto
<1> QED BY <1>8, <1>11, <1>12, <1>13, <1>14, <1>16 DEF onto, here

(* Nothing stands below the last line that the screen shows.               *)
Ends(page) == BlankFrom(page, Top(page) + MON_HEIGHT)

LEMMA PageMoves ==
  ASSUME NEW s, NEW page \in Pages(s)
  PROVE  /\ \A row, column : [page EXCEPT !.row = row, !.column = column]
                             = [cells |-> page.cells, row |-> row, column |-> column]
         /\ \A column : [page EXCEPT !.column = column]
                         = [cells |-> page.cells, row |-> page.row, column |-> column]
<1>1. \A row, column : [page EXCEPT !.row = row, !.column = column]
                         = [cells |-> page.cells, row |-> row, column |-> column]
  <2> SUFFICES ASSUME NEW row, NEW column
               PROVE  [page EXCEPT !.row = row, !.column = column]
                        = [cells |-> page.cells, row |-> row, column |-> column]
    OBVIOUS
  <2> DEFINE p == [page EXCEPT !.row = row]
  <2>1. p = [cells |-> page.cells, row |-> row, column |-> page.column]
    BY DEF Pages
  <2>2. [page EXCEPT !.row = row, !.column = column] = [p EXCEPT !.column = column]
    OBVIOUS
  <2> HIDE DEF p
  <2>3. [p EXCEPT !.column = column] = [cells |-> page.cells, row |-> row, column |-> column]
    BY <2>1
  <2> QED BY <2>2, <2>3
<1>2. \A column : [page EXCEPT !.column = column]
                   = [cells |-> page.cells, row |-> page.row, column |-> column]
  BY DEF Pages
<1> QED BY <1>1, <1>2

(* A character leads from page to page.                                    *)
LEMMA TypedKeeps ==
  ASSUME NEW s, NEW page \in Pages(s), NEW c \in STRING
  PROVE  LET next == Typed(page, c)
         IN /\ next \in Pages(s)
            /\ next.row \in {page.row, page.row + 1}
            /\ Ends(page) => BlankFrom(next, Top(page) + MON_HEIGHT) /\ Ends(next)
<1> DEFINE next == Typed(page, c)
           x == NewX(c, page.column)
           here == page.row * MON_WIDTH + page.column
           line == Top(page) + MON_HEIGHT
<1>1. /\ MON_WIDTH \in Nat \ {0} /\ MON_HEIGHT \in Nat \ {0}
      /\ page = [cells |-> page.cells, row |-> page.row, column |-> page.column]
      /\ page.column \in 0..(MON_WIDTH - 1) /\ page.row \in Nat /\ page.cells \in [Nat -> Marks(s)]
  BY ConsoleAssumption DEF Pages
<1>2. Top(page) \in Nat /\ page.row - Top(page) \in 0..(MON_HEIGHT - 1)
  BY <1>1, TopIs
<1>3. here \in Nat /\ here < line * MON_WIDTH
  <2>1. page.row * MON_WIDTH \in Nat
    BY <1>1
  <2>2. (page.row + 1) * MON_WIDTH = page.row * MON_WIDTH + MON_WIDTH
    BY <1>1
  <2>3. page.row + 1 <= line /\ line \in Nat
    BY <1>1, <1>2
  <2>4. \A a, b \in Nat : a <= b => a * MON_WIDTH <= b * MON_WIDTH
    BY <1>1
  <2>5. (page.row + 1) * MON_WIDTH <= line * MON_WIDTH
    BY <1>1, <2>3, <2>4
  <2>6. here \in Nat /\ here < (page.row + 1) * MON_WIDTH
    BY <1>1, <2>1, <2>2
  <2>7. line * MON_WIDTH \in Nat /\ (page.row + 1) * MON_WIDTH \in Nat
    BY <1>1, <2>3
  <2> HIDE DEF here, line
  <2> QED BY <2>5, <2>6, <2>7
<1>4. c \in Marks(s) /\ 0 \in 0..(MON_WIDTH - 1)
  BY <1>1 DEF Marks
<1>0. /\ \A row, column : [page EXCEPT !.row = row, !.column = column]
                           = [cells |-> page.cells, row |-> row, column |-> column]
      /\ \A column : [page EXCEPT !.column = column]
                       = [cells |-> page.cells, row |-> page.row, column |-> column]
      /\ page.row \in {page.row, page.row + 1}
  BY PageMoves
<1>5. \E cells \in {page.cells, [page.cells EXCEPT ![here] = c]},
         row \in {page.row, page.row + 1}, column \in 0..(MON_WIDTH - 1) :
        next = [cells |-> cells, row |-> row, column |-> column]
  <2> DEFINE typed == [page.cells EXCEPT ![here] = c]
  <2>1. CASE c \in {"\n", "\r", "BS"} \cup Other
    <3>1. CASE c \in {"\n", "\r"}
      <4>1. next = [page EXCEPT !.row = page.row + 1, !.column = 0]
              \/ next = [page EXCEPT !.row = page.row, !.column = 0]
        BY <3>1, TypedIs
      <4> HIDE DEF next
      <4> QED BY <1>0, <1>4, <4>1
    <3>2. CASE c = "BS"
      <4>1. next = [page EXCEPT !.row = page.row, !.column = x] /\ x < MON_WIDTH /\ x \in Nat
        BY <3>2, TypedIs
      <4> HIDE DEF next, x
      <4>2. x \in 0..(MON_WIDTH - 1)
        BY <1>1, <4>1
      <4>3. next = [cells |-> page.cells, row |-> page.row, column |-> x]
        BY <1>0, <4>1
      <4> QED BY <4>2, <4>3
    <3>3. CASE c \in Other
      <4>1. next = page
        BY <3>3, TypedIs
      <4> HIDE DEF next
      <4> QED BY <1>1, <4>1
    <3> QED BY <2>1, <3>1, <3>2, <3>3
  <2>2. CASE c \notin {"\n", "\r", "BS"} \cup Other
    <3> DEFINE onto == IF x < MON_WIDTH THEN [page EXCEPT !.column = x]
                       ELSE [page EXCEPT !.row = page.row + 1, !.column = 0]
    <3>1. x \in Nat
      BY <2>2, TypedIs
    <3>2. next = onto \/ next = [onto EXCEPT !.cells = typed]
      <4>1. CASE c = "\t"
        BY <4>1, TypedIs
      <4>2. CASE c # "\t"
        <5>1. c \notin Special \cup Other
          BY <2>2, <4>2 DEF Special
        <5> QED BY <5>1, TypedIs
      <4> QED BY <4>1, <4>2
    <3> HIDE DEF next, x, typed
    <3>3. \E row \in {page.row, page.row + 1}, column \in 0..(MON_WIDTH - 1) :
            onto = [cells |-> page.cells, row |-> row, column |-> column]
      <4>1. CASE x < MON_WIDTH
        <5>1. x \in 0..(MON_WIDTH - 1)
          BY <1>1, <3>1, <4>1
        <5> QED BY <1>0, <4>1, <5>1
      <4>2. CASE ~(x < MON_WIDTH)
        BY <1>0, <1>4, <4>2
      <4> QED BY <4>1, <4>2
    <3> HIDE DEF onto
    <3>4. PICK row \in {page.row, page.row + 1}, column \in 0..(MON_WIDTH - 1) :
            onto = [cells |-> page.cells, row |-> row, column |-> column]
      BY <3>3
    <3>5. [onto EXCEPT !.cells = typed] = [cells |-> typed, row |-> row, column |-> column]
      BY <3>4
    <3> QED BY <3>2, <3>4, <3>5 DEF typed
  <2> QED BY <2>1, <2>2
<1> HIDE DEF here, x
<1>6. PICK cells \in {page.cells, [page.cells EXCEPT ![here] = c]},
           row \in {page.row, page.row + 1}, column \in 0..(MON_WIDTH - 1) :
        next = [cells |-> cells, row |-> row, column |-> column]
  BY <1>5
<1> HIDE DEF next
<1>7. cells \in [Nat -> Marks(s)] /\ row \in Nat
  BY <1>1, <1>4, <1>6
<1>8. next \in Pages(s) /\ next.row = row /\ next.cells = cells
  BY <1>6, <1>7 DEF Pages
<1>9. ASSUME Ends(page) PROVE BlankFrom(next, line)
  <2> HIDE DEF line
  <2> SUFFICES ASSUME NEW a \in Nat, a >= line * MON_WIDTH PROVE cells[a] = BLANK
    BY <1>8 DEF BlankFrom
  <2>1. line * MON_WIDTH \in Nat
    BY <1>1, <1>2 DEF line
  <2>2. a # here
    BY <1>3, <2>1
  <2>3. page.cells[a] = BLANK
    BY <1>9 DEF Ends, BlankFrom, line
  <2> QED BY <1>1, <1>6, <2>2, <2>3
<1>10. ASSUME Ends(page) PROVE Ends(next)
  <2>1. Top(next) \in {Top(page), Top(page) + 1}
    <3>1. CASE row = page.row
      BY <1>8, <3>1 DEF Top
    <3>2. CASE row = page.row + 1
      <4>1. /\ page.row - Top(page) + 1 < MON_HEIGHT => Top(next) = Top(page)
            /\ page.row - Top(page) + 1 >= MON_HEIGHT => Top(next) = Top(page) + 1
        BY <1>1, <1>8, <3>2, NextLine
      <4> QED BY <1>1, <1>2, <4>1
    <3> QED BY <3>1, <3>2
  <2>2. (Top(next) + MON_HEIGHT) * MON_WIDTH >= line * MON_WIDTH
    <3>1. line \in Nat /\ (line + 1) * MON_WIDTH >= line * MON_WIDTH
      BY <1>1, <1>2
    <3> QED BY <1>1, <1>2, <2>1, <3>1
  <2>3. line * MON_WIDTH \in Nat /\ (Top(next) + MON_HEIGHT) * MON_WIDTH \in Nat
    BY <1>1, <1>2, <2>1
  <2> HIDE DEF line
  <2> QED BY <1>9, <1>10, <2>2, <2>3 DEF Ends, BlankFrom
<1> QED BY <1>6, <1>8, <1>9, <1>10 DEF next

(* The page a text is typed on, character by character.                    *)
Types(v, s, text) ==
  /\ v[0] = Page(s)
  /\ \A k \in 1..Len(text) : v[k] = Typed(v[k - 1], text[k])

LEMMA FirstPage ==
  ASSUME NEW s, OnScreen(s)
  PROVE  Page(s) \in Pages(s) /\ Ends(Page(s))
<1>1. /\ MON_WIDTH \in Nat \ {0} /\ MON_HEIGHT \in Nat \ {0}
      /\ s.x \in 0..(MON_WIDTH - 1) /\ s.y \in 0..(MON_HEIGHT - 1)
  BY ConsoleAssumption DEF OnScreen
<1>2. [a \in Nat |-> IF a \in Cells THEN s.screen[a] ELSE BLANK] \in [Nat -> Marks(s)]
  <2> SUFFICES ASSUME NEW a \in Nat
               PROVE  (IF a \in Cells THEN s.screen[a] ELSE BLANK) \in Marks(s)
    OBVIOUS
  <2>1. BLANK \in Marks(s)
    BY DEF Marks
  <2>2. a \in Cells => s.screen[a] \in Marks(s)
    BY DEF Marks
  <2> QED BY <2>1, <2>2
<1>3. s.y \in Nat
  BY <1>1
<1>4. Page(s) \in Pages(s)
  BY <1>1, <1>2, <1>3 DEF Page, Pages
<1>5. Page(s).row = s.y
  BY DEF Page
<1>6. Top(Page(s)) = 0
  BY <1>1, <1>3, <1>5, TopIs
<1>7. ASSUME NEW a \in Nat, a >= (0 + MON_HEIGHT) * MON_WIDTH PROVE Page(s).cells[a] = BLANK
  <2>1. a \notin Cells
    BY <1>1, <1>7 DEF Cells
  <2> QED BY <2>1 DEF Page
<1> QED BY <1>4, <1>6, <1>7 DEF Ends, BlankFrom

LEMMA PageRead ==
  ASSUME NEW s, OnScreen(s), NEW text \in Seq(STRING)
  PROVE  \E v : /\ Types(v, s, text) /\ PageWith(s, text) = v[Len(text)]
                /\ \A k \in 0..Len(text) : v[k] \in Pages(s) /\ Ends(v[k])
<1> DEFINE n == Len(text)
           S == {page \in Pages(s) : Ends(page)}
           G == [p \in (1..n) \X S |-> Typed(p[2], text[p[1]])]
           Body(f) == [k \in 0..n |-> IF k = 0 THEN Page(s) ELSE Typed(f[k - 1], text[k])]
           v == CHOOSE f : f = Body(f)
<1>1. Page(s) \in S
  BY FirstPage
<1>2. ASSUME NEW k \in 1..n, NEW page \in S PROVE Typed(page, text[k]) \in S
  <2>1. text[k] \in STRING
    BY ElementOfSeq
  <2> QED BY <2>1, TypedKeeps
<1>3. PageWith(s, text) = v[n]
  BY DEF PageWith
<1> HIDE DEF S
<1>4. G \in [(1..n) \X S -> S]
  BY <1>2
<1>5. \A k \in 1..n, page \in S : G[<<k, page>>] = Typed(page, text[k])
  OBVIOUS
<1> HIDE DEF G
<1>6. PICK g \in [0..n -> S] : Recurs(g, n, Page(s), G)
  <2>1. n \in Nat
    OBVIOUS
  <2> HIDE DEF n
  <2> QED BY <1>1, <1>4, <2>1, Recursion
<1>7. \A k \in 1..n : g[k] = Typed(g[k - 1], text[k])
  <2> SUFFICES ASSUME NEW k \in 1..n PROVE g[k] = Typed(g[k - 1], text[k])
    OBVIOUS
  <2>1. k - 1 \in 0..n
    OBVIOUS
  <2>2. g[k - 1] \in S
    BY <2>1
  <2>3. g[k] = G[<<k, g[k - 1]>>]
    BY <1>6 DEF Recurs
  <2> QED BY <1>5, <2>2, <2>3
<1>8. g = Body(g)
  <2>1. g[0] = Page(s)
    BY <1>6 DEF Recurs
  <2>2. \A k \in 0..n : g[k] = Body(g)[k]
    BY <1>7, <2>1
  <2>3. g = [k \in 0..n |-> g[k]] /\ Body(g) = [k \in 0..n |-> Body(g)[k]]
    OBVIOUS
  <2> QED BY <2>2, <2>3
<1>9. v = Body(v)
  BY <1>8
<1> HIDE DEF v
<1>10. v[0] = Page(s)
  BY <1>9
<1>11. \A k \in 1..n : v[k] = Typed(v[k - 1], text[k])
  BY <1>9
<1>12. \A k \in 0..n : v[k] \in S
  <2> DEFINE P == {k \in 0..n : v[k] \in S}
  <2>1. 0 \in P
    BY <1>1, <1>10
  <2>2. \A k \in 1..n : k - 1 \in P => k \in P
    BY <1>2, <1>11
  <2>3. n \in Nat
    OBVIOUS
  <2> HIDE DEF P, n
  <2>4. \A k \in 0..n : k \in P
    BY <2>1, <2>2, <2>3, Induct
  <2> QED BY <2>4 DEF P
<1> QED BY <1>3, <1>10, <1>11, <1>12 DEF Types, S

LEMMA PagesAre ==
  ASSUME NEW s, OnScreen(s), NEW text \in Seq(STRING)
  PROVE  PageWith(s, text) \in Pages(s) /\ Ends(PageWith(s, text))
<1>1. Len(text) \in 0..Len(text)
  OBVIOUS
<1> QED BY <1>1, PageRead

(* Nothing typed leaves the page as it was,                                *)
LEMMA PageFirst ==
  ASSUME NEW s, OnScreen(s)
  PROVE  PageWith(s, << >>) = Page(s)
<1>1. << >> \in Seq(STRING) /\ Len(<< >>) = 0
  OBVIOUS
<1> QED BY <1>1, PageRead DEF Types

(* and a text with one more character is typed on from there.              *)
LEMMA PageNext ==
  ASSUME NEW s, OnScreen(s), NEW text \in Seq(STRING), NEW c \in STRING
  PROVE  PageWith(s, Append(text, c)) = Typed(PageWith(s, text), c)
<1> DEFINE n == Len(text)
           longer == Append(text, c)
<1>1. /\ longer \in Seq(STRING) /\ Len(longer) = n + 1 /\ n \in Nat
      /\ \A k \in 1..n : longer[k] = text[k]
      /\ longer[n + 1] = c
  <2>1. longer \in Seq(STRING) /\ Len(longer) = Len(text) + 1
    BY AppendProperties
  <2>2. \A k \in 1..Len(text) : longer[k] = text[k]
    BY AppendProperties
  <2>3. longer[Len(text) + 1] = c
    BY AppendProperties
  <2>4. Len(text) \in Nat
    OBVIOUS
  <2> QED BY <2>1, <2>2, <2>3, <2>4
<1>2. PICK v : Types(v, s, text) /\ PageWith(s, text) = v[n]
  BY PageRead
<1> HIDE DEF longer
<1>3. PICK w : Types(w, s, longer) /\ PageWith(s, longer) = w[n + 1]
  BY <1>1, PageRead
<1> DEFINE P == {k \in 0..n : w[k] = v[k]}
<1>4. 0 \in P
  BY <1>1, <1>2, <1>3 DEF Types
<1>5. ASSUME NEW k \in 1..n, k - 1 \in P PROVE k \in P
  <2>1. v[k] = Typed(v[k - 1], text[k])
    BY <1>2 DEF Types
  <2>2. w[k] = Typed(w[k - 1], longer[k])
    BY <1>1, <1>3 DEF Types
  <2> QED BY <1>1, <1>5, <2>1, <2>2
<1> HIDE DEF n, P
<1>6. \A k \in 0..n : k \in P
  BY <1>1, <1>4, <1>5, Induct
<1>7. w[n] = v[n]
  <2>1. n \in 0..n
    BY <1>1
  <2> QED BY <1>6, <2>1 DEF P
<1>8. w[n + 1] = Typed(w[n], c)
  <2>1. n + 1 \in 1..Len(longer) /\ (n + 1) - 1 = n
    BY <1>1
  <2> QED BY <1>1, <1>3, <2>1 DEF Types
<1> QED BY <1>2, <1>3, <1>7, <1>8 DEF longer

(* Where a character leaves the cursor, and what it leaves on the page.    *)
LEMMA NextIs ==
  ASSUME NEW s, NEW page \in Pages(s), NEW c \in STRING
  PROVE  LET next == Typed(page, c)
             x    == NewX(c, page.column)
             here == page.row * MON_WIDTH + page.column
         IN /\ c \notin {"\n", "\r"} =>
                 /\ x \in Nat
                 /\ x < MON_WIDTH => next.row = page.row /\ next.column = x
                 /\ x >= MON_WIDTH => next.row = page.row + 1 /\ next.column = 0
            /\ c = "\n" => next.row = page.row + 1 /\ next.column = 0
            /\ c = "\r" => next.row = page.row /\ next.column = 0
            /\ c \in Special \cup Other => next.cells = page.cells
            /\ c \in Other => x = page.column
            /\ c = "BS" /\ page.column = 0 => x = 0
            /\ c \notin Special \cup Other =>
                 x = page.column + 1 /\ next.cells = [page.cells EXCEPT ![here] = c]
<1> DEFINE next == Typed(page, c)
           x == NewX(c, page.column)
           typed == [page.cells EXCEPT ![page.row * MON_WIDTH + page.column] = c]
           onto == IF x < MON_WIDTH THEN [page EXCEPT !.column = x]
                   ELSE [page EXCEPT !.row = page.row + 1, !.column = 0]
<1>1. /\ MON_WIDTH \in Nat \ {0} /\ page.column \in 0..(MON_WIDTH - 1) /\ page.row \in Nat
      /\ page = [cells |-> page.cells, row |-> page.row, column |-> page.column]
  BY ConsoleAssumption DEF Pages
<1>2. /\ \A row, column : [page EXCEPT !.row = row, !.column = column]
                           = [cells |-> page.cells, row |-> row, column |-> column]
      /\ \A column : [page EXCEPT !.column = column]
                       = [cells |-> page.cells, row |-> page.row, column |-> column]
  BY PageMoves
<1>3. onto = [cells |-> page.cells,
              row |-> IF x < MON_WIDTH THEN page.row ELSE page.row + 1,
              column |-> IF x < MON_WIDTH THEN x ELSE 0]
  <2> HIDE DEF x
  <2>1. CASE x < MON_WIDTH
    BY <1>2, <2>1
  <2>2. CASE ~(x < MON_WIDTH)
    BY <1>2, <2>2
  <2> QED BY <2>1, <2>2
<1>4. /\ c = "\n" => next = [page EXCEPT !.row = page.row + 1, !.column = 0]
      /\ c = "\r" => next = [page EXCEPT !.row = page.row, !.column = 0]
  BY TypedIs
<1>5. /\ c \in Other => next = page
      /\ c = "BS" => next = [page EXCEPT !.row = page.row, !.column = x] /\ x < MON_WIDTH
      /\ c \notin {"\n", "\r"} => x \in Nat
      /\ c \notin Special \cup Other => x = page.column + 1
  BY TypedIs
<1>6. c = "\t" => next = onto
  BY TypedIs
<1>7. c \notin Special \cup Other => next = [onto EXCEPT !.cells = typed]
  BY TypedIs
<1>8. c \in Other => x = page.column
  BY DEF NewX, Special, Other
<1>9. c = "BS" /\ page.column = 0 => x = 0
  BY <1>1 DEF NewX, Special, Other
<1> HIDE DEF next, x, typed
<1>10. CASE c \in {"\n", "\r"}
  BY <1>2, <1>4, <1>10 DEF next, x, Special, Other
<1>11. CASE c = "BS"
  <2>1. next.row = page.row /\ next.column = x /\ next.cells = page.cells
    BY <1>2, <1>5, <1>11
  <2>2. x \in Nat /\ x < MON_WIDTH /\ c \notin {"\n", "\r"} /\ c \notin Other /\ c \in Special
    BY <1>5, <1>11 DEF Special, Other
  <2>3. ~(x >= MON_WIDTH)
    BY <1>1, <2>2
  <2> QED BY <1>9, <1>11, <2>1, <2>2, <2>3 DEF next, x
<1>12. CASE c \in Other
  <2>1. next = page /\ x = page.column /\ x < MON_WIDTH
    BY <1>1, <1>5, <1>8, <1>12
  <2> QED BY <1>1, <2>1, <1>12 DEF next, x, Special, Other
<1>13. CASE c = "\t"
  <2> HIDE DEF onto
  <2>1. /\ next.row = IF x < MON_WIDTH THEN page.row ELSE page.row + 1
        /\ next.column = IF x < MON_WIDTH THEN x ELSE 0
        /\ next.cells = page.cells
    BY <1>3, <1>6, <1>13
  <2>2. x \in Nat /\ c \notin {"\n", "\r", "BS"} /\ c \notin Other /\ c \in Special
    BY <1>5, <1>13 DEF Special, Other
  <2>3. x >= MON_WIDTH <=> ~(x < MON_WIDTH)
    BY <1>1, <2>2
  <2> QED BY <2>1, <2>2, <2>3 DEF next, x
<1>14. CASE c \notin Special \cup Other
  <2> HIDE DEF onto
  <2>1. next = [cells |-> typed,
                row |-> IF x < MON_WIDTH THEN page.row ELSE page.row + 1,
                column |-> IF x < MON_WIDTH THEN x ELSE 0]
    BY <1>3, <1>7, <1>14
  <2>2. c \notin {"\n", "\r", "BS"} /\ c \notin Other
    BY <1>14 DEF Special
  <2>3. x \in Nat /\ x = page.column + 1
    BY <1>5, <1>14, <2>2
  <2>4. /\ x < MON_WIDTH => next.row = page.row /\ next.column = x
        /\ x >= MON_WIDTH => next.row = page.row + 1 /\ next.column = 0
        /\ next.cells = typed
    BY <1>1, <2>1, <2>3
  <2> QED BY <1>14, <2>2, <2>3, <2>4 DEF next, x, typed
<1> QED BY <1>10, <1>11, <1>12, <1>13, <1>14 DEF Special

(* What is typed where the cursor is appears there on the screen.          *)
LEMMA WindowTypes ==
  ASSUME NEW s, NEW page \in Pages(s), NEW next, NEW c,
         next.cells = [page.cells EXCEPT ![page.row * MON_WIDTH + page.column] = c]
  PROVE  LET top == Top(page)
             a   == page.column + MON_WIDTH * (page.row - top)
         IN /\ a \in Cells
            /\ Window(next, top) = [Window(page, top) EXCEPT ![a] = c]
<1> DEFINE top == Top(page)
           y == page.row - top
           a == page.column + MON_WIDTH * y
           here == page.row * MON_WIDTH + page.column
<1>1. /\ MON_WIDTH \in Nat \ {0} /\ MON_HEIGHT \in Nat \ {0}
      /\ page.column \in 0..(MON_WIDTH - 1) /\ page.row \in Nat /\ page.cells \in [Nat -> Marks(s)]
  BY ConsoleAssumption DEF Pages
<1>2. top \in Nat /\ y \in 0..(MON_HEIGHT - 1) /\ page.row = y + top
  BY <1>1, TopIs
<1> HIDE DEF top, y
<1>3. /\ y * MON_WIDTH \in Nat /\ top * MON_WIDTH \in Nat
      /\ page.row * MON_WIDTH = y * MON_WIDTH + top * MON_WIDTH
      /\ MON_WIDTH * y = y * MON_WIDTH
  <2>1. (y + top) * MON_WIDTH = y * MON_WIDTH + top * MON_WIDTH
    BY <1>1, <1>2
  <2> QED BY <1>1, <1>2, <2>1
<1>4. a \in Cells
  <2>1. y * MON_WIDTH <= (MON_HEIGHT - 1) * MON_WIDTH
    BY <1>1, <1>2
  <2>2. (MON_HEIGHT - 1) * MON_WIDTH = MON_WIDTH * MON_HEIGHT - MON_WIDTH
    BY <1>1
  <2>3. MON_WIDTH * MON_HEIGHT \in Nat
    BY <1>1
  <2> QED BY <1>1, <1>3, <2>1, <2>2, <2>3 DEF Cells
<1>5. here = a + top * MON_WIDTH /\ a \in Nat /\ here \in Nat
  BY <1>1, <1>3
<1> HIDE DEF a, here
<1>6. ASSUME NEW b \in Cells
      PROVE  next.cells[b + top * MON_WIDTH]
               = IF b = a THEN c ELSE page.cells[b + top * MON_WIDTH]
  <2>1. b \in Nat
    BY <1>1 DEF Cells
  <2>2. b + top * MON_WIDTH \in Nat /\ (b + top * MON_WIDTH = here <=> b = a)
    BY <1>3, <1>5, <2>1
  <2>3. next.cells = [page.cells EXCEPT ![here] = c]
    BY DEF here
  <2> QED BY <1>1, <2>2, <2>3
<1>7. Window(next, top) = [Window(page, top) EXCEPT ![a] = c]
  BY <1>4, <1>6 DEF Window
<1> QED BY <1>4, <1>7 DEF a, top, y

(* scroll moves the window on by a line.                                   *)
LEMMA WindowMoves ==
  ASSUME NEW page, NEW top \in Nat, BlankFrom(page, top + MON_HEIGHT)
  PROVE  Window(page, top + 1)
           = [a \in Cells |-> IF a \in LastLine THEN BLANK ELSE Window(page, top)[a + MON_WIDTH]]
<1>1. MON_WIDTH \in Nat \ {0} /\ MON_HEIGHT \in Nat \ {0}
  BY ConsoleAssumption
<1>2. /\ top * MON_WIDTH \in Nat
      /\ (top + 1) * MON_WIDTH = top * MON_WIDTH + MON_WIDTH
      /\ (top + MON_HEIGHT) * MON_WIDTH = top * MON_WIDTH + MON_WIDTH * MON_HEIGHT
      /\ MON_WIDTH * (MON_HEIGHT - 1) = MON_WIDTH * MON_HEIGHT - MON_WIDTH
      /\ MON_WIDTH * MON_HEIGHT \in Nat
  BY <1>1
<1>3. ASSUME NEW a \in Cells
      PROVE  page.cells[a + (top + 1) * MON_WIDTH]
               = IF a \in LastLine THEN BLANK ELSE Window(page, top)[a + MON_WIDTH]
  <2>1. a \in Nat /\ a <= MON_WIDTH * MON_HEIGHT - 1
    BY <1>1, <1>2 DEF Cells
  <2>2. CASE a \in LastLine
    <3>1. a >= MON_WIDTH * MON_HEIGHT - MON_WIDTH
      BY <1>2, <2>2 DEF LastLine
    <3>2. /\ a + (top + 1) * MON_WIDTH \in Nat
          /\ a + (top + 1) * MON_WIDTH >= (top + MON_HEIGHT) * MON_WIDTH
      BY <1>1, <1>2, <2>1, <3>1
    <3> QED BY <2>2, <3>2 DEF BlankFrom
  <2>3. CASE a \notin LastLine
    <3>1. a < MON_WIDTH * MON_HEIGHT - MON_WIDTH
      <4>1. ~(a >= MON_WIDTH * (MON_HEIGHT - 1))
        BY <2>3 DEF LastLine
      <4> DEFINE m == MON_WIDTH * MON_HEIGHT
                 k == MON_WIDTH * (MON_HEIGHT - 1)
      <4>2. k = m - MON_WIDTH /\ m \in Nat /\ ~(a >= k)
        BY <1>2, <4>1
      <4> HIDE DEF m, k
      <4>3. a < m - MON_WIDTH
        BY <1>1, <2>1, <4>2
      <4> QED BY <4>3 DEF m
    <3>2. a + MON_WIDTH \in Cells
      BY <1>1, <1>2, <2>1, <3>1 DEF Cells
    <3>3. (a + MON_WIDTH) + top * MON_WIDTH = a + (top + 1) * MON_WIDTH
      BY <1>1, <1>2, <2>1
    <3> QED BY <2>3, <3>2, <3>3 DEF Window
  <2> QED BY <2>2, <2>3
<1> QED BY <1>3 DEF Window

(* Where the cursor is on the screen.                                      *)
LEMMA CursorFits ==
  ASSUME NEW s, NEW page \in Pages(s)
  PROVE  /\ page.column \in 0..(MON_WIDTH - 1) /\ page.column \in Nat /\ page.row \in Nat
         /\ page.row - Top(page) \in 0..(MON_HEIGHT - 1) /\ page.row - Top(page) \in Nat
         /\ Top(page) \in Nat
         /\ MON_WIDTH \in Nat \ {0} /\ MON_HEIGHT \in Nat \ {0} /\ MON_HEIGHT < ByteModulus
<1>1. page.column \in 0..(MON_WIDTH - 1) /\ page.row \in Nat
  BY DEF Pages
<1>2. MON_WIDTH \in Nat \ {0} /\ MON_HEIGHT \in Nat \ {0} /\ MON_HEIGHT < ByteModulus
  BY ConsoleAssumption
<1> QED BY <1>1, <1>2, TopIs

(* A step of putch writes where it goes on, and its registers.             *)
Moves(t, at, x, y) ==
  /\ th'[t].at = at /\ th'[t].x = x /\ th'[t].y = y
  /\ th'[t].ch = th[t].ch

(* The tests of putch see whether the cursor has left the screen.          *)
LEMMA TestsSee ==
  ASSUME NEW t \in Threads, NEW s, NEW page \in Pages(s), NEW c \in STRING, c = th[t].ch,
         c \notin {"\n", "\r"}, NEW x, NEW y, x = NewX(c, page.column), y = page.row - Top(page),
         NEW x1, Moves(t, WrapTest(x, y), x1, y),
         screen' = Window(Typed(page, c), Top(page)), cursor_x' = x, cursor_y' = y
  PROVE  Typing(t, page)'
<1> DEFINE next == Typed(page, c)
<1>1. /\ y \in 0..(MON_HEIGHT - 1) /\ page.row \in Nat
      /\ MON_WIDTH \in Nat \ {0} /\ MON_HEIGHT \in Nat \ {0}
  BY CursorFits
<1>2. /\ x \in Nat
      /\ x < MON_WIDTH => next.row = page.row /\ next.column = x
      /\ x >= MON_WIDTH => next.row = page.row + 1 /\ next.column = 0
  BY NextIs
<1>3. ~(y >= MON_HEIGHT)
  BY <1>1
<1>4. th'[t].ch = c /\ th'[t].y = y
  BY DEF Moves
<1> HIDE DEF next
<1>5. CASE x >= MON_WIDTH
  <2>1. th'[t].at = "wrap_x"
    BY <1>5 DEF Moves, WrapTest
  <2> QED BY <1>2, <1>4, <1>5, <2>1 DEF Typing, next
<1>6. CASE ~(x >= MON_WIDTH)
  <2>1. th'[t].at = "csr_y"
    BY <1>3, <1>6 DEF Moves, WrapTest, ScrollTest
  <2>2. next.row = page.row /\ next.column = x
    BY <1>1, <1>2, <1>6
  <2>3. Top(next) = Top(page)
    BY <2>2 DEF Top
  <2>4. screen' = Window(next, Top(next)) /\ cursor_x' = next.column /\ cursor_y' = next.row - Top(next)
    BY <2>2, <2>3 DEF next
  <2> QED BY <1>4, <2>1, <2>4 DEF Typing, Displayed, next
<1> QED BY <1>5, <1>6

(* The first loads of putch.                                               *)
LEMMA LoadYTyping ==
  ASSUME TypeInv, NEW t \in Threads, NEW s, NEW page \in Pages(s), th[t].ch \in STRING,
         Typing(t, page), LoadY(t)
  PROVE  Typing(t, page)'
<1> DEFINE c == th[t].ch
           y == page.row - Top(page)
           next == Typed(page, c)
<1>1. th \in [Threads -> Thread] /\ th[t] \in Thread
  BY DEF TypeInv
<1>2. Displayed(page)
  BY DEF Typing, LoadY, At
<1>3. /\ th'[t].ch = c /\ th'[t].y = cursor_y
      /\ th'[t].at = IF c = "\r" THEN "cr" ELSE IF c = "\n" THEN "wrap_x" ELSE "load_x"
  BY <1>1 DEF LoadY, Thread
<1>4. screen' = screen /\ cursor_x' = cursor_x /\ cursor_y' = cursor_y
  BY DEF LoadY
<1>5. Displayed(page)' /\ th'[t].y = y
  BY <1>2, <1>3, <1>4 DEF Displayed
<1>6. CASE c = "\n"
  <2>1. next.row = page.row + 1 /\ next.column = 0 /\ next.cells = page.cells
    BY <1>6, NextIs DEF Special
  <2>2. screen' = Window(next, Top(page)) /\ cursor_y' = y
    BY <1>5, <2>1 DEF Displayed, Window
  <2>3. th'[t].at = "wrap_x"
    BY <1>3, <1>6
  <2> HIDE DEF next
  <2> QED BY <1>3, <1>5, <2>1, <2>2, <2>3 DEF Typing, next
<1>7. CASE c # "\n"
  <2> HIDE DEF y
  <2> QED BY <1>3, <1>5, <1>7 DEF Typing, y
<1> QED BY <1>6, <1>7

LEMMA CarriageTyping ==
  ASSUME TypeInv, NEW t \in Threads, NEW s, NEW page \in Pages(s), th[t].ch \in STRING,
         Typing(t, page), CarriageReturn(t)
  PROVE  Typing(t, page)'
<1> DEFINE c == th[t].ch
           y == page.row - Top(page)
           next == Typed(page, c)
<1>1. th \in [Threads -> Thread] /\ th[t] \in Thread
  BY DEF TypeInv
<1>2. Displayed(page) /\ th[t].y = y /\ c = "\r"
  BY DEF Typing, CarriageReturn, At
<1>3. th'[t].ch = c /\ th'[t].y = y /\ th'[t].at = ScrollTest(y)
  BY <1>1, <1>2 DEF CarriageReturn, Go, Thread
<1>4. screen' = screen /\ cursor_x' = 0 /\ cursor_y' = cursor_y
  BY DEF CarriageReturn
<1>5. y \in 0..(MON_HEIGHT - 1) /\ MON_HEIGHT \in Nat
  BY CursorFits
<1>6. th'[t].at = "csr_y"
  BY <1>3, <1>5 DEF ScrollTest
<1>7. next.row = page.row /\ next.column = 0 /\ next.cells = page.cells
  BY <1>2, NextIs DEF Special
<1>8. Top(next) = Top(page)
  BY <1>7 DEF Top
<1>9. screen' = Window(next, Top(next)) /\ cursor_x' = next.column /\ cursor_y' = next.row - Top(next)
  BY <1>2, <1>4, <1>7, <1>8 DEF Displayed, Window
<1> HIDE DEF next
<1> QED BY <1>3, <1>6, <1>9 DEF Typing, Displayed, next

LEMMA LoadXTyping ==
  ASSUME TypeInv, NEW t \in Threads, NEW s, NEW page \in Pages(s), th[t].ch \in STRING,
         Typing(t, page), LoadX(t)
  PROVE  Typing(t, page)'
<1> DEFINE c == th[t].ch
           x == page.column
           y == page.row - Top(page)
           next == Typed(page, c)
           keeps == c \in Other \/ (c = "BS" /\ x = 0)
<1>1. th \in [Threads -> Thread] /\ th[t] \in Thread
  BY DEF TypeInv
<1>2. Displayed(page) /\ th[t].y = y /\ c \notin {"\r", "\n"}
  BY DEF Typing, LoadX, At
<1>3. cursor_x = x /\ cursor_y = y /\ screen = Window(page, Top(page))
  BY <1>2 DEF Displayed
<1>4. screen' = screen /\ cursor_x' = cursor_x /\ cursor_y' = cursor_y
  BY DEF LoadX
<1>5. Moves(t, IF keeps THEN WrapTest(x, y) ELSE "store_x", x, y)
  BY <1>1, <1>2, <1>3 DEF LoadX, Thread, Moves
<1>6. CASE keeps
  <2>1. NewX(c, x) = x /\ next.cells = page.cells
    BY <1>6, NextIs DEF Special
  <2>2. screen' = Window(next, Top(page)) /\ cursor_x' = NewX(c, x) /\ cursor_y' = y
    BY <1>3, <1>4, <2>1 DEF Window
  <2>3. Moves(t, WrapTest(NewX(c, x), y), x, y)
    BY <1>5, <1>6, <2>1
  <2> HIDE DEF keeps
  <2> QED BY <1>2, <2>2, <2>3, TestsSee
<1>7. CASE ~keeps
  <2>1. th'[t].at = "store_x" /\ th'[t].x = x /\ th'[t].y = y /\ th'[t].ch = c
    BY <1>5, <1>7 DEF Moves
  <2>2. Displayed(page)'
    BY <1>3, <1>4 DEF Displayed
  <2>3. c \notin {"\r", "\n"} \cup Other
    BY <1>2, <1>7
  <2> HIDE DEF c, x, y, keeps
  <2> QED BY <2>1, <2>2, <2>3 DEF Typing, x, y
<1> QED BY <1>6, <1>7

LEMMA StoreXTyping ==
  ASSUME TypeInv, NEW t \in Threads, NEW s, NEW page \in Pages(s), th[t].ch \in STRING,
         Typing(t, page), StoreX(t)
  PROVE  Typing(t, page)'
<1> DEFINE c == th[t].ch
           x == page.column
           y == page.row - Top(page)
           next == Typed(page, c)
<1>1. th \in [Threads -> Thread] /\ th[t] \in Thread
  BY DEF TypeInv
<1>2. /\ Displayed(page) /\ th[t].y = y /\ th[t].x = x
      /\ c \notin {"\r", "\n"} \cup Other
  BY DEF Typing, StoreX, At
<1>3. cursor_x = x /\ cursor_y = y /\ screen = Window(page, Top(page))
  BY <1>2 DEF Displayed
<1>4. screen' = screen /\ cursor_x' = NewX(c, x) /\ cursor_y' = cursor_y
  BY <1>2 DEF StoreX
<1>5. Moves(t, IF c \in Special THEN WrapTest(NewX(c, x), y) ELSE "cell", x, y)
  BY <1>1, <1>2 DEF StoreX, Go, Thread, Moves
<1>6. CASE c \in Special
  <2>1. next.cells = page.cells
    BY <1>6, NextIs
  <2>2. screen' = Window(next, Top(page)) /\ cursor_y' = y
    BY <1>3, <1>4, <2>1 DEF Window
  <2>3. Moves(t, WrapTest(NewX(c, x), y), x, y)
    BY <1>5, <1>6
  <2> QED BY <1>2, <1>4, <2>2, <2>3, TestsSee
<1>7. CASE c \notin Special
  <2>1. th'[t].at = "cell" /\ th'[t].x = x /\ th'[t].y = y /\ th'[t].ch = c
    BY <1>5, <1>7 DEF Moves
  <2>2. c \notin Special \cup Other
    BY <1>2, <1>7
  <2>3. NewX(c, x) = x + 1
    BY <2>2, NextIs
  <2>4. screen' = Window(page, Top(page)) /\ cursor_x' = x + 1 /\ cursor_y' = y
    BY <1>3, <1>4, <2>3
  <2> HIDE DEF c, x, y
  <2> QED BY <2>1, <2>2, <2>4 DEF Typing, x, y
<1> QED BY <1>6, <1>7

LEMMA StoreCellTyping ==
  ASSUME TypeInv, NEW t \in Threads, NEW s, NEW page \in Pages(s), th[t].ch \in STRING,
         Typing(t, page), StoreCell(t)
  PROVE  Typing(t, page)'
<1> DEFINE c == th[t].ch
           x == page.column
           y == page.row - Top(page)
           a == x + MON_WIDTH * y
           next == Typed(page, c)
<1>1. th \in [Threads -> Thread] /\ th[t] \in Thread
  BY DEF TypeInv
<1>2. /\ screen = Window(page, Top(page)) /\ cursor_x = x + 1 /\ cursor_y = y
      /\ th[t].y = y /\ th[t].x = x /\ c \notin Special \cup Other
  BY DEF Typing, StoreCell, At
<1>3. NewX(c, x) = x + 1 /\ next.cells = [page.cells EXCEPT ![page.row * MON_WIDTH + x] = c]
  BY <1>2, NextIs
<1>4. a \in Cells /\ Window(next, Top(page)) = [Window(page, Top(page)) EXCEPT ![a] = c]
  <2> HIDE DEF c
  <2> QED BY <1>3, WindowTypes
<1>5. /\ screen' = IF a \in Cells THEN [screen EXCEPT ![a] = c] ELSE screen
      /\ cursor_x' = cursor_x /\ cursor_y' = cursor_y
  BY <1>2 DEF StoreCell
<1>6. Moves(t, WrapTest(NewX(c, x), y), x, y)
  BY <1>1, <1>2 DEF StoreCell, Go, Thread, Moves
<1>7. screen' = Window(next, Top(page)) /\ cursor_x' = NewX(c, x) /\ cursor_y' = y
  BY <1>2, <1>3, <1>4, <1>5
<1>8. c \notin {"\n", "\r"}
  BY <1>2 DEF Special
<1> HIDE DEF x, y, a, next
<1> QED BY <1>6, <1>7, <1>8, TestsSee DEF x, y, next

LEMMA WrapTyping ==
  ASSUME TypeInv, NEW t \in Threads, NEW s, NEW page \in Pages(s), th[t].ch \in STRING,
         Typing(t, page), WrapX(t) \/ WrapY(t)
  PROVE  Typing(t, page)'
<1> DEFINE c == th[t].ch
           top == Top(page)
           y == page.row - top
           next == Typed(page, c)
<1>1. th \in [Threads -> Thread] /\ th[t] \in Thread
  BY DEF TypeInv
<1>2. /\ next.row = page.row + 1 /\ next.column = 0
      /\ screen = Window(next, top) /\ cursor_y = y /\ th[t].y = y
      /\ th[t].at = "wrap_y" => cursor_x = 0
  BY DEF Typing, WrapX, WrapY, At
<1> HIDE DEF next
<1>3. CASE WrapX(t)
  <2>1. th'[t].ch = c /\ th'[t].y = y /\ th'[t].at = "wrap_y"
    BY <1>1, <1>2, <1>3 DEF WrapX, Go, Thread
  <2>2. screen' = Window(next, top) /\ cursor_x' = 0 /\ cursor_y' = y
    BY <1>2, <1>3 DEF WrapX
  <2> QED BY <1>2, <2>1, <2>2 DEF Typing, next
<1>4. CASE WrapY(t)
  <2>1. y \in 0..(MON_HEIGHT - 1) /\ page.row \in Nat /\ MON_HEIGHT \in Nat
        /\ MON_HEIGHT < ByteModulus /\ ByteModulus \in Nat
    BY CursorFits, ConsoleAssumption
  <2>2. /\ y + 1 < MON_HEIGHT => Top(next) = top /\ next.row - Top(next) = y + 1
        /\ y + 1 >= MON_HEIGHT => Top(next) = top + 1
    <3> HIDE DEF c
    <3> QED BY <1>2, <2>1, NextLine
  <2>3. (y + 1) % ByteModulus = y + 1
    <3> HIDE DEF y
    <3> QED BY <2>1
  <2>4. /\ th'[t].ch = c /\ th'[t].y = y + 1 /\ th'[t].at = ScrollTest(y + 1)
        /\ screen' = Window(next, top) /\ cursor_x' = 0 /\ cursor_y' = y + 1
    BY <1>1, <1>2, <1>4, <2>3 DEF WrapY, Thread, At
  <2> HIDE DEF c, top, y
  <2>5. CASE y + 1 >= MON_HEIGHT
    <3>1. th'[t].at = "scroll" /\ Top(next) = top + 1
      BY <2>2, <2>4, <2>5 DEF ScrollTest
    <3> QED BY <1>2, <2>4, <3>1 DEF Typing, next, top, c
  <2>6. CASE ~(y + 1 >= MON_HEIGHT)
    <3>1. th'[t].at = "csr_y" /\ Top(next) = top /\ next.row - Top(next) = y + 1
      BY <2>1, <2>2, <2>4, <2>6 DEF ScrollTest
    <3> QED BY <1>2, <2>4, <3>1 DEF Typing, Displayed, next, c
  <2> QED BY <2>5, <2>6
<1> QED BY <1>3, <1>4

LEMMA ScrollTyping ==
  ASSUME TypeInv, NEW t \in Threads, NEW s, NEW page \in Pages(s), Ends(page),
         th[t].ch \in STRING, Typing(t, page), Scroll(t) \/ ScrollY(t)
  PROVE  Typing(t, page)'
<1> DEFINE c == th[t].ch
           top == Top(page)
           next == Typed(page, c)
<1>1. th \in [Threads -> Thread] /\ th[t] \in Thread
  BY DEF TypeInv
<1>2. /\ Top(next) = top + 1 /\ next.column = 0 /\ cursor_x = 0
      /\ screen = Window(next, IF th[t].at = "scroll" THEN top ELSE Top(next))
  BY DEF Typing, Scroll, ScrollY, At
<1>3. BlankFrom(next, top + MON_HEIGHT) /\ top \in Nat
  BY TypedKeeps, CursorFits
<1>4. CASE Scroll(t)
  <2>1. th'[t].ch = c /\ th'[t].at = "scroll_y" /\ screen = Window(next, top)
    BY <1>1, <1>2, <1>4 DEF Scroll, Go, Thread, At
  <2>2. screen' = Window(next, top + 1)
    <3> HIDE DEF next, top
    <3>1. screen' = [a \in Cells |-> IF a \in LastLine THEN BLANK
                                     ELSE Window(next, top)[a + MON_WIDTH]]
      BY <1>4, <2>1 DEF Scroll
    <3> QED BY <1>3, <3>1, WindowMoves
  <2>3. cursor_x' = 0
    BY <1>2, <1>4 DEF Scroll
  <2> HIDE DEF next, c
  <2> QED BY <1>2, <2>1, <2>2, <2>3 DEF Typing, next, c
<1>5. CASE ScrollY(t)
  <2>1. /\ th'[t].ch = c /\ th'[t].at = "csr_y" /\ screen' = Window(next, Top(next))
        /\ cursor_x' = 0 /\ cursor_y' = MON_HEIGHT - 1
    BY <1>1, <1>2, <1>5 DEF ScrollY, Go, Thread, At
  <2>2. next.row - Top(next) = MON_HEIGHT - 1
    <3>1. next.row \in {page.row, page.row + 1} /\ page.row \in Nat /\ MON_HEIGHT \in Nat \ {0}
      BY TypedKeeps, CursorFits
    <3>2. next.row # page.row
      <4>1. top # top + 1
        BY <1>3
      <4> QED BY <1>2, <4>1 DEF Top
    <3>3. next.row \in Nat
      BY <3>1
    <3>4. Top(next) = IF next.row < MON_HEIGHT THEN 0 ELSE next.row - (MON_HEIGHT - 1)
      <4> HIDE DEF next
      <4> QED BY <3>3, TopIs
    <3> HIDE DEF next, top
    <3> QED BY <1>2, <1>3, <3>1, <3>3, <3>4
  <2> HIDE DEF next, c
  <2> QED BY <1>2, <2>1, <2>2 DEF Typing, Displayed, next, c
<1> QED BY <1>4, <1>5

LEMMA CsrTyping ==
  ASSUME TypeInv, NEW t \in Threads, NEW page, Typing(t, page), CsrY(t) \/ CsrX(t)
  PROVE  Typing(t, page)'
<1> DEFINE next == Typed(page, th[t].ch)
<1>1. th \in [Threads -> Thread] /\ th[t] \in Thread
  BY DEF TypeInv
<1>2. Displayed(next) /\ (th[t].at # "csr_y" => th[t].y = cursor_y)
  BY DEF Typing, CsrY, CsrX, At
<1>3. Displayed(next)'
  <2>1. screen' = screen /\ cursor_x' = cursor_x /\ cursor_y' = cursor_y
    BY DEF CsrY, CsrX
  <2>2. th'[t].ch = th[t].ch
    BY <1>1 DEF CsrY, CsrX, Thread
  <2> QED BY <1>2, <2>1, <2>2 DEF Displayed
<1>4. CASE CsrY(t)
  <2>1. th'[t].at = "csr_x" /\ th'[t].y = cursor_y'
    BY <1>1, <1>4 DEF CsrY, Thread
  <2> QED BY <1>3, <2>1 DEF Typing
<1>5. CASE CsrX(t)
  <2>1. th'[t].at = "out" /\ th'[t].x = cursor_x' /\ th'[t].y = cursor_y'
    BY <1>1, <1>2, <1>5 DEF CsrX, Thread, At
  <2> QED BY <1>3, <2>1 DEF Typing
<1> QED BY <1>4, <1>5

(* The first n characters of a string, and one more.                       *)
LEMMA FirstOf ==
  ASSUME NEW S, NEW f \in Seq(S), NEW n \in 0..Len(f)
  PROVE  /\ SubSeq(f, 1, n) \in Seq(S) /\ Len(SubSeq(f, 1, n)) = n
         /\ \A k \in 1..n : SubSeq(f, 1, n)[k] = f[k]
<1>1. n \in Int /\ Len(f) \in Nat
  OBVIOUS
<1>2. \A k \in 1..n : f[k] \in S
  BY <1>1, ElementOfSeq
<1>3. /\ SubSeq(f, 1, n) \in Seq(S)
      /\ Len(SubSeq(f, 1, n)) = IF 1 <= n THEN n - 1 + 1 ELSE 0
      /\ \A k \in 1..(n - 1 + 1) : SubSeq(f, 1, n)[k] = f[1 + k - 1]
  BY <1>1, <1>2, SubSeqProperties
<1>4. Len(SubSeq(f, 1, n)) = n
  BY <1>1, <1>3
<1>5. ASSUME NEW k \in 1..n PROVE SubSeq(f, 1, n)[k] = f[k]
  <2>1. k \in 1..(n - 1 + 1) /\ 1 + k - 1 = k
    BY <1>1
  <2> QED BY <1>3, <2>1
<1> QED BY <1>3, <1>4, <1>5

LEMMA OneMore ==
  ASSUME NEW S, NEW b \in Seq(S), NEW f \in Seq(S), NEW n \in 1..Len(f)
  PROVE  b \o SubSeq(f, 1, n) = Append(b \o SubSeq(f, 1, n - 1), f[n])
<1> DEFINE q == SubSeq(f, 1, n - 1)
<1>1. 1 \in 1..Len(f) /\ n - 1 \in 0..Len(f) /\ f[n] \in S
  BY ElementOfSeq
<1>2. SubSeq(f, 1, n) = q \o <<f[n]>>
  BY <1>1, SubSeqRecursiveSecond
<1>3. q \in Seq(S)
  BY <1>1, FirstOf
<1> HIDE DEF q
<1>4. <<f[n]>> \in Seq(S) /\ b \o q \in Seq(S)
  BY <1>1, <1>3, ConcatProperties
<1>5. (b \o q) \o <<f[n]>> = b \o (q \o <<f[n]>>)
  BY <1>3, <1>4, ConcatAssociative
<1>6. (b \o q) \o <<f[n]>> = Append(b \o q, f[n])
  BY <1>1, <1>4, AppendIsConcat
<1> QED BY <1>2, <1>5, <1>6 DEF q

(* As long as no NUL has been seen the text has been read as it was meant, *)
(* and at a NUL or at its end that is all there is to read.                *)
LEMMA ReadableIs ==
  ASSUME NEW S, NEW text \in Seq(S), NEW n \in 0..Len(text), \A k \in 1..n : text[k] # NUL
  PROVE  /\ Readable(text) \in Seq(S)
         /\ IsPrefix(SubSeq(text, 1, n), Readable(text))
         /\ n = Len(text) \/ text[n + 1] = NUL => SubSeq(text, 1, n) = Readable(text)
<1> DEFINE I == {i \in 1..Len(text) : text[i] = NUL}
           l == Len(text)
<1>1. l \in Nat /\ n \in Nat /\ n <= l
  OBVIOUS
<1>2. NUL \in ToSet(text) <=> I # {}
  BY LenProperties DEF ToSet
<1>3. CASE I = {}
  <2>1. Readable(text) = text
    BY <1>2, <1>3 DEF Readable
  <2>2. SubSeq(text, 1, n) \in Seq(S) /\ Len(SubSeq(text, 1, n)) = n
    BY FirstOf
  <2>3. SubSeq(SubSeq(text, 1, n), 1, n) = SubSeq(text, 1, n)
    BY <2>2, SubSeqFull
  <2>4. n = l \/ text[n + 1] = NUL => n = l
    BY <1>1, <1>3
  <2>5. SubSeq(text, 1, l) = text
    BY SubSeqFull
  <2> QED BY <1>1, <2>1, <2>2, <2>3, <2>4, <2>5 DEF IsPrefix
<1>4. CASE I # {}
  <2>0. I \subseteq Nat
    BY <1>1
  <2>1. PICK m \in I : \A i \in I : m <= i
    BY <1>4, <2>0, LeastNumber
  <2>2. \A x \in I : (\A i \in I : x <= i) => x = m
    BY <2>0, <2>1
  <2>3. SelectInSeq(text, LAMBDA c : c = NUL) = m
    BY <1>4, <2>1, <2>2 DEF SelectInSeq, Min
  <2>4. Readable(text) = SubSeq(text, 1, m - 1)
    BY <1>2, <1>4, <2>3 DEF Readable
  <2>5. m \in 1..l /\ text[m] = NUL
    BY <2>1
  <2>6. n < m /\ m - 1 \in 0..l
    BY <1>1, <2>5
  <2> DEFINE k == m - 1
  <2>7. /\ SubSeq(text, 1, k) \in Seq(S) /\ Len(SubSeq(text, 1, k)) = k
        /\ \A i \in 1..k : SubSeq(text, 1, k)[i] = text[i]
    <3> HIDE DEF k
    <3> QED BY <2>6, FirstOf DEF k
  <2>8. /\ SubSeq(text, 1, n) \in Seq(S) /\ Len(SubSeq(text, 1, n)) = n
        /\ \A i \in 1..n : SubSeq(text, 1, n)[i] = text[i]
    BY FirstOf
  <2>9. n <= k /\ k \in Nat /\ n \in 0..k
    BY <1>1, <2>5, <2>6
  <2>10. n = l \/ text[n + 1] = NUL => n = k
    <3>1. n # l
      BY <1>1, <2>5, <2>6
    <3>2. ASSUME text[n + 1] = NUL PROVE n = k
      <4>1. n + 1 \in I
        BY <1>1, <3>1, <3>2
      <4> QED BY <1>1, <2>1, <2>5, <2>6, <4>1
    <3> QED BY <3>1, <3>2
  <2> HIDE DEF k
  <2>11. SubSeq(SubSeq(text, 1, k), 1, n) = SubSeq(text, 1, n)
    <3> DEFINE q == SubSeq(text, 1, k)
    <3> HIDE DEF q
    <3>1. /\ SubSeq(q, 1, n) \in Seq(S) /\ Len(SubSeq(q, 1, n)) = n
          /\ \A i \in 1..n : SubSeq(q, 1, n)[i] = q[i]
      BY <2>7, <2>9, FirstOf DEF q
    <3>2. \A i \in 1..n : q[i] = text[i]
      BY <2>7, <2>9, <1>1 DEF q
    <3>3. SubSeq(q, 1, n) = SubSeq(text, 1, n)
      BY <2>8, <3>1, <3>2, SeqEqual
    <3> QED BY <3>3 DEF q
  <2>12. SubSeq(SubSeq(text, 1, n), 1, n) = SubSeq(text, 1, n)
    BY <2>8, SubSeqFull
  <2>13. Readable(text) = SubSeq(text, 1, k)
    BY <2>4 DEF k
  <2> QED BY <2>7, <2>8, <2>9, <2>10, <2>11, <2>12, <2>13 DEF IsPrefix
<1> QED BY <1>3, <1>4

(* The strings that are written.                                           *)
LEMMA TextsAre ==
  ASSUME TypeInv, NEW t \in Threads
  PROVE  /\ Full(t) \in Seq(STRING) /\ Before(t) \in Seq(STRING) /\ Text(t) \in Seq(STRING)
         /\ \A n \in 0..Len(Full(t)) : Printed(t, n) \in Seq(STRING)
<1>1. Text(t) \in Seq(STRING) /\ Header \in Seq(STRING) /\ Footer \in Seq(STRING)
  BY ConsoleAssumption DEF TypeInv, Thread, Text
<1>2. Full(t) \in Seq(STRING)
  BY <1>1 DEF Full
<1>3. Readable(Text(t)) \in Seq(STRING)
  <2>1. 0 \in 0..Len(Text(t)) /\ \A k \in 1..0 : Text(t)[k] # NUL
    BY <1>1
  <2> QED BY <1>1, <2>1, ReadableIs
<1>4. Before(t) \in Seq(STRING)
  <2>1. Header \o Readable(Text(t)) \in Seq(STRING)
    BY <1>1, <1>3, ConcatProperties
  <2>2. << >> \in Seq(STRING)
    OBVIOUS
  <2> QED BY <1>1, <2>1, <2>2 DEF Before
<1>5. ASSUME NEW n \in 0..Len(Full(t)) PROVE Printed(t, n) \in Seq(STRING)
  <2>1. SubSeq(Full(t), 1, n) \in Seq(STRING)
    BY <1>2, FirstOf
  <2> QED BY <1>4, <2>1, ConcatProperties DEF Printed
<1> QED BY <1>1, <1>2, <1>4, <1>5

(* Nothing of a string leaves what was there before it.                    *)
LEMMA PrintedNone ==
  ASSUME TypeInv, NEW t \in Threads
  PROVE  Printed(t, 0) = Before(t)
<1>1. Before(t) \in Seq(STRING)
  BY TextsAre
<1>2. SubSeq(Full(t), 1, 0) = << >>
  BY SubSeqEmpty
<1> QED BY <1>1, <1>2, ConcatEmptySeq DEF Printed

(* Where NUL is read the string has been shown as a whole.                 *)
LEMMA AtNul ==
  ASSUME TypeInv, NEW t \in Threads, SourceIs(t), Read(t, th[t].i - 1), th[t].i \in Nat
  PROVE  /\ Source(t)[th[t].i] = NUL =>
              th[t].i - 1 = Len(Full(t)) \/ Full(t)[(th[t].i - 1) + 1] = NUL
         /\ Source(t)[th[t].i] # NUL =>
              /\ th[t].i \in 1..Len(Full(t))
              /\ Full(t)[th[t].i] = Source(t)[th[t].i]
<1>1. Len(Full(t)) \in Nat
  BY TextsAre
<1>2. th[t].i - 1 \in 0..Len(Full(t))
  BY DEF Read
<1>3. CASE th[t].i - 1 = Len(Full(t))
  <2>1. Source(t)[th[t].i] = NUL
    BY <1>1, <1>3 DEF SourceIs
  <2> QED BY <1>3, <2>1
<1>4. CASE th[t].i - 1 # Len(Full(t))
  <2>1. th[t].i \in 1..Len(Full(t)) /\ (th[t].i - 1) + 1 = th[t].i
    BY <1>1, <1>2, <1>4
  <2>2. Full(t)[th[t].i] = Source(t)[th[t].i]
    BY <2>1 DEF SourceIs, Stored
  <2> QED BY <2>1, <2>2
<1> QED BY <1>3, <1>4

(* A thread that has come to the next character stands where the invariant *)
(* says.                                                                   *)
LEMMA ShownThen ==
  ASSUME TypeInv, NEW s, NEW t \in Threads, At(t, "write"), Follows(t, s)
  PROVE  LET written == Before(t) \o Shown(t)
             page == PageWith(s, written)
             top  == Max({0, page.row - (MON_HEIGHT - 1)})
         IN /\ screen = [a \in Cells |-> page.cells[a + top * MON_WIDTH]]
            /\ cursor_x = page.column
            /\ cursor_y = page.row - top
            /\ written # << >> => crtc = cursor_y * MON_WIDTH + cursor_x
            /\ IsPrefix(Shown(t), Whole(t))
            /\ Source(t)[th[t].i] = NUL => Shown(t) = Whole(t)
<1> DEFINE n == th[t].i - 1
           f == Full(t)
<1>1. th[t] \in Thread /\ ThreadOK(t, th[t])
  BY DEF TypeInv
<1>2. th[t].at = "write" /\ th[t].source # "none" /\ th[t].i \in Nat
  BY <1>1 DEF At, ThreadOK, Thread
<1>3. /\ SourceIs(t) /\ Read(t, n)
      /\ Displayed(PageWith(s, Printed(t, n))) /\ Controlled(Printed(t, n))
  BY <1>2 DEF Follows
<1>4. f \in Seq(STRING) /\ n \in 0..Len(f) /\ \A k \in 1..n : f[k] # NUL
  BY <1>3, TextsAre DEF Read
<1>5. Shown(t) = SubSeq(f, 1, n)
  <2> DEFINE q == Source(t)
  <2>1. \A k \in 1..n : q[k] = f[k]
    BY <1>3, <1>4 DEF SourceIs, Stored
  <2>2. n \in Int
    BY <1>2
  <2>3. /\ SubSeq(f, 1, n) \in Seq(STRING) /\ Len(SubSeq(f, 1, n)) = n
        /\ \A k \in 1..n : SubSeq(f, 1, n)[k] = f[k]
    BY <1>4, FirstOf
  <2>4. \A k \in 1..n : q[k] \in STRING
    BY <1>4, <2>1, ElementOfSeq
  <2> HIDE DEF q, n
  <2>5. /\ SubSeq(q, 1, n) \in Seq(STRING)
        /\ Len(SubSeq(q, 1, n)) = IF 1 <= n THEN n - 1 + 1 ELSE 0
        /\ \A k \in 1..(n - 1 + 1) : SubSeq(q, 1, n)[k] = q[1 + k - 1]
    BY <2>2, <2>4, SubSeqProperties
  <2>6. n \in Nat
    BY <1>4, <2>2
  <2>7. Len(SubSeq(q, 1, n)) = n
    BY <2>5, <2>6
  <2>8. ASSUME NEW k \in 1..n PROVE SubSeq(q, 1, n)[k] = SubSeq(f, 1, n)[k]
    <3>1. k \in 1..(n - 1 + 1) /\ 1 + k - 1 = k
      BY <2>6
    <3> QED BY <2>1, <2>3, <2>5, <3>1
  <2>9. SubSeq(q, 1, n) = SubSeq(f, 1, n)
    BY <2>3, <2>5, <2>7, <2>8, SeqEqual
  <2> QED BY <2>9 DEF Shown, q, n
<1>6. Before(t) \o Shown(t) = Printed(t, n)
  BY <1>5 DEF Printed
<1>7. /\ IsPrefix(SubSeq(f, 1, n), Readable(f))
      /\ n = Len(f) \/ f[n + 1] = NUL => SubSeq(f, 1, n) = Readable(f)
  <2> HIDE DEF f, n
  <2> QED BY <1>4, ReadableIs
<1>8. Whole(t) = Readable(f)
  <2>1. CASE th[t].source \in {"header", "footer"}
    <3>1. f \in Seq(STRING \ {NUL}) /\ Whole(t) = f
      BY <2>1, LinesAssumption DEF Full, Whole
    <3>2. NUL \notin ToSet(f)
      <4> HIDE DEF f
      <4> QED BY <3>1, LenProperties DEF ToSet
    <3> QED BY <3>1, <3>2 DEF Readable
  <2>2. CASE th[t].source \notin {"header", "footer"}
    BY <2>2 DEF Full, Whole
  <2> QED BY <2>1, <2>2
<1>9. Source(t)[th[t].i] = NUL => n = Len(f) \/ f[n + 1] = NUL
  BY <1>2, <1>3, AtNul
<1> HIDE DEF n, f
<1> QED BY <1>3, <1>5, <1>6, <1>7, <1>8, <1>9 DEF Displayed, Window, Top, Controlled

(* While a thread runs through a string, the string and what came before   *)
(* it stay the same.                                                       *)
LEMMA SameText ==
  ASSUME NEW t \in Threads, th'[t].source = th[t].source, th'[t].text = th[t].text, bufs' = bufs
  PROVE  /\ Full(t)' = Full(t) /\ Source(t)' = Source(t) /\ Before(t)' = Before(t)
         /\ SourceIs(t)' = SourceIs(t)
         /\ \A n : Read(t, n)' = Read(t, n) /\ Printed(t, n)' = Printed(t, n)
<1>1. Full(t)' = Full(t) /\ Source(t)' = Source(t) /\ Before(t)' = Before(t)
  BY DEF Full, Source, Before, Text
<1>2. SourceIs(t)' = SourceIs(t)
  BY <1>1 DEF SourceIs, Stored
<1>3. \A n : Read(t, n)' = Read(t, n) /\ Printed(t, n)' = Printed(t, n)
  BY <1>1 DEF Read, Printed
<1> QED BY <1>1, <1>2, <1>3

(* Where the next character is to be read.                                 *)
LEMMA AtNext ==
  ASSUME NEW t \in Threads, NEW s, NEW w, NEW n, th'[t].at \in {"end", "write"}, th'[t].i = n + 1,
         th'[t].at = "end" => n = 0, n \in Nat,
         SourceIs(t)', Read(t, n)', Printed(t, n)' = w,
         Displayed(PageWith(s, w))', Controlled(w)'
  PROVE  Follows(t, s)'
<1>1. th'[t].i - 1 = n
  OBVIOUS
<1>2. Read(t, th[t].i - 1)' /\ Printed(t, th[t].i - 1)' = w
  BY <1>1
<1>3. Displayed(PageWith(s, Printed(t, th[t].i - 1)))' /\ Controlled(Printed(t, th[t].i - 1))'
  BY <1>2 DEF Displayed, Controlled
<1> QED BY <1>2, <1>3 DEF Follows

LEMMA FormatFollows ==
  ASSUME TypeInv, NEW s, NEW t \in Threads, Follows(t, s), Format(t)
  PROVE  Follows(t, s)'
<1> DEFINE i == th[t].i
           b == th[t].source
           text == th[t].text
<1>1. /\ th \in [Threads -> Thread] /\ th[t] \in Thread /\ ThreadOK(t, th[t])
      /\ bufs \in [{"printk", "panic"} -> [1..BufLen -> Char]] /\ program \in Programs
  BY DEF TypeInv, BufsOK
<1>2. /\ th[t].at = "format" /\ b \in {"printk", "panic"} /\ i \in 1..(Len(text) + 1)
      /\ text \in Seq(STRING) /\ Len(text) \in Nat
  BY <1>1 DEF Format, At, ThreadOK, Thread
<1>3. Len(text) < BufLen /\ BufLen \in Nat
  <2> DEFINE c == program.calls[t][th[t].call]
  <2>1. th[t].call \in 1..Len(program.calls[t])
    BY <1>1, <1>2, CallersAssumption DEF ThreadOK, Thread
  <2>2. c.op \in {"printk", "_panic"} /\ text = Vsprintf(c.fmt, c.args)
    BY <1>1, <1>2 DEF ThreadOK
  <2>3. Len(Vsprintf(c.fmt, c.args)) < BufLen
    BY <1>1, <2>1, <2>2, TextFits
  <2> QED BY <2>2, <2>3, ConsoleAssumption
<1>4. /\ \A k \in 1..(i - 1) : bufs[b][k] = text[k]
      /\ Displayed(PageWith(s, Before(t))) /\ Controlled(Before(t))
  BY <1>2 DEF Follows, Stored, Source, Full, Text
<1>5. /\ screen' = screen /\ cursor_x' = cursor_x /\ cursor_y' = cursor_y /\ crtc' = crtc
      /\ th'[t].source = b /\ th'[t].text = text
  BY <1>1 DEF Format, Thread
<1>6. Source(t)' = bufs'[b] /\ Full(t)' = text /\ Before(t)' = Before(t)
  BY <1>2, <1>5 DEF Source, Full, Before, Text
<1>7. PICK w : w = Before(t)
  OBVIOUS
<1>8. Displayed(PageWith(s, w))' /\ Controlled(w)' /\ Before(t)' = w
  BY <1>4, <1>5, <1>6, <1>7 DEF Displayed, Controlled
<1>9. CASE i <= Len(text)
  <2>1. th'[t].i = i + 1 /\ th'[t].at = "format" /\ bufs' = [bufs EXCEPT ![b][i] = text[i]]
    BY <1>1, <1>2, <1>9 DEF Format, Store, Text, Thread
  <2>2. (i + 1) - 1 = i /\ i \in 1..BufLen
    BY <1>2, <1>3
  <2>3. \A k \in 1..i : bufs'[b][k] = text[k]
    BY <1>1, <1>2, <1>3, <1>4, <2>1, <2>2
  <2>4. Stored(t, th[t].i - 1)'
    BY <1>6, <2>1, <2>2, <2>3 DEF Stored
  <2>5. Displayed(PageWith(s, Before(t)))' /\ Controlled(Before(t))'
    BY <1>8 DEF Displayed, Controlled
  <2> QED BY <2>1, <2>4, <2>5 DEF Follows
<1>10. CASE ~(i <= Len(text))
  <2>1. /\ i = Len(text) + 1 /\ i - 1 = Len(text) /\ i \in 1..BufLen
    BY <1>2, <1>3, <1>10
  <2>2. /\ th'[t].i = 1 /\ th'[t].at \in {"end", "write"}
        /\ bufs' = [bufs EXCEPT ![b][i] = NUL]
    BY <1>1, <1>2, <1>10 DEF Format, Store, Text, Thread
  <2>3. (\A k \in 1..Len(text) : bufs'[b][k] = text[k]) /\ bufs'[b][Len(text) + 1] = NUL
    <3> DEFINE q == bufs[b]
               l == Len(text)
    <3>1. bufs'[b] = [q EXCEPT ![i] = NUL] /\ DOMAIN q = 1..BufLen
      BY <1>1, <1>2, <2>2
    <3>2. l \in Nat /\ i = l + 1 /\ i \in 1..BufLen /\ \A k \in 1..l : q[k] = text[k]
      BY <1>2, <1>4, <2>1
    <3> HIDE DEF q, l, i
    <3>3. bufs'[b][l + 1] = NUL
      BY <3>1, <3>2
    <3>4. \A k \in 1..l : k \in 1..BufLen /\ k # i
      BY <1>3, <3>2
    <3>5. \A k \in 1..l : bufs'[b][k] = text[k]
      BY <3>1, <3>2, <3>4
    <3> QED BY <3>3, <3>5 DEF l
  <2>4. SourceIs(t)'
    BY <1>6, <2>3 DEF SourceIs, Stored
  <2>5. Read(t, 0)'
    BY <1>2, <1>6 DEF Read
  <2>7. Printed(t, 0)' = w
    <3>1. w \in Seq(STRING)
      BY <1>7, TextsAre
    <3>2. SubSeq(text, 1, 0) = << >>
      BY SubSeqEmpty
    <3>3. w \o << >> = w
      BY <3>1, ConcatEmptySeq
    <3>4. Printed(t, 0)' = w \o SubSeq(text, 1, 0)
      BY <1>6, <1>8 DEF Printed
    <3> QED BY <3>2, <3>3, <3>4
  <2> QED BY <1>8, <2>2, <2>4, <2>5, <2>7, AtNext
<1> QED BY <1>9, <1>10

LEMMA TerminateFollows ==
  ASSUME TypeInv, NEW s, NEW t \in Threads, Follows(t, s), Terminate(t)
  PROVE  Follows(t, s)'
<1> DEFINE b == th[t].source
           text == th[t].text
<1>1. /\ th \in [Threads -> Thread] /\ th[t] \in Thread /\ ThreadOK(t, th[t])
      /\ bufs \in [{"printk", "panic"} -> [1..BufLen -> Char]]
  BY DEF TypeInv, BufsOK
<1>2. th[t].at = "end" /\ b = "printk" /\ text \in Seq(STRING)
  BY <1>1 DEF Terminate, At, ThreadOK, Thread
<1>3. /\ SourceIs(t) /\ Read(t, 0) /\ th[t].i = 1
      /\ Displayed(PageWith(s, Printed(t, 0))) /\ Controlled(Printed(t, 0))
  BY <1>2 DEF Follows
<1>4. /\ screen' = screen /\ cursor_x' = cursor_x /\ cursor_y' = cursor_y /\ crtc' = crtc
      /\ th'[t].source = b /\ th'[t].text = text /\ th'[t].i = 1 /\ th'[t].at = "write"
  BY <1>1, <1>3 DEF Terminate, Go, Thread
<1>5. /\ Source(t) = bufs[b] /\ Full(t) = text
      /\ Source(t)' = bufs'[b] /\ Full(t)' = text /\ Before(t)' = Before(t)
  BY <1>2, <1>4 DEF Source, Full, Before, Text
<1>6. bufs' = [bufs EXCEPT ![b][Len(text) + 1] = NUL]
  BY DEF Terminate, Store, Text
<1>7. SourceIs(t)'
  <2>1. bufs'[b] = bufs[b]
    BY <1>1, <1>2, <1>3, <1>5, <1>6 DEF SourceIs
  <2> QED BY <1>3, <1>5, <2>1 DEF SourceIs, Stored
<1>8. Read(t, 0)'
  BY <1>3, <1>5 DEF Read
<1>9. PICK w : w = Printed(t, 0)
  OBVIOUS
<1>10. Printed(t, 0)' = w
  BY <1>5, <1>9 DEF Printed
<1>11. Displayed(PageWith(s, w))' /\ Controlled(w)'
  BY <1>3, <1>4, <1>9 DEF Displayed, Controlled
<1> QED BY <1>4, <1>7, <1>8, <1>10, <1>11, AtNext

(* At the end of a string the page with all of it is displayed.            *)
LEMMA AtEnd ==
  ASSUME TypeInv, NEW s, NEW t \in Threads, At(t, "write"), Follows(t, s),
         Source(t)[th[t].i] = NUL
  PROVE  LET w == Before(t) \o Whole(t) IN Displayed(PageWith(s, w)) /\ Controlled(w)
<1>1. Before(t) \o Shown(t) = Before(t) \o Whole(t)
  BY ShownThen
<1>2. Displayed(PageWith(s, Before(t) \o Shown(t))) /\ Controlled(Before(t) \o Shown(t))
  BY ShownThen DEF Displayed, Window, Top, Controlled
<1> QED BY <1>1, <1>2

(* screen_write() calls putch, goes on to the next string or ends.         *)
LEMMA WriteNext ==
  ASSUME TypeInv, NEW s, NEW t \in Threads, Follows(t, s), At(t, "write"),
         LET c == Source(t)[th[t].i] IN c # NUL /\ PutNext(t, c),
         UNCHANGED <<screen, cursor_x, cursor_y, crtc, bufs>>
  PROVE  Follows(t, s)'
<1>1. th \in [Threads -> Thread] /\ th[t] \in Thread /\ ThreadOK(t, th[t])
  BY DEF TypeInv
<1>2. th[t].at = "write" /\ th[t].source # "none" /\ th[t].i \in Nat
  BY <1>1 DEF At, ThreadOK, Thread
<1>3. PICK i \in Nat : i = th[t].i
  BY <1>2
<1> DEFINE n == i - 1
<1>4. PICK c : c = Source(t)[i]
  OBVIOUS
<1>5. SourceIs(t) /\ Read(t, n) /\ Displayed(PageWith(s, Printed(t, n)))
  BY <1>2, <1>3 DEF Follows
<1>6. i \in 1..Len(Full(t)) /\ Full(t)[i] = c /\ c # NUL
  BY <1>2, <1>3, <1>4, <1>5, AtNul
<1>7. th' = [th EXCEPT ![t] = [[[th[t] EXCEPT !.at = "putch"] EXCEPT !.ch = c] EXCEPT !.i = i + 1]]
  BY <1>1, <1>3, <1>4 DEF PutNext, Thread
<1>8. /\ th'[t].at = "putch" /\ th'[t].ch = c /\ th'[t].i = i + 1
      /\ th'[t].source = th[t].source /\ th'[t].text = th[t].text
  BY <1>1, <1>7 DEF Thread
<1>9. th'[t].i - 1 = i /\ th'[t].i - 2 = n /\ th'[t].i >= 2
  BY <1>6, <1>8
<1>10. Read(t, i)
  <2>1. \A k \in 1..n : Full(t)[k] # NUL
    BY <1>5 DEF Read
  <2>2. \A k \in 1..i : k = i \/ k \in 1..n
    OBVIOUS
  <2> QED BY <1>6, <2>1, <2>2 DEF Read
<1>11. /\ Full(t)' = Full(t) /\ Source(t)' = Source(t) /\ Before(t)' = Before(t)
       /\ SourceIs(t)' = SourceIs(t)
  BY <1>8, SameText
<1>12. PICK w : w = Printed(t, n)
  OBVIOUS
<1>13. Printed(t, th[t].i - 2)' = w
  BY <1>9, <1>11, <1>12 DEF Printed
<1>14. Displayed(PageWith(s, w))'
  BY <1>5, <1>12 DEF Displayed
<1>15. Typing(t, PageWith(s, Printed(t, th[t].i - 2)))'
  BY <1>8, <1>13, <1>14 DEF Typing, Displayed
<1>16. Read(t, th[t].i - 1)' /\ (th[t].ch = Full(t)[th[t].i - 1])'
  BY <1>6, <1>8, <1>9, <1>10, <1>11 DEF Read
<1> HIDE DEF n
<1> QED BY <1>5, <1>8, <1>9, <1>11, <1>15, <1>16 DEF Follows

LEMMA WriteFollows ==
  ASSUME TypeInv, NEW s, NEW t \in Threads, Follows(t, s), Write(t), alone' # {}
  PROVE  Follows(t, s)'
<1>1. th \in [Threads -> Thread] /\ th[t] \in Thread /\ ThreadOK(t, th[t])
  BY DEF TypeInv
<1>2. th[t].at = "write" /\ At(t, "write") /\ th[t].source # "none" /\ th[t].i \in Nat
  BY <1>1 DEF Write, At, ThreadOK, Thread
<1>3. UNCHANGED <<screen, cursor_x, cursor_y, crtc, bufs>>
  BY DEF Write
<1>4. PICK c : c = Source(t)[th[t].i]
  OBVIOUS
<1>5. CASE c # NUL /\ PutNext(t, c)
  BY <1>2, <1>3, <1>4, <1>5, WriteNext
<1>6. ASSUME c = NUL
      PROVE  \E w \in Seq(STRING) : w = Before(t) \o Whole(t) /\ Displayed(PageWith(s, w))'
                                    /\ Controlled(w)'
  <2>1. PICK w : w = Before(t) \o Whole(t)
    OBVIOUS
  <2>2. Displayed(PageWith(s, w)) /\ Controlled(w)
    BY <1>2, <1>4, <1>6, <2>1, AtEnd
  <2>3. w \in Seq(STRING)
    <3>1. Header \in Seq(STRING) /\ Footer \in Seq(STRING) /\ Text(t) \in Seq(STRING)
      BY ConsoleAssumption, TextsAre
    <3>2. 0 \in 0..Len(Text(t)) /\ \A k \in 1..0 : Text(t)[k] # NUL
      BY <3>1
    <3>3. Readable(Text(t)) \in Seq(STRING)
      BY <3>1, <3>2, ReadableIs
    <3>4. Whole(t) \in Seq(STRING)
      BY <3>1, <3>3 DEF Whole
    <3>5. Before(t) \in Seq(STRING)
      BY TextsAre
    <3> QED BY <2>1, <3>4, <3>5, ConcatProperties
  <2> QED BY <1>3, <2>1, <2>2, <2>3 DEF Displayed, Controlled
<1>7. CASE c = NUL /\ th[t].source = "header" /\ Formats(t, "panic")
  <2>1. PICK w \in Seq(STRING) : /\ w = Before(t) \o Whole(t) /\ Displayed(PageWith(s, w))'
                                 /\ Controlled(w)'
    BY <1>6, <1>7
  <2>2. w = Header
    BY <1>7, <2>1, ConsoleAssumption, ConcatEmptySeq DEF Before, Whole
  <2>3. PICK text : text = Vsprintf(Call(t).fmt, Call(t).args)
    OBVIOUS
  <2>4. th' = [th EXCEPT ![t] = [[[[th[t] EXCEPT !.at = "format"] EXCEPT !.source = "panic"]
                                  EXCEPT !.i = 1] EXCEPT !.text = text]]
    BY <1>1, <1>7, <2>3 DEF Formats, Thread
  <2>5. th'[t].at = "format" /\ th'[t].source = "panic" /\ th'[t].i = 1
    BY <1>1, <2>4 DEF Thread
  <2>6. Before(t)' = w
    BY <2>2, <2>5 DEF Before
  <2>7. Stored(t, th[t].i - 1)'
    BY <2>5 DEF Stored
  <2>8. Displayed(PageWith(s, Before(t)))' /\ Controlled(Before(t))'
    BY <2>1, <2>6 DEF Displayed, Controlled
  <2> QED BY <2>5, <2>7, <2>8 DEF Follows
<1>8. CASE c = NUL /\ th[t].source = "panic" /\ FromStart(t, "write", "footer")
  <2>1. PICK w \in Seq(STRING) : /\ w = Before(t) \o Whole(t) /\ Displayed(PageWith(s, w))'
                                 /\ Controlled(w)'
    BY <1>6, <1>8
  <2>2. th' = [th EXCEPT ![t] = [[[th[t] EXCEPT !.at = "write"] EXCEPT !.source = "footer"]
                                  EXCEPT !.i = 1]]
    BY <1>1, <1>8 DEF FromStart, Thread
  <2>3. /\ th'[t].at = "write" /\ th'[t].source = "footer" /\ th'[t].i = 1
        /\ th'[t].text = th[t].text
    BY <1>1, <2>2 DEF Thread
  <2>4. Before(t)' = w
    BY <1>8, <2>1, <2>3 DEF Before, Whole, Text
  <2>5. Source(t)' = Append(Footer, NUL) /\ Full(t)' = Footer /\ Footer \in Seq(STRING)
    BY <2>3, ConsoleAssumption DEF Source, Full
  <2>6. SourceIs(t)'
    <3>1. Footer \in Seq(Char)
      BY <2>5 DEF Char
    <3>2. /\ Append(Footer, NUL)[Len(Footer) + 1] = NUL
          /\ \A k \in 1..Len(Footer) : Append(Footer, NUL)[k] = Footer[k]
      BY <3>1, Nulls, AppendProperties
    <3> QED BY <2>5, <3>2 DEF SourceIs, Stored
  <2>7. Read(t, 0)'
    BY <2>5 DEF Read
  <2>8. Printed(t, 0)' = w
    <3>1. SubSeq(Footer, 1, 0) = << >>
      BY SubSeqEmpty
    <3>2. w \o << >> = w
      BY ConcatEmptySeq
    <3>3. Printed(t, 0)' = w \o SubSeq(Footer, 1, 0)
      BY <2>4, <2>5 DEF Printed
    <3> QED BY <3>1, <3>2, <3>3
  <2>9. th'[t].at \in {"end", "write"} /\ th'[t].i = 0 + 1 /\ 0 \in Nat
    BY <2>3
  <2>10. Displayed(PageWith(s, w))' /\ Controlled(w)'
    BY <2>1
  <2> QED BY <2>6, <2>7, <2>8, <2>9, <2>10, AtNext
<1>9. CASE Go(t, "spin")
  <2>1. th'[t].at = "spin"
    BY <1>1, <1>9 DEF Go, Thread
  <2> QED BY <2>1 DEF Follows
<1>10. ~Return(t)
  BY DEF Return
<1>11. \/ c # NUL /\ PutNext(t, c)
       \/ c = NUL /\ th[t].source = "header" /\ Formats(t, "panic")
       \/ c = NUL /\ th[t].source = "panic" /\ FromStart(t, "write", "footer")
       \/ Go(t, "spin")
  BY <1>4, <1>10 DEF Write
<1> QED BY <1>5, <1>7, <1>8, <1>9, <1>11

(* putch before its last step.                                             *)
PutchGoesOn(t) ==
  \/ LoadY(t) \/ CarriageReturn(t) \/ LoadX(t) \/ StoreX(t) \/ StoreCell(t)
  \/ WrapX(t) \/ WrapY(t) \/ Scroll(t) \/ ScrollY(t) \/ CsrY(t) \/ CsrX(t)

LEMMA StaysInPutch ==
  ASSUME TypeInv, NEW t \in Threads, PutchGoesOn(t)
  PROVE  /\ th[t].at \in Inside /\ th'[t].at \in Inside
         /\ th'[t].i = th[t].i /\ th'[t].ch = th[t].ch
         /\ th'[t].source = th[t].source /\ th'[t].text = th[t].text /\ bufs' = bufs
<1>1. th \in [Threads -> Thread] /\ th[t] \in Thread
  BY DEF TypeInv
<1>2. \A x, y : ScrollTest(y) \in Inside /\ WrapTest(x, y) \in Inside
  BY TestsLead
<1>3. ASSUME NEW at \in Inside, Go(t, at)
      PROVE  /\ th'[t].at \in Inside /\ th'[t].i = th[t].i /\ th'[t].ch = th[t].ch
             /\ th'[t].source = th[t].source /\ th'[t].text = th[t].text
  BY <1>1, <1>3 DEF Go, Thread
<1>4. CASE LoadY(t)
  <2> DEFINE at == IF th[t].ch = "\r" THEN "cr" ELSE IF th[t].ch = "\n" THEN "wrap_x" ELSE "load_x"
  <2>1. at \in Inside /\ th' = [th EXCEPT ![t] = [[th[t] EXCEPT !.y = cursor_y] EXCEPT !.at = at]]
    BY <1>1, <1>4 DEF LoadY, Inside, Thread
  <2> HIDE DEF at
  <2> QED BY <1>1, <1>4, <2>1 DEF LoadY, At, Inside, Thread
<1>5. CASE LoadX(t)
  <2> DEFINE keeps == th[t].ch \in Other \/ (th[t].ch = "BS" /\ cursor_x = 0)
             at == IF keeps THEN WrapTest(cursor_x, th[t].y) ELSE "store_x"
  <2>1. at \in Inside
    BY <1>2 DEF Inside
  <2>2. th' = [th EXCEPT ![t] = [[th[t] EXCEPT !.x = cursor_x] EXCEPT !.at = at]]
    BY <1>1, <1>5 DEF LoadX, Thread
  <2> HIDE DEF at
  <2> QED BY <1>1, <1>5, <2>1, <2>2 DEF LoadX, At, Inside, Thread
<1>6. CASE CarriageReturn(t)
  BY <1>2, <1>3, <1>6 DEF CarriageReturn, At, Inside
<1>7. CASE StoreX(t)
  <2> DEFINE x == NewX(th[t].ch, th[t].x)
             at == IF th[t].ch \in Special THEN WrapTest(x, th[t].y) ELSE "cell"
  <2>1. at \in Inside
    BY <1>2 DEF Inside
  <2>2. Go(t, at) /\ At(t, "store_x") /\ bufs' = bufs
    BY <1>7 DEF StoreX
  <2> HIDE DEF at
  <2> QED BY <1>3, <2>1, <2>2 DEF At, Inside
<1>8. CASE StoreCell(t)
  BY <1>2, <1>3, <1>8 DEF StoreCell, At, Inside
<1>9. CASE WrapX(t)
  BY <1>3, <1>9 DEF WrapX, At, Inside
<1>10. CASE WrapY(t)
  <2> DEFINE y == (th[t].y + 1) % ByteModulus
             at == ScrollTest(y)
  <2>1. at \in Inside /\ th' = [th EXCEPT ![t] = [[th[t] EXCEPT !.y = y] EXCEPT !.at = at]]
    BY <1>1, <1>2, <1>10 DEF WrapY, Thread
  <2> HIDE DEF at, y
  <2> QED BY <1>1, <1>10, <2>1 DEF WrapY, At, Inside, Thread
<1>11. CASE Scroll(t)
  BY <1>3, <1>11 DEF Scroll, At, Inside
<1>12. CASE ScrollY(t)
  BY <1>3, <1>12 DEF ScrollY, At, Inside
<1>13. CASE CsrY(t)
  BY <1>1, <1>13 DEF CsrY, At, Inside, Thread
<1>14. CASE CsrX(t)
  BY <1>1, <1>14 DEF CsrX, At, Inside, Thread
<1> QED BY <1>4, <1>5, <1>6, <1>7, <1>8, <1>9, <1>10, <1>11, <1>12, <1>13, <1>14 DEF PutchGoesOn

(* The page in front of the character that putch is at.                    *)
LEMMA PutchFrom ==
  ASSUME TypeInv, NEW s, OnScreen(s), NEW t \in Threads, Follows(t, s),
         th[t].at \in Inside, th[t].source # "none"
  PROVE  LET w == Printed(t, th[t].i - 2)
             page == PageWith(s, w)
         IN /\ SourceIs(t) /\ Read(t, th[t].i - 1) /\ th[t].i \in Nat /\ th[t].i >= 2
            /\ th[t].ch = Full(t)[th[t].i - 1] /\ th[t].ch \in STRING
            /\ th[t].i - 1 \in 1..Len(Full(t))
            /\ w \in Seq(STRING) /\ page \in Pages(s) /\ Ends(page) /\ Typing(t, page)
<1>1. th[t] \in Thread /\ th[t].i \in Nat
  BY DEF TypeInv, Thread
<1>2. th[t].at \notin {"spin", "format", "end", "write"}
  BY DEF Inside
<1>3. /\ SourceIs(t) /\ Read(t, th[t].i - 1) /\ th[t].i >= 2
      /\ th[t].ch = Full(t)[th[t].i - 1]
      /\ Typing(t, PageWith(s, Printed(t, th[t].i - 2)))
  BY <1>2 DEF Follows
<1>4. Full(t) \in Seq(STRING) /\ Len(Full(t)) \in Nat
  BY TextsAre
<1>5. th[t].i - 1 \in 1..Len(Full(t)) /\ th[t].i - 2 \in 0..Len(Full(t))
  BY <1>1, <1>3, <1>4 DEF Read
<1>6. th[t].ch \in STRING
  BY <1>3, <1>4, <1>5, ElementOfSeq
<1>7. Printed(t, th[t].i - 2) \in Seq(STRING)
  BY <1>5, TextsAre
<1> QED BY <1>1, <1>3, <1>5, <1>6, <1>7, PagesAre

LEMMA PutchFollows ==
  ASSUME TypeInv, NEW s, OnScreen(s), NEW t \in Threads, Follows(t, s), PutchGoesOn(t)
  PROVE  Follows(t, s)'
<1>1. /\ th[t].at \in Inside /\ th'[t].at \in Inside
      /\ th'[t].i = th[t].i /\ th'[t].ch = th[t].ch
      /\ th'[t].source = th[t].source /\ th'[t].text = th[t].text /\ bufs' = bufs
  BY StaysInPutch
<1>2. CASE th[t].source = "none"
  BY <1>1, <1>2 DEF Follows
<1>3. CASE th[t].source # "none"
  <2>1. PICK w, i : w = Printed(t, th[t].i - 2) /\ i = th[t].i
    OBVIOUS
  <2>2. PICK page : page = PageWith(s, w)
    OBVIOUS
  <2>3. /\ SourceIs(t) /\ Read(t, i - 1) /\ i \in Nat /\ i >= 2
        /\ th[t].ch = Full(t)[i - 1] /\ th[t].ch \in STRING
        /\ page \in Pages(s) /\ Ends(page) /\ Typing(t, page)
    BY <1>1, <1>3, <2>1, <2>2, PutchFrom
  <2>4. Typing(t, page)'
    BY <2>3, LoadYTyping, CarriageTyping, LoadXTyping, StoreXTyping, StoreCellTyping,
       WrapTyping, ScrollTyping, CsrTyping DEF PutchGoesOn
  <2>5. /\ Full(t)' = Full(t) /\ Source(t)' = Source(t) /\ Before(t)' = Before(t)
        /\ SourceIs(t)' = SourceIs(t)
    BY <1>1, SameText
  <2>6. Read(t, th[t].i - 1)' /\ (th[t].ch = Full(t)[th[t].i - 1])' /\ (th[t].i >= 2)'
    BY <1>1, <2>1, <2>3, <2>5 DEF Read
  <2>7. Printed(t, th[t].i - 2)' = w
    BY <1>1, <2>1, <2>5 DEF Printed
  <2>8. Typing(t, PageWith(s, Printed(t, th[t].i - 2)))'
    BY <2>2, <2>4, <2>7 DEF Typing, Displayed
  <2>9. th'[t].at \notin {"format", "end", "write"}
    BY <1>1 DEF Inside
  <2> QED BY <2>3, <2>5, <2>6, <2>8, <2>9 DEF Follows
<1> QED BY <1>2, <1>3

(* putch returns with its character on the page.                           *)
LEMMA OutFollows ==
  ASSUME TypeInv, NEW s, OnScreen(s), NEW t \in Threads, Follows(t, s), Out(t), alone' # {}
  PROVE  Follows(t, s)'
<1>1. th \in [Threads -> Thread] /\ th[t] \in Thread
  BY DEF TypeInv
<1>2. /\ th[t].at = "out" /\ th[t].at \in Inside /\ th[t].source # "none"
      /\ th' = [th EXCEPT ![t].at = "write", ![t].ch = NUL, ![t].x = 0, ![t].y = 0]
  BY DEF Out, At, Inside, PutchReturns, Return
<1>3. th' = [th EXCEPT ![t] = [[[[th[t] EXCEPT !.at = "write"] EXCEPT !.ch = NUL]
                                EXCEPT !.x = 0] EXCEPT !.y = 0]]
  BY <1>1, <1>2 DEF Thread
<1>4. /\ th'[t].at = "write" /\ th'[t].i = th[t].i
      /\ th'[t].source = th[t].source /\ th'[t].text = th[t].text
  BY <1>1, <1>3 DEF Thread
<1>5. /\ screen' = screen /\ cursor_x' = cursor_x /\ cursor_y' = cursor_y /\ bufs' = bufs
      /\ crtc' = th[t].y * MON_WIDTH + th[t].x
  BY DEF Out
<1>6. PICK w, c : w = Printed(t, th[t].i - 2) /\ c = th[t].ch
  OBVIOUS
<1>7. PICK page : page = PageWith(s, w)
  OBVIOUS
<1>8. PICK n : n = th[t].i - 1
  OBVIOUS
<1>9. /\ SourceIs(t) /\ Read(t, n) /\ c = Full(t)[n] /\ c \in STRING
      /\ n \in 1..Len(Full(t)) /\ n - 1 = th[t].i - 2 /\ th[t].i = n + 1
      /\ w \in Seq(STRING) /\ Typing(t, page)
  BY <1>2, <1>6, <1>7, <1>8, PutchFrom
<1>10. Printed(t, n) = Append(w, c)
  <2>1. Before(t) \in Seq(STRING) /\ Full(t) \in Seq(STRING)
    BY TextsAre
  <2>2. Before(t) \o SubSeq(Full(t), 1, n)
        = Append(Before(t) \o SubSeq(Full(t), 1, n - 1), Full(t)[n])
    BY <1>9, <2>1, OneMore
  <2> QED BY <1>6, <1>9, <2>2 DEF Printed
<1>11. PageWith(s, Append(w, c)) = Typed(page, c)
  BY <1>7, <1>9, PageNext
<1>12. Displayed(Typed(page, c)) /\ th[t].y = cursor_y /\ th[t].x = cursor_x
  BY <1>2, <1>6, <1>9 DEF Typing
<1>13. Displayed(PageWith(s, Append(w, c)))' /\ Controlled(Append(w, c))'
  BY <1>5, <1>11, <1>12 DEF Displayed, Controlled
<1>14. /\ Full(t)' = Full(t) /\ Before(t)' = Before(t) /\ SourceIs(t)' = SourceIs(t)
  BY <1>4, <1>5, SameText
<1>15. SourceIs(t)' /\ Read(t, n)' /\ Printed(t, n)' = Append(w, c)
  BY <1>9, <1>10, <1>14 DEF Read, Printed
<1>16. th'[t].at \in {"end", "write"} /\ th'[t].i = n + 1 /\ n \in Nat /\ (th'[t].at = "end" => n = 0)
  BY <1>4, <1>9
<1>17. PICK v : v = Append(w, c)
  OBVIOUS
<1>18. Displayed(PageWith(s, v))' /\ Controlled(v)' /\ Printed(t, n)' = v
  BY <1>13, <1>15, <1>17 DEF Displayed, Controlled
<1> QED BY <1>15, <1>16, <1>18, AtNext

(* cls writes no text.                                                     *)
LEMMA ClsFollows ==
  ASSUME TypeInv, NEW s, NEW t \in Threads, Cls(t)
  PROVE  Follows(t, s)'
<1>1. th \in [Threads -> Thread] /\ th[t] \in Thread /\ ThreadOK(t, th[t])
  BY DEF TypeInv
<1>2. th[t].at \in {"cls", "cls_y", "cls_x"} /\ \E at : Go(t, at)
  BY DEF Cls, At
<1>3. th'[t].source = "none"
  BY <1>1, <1>2 DEF Go, ThreadOK, Thread
<1> QED BY <1>3 DEF Follows

(* The screen is one mark for every cell.                                  *)
ScreenFilled == screen = [a \in Cells |-> screen[a]]

LEMMA StaysFilled ==
  ASSUME ScreenFilled, [Next]_vars
  PROVE  ScreenFilled'
<1>1. ASSUME screen' = screen PROVE ScreenFilled'
  BY <1>1 DEF ScreenFilled
<1>2. ASSUME NEW t \in Threads, StoreCell(t) PROVE ScreenFilled'
  BY <1>2 DEF StoreCell, ScreenFilled
<1>3. ASSUME NEW t \in Threads, Scroll(t) PROVE ScreenFilled'
  BY <1>3 DEF Scroll, ScreenFilled
<1>4. ASSUME NEW t \in Threads, Cls(t) PROVE ScreenFilled'
  BY <1>1, <1>4 DEF Cls, ScreenFilled
<1>5. ASSUME NEW t \in Threads, Enter(t) \/ Format(t) \/ Terminate(t) \/ Write(t) PROVE screen' = screen
  BY <1>5 DEF Enter, Format, Terminate, Write
<1>6. ASSUME NEW t \in Threads,
             \/ LoadY(t) \/ CarriageReturn(t) \/ LoadX(t) \/ StoreX(t)
             \/ WrapX(t) \/ WrapY(t) \/ ScrollY(t) \/ CsrY(t) \/ CsrX(t) \/ Out(t)
      PROVE screen' = screen
  BY <1>6 DEF LoadY, CarriageReturn, LoadX, StoreX, WrapX, WrapY, ScrollY, CsrY, CsrX, Out
<1>7. UNCHANGED vars => screen' = screen
  BY DEF vars
<1> QED BY <1>1, <1>2, <1>3, <1>4, <1>5, <1>6, <1>7 DEF Next, Step, Putch

(* A call that begins while the others are quiet finds the cursor on the   *)
(* screen, and the screen is the page before its first character.          *)
LEMMA EnterFollows ==
  ASSUME TypeInv, ScreenFilled, CursorRepaired, NEW t \in Threads, Enter(t), NEW s \in alone'
  PROVE  /\ OnScreen(s) /\ Follows(t, s)'
         /\ \A u \in Threads \ {t} : Quiet(u)
<1>1. th \in [Threads -> Thread] /\ th[t] \in Thread /\ ThreadOK(t, th[t])
  BY DEF TypeInv
<1>2. th[t].at = "call"
  BY DEF Enter, At
<1>3. /\ s = [screen |-> screen, x |-> cursor_x, y |-> cursor_y]
      /\ \A u \in Threads \ {t} : Quiet(u)
  BY DEF Enter
<1>4. \A u \in Threads : th[u].at \in {"call", "spin"}
  BY <1>2, <1>3 DEF Quiet
<1>5. OnScreen(s)
  <2>1. ~(cursor_y >= MON_HEIGHT) /\ ~(cursor_x >= MON_WIDTH)
    BY <1>4 DEF CursorRepaired, At
  <2>2. cursor_x \in Nat /\ cursor_y \in Nat /\ DOMAIN screen = Cells
    BY ConsoleAssumption DEF TypeInv, ScreenOK, Byte
  <2> QED BY <1>3, <2>1, <2>2, ConsoleAssumption DEF OnScreen
<1>6. PICK page : page = PageWith(s, << >>)
  OBVIOUS
<1>7. Displayed(page)
  <2>1. page = Page(s)
    BY <1>5, <1>6, PageFirst
  <2>2. page.row = s.y /\ page.column = s.x
    BY <2>1 DEF Page
  <2>3. s.y \in 0..(MON_HEIGHT - 1) /\ MON_HEIGHT \in Nat \ {0} /\ MON_WIDTH \in Nat \ {0}
    BY <1>5, ConsoleAssumption DEF OnScreen
  <2>4. Top(page) = 0
    BY <2>2, <2>3, TopIs
  <2>5. ASSUME NEW a \in Cells PROVE page.cells[a + 0 * MON_WIDTH] = screen[a]
    <3>1. a \in Nat /\ a + 0 * MON_WIDTH = a
      BY <2>3 DEF Cells
    <3> QED BY <1>3, <2>1, <3>1 DEF Page
  <2>6. Window(page, 0) = screen
    BY <2>5 DEF Window, ScreenFilled
  <2>7. s.y = cursor_y /\ s.x = cursor_x /\ s.y - 0 = s.y
    BY <1>3, <2>3
  <2> QED BY <2>2, <2>4, <2>6, <2>7 DEF Displayed
<1>8. UNCHANGED <<screen, cursor_x, cursor_y, crtc, bufs>>
  BY DEF Enter
<1>9. PICK none : none = << >>
  OBVIOUS
<1>10. Displayed(PageWith(s, none))' /\ Controlled(none)'
  BY <1>6, <1>7, <1>8, <1>9 DEF Displayed, Controlled
<1>11. CASE Formats(t, "printk")
  <2>1. PICK text : text = Vsprintf(Call(t).fmt, Call(t).args)
    OBVIOUS
  <2>2. th' = [th EXCEPT ![t] = [[[[th[t] EXCEPT !.at = "format"] EXCEPT !.source = "printk"]
                                  EXCEPT !.i = 1] EXCEPT !.text = text]]
    BY <1>1, <1>11, <2>1 DEF Formats, Thread
  <2>3. th'[t].at = "format" /\ th'[t].source = "printk" /\ th'[t].i = 1
    BY <1>1, <2>2 DEF Thread
  <2>4. Before(t)' = none
    BY <1>9, <2>3 DEF Before
  <2>5. Stored(t, th[t].i - 1)'
    BY <2>3 DEF Stored
  <2>6. Displayed(PageWith(s, Before(t)))' /\ Controlled(Before(t))'
    BY <1>10, <2>4 DEF Displayed, Controlled
  <2> QED BY <1>3, <1>5, <2>3, <2>5, <2>6 DEF Follows
<1>12. CASE FromStart(t, "write", "header")
  <2>1. th' = [th EXCEPT ![t] = [[[th[t] EXCEPT !.at = "write"] EXCEPT !.source = "header"]
                                  EXCEPT !.i = 1]]
    BY <1>1, <1>12 DEF FromStart, Thread
  <2>2. th'[t].at = "write" /\ th'[t].source = "header" /\ th'[t].i = 1
    BY <1>1, <2>1 DEF Thread
  <2>3. /\ Source(t)' = Append(Header, NUL) /\ Full(t)' = Header /\ Before(t)' = none
        /\ Header \in Seq(STRING)
    BY <1>9, <2>2, ConsoleAssumption DEF Source, Full, Before
  <2>4. SourceIs(t)'
    <3>1. Header \in Seq(Char)
      BY <2>3 DEF Char
    <3>2. /\ Append(Header, NUL)[Len(Header) + 1] = NUL
          /\ \A k \in 1..Len(Header) : Append(Header, NUL)[k] = Header[k]
      BY <3>1, Nulls, AppendProperties
    <3> QED BY <2>3, <3>2 DEF SourceIs, Stored
  <2>5. Read(t, 0)'
    BY <2>3 DEF Read
  <2>6. Printed(t, 0)' = none
    <3>1. SubSeq(Header, 1, 0) = << >>
      BY SubSeqEmpty
    <3>2. << >> \o << >> = << >>
      BY ConcatEmptySeq
    <3>3. Printed(t, 0)' = none \o SubSeq(Header, 1, 0)
      BY <2>3 DEF Printed
    <3> QED BY <1>9, <3>1, <3>2, <3>3
  <2>7. th'[t].at \in {"end", "write"} /\ th'[t].i = 0 + 1 /\ 0 \in Nat
    BY <2>2
  <2>8. Follows(t, s)'
    BY <1>10, <2>4, <2>5, <2>6, <2>7, AtNext
  <2> QED BY <1>3, <1>5, <2>8
<1>13. CASE Go(t, "cls")
  <2>1. th'[t].source = "none"
    BY <1>1, <1>2, <1>13 DEF Go, ThreadOK, Thread
  <2> QED BY <1>3, <1>5, <2>1 DEF Follows
<1> QED BY <1>11, <1>12, <1>13 DEF Enter

(* One thread moves, the others stay.                                      *)
LEMMA OthersStay ==
  ASSUME TypeInv, NEW t \in Threads, Step(t)
  PROVE  \A u \in Threads \ {t} : Quiet(u) => Quiet(u)'
<1>1. th \in [Threads -> Thread]
  BY DEF TypeInv
<1> SUFFICES ASSUME NEW u \in Threads \ {t} PROVE th'[u] = th[u]
  BY DEF Quiet
<1>2. ASSUME NEW at, Go(t, at) PROVE th'[u] = th[u]
  BY <1>1, <1>2 DEF Go
<1>3. CASE Enter(t)
  BY <1>1, <1>3 DEF Enter, Formats, FromStart, Go
<1>4. CASE Format(t) \/ Terminate(t)
  BY <1>1, <1>4 DEF Format, Terminate, Go
<1>5. CASE Write(t)
  BY <1>1, <1>5 DEF Write, PutNext, Return, Formats, FromStart, Go
<1>6. CASE LoadY(t) \/ LoadX(t) \/ WrapY(t) \/ CsrY(t) \/ CsrX(t)
  BY <1>1, <1>6 DEF LoadY, LoadX, WrapY, CsrY, CsrX
<1>7. CASE CarriageReturn(t) \/ StoreX(t) \/ StoreCell(t) \/ WrapX(t) \/ Scroll(t) \/ ScrollY(t)
  BY <1>2, <1>7 DEF CarriageReturn, StoreX, StoreCell, WrapX, Scroll, ScrollY
<1>8. CASE Out(t)
  BY <1>1, <1>8 DEF Out, PutchReturns, Return
<1>9. CASE Cls(t)
  BY <1>2, <1>9 DEF Cls
<1> QED BY <1>3, <1>4, <1>5, <1>6, <1>7, <1>8, <1>9 DEF Step, Putch

(* Every step of the thread under way.                                     *)
LEMMA CallFollows ==
  ASSUME TypeInv, NEW s, OnScreen(s), NEW t \in Threads, Follows(t, s), Step(t), ~Enter(t),
         alone' # {}
  PROVE  Follows(t, s)'
<1>1. CASE Format(t) \/ Terminate(t)
  BY <1>1, FormatFollows, TerminateFollows
<1>2. CASE Write(t)
  BY <1>2, WriteFollows
<1>3. CASE PutchGoesOn(t)
  BY <1>3, PutchFollows
<1>4. CASE Out(t)
  BY <1>4, OutFollows
<1>5. CASE Cls(t)
  BY <1>5, ClsFollows
<1> QED BY <1>1, <1>2, <1>3, <1>4, <1>5 DEF Step, Putch, PutchGoesOn

(* What alone says does not change, other than when a call begins or ends. *)
LEMMA AloneStays ==
  ASSUME NEW t \in Threads, Step(t), ~Enter(t), alone' # {}
  PROVE  alone' = alone
BY DEF Step, Putch, Format, Terminate, Write, Return, LoadY, CarriageReturn, LoadX, StoreX,
       StoreCell, WrapX, WrapY, Scroll, ScrollY, CsrY, CsrX, Out, PutchReturns, Cls

LEMMA ShownStep ==
  ASSUME TypeInv, ScreenFilled, CursorRepaired, ShownInvariant, [Next]_vars
  PROVE  ShownInvariant'
<1> SUFFICES ASSUME NEW s \in alone'
             PROVE  /\ OnScreen(s)
                    /\ \E t \in Threads : (\A u \in Threads \ {t} : Quiet(u)') /\ Follows(t, s)'
  BY DEF ShownInvariant, OnScreen
<1>1. CASE UNCHANGED vars
  <2>1. s \in alone
    BY <1>1 DEF vars
  <2>2. OnScreen(s)
    BY <2>1 DEF ShownInvariant
  <2>3. PICK t \in Threads : (\A u \in Threads \ {t} : Quiet(u)) /\ Follows(t, s)
    BY <2>1 DEF ShownInvariant
  <2>4. Follows(t, s)' <=> Follows(t, s)
    BY <1>1 DEF vars, Follows, Stored, Source, Full, Text, Displayed, Before, Controlled,
                SourceIs, Read, Printed, Typing
  <2>5. \A u \in Threads \ {t} : Quiet(u)'
    BY <1>1, <2>3 DEF vars, Quiet
  <2> QED BY <2>2, <2>3, <2>4, <2>5
<1>2. ASSUME NEW t \in Threads, Step(t)
      PROVE  /\ OnScreen(s)
             /\ \E v \in Threads : (\A u \in Threads \ {v} : Quiet(u)') /\ Follows(v, s)'
  <2>1. \A u \in Threads \ {t} : Quiet(u) => Quiet(u)'
    BY <1>2, OthersStay
  <2>2. CASE Enter(t)
    <3>1. OnScreen(s) /\ Follows(t, s)' /\ \A u \in Threads \ {t} : Quiet(u)
      BY <2>2, EnterFollows
    <3> QED BY <2>1, <3>1
  <2>3. CASE ~Enter(t)
    <3>1. alone' # {} /\ s \in alone
      BY <1>2, <2>3, AloneStays
    <3>2. OnScreen(s)
      BY <3>1 DEF ShownInvariant
    <3>3. PICK v \in Threads : (\A u \in Threads \ {v} : Quiet(u)) /\ Follows(v, s)
      BY <3>1 DEF ShownInvariant
    <3>4. ~Quiet(t)
      BY <1>2, <2>3 DEF Quiet, At, Step, Putch, Format, Terminate, Write, LoadY, CarriageReturn,
        LoadX, StoreX, StoreCell, WrapX, WrapY, Scroll, ScrollY, CsrY, CsrX, Out, Cls
    <3>5. v = t
      BY <3>3, <3>4
    <3>6. Follows(t, s)'
      BY <1>2, <2>3, <3>1, <3>2, <3>3, <3>5, CallFollows
    <3> QED BY <2>1, <3>2, <3>3, <3>5, <3>6
  <2> QED BY <2>2, <2>3
<1> QED BY <1>1, <1>2 DEF Next

(* While a call is the only one under way, the screen shows the end of an  *)
(* endless page with everything the call has written, putch standing in    *)
(* between two of its characters, for every text and every size of the     *)
(* screen (putch, scroll, move_csr, screen_write, printk, _panic).         *)
THEOREM ShownInvariantHolds == Spec => []ShownInvariant
<1>1. Init => ScreenFilled /\ ShownInvariant
  BY DEF Init, ScreenFilled, ShownInvariant
<1>2. TypeInv /\ CursorRepaired /\ ScreenFilled /\ ShownInvariant /\ [Next]_vars
      => ScreenFilled' /\ ShownInvariant'
  BY StaysFilled, ShownStep
<1>3. Spec => []TypeInv
  BY TypeInvHolds
<1>4. Spec => []CursorRepaired
  BY CursorComesBack
<1> QED BY <1>1, <1>2, <1>3, <1>4, PTL DEF Spec

(* What a call has written so far stands on the screen the way it would on *)
(* an endless page of which the screen is the end, the controller shows    *)
(* the place behind it and the call ends with the end of its text, as long *)
(* as no other thread prints (putch, scroll, screen_write, printk).        *)
THEOREM AloneIsShown == Spec => []AloneShown
<1>1. TypeInv /\ ShownInvariant => AloneShown
  <2> SUFFICES ASSUME TypeInv, ShownInvariant, NEW s \in alone, NEW t \in Threads, At(t, "write")
               PROVE  LET written == Before(t) \o Shown(t)
                          page == PageWith(s, written)
                          top  == Max({0, page.row - (MON_HEIGHT - 1)})
                      IN /\ screen = [a \in Cells |-> page.cells[a + top * MON_WIDTH]]
                         /\ cursor_x = page.column
                         /\ cursor_y = page.row - top
                         /\ written # << >> => crtc = cursor_y * MON_WIDTH + cursor_x
                         /\ IsPrefix(Shown(t), Whole(t))
                         /\ Source(t)[th[t].i] = NUL => Shown(t) = Whole(t)
    BY DEF AloneShown
  <2>1. PICK v \in Threads : (\A u \in Threads \ {v} : Quiet(u)) /\ Follows(v, s)
    BY DEF ShownInvariant
  <2>2. ~Quiet(t)
    BY DEF Quiet, At
  <2>3. v = t
    BY <2>1, <2>2
  <2> QED BY <2>1, <2>3, ShownThen
<1>2. Spec => []TypeInv
  BY TypeInvHolds
<1>3. Spec => []ShownInvariant
  BY ShownInvariantHolds
<1> QED BY <1>1, <1>2, <1>3, PTL
=============================================================================
