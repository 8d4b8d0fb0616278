------------------------------ MODULE Console ------------------------------
(***************************************************************************)
(* printk, _panic and cls on the text screen (system.c, screen.c), called  *)
(* by threads that the timer preempts anywhere.                            *)
(*                                                                         *)
(* A step is one access to shared memory as gcc -O2 makes them: putch      *)
(* loads cursor_y once, on entry, and cursor_x once where it needs it, and *)
(* works on the two registers until move_csr loads both again.  The loops  *)
(* of scroll and cls over the video memory are one step each: nothing      *)
(* stated here tells apart how far they are when they are interrupted.     *)
(***************************************************************************)
EXTENDS Vsprintf

CONSTANTS
  Threads,     \* the callers
  Programs,    \* what they may call: records [calls, forever]
  MON_WIDTH,   \* 80 in the kernel
  MON_HEIGHT,  \* 25
  TabStop,     \* 8
  ByteModulus, \* of uint8_t, 256
  BufLen,      \* of printk's and _panic's buffers, 1024
  Header,      \* the lines _panic writes around its message
  Footer

ASSUME ConsoleAssumption ==
  /\ MON_WIDTH \in Nat \ {0}
  /\ MON_HEIGHT \in Nat \ {0}
  /\ TabStop \in Nat \ {0}
  /\ ByteModulus \in Nat
  /\ MON_WIDTH + TabStop <= ByteModulus
  /\ MON_HEIGHT < ByteModulus
  /\ BufLen \in Nat \ {0}
  /\ {Header, Footer} \subseteq Seq(STRING)

(* vsprintf writes as much as it is told to: that the text and its NUL fit *)
(* into the buffer is up to the caller, as is the type of what is printed. *)
ASSUME CallersAssumption ==
  \A p \in Programs, t \in Threads :
    /\ Len(p.calls[t]) \in Nat
    /\ \A k \in 1..Len(p.calls[t]) :
         LET c == p.calls[t][k] IN
           c.op \in {"printk", "_panic"} =>
             /\ c.fmt \in Seq(Scanned)
             /\ Vsprintf(c.fmt, c.args) \in Seq(STRING)
             /\ Len(Vsprintf(c.fmt, c.args)) < BufLen
             /\ Len(c.fmt) = 1 /\ c.fmt[1].conv \in NumberConvs => Head(c.args) \in Word

(* The lines _panic writes around its message end with their NUL and have  *)
(* no other.                                                               *)
ASSUME LinesAssumption == {Header, Footer} \subseteq Seq(STRING \ {NUL})

VARIABLES
  program,   \* the calls the threads make, one of Programs
  screen,    \* the visible part of the video memory, by address
  cursor_x,
  cursor_y,
  crtc,      \* the location the display controller shows the cursor at
  bufs,      \* the static buffers of printk and _panic
  th,        \* the threads: where they are, and their locals and registers
  alone      \* history: the state of the console when the call under way
             \* began, while no other thread has begun one (at most one)

vars == <<program, screen, cursor_x, cursor_y, crtc, bufs, th, alone>>

BLANK == "BLANK"                      \* MON_BLANK_CHAR, unlike a printed space
Cells == 0..(MON_WIDTH * MON_HEIGHT - 1)
Byte == 0..(ByteModulus - 1)
Special == {"BS", "\t", "\r", "\n"}   \* 0x08, 0x09, '\r' and '\n'
Other == {"CONTROL"}                  \* a character below ' ', or negative

Calls(t) == program.calls[t]
Call(t) == Calls(t)[th[t].call]
Text(t) == th[t].text

(* What screen_write is running through.                                   *)
Source(t) ==
  CASE th[t].source = "header" -> Append(Header, NUL)
    [] th[t].source = "footer" -> Append(Footer, NUL)
    [] OTHER                   -> bufs[th[t].source]

Idle == [at |-> "call", call |-> 1, source |-> "none", text |-> << >>,
         i |-> 0, ch |-> NUL, x |-> 0, y |-> 0]

Init ==
  /\ program \in Programs
  /\ screen = [a \in Cells |-> BLANK]
  /\ cursor_x = 0
  /\ cursor_y = 0
  /\ crtc = 0
  /\ bufs = [b \in {"printk", "panic"} |-> [k \in 1..BufLen |-> NUL]]
  /\ th = [t \in Threads |-> Idle]
  /\ alone = {}

(* t stands at a place, and goes on to another.                            *)
At(t, at) == th[t].at = at
Go(t, at) == th' = [th EXCEPT ![t].at = at]

-----------------------------------------------------------------------------
(* The calls.                                                              *)

Quiet(t) == th[t].at \in {"call", "spin"}

(* c[0] of another string is next.  Mutation: i is not reset.              *)
FromThere(t, at, source) == th' = [th EXCEPT ![t].at = at, ![t].source = source]
FromStart(t, at, source) ==
  th' = [th EXCEPT ![t].at = at, ![t].source = source, ![t].i = 1]

(* vsprintf starts on the text.                                            *)
Formats(t, source) ==
  th' = [th EXCEPT ![t].at = "format", ![t].source = source, ![t].i = 1,
                   ![t].text = Vsprintf(Call(t).fmt, Call(t).args)]

(* Entering printk, _panic or cls.                                         *)
Enter(t) ==
  /\ At(t, "call")
  /\ th[t].call <= Len(Calls(t))
  /\ alone' = IF \A u \in Threads \ {t} : Quiet(u)
              THEN {[screen |-> screen, x |-> cursor_x, y |-> cursor_y]}
              ELSE {}
  /\ \/ /\ Call(t).op = "printk"
        /\ Formats(t, "printk")
     \/ /\ Call(t).op = "_panic"
        /\ FromStart(t, "write", "header")
     \/ /\ Call(t).op = "cls"
        /\ Go(t, "cls")
  /\ UNCHANGED <<program, screen, cursor_x, cursor_y, crtc, bufs>>

(* Back to the caller.                                                     *)
Return(t) ==
  /\ th' = [th EXCEPT ![t] =
              [Idle EXCEPT !.call =
                 IF program.forever THEN (th[t].call % Len(Calls(t))) + 1
                 ELSE th[t].call + 1]]
  /\ alone' = {}

(* vsprintf stores the text and its NUL one by one, printk the NUL again.  *)
Store(t, k, c) == bufs' = [bufs EXCEPT ![th[t].source][k] = c]

Format(t) ==
  /\ At(t, "format")
  /\ IF th[t].i <= Len(Text(t))
     THEN /\ Store(t, th[t].i, Text(t)[th[t].i])
          /\ th' = [th EXCEPT ![t].i = th[t].i + 1]
     ELSE /\ Store(t, th[t].i, NUL)
          /\ th' = [th EXCEPT ![t].i = 1,
                              ![t].at = IF th[t].source = "printk" THEN "end" ELSE "write"]
  /\ UNCHANGED <<program, screen, cursor_x, cursor_y, crtc, alone>>

Terminate(t) ==
  /\ At(t, "end")
  /\ Store(t, Len(Text(t)) + 1, NUL)
  /\ Go(t, "write")
  /\ UNCHANGED <<program, screen, cursor_x, cursor_y, crtc, alone>>

(* putch(c[i++]).  Mutation: i stays where it is.                          *)
PutSame(t, c) == th' = [th EXCEPT ![t].at = "putch", ![t].ch = c]
PutNext(t, c) == th' = [th EXCEPT ![t].at = "putch", ![t].ch = c,
                                  ![t].i = th[t].i + 1]

(* screen_write(): the next character, or the end of the string.  _panic   *)
(* writes three strings and then spins.                                    *)
Write(t) ==
  /\ At(t, "write")
  /\ LET c == Source(t)[th[t].i] IN
       \/ /\ c # NUL
          /\ PutNext(t, c)
          /\ UNCHANGED alone
       \/ /\ c = NUL
          /\ th[t].source = "printk"
          /\ Return(t)
       \/ /\ c = NUL
          /\ th[t].source = "header"
          /\ Formats(t, "panic")
          /\ UNCHANGED alone
       \/ /\ c = NUL
          /\ th[t].source = "panic"
          /\ FromStart(t, "write", "footer")
          /\ UNCHANGED alone
       \/ /\ c = NUL
          /\ th[t].source = "footer"
          /\ Go(t, "spin")
          /\ UNCHANGED alone
  /\ UNCHANGED <<program, screen, cursor_x, cursor_y, crtc, bufs>>

-----------------------------------------------------------------------------
(* putch(th[t].ch).                                                        *)

(* Where putch goes on with x and y in its registers.                      *)
ScrollTest(y) == IF y >= MON_HEIGHT THEN "scroll" ELSE "csr_y"
(* Mutation: the last column is passed by one.                             *)
WrapTestLate(x, y) == IF x > MON_WIDTH THEN "wrap_x" ELSE ScrollTest(y)
WrapTest(x, y) == IF x >= MON_WIDTH THEN "wrap_x" ELSE ScrollTest(y)

LoadY(t) ==
  LET c == th[t].ch
      next == IF c = "\r" THEN "cr"
              ELSE IF c = "\n" THEN "wrap_x"  \* the same two stores
              ELSE "load_x"
  IN /\ At(t, "putch")
     /\ th' = [th EXCEPT ![t].y = cursor_y, ![t].at = next]
     /\ UNCHANGED <<program, screen, cursor_x, cursor_y, crtc, bufs, alone>>

CarriageReturn(t) ==
  /\ At(t, "cr")
  /\ cursor_x' = 0
  /\ Go(t, ScrollTest(th[t].y))
  /\ UNCHANGED <<program, screen, cursor_y, crtc, bufs, alone>>

(* The x a character leaves the cursor at.                                 *)
NewX(c, x) ==
  CASE c = "BS"                 -> IF x > 0 THEN x - 1 ELSE x
    [] c = "\t"                 -> ((x \div TabStop + 1) * TabStop) % ByteModulus
    [] c \notin Special \cup Other -> (x + 1) % ByteModulus
    [] OTHER                    -> x

LoadX(t) ==
  LET c == th[t].ch
      x == cursor_x
      keeps == c \in Other \/ (c = "BS" /\ x = 0)
  IN /\ At(t, "load_x")
     /\ th' = [th EXCEPT ![t].x = x,
                         ![t].at = IF keeps THEN WrapTest(x, th[t].y) ELSE "store_x"]
     /\ UNCHANGED <<program, screen, cursor_x, cursor_y, crtc, bufs, alone>>

StoreX(t) ==
  LET x == NewX(th[t].ch, th[t].x)
  IN /\ At(t, "store_x")
     /\ cursor_x' = x
     /\ Go(t, IF th[t].ch \in Special THEN WrapTest(x, th[t].y) ELSE "cell")
     /\ UNCHANGED <<program, screen, cursor_y, crtc, bufs, alone>>

(* A store beyond the last line is not seen.                               *)
StoreCell(t) ==
  LET a == th[t].x + MON_WIDTH * th[t].y
  IN /\ At(t, "cell")
     /\ screen' = IF a \in Cells THEN [screen EXCEPT ![a] = th[t].ch] ELSE screen
     /\ Go(t, WrapTest(NewX(th[t].ch, th[t].x), th[t].y))
     /\ UNCHANGED <<program, cursor_x, cursor_y, crtc, bufs, alone>>

WrapX(t) ==
  /\ At(t, "wrap_x")
  /\ cursor_x' = 0
  /\ Go(t, "wrap_y")
  /\ UNCHANGED <<program, screen, cursor_y, crtc, bufs, alone>>

WrapY(t) ==
  LET y == (th[t].y + 1) % ByteModulus
  IN /\ At(t, "wrap_y")
     /\ cursor_y' = y
     /\ th' = [th EXCEPT ![t].y = y, ![t].at = ScrollTest(y)]
     /\ UNCHANGED <<program, screen, cursor_x, crtc, bufs, alone>>

(* scroll(): the lines move up, and then the cursor.                       *)
LastLine == {a \in Cells : a >= MON_WIDTH * (MON_HEIGHT - 1)}

(* Mutation: the last line stays as it is.                                 *)
ScrollUncleared(t) ==
  /\ At(t, "scroll")
  /\ screen' = [a \in Cells |-> screen[IF a \in LastLine THEN a ELSE a + MON_WIDTH]]
  /\ Go(t, "scroll_y")
  /\ UNCHANGED <<program, cursor_x, cursor_y, crtc, bufs, alone>>

Scroll(t) ==
  /\ At(t, "scroll")
  /\ screen' = [a \in Cells |-> IF a \in LastLine THEN BLANK ELSE screen[a + MON_WIDTH]]
  /\ Go(t, "scroll_y")
  /\ UNCHANGED <<program, cursor_x, cursor_y, crtc, bufs, alone>>

ScrollY(t) ==
  /\ At(t, "scroll_y")
  /\ cursor_y' = MON_HEIGHT - 1
  /\ Go(t, "csr_y")
  /\ UNCHANGED <<program, screen, cursor_x, crtc, bufs, alone>>

(* putch and cls end with move_csr; their locals are dead then.            *)
PutchReturns(t) ==
  IF th[t].source = "none" THEN Return(t)
  ELSE /\ th' = [th EXCEPT ![t].at = "write", ![t].ch = NUL, ![t].x = 0,
                           ![t].y = 0]
       /\ UNCHANGED alone

(* move_csr(): the location from fresh loads, sent by four outb in one     *)
(* step.                                                                   *)
CsrY(t) ==
  /\ At(t, "csr_y")
  /\ th' = [th EXCEPT ![t].y = cursor_y, ![t].at = "csr_x"]
  /\ UNCHANGED <<program, screen, cursor_x, cursor_y, crtc, bufs, alone>>

CsrX(t) ==
  /\ At(t, "csr_x")
  /\ th' = [th EXCEPT ![t].x = cursor_x, ![t].at = "out"]
  /\ UNCHANGED <<program, screen, cursor_x, cursor_y, crtc, bufs, alone>>

Out(t) ==
  /\ At(t, "out")
  /\ crtc' = th[t].y * MON_WIDTH + th[t].x
  /\ PutchReturns(t)
  /\ UNCHANGED <<program, screen, cursor_x, cursor_y, bufs>>

(* cls(): the cells, then cursor_y and cursor_x, then move_csr.            *)
Cls(t) ==
  /\ \/ /\ At(t, "cls")
        /\ screen' = [a \in Cells |-> BLANK]
        /\ Go(t, "cls_y")
        /\ UNCHANGED <<cursor_x, cursor_y>>
     \/ /\ At(t, "cls_y")
        /\ cursor_y' = 0
        /\ Go(t, "cls_x")
        /\ UNCHANGED <<screen, cursor_x>>
     \/ /\ At(t, "cls_x")
        /\ cursor_x' = 0
        /\ Go(t, "csr_y")
        /\ UNCHANGED <<screen, cursor_y>>
  /\ UNCHANGED <<program, crtc, bufs, alone>>

Putch(t) ==
  \/ LoadY(t) \/ CarriageReturn(t) \/ LoadX(t) \/ StoreX(t) \/ StoreCell(t)
  \/ WrapX(t) \/ WrapY(t) \/ Scroll(t) \/ ScrollY(t)
  \/ CsrY(t) \/ CsrX(t) \/ Out(t)

Step(t) == Enter(t) \/ Format(t) \/ Terminate(t) \/ Write(t) \/ Putch(t) \/ Cls(t)

Next == \E t \in Threads : Step(t)

(* The scheduler gives every thread its turn for ever.                     *)
Spec == Init /\ [][Next]_vars /\ \A t \in Threads : WF_vars(Step(t))

-----------------------------------------------------------------------------
(* Types; and no thread reads or stores behind the end of a buffer, also   *)
(* while others rewrite the text it is showing (printk, screen_write).     *)
Places == {"call", "format", "end", "write", "spin", "putch", "cr", "load_x",
           "store_x", "cell", "wrap_x", "wrap_y", "scroll", "scroll_y", "csr_y",
           "csr_x", "out", "cls", "cls_y", "cls_x"}

TypeOK ==
  /\ DOMAIN screen = Cells
  /\ cursor_x \in Byte
  /\ cursor_y \in Byte
  /\ crtc \in Nat
  /\ \A b \in {"printk", "panic"} : DOMAIN bufs[b] = 1..BufLen
  /\ \A t \in Threads :
       /\ th[t].at \in Places
       /\ th[t].source \in {"none", "printk", "header", "panic", "footer"}
       /\ At(t, "format") => th[t].i \in 1..BufLen
       /\ At(t, "write") => th[t].i \in DOMAIN Source(t)
       /\ th[t].x \in Byte
       /\ th[t].y \in Byte
  /\ Cardinality(alone) <= 1

(* The cursor leaves the screen only while a thread is on its way to bring *)
(* it back: putch works on registers that other threads make stale, and    *)
(* still every value out of range has somebody left to correct it, so that *)
(* the cursor is on the screen whenever nobody is inside putch.            *)
CursorRepaired ==
  /\ cursor_y >= MON_HEIGHT => \E t \in Threads : At(t, "scroll") \/ At(t, "scroll_y")
  /\ cursor_x >= MON_WIDTH =>
       \E t \in Threads :
         At(t, "wrap_x") \/ (At(t, "cell") /\ NewX(th[t].ch, th[t].x) >= MON_WIDTH)

(* A page without a last line, written to at a place that moves on.        *)
Page(s) ==
  [cells |-> [a \in Nat |-> IF a \in Cells THEN s.screen[a] ELSE BLANK],
   row |-> s.y, column |-> s.x]

Typed(page, c) ==
  LET onTo(column) == IF column < MON_WIDTH THEN [page EXCEPT !.column = column]
                      ELSE [page EXCEPT !.row = @ + 1, !.column = 0]
      tabbed == (page.column \div TabStop + 1) * TabStop
      here   == page.row * MON_WIDTH + page.column
  IN CASE c = "\n"     -> [page EXCEPT !.row = @ + 1, !.column = 0]
       [] c = "\r"     -> [page EXCEPT !.column = 0]
       [] c = "BS"     -> [page EXCEPT !.column = IF @ > 0 THEN @ - 1 ELSE 0]
       [] c = "\t"     -> onTo(tabbed)
       [] c \in Other  -> page
       [] OTHER        -> [onTo(page.column + 1) EXCEPT !.cells[here] = c]

(* What a text makes of the console in state s, seen on an endless page.   *)
PageWith(s, text) ==
  LET page[k \in 0..Len(text)] ==
        IF k = 0 THEN Page(s) ELSE Typed(page[k - 1], text[k])
  IN page[Len(text)]

(* The text up to its first NUL.                                           *)
Readable(text) ==
  IF NUL \in ToSet(text) THEN SubSeq(text, 1, SelectInSeq(text, LAMBDA c : c = NUL) - 1)
  ELSE text

Shown(t) == SubSeq(Source(t), 1, th[t].i - 1)
Before(t) ==
  CASE th[t].source = "panic"  -> Header
    [] th[t].source = "footer" -> Header \o Readable(Text(t))
    [] OTHER                   -> << >>
Whole(t) ==
  CASE th[t].source = "header" -> Header
    [] th[t].source = "footer" -> Footer
    [] OTHER                   -> Readable(Text(t))

(* While no other thread prints, what a call has written so far stands on  *)
(* the screen the way it would on an endless page of which the screen is   *)
(* the end, the display controller shows the place behind it, and the call *)
(* ends with the end of its text (putch, scroll, screen_write, printk).    *)
AloneShown ==
  \A s \in alone, t \in Threads :
    At(t, "write") =>
      LET written == Before(t) \o Shown(t)
          page == PageWith(s, written)
          top  == Max({0, page.row - (MON_HEIGHT - 1)})
      IN /\ screen = [a \in Cells |-> page.cells[a + top * MON_WIDTH]]
         /\ cursor_x = page.column
         /\ cursor_y = page.row - top
         /\ written # << >> => crtc = cursor_y * MON_WIDTH + cursor_x
         /\ IsPrefix(Shown(t), Whole(t))
         /\ Source(t)[th[t].i] = NUL => Shown(t) = Whole(t)

(* A number printed through a directive reads back as that number, with a  *)
(* minus sign exactly if it was taken as signed and is negative, in a      *)
(* field of its width and precision filled up on one side (number,         *)
(* vsprintf).                                                              *)
NumbersReadBack ==
  \A t \in Threads :
    At(t, "format") /\ th[t].i = 1 =>
      LET d == Call(t).fmt[1] IN
        Len(Call(t).fmt) = 1 /\ d.conv \in NumberConvs =>
          ReadsBack(Text(t), d, Head(Call(t).args))

(* A call of printk returns, and a panic comes to its endless loop, though *)
(* other threads keep writing to the same buffer: no rewriting takes away  *)
(* every NUL in front of a reader (screen_write).                          *)
PrintReturns ==
  \A t \in Threads : At(t, "format") ~> th[t].at \in {"call", "spin"}

(* printk "outputs a formatted string to the screen": the characters a     *)
(* call hands to putch are those of the string it formatted.               *)
PrintkWhole ==
  \A t \in Threads :
    At(t, "putch") /\ th[t].source = "printk" => th[t].ch = Text(t)[th[t].i - 1]
=============================================================================
