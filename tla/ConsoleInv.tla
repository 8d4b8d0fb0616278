----------------------------- MODULE ConsoleInv -----------------------------
(***************************************************************************)
(* The inductive invariant of what a call shows while no other thread has  *)
(* begun one: how far putch has come from the page in front of a character *)
(* to the page behind it.                                                  *)
(***************************************************************************)
EXTENDS Console

(* The part of a page from line top on that the screen has room for, and   *)
(* the line it shows first once the cursor has been brought back.          *)
Window(page, top) == [a \in Cells |-> page.cells[a + top * MON_WIDTH]]
Top(page) == Max({0, page.row - (MON_HEIGHT - 1)})

(* The screen shows a page, and the cursor is where it is written next.    *)
Displayed(page) ==
  /\ screen = Window(page, Top(page))
  /\ cursor_x = page.column
  /\ cursor_y = page.row - Top(page)

(* putch is under way with a character on a page: places in the order in   *)
(* which it comes to them, the last ones with the next page.               *)
Typing(t, page) ==
  LET r    == th[t]
      next == Typed(page, r.ch)
      top  == Top(page)
      x    == page.column
      y    == page.row - top
  IN \/ r.at = "putch" /\ Displayed(page)
     \/ /\ r.at = "cr" /\ r.ch = "\r"
        /\ Displayed(page) /\ r.y = y
     \/ /\ r.at = "load_x" /\ r.ch \notin {"\r", "\n"}
        /\ Displayed(page) /\ r.y = y
     \/ /\ r.at = "store_x" /\ r.ch \notin {"\r", "\n"} \cup Other
        /\ Displayed(page) /\ r.y = y /\ r.x = x
     \/ /\ r.at = "cell" /\ r.ch \notin Special \cup Other
        /\ screen = Window(page, top) /\ cursor_x = x + 1 /\ cursor_y = y
        /\ r.y = y /\ r.x = x
     \/ /\ r.at \in {"wrap_x", "wrap_y"} /\ next.row = page.row + 1 /\ next.column = 0
        /\ screen = Window(next, top) /\ cursor_y = y /\ r.y = y
        /\ r.at = "wrap_y" => cursor_x = 0
     \/ /\ r.at \in {"scroll", "scroll_y"} /\ Top(next) = top + 1 /\ next.column = 0
        /\ screen = Window(next, IF r.at = "scroll" THEN top ELSE Top(next))
        /\ cursor_x = 0
     \/ /\ r.at \in {"csr_y", "csr_x", "out"}
        /\ Displayed(next)
        /\ r.at # "csr_y" => r.y = cursor_y
        /\ r.at = "out" => r.x = cursor_x

(* The string screen_write is to run through, which stands in the memory   *)
(* it reads as far as n, or as a whole with its NUL.                       *)
Full(t) ==
  CASE th[t].source = "header" -> Header
    [] th[t].source = "footer" -> Footer
    [] OTHER                   -> Text(t)
Stored(t, n) == \A k \in 1..n : Source(t)[k] = Full(t)[k]
SourceIs(t) == Stored(t, Len(Full(t))) /\ Source(t)[Len(Full(t)) + 1] = NUL

(* The first n characters of it, none of them a NUL, have been read.       *)
Read(t, n) == n \in 0..Len(Full(t)) /\ \A k \in 1..n : Full(t)[k] # NUL
Printed(t, n) == Before(t) \o SubSeq(Full(t), 1, n)

Controlled(text) == text # << >> => crtc = cursor_y * MON_WIDTH + cursor_x

(* The call of t, which began with the console as s, has got somewhere.    *)
Follows(t, s) ==
  LET r == th[t] IN
    \/ r.source = "none" \/ r.at = "spin"
    \/ /\ r.at = "format" /\ Stored(t, r.i - 1)
       /\ Displayed(PageWith(s, Before(t))) /\ Controlled(Before(t))
    \/ /\ r.at \in {"end", "write"} /\ SourceIs(t) /\ Read(t, r.i - 1)
       /\ r.at = "end" => r.i = 1
       /\ Displayed(PageWith(s, Printed(t, r.i - 1))) /\ Controlled(Printed(t, r.i - 1))
    \/ /\ r.at \notin {"format", "end", "write"} /\ SourceIs(t) /\ Read(t, r.i - 1)
       /\ r.i >= 2 /\ r.ch = Full(t)[r.i - 1]
       /\ Typing(t, PageWith(s, Printed(t, r.i - 2)))

OnScreen(s) ==
  /\ DOMAIN s.screen = Cells
  /\ s.x \in 0..(MON_WIDTH - 1) /\ s.y \in 0..(MON_HEIGHT - 1)

(* As long as a call is the only one under way, it was begun with the      *)
(* cursor on the screen, and what it has written of its text so far is on  *)
(* the page that the screen shows the end of (putch, scroll, move_csr,     *)
(* screen_write, printk, _panic).                                          *)
ShownInvariant ==
  \A s \in alone :
    /\ OnScreen(s)
    /\ \E t \in Threads : (\A u \in Threads \ {t} : Quiet(u)) /\ Follows(t, s)
=============================================================================
