----------------------------- MODULE MCConsole -----------------------------
(***************************************************************************)
(* Callers of the console: one thread that prints numbers and texts in     *)
(* every shape, and two threads that print, clear and panic at once.       *)
(***************************************************************************)
EXTENDS ConsoleInv

CONSTANTS t1, t2

Printk(fmt, args) == [op |-> "printk", fmt |-> fmt, args |-> args]
Panic(fmt, args) == [op |-> "_panic", fmt |-> fmt, args |-> args]
ClearScreen == [op |-> "cls"]

Literal(c) == [conv |-> "literal", char |-> c]
PrintText(text) == Printk([i \in DOMAIN text |-> Literal(text[i])], << >>)
Directive(conv, flags, width, precision) ==
  [conv |-> conv, flags |-> flags, width |-> width, precision |-> precision]
Plain(conv) == Directive(conv, {}, -1, -1)

(* One thread makes the calls in turn, and the other none.                 *)
Alone(calls) == [calls |-> (t1 :> calls @@ t2 :> << >>), forever |-> FALSE]
Both(one, other, forever) ==
  [calls |-> (t1 :> one @@ t2 :> other), forever |-> forever]

(* Every number in every base, and a few in fields of every shape.         *)
Numbers ==
  {Printk(<<Plain(c)>>, <<n>>) : c \in NumberConvs \ {"i", "X"}, n \in Word}
Fields ==
  {Printk(<<Directive(c, f, w, p)>>, <<n>>) :
     c \in {"d", "X", "o"}, w \in {-1, 5}, p \in {-1, 3}, n \in {9, WordModulus - 9},
     f \in {{"PLUS"}, {"SPACE"}, {"SPECIAL", "ZEROPAD"}, {"LEFT", "ZEROPAD"},
            {"ZEROPAD", "PLUS"}, {"LEFT", "SPECIAL"}}}

(* Texts, with what moves the cursor in all ways, and directives that take *)
(* texts or are none: a "*" that takes an argument or does not, a "%" at   *)
(* the end.                                                                *)
ab == <<"a", "b">>
Texts ==
  {Printk(<<Directive("s", f, w, p), Literal("c")>>, <<ab>>) :
     f \in {{}, {"LEFT"}}, w \in {-1, 4}, p \in {-1, 0, 1}}
    \cup {Printk(<<Directive("c", f, 3, -1), Literal("b")>>, <<c>>) :
            f \in {{}, {"LEFT"}}, c \in {"a", NUL, "CONTROL"}}
    \cup {Printk(<<Directive("*", {}, Starred, -1), Literal("d"), Plain(NUL)>>, <<3>>),
          Printk(<<Directive("*", {}, 5, Starred), Plain("%"), Plain("d")>>, <<3, 4>>),
          Printk(<<Directive("*", {}, 5, -1), Plain("*"), Plain("d")>>, <<4>>),
          Printk(<<Plain("n"), Plain("y")>>, <<0>>)}
Moves ==
  {PrintText(text) :
     text \in UNION {[1..n -> {"a", "BS", "\t", "\r", "\n"}] : n \in 1..3}}

(* The pair that prints for ever has texts of different lengths: each      *)
(* thread overwrites the NUL the other one is looking for.                 *)
MCPrograms ==
  {Alone(<<call>>) : call \in Numbers \cup Fields \cup Texts}
    \cup {Alone(<<PrintText(ab), call, PrintText(<<"c">>)>>) :
            call \in Moves}
    \cup {Alone(<<PrintText(ab), ClearScreen, Panic(<<Plain("d")>>, <<12>>)>>)}
    \cup {Both(<<PrintText(<<"\r">>)>>, <<PrintText(<<"a", "\r">>)>>, TRUE),
          Both(<<PrintText(<<"a">>), PrintText(<<"\n">>)>>,
               <<PrintText(<<"a", "\n", "a">>)>>, FALSE),
          Both(<<PrintText(<<"a", "\n">>)>>, <<Panic(<<Plain("u")>>, <<1>>)>>, FALSE),
          Both(<<ClearScreen>>, <<PrintText(<<"a", "\t">>)>>, FALSE)}

MCHeader == <<"\n", "H">>
MCFooter == <<"\n">>

(* Two threads that print texts of different lengths.                      *)
MixedPrograms ==
  {Both(<<PrintText(<<"a">>)>>, <<PrintText(<<"b", "c">>)>>, TRUE)}
=============================================================================
