------------------------------ MODULE Vsprintf -----------------------------
(***************************************************************************)
(* The formatter of printk and _panic (vsprintf.c).                        *)
(*                                                                         *)
(* A string is a sequence of characters.  A format is the sequence of what *)
(* the scanner takes at a time: a character of its own,                    *)
(*   [conv |-> "literal", char |-> c],                                     *)
(* or a directive                                                          *)
(*   [conv |-> c, flags |-> F, width |-> w, precision |-> p]               *)
(* where c is the character that stands where the conversion should, w     *)
(* and p are -1 when they are not given, and F holds flags of number().    *)
(* The scanner does not step over a "*" that stands for the width or the   *)
(* precision: it takes the next argument for it and finds it again where   *)
(* the conversion should be.  "%*d" is a directive with conv "*" and width *)
(* Starred, and then a d.  In "%5*" the "*" stands for nothing: the        *)
(* directive has conv "*" and width 5, and takes no argument.              *)
(*                                                                         *)
(* Numbers are words, kept modulo WordModulus.                             *)
(***************************************************************************)
EXTENDS Integers, Sequences, SequencesExt, FiniteSetsExt

CONSTANT WordModulus  \* 2^32 in the kernel

ASSUME WordAssumption == WordModulus \in Nat \ {0} /\ WordModulus % 2 = 0

NUL == "NUL"
SP == "SP"    \* a space
Word == 0..(WordModulus - 1)

Repeat(c, n) == [i \in 1..n |-> c]

(* Negative as number() reads it when SIGN is set.                         *)
Negative(word) == word >= WordModulus \div 2

(* Mutation: the word behind the minus sign stays as it is.                *)
NegatedNot(word) == word

Negated(word) == (WordModulus - word) % WordModulus

UpperDigits == <<"0", "1", "2", "3", "4", "5", "6", "7", "8", "9",
                 "A", "B", "C", "D", "E", "F">>
LowerDigits == <<"0", "1", "2", "3", "4", "5", "6", "7", "8", "9",
                 "a", "b", "c", "d", "e", "f">>
DigitChars(type) == IF "SMALL" \in type THEN LowerDigits ELSE UpperDigits

(* tmp[] from its end: divl divides unsigned, so that the most negative    *)
(* word, its own negation, comes out as its magnitude.                     *)
Digits(num, base, type) ==
  LET f[n \in Word] ==
        IF n < base THEN <<DigitChars(type)[n + 1]>>
        ELSE Append(f[n \div base], DigitChars(type)[(n % base) + 1])
  IN f[num]

Sign(num, type) ==
  IF "SIGN" \in type /\ Negative(num) THEN <<"-">>
  ELSE IF "PLUS" \in type THEN <<"+">>
  ELSE IF "SPACE" \in type THEN <<SP>>
  ELSE << >>

Prefix(base, type) ==
  IF "SPECIAL" \notin type THEN << >>
  ELSE IF base = 8 THEN <<"0">>
  ELSE IF base = 16 THEN <<"0", IF "SMALL" \in type THEN "x" ELSE "X">>
  ELSE << >>

(* number(): the room the field has left goes in front of the sign, behind *)
(* the prefix or behind the digits.                                        *)
Number(num, base, size, precision, type) ==
  LET sign   == Sign(num, type)
      prefix == Prefix(base, type)
      digits == Digits(IF sign = <<"-">> THEN Negated(num) ELSE num, base, type)
      zeros  == Repeat("0", precision - Len(digits))
      room   == size - Len(sign) - Len(prefix) - Len(zeros) - Len(digits)
      side   == IF "LEFT" \in type THEN "right"
                ELSE IF "ZEROPAD" \in type THEN "inner" ELSE "left"
      pad(where, c) == IF where = side THEN Repeat(c, room) ELSE << >>
  IN pad("left", SP) \o sign \o prefix \o pad("inner", "0")
       \o zeros \o digits \o pad("right", SP)

(* The characters of %c and %s in their field.                             *)
Justified(text, d) ==
  LET padding == Repeat(SP, d.width - Len(text))
  IN IF "LEFT" \in d.flags THEN text \o padding ELSE padding \o text

Truncated(text, precision) ==
  IF precision < 0 THEN text ELSE SubSeq(text, 1, Min({precision, Len(text)}))

Base(conv) ==
  CASE conv = "o"               -> 8
    [] conv \in {"p", "x", "X"} -> 16
    [] conv \in {"d", "i", "u"} -> 10
    [] conv = "b"               -> 2

(* The width of the field: a pointer has eight digits unless told otherwise. *)
Width(d) == IF d.conv = "p" /\ d.width = -1 THEN 8 ELSE d.width

(* The flags the conversion adds to those of the directive.                *)
Type(d) ==
  d.flags
    \cup (IF d.conv = "x" THEN {"SMALL"} ELSE {})
    \cup (IF d.conv \in {"d", "i"} THEN {"SIGN"} ELSE {})
    \cup (IF d.conv = "p" /\ d.width = -1 THEN {"ZEROPAD"} ELSE {})

NumberConvs == {"o", "p", "x", "X", "d", "i", "u", "b"}

(* A width or a precision for which the scanner has taken an argument.     *)
Starred == -2

Given == Nat \cup {-1}

(* What a format consists of.                                              *)
Scanned ==
  LET Directives(convs, widths, precisions) ==
        [conv : convs, flags : SUBSET {"LEFT", "PLUS", "SPACE", "SPECIAL", "ZEROPAD"},
         width : widths, precision : precisions]
  IN [conv : {"literal"}, char : STRING]
       \cup Directives(STRING \ {"literal"}, Given, Given)
       \cup Directives({"*"}, {Starred}, {-1})
       \cup Directives({"*"}, Given, {Starred})

(* What takes an argument: a conversion, or a "*" where the width should   *)
(* stand, or the precision behind its ".".                                 *)
Takes(d) ==
  \/ d.conv \in NumberConvs \cup {"c", "s", "n"}
  \/ d.conv = "*" /\ Starred \in {d.width, d.precision}

(* What a directive writes.                                                *)
Written(d, arg) ==
  CASE d.conv = "literal" -> <<d.char>>
    [] d.conv \in NumberConvs ->
         Number(arg, Base(d.conv), Width(d), d.precision, Type(d))
    [] d.conv = "c" -> Justified(<<arg>>, d)
    [] d.conv = "s" -> Justified(Truncated(arg, d.precision), d)
    [] d.conv = "n" -> << >>                       \* stores the length at arg
    [] d.conv = "%" -> <<"%">>
    [] d.conv = NUL -> <<"%">>                     \* the format ends with a %
    [] OTHER        -> <<"%", d.conv>>

(* vsprintf(): the text it leaves in front of the terminating NUL.         *)
Vsprintf(fmt, args) ==
  LET scan[k \in 0..Len(fmt)] ==
        IF k = 0 THEN [text |-> << >>, args |-> args]
        ELSE LET done == scan[k - 1]
                 d    == fmt[k]
             IN IF Takes(d)
                THEN [text |-> done.text \o Written(d, Head(done.args)), args |-> Tail(done.args)]
                ELSE [done EXCEPT !.text = @ \o Written(d, 0)]
  IN scan[Len(fmt)].text
-----------------------------------------------------------------------------
(* A reader's view of a number in a field.                                 *)
DigitValue(c) ==
  CHOOSE v \in 0..15 : c \in {UpperDigits[v + 1], LowerDigits[v + 1]}
IsDigit(c) == c \in ToSet(UpperDigits) \cup ToSet(LowerDigits)
ValueRead(text, base) ==
  LET read[i \in 0..Len(text)] ==
        IF i = 0 THEN 0
        ELSE IF IsDigit(text[i]) THEN read[i - 1] * base + DigitValue(text[i])
        ELSE read[i - 1]
  IN read[Len(text)]

ReadsBack(text, d, num) ==
  LET negative == d.conv \in {"d", "i"} /\ Negative(num)
      n == Len(text)
  IN /\ ValueRead(text, Base(d.conv)) = IF negative THEN WordModulus - num ELSE num
     /\ negative <=> "-" \in ToSet(text)
     /\ n >= Width(d)
     /\ Cardinality({i \in 1..n : IsDigit(text[i])}) >= d.precision
     /\ text[n] = SP => "LEFT" \in d.flags /\ n = Width(d)
     /\ text[1] = SP /\ "SPACE" \notin d.flags => "LEFT" \notin d.flags /\ n = Width(d)
     /\ \A i, j, k \in 1..n :
          i < j /\ j < k /\ text[j] = SP => text[i] = SP \/ text[k] = SP
=============================================================================
