--------------------------- MODULE VsprintfProofs --------------------------
(***************************************************************************)
(* What the formatter writes for a number is that number, for any size of  *)
(* a word and any conversion, flags, width and precision.                  *)
(***************************************************************************)
EXTENDS Vsprintf, FiniteSetTheorems, SequenceTheorems, WellFoundedInduction, TLAPS

(* The least-number principle, from which what a recursive function         *)
(* computes follows.                                                       *)
Less == {p \in Nat \X Nat : p[1] < p[2]}

LEMMA LessWellFounded == IsWellFoundedOn(Less, Nat)
  BY NatLessThanWellFounded DEF OpToRel, Less

LEMMA LeastNumber ==
  ASSUME NEW T, T \subseteq Nat, T # {}
  PROVE  \E m \in T : \A k \in T : m <= k
<1>1. \A k, m \in T : k < m => <<k, m>> \in Less
  BY DEF Less
<1>2. PICK m \in T : \A k \in T : ~(<<k, m>> \in Less)
  BY LessWellFounded, WFMin
<1>3. ASSUME NEW k \in T PROVE m <= k
  <2>1. ~(k < m)
    BY <1>1, <1>2
  <2>2. k \in Nat /\ m \in Nat
    OBVIOUS
  <2> QED BY <2>1, <2>2
<1> QED BY <1>3

(* What holds at 0, and of a number if it holds of the one before, holds   *)
(* of all of them: sets of numbers stand for predicates.                   *)
LEMMA Induct ==
  ASSUME NEW n \in Nat, NEW P, 0 \in P, \A i \in 1..n : i - 1 \in P => i \in P
  PROVE  \A i \in 0..n : i \in P
<1> SUFFICES ASSUME NEW j \in 0..n, j \notin P PROVE FALSE
  OBVIOUS
<1> DEFINE T == {i \in 0..n : i \notin P}
<1>0. T \subseteq Nat /\ T # {}
  OBVIOUS
<1>1. PICK m \in T : \A k \in T : m <= k
  <2> HIDE DEF T
  <2> QED BY <1>0, LeastNumber
<1>2. m \in 1..n /\ m - 1 \in 0..n /\ ~(m <= m - 1)
  BY <1>1
<1>3. m - 1 \in P
  BY <1>1, <1>2
<1> QED BY <1>1, <1>2, <1>3

(* Recursion along the numbers, one by one.                                *)
Recurs(v, n, b, G) == v[0] = b /\ \A i \in 1..n : v[i] = G[<<i, v[i - 1]>>]

LEMMA Recursion ==
  ASSUME NEW n \in Nat, NEW S, NEW b \in S, NEW G \in [(1..n) \X S -> S]
  PROVE  \E v \in [0..n -> S] : Recurs(v, n, b, G)
<1> DEFINE P == {k \in 0..n : \E v \in [0..k -> S] : Recurs(v, k, b, G)}
<1>1. 0 \in P
  <2> DEFINE v == [i \in 0..0 |-> b]
  <2>1. v \in [0..0 -> S] /\ Recurs(v, 0, b, G)
    BY DEF Recurs
  <2> QED BY <2>1
<1>2. ASSUME NEW k \in 1..n, k - 1 \in P PROVE k \in P
  <2>1. PICK v \in [0..(k - 1) -> S] : Recurs(v, k - 1, b, G)
    BY <1>2
  <2>2. v[k - 1] \in S
    OBVIOUS
  <2> DEFINE w == [i \in 0..k |-> IF i = k THEN G[<<k, v[k - 1]>>] ELSE v[i]]
  <2>3. w \in [0..k -> S]
    BY <2>2
  <2>4. w[0] = b /\ w[k] = G[<<k, v[k - 1]>>] /\ w[k - 1] = v[k - 1]
    BY <2>1 DEF Recurs
  <2>5. \A i \in 1..(k - 1) : w[i] = v[i] /\ w[i - 1] = v[i - 1]
    OBVIOUS
  <2> HIDE DEF w
  <2>6. ASSUME NEW i \in 1..k PROVE w[i] = G[<<i, w[i - 1]>>]
    <3>1. CASE i = k
      BY <2>4, <3>1
    <3>2. CASE i # k
      <4>1. i \in 1..(k - 1)
        BY <3>2
      <4> QED BY <2>1, <2>5, <4>1 DEF Recurs
    <3> QED BY <3>1, <3>2
  <2>7. Recurs(w, k, b, G)
    BY <2>4, <2>6 DEF Recurs
  <2> QED BY <2>3, <2>7
<1> HIDE DEF P
<1>3. n \in P
  BY <1>1, <1>2, Induct
<1> QED BY <1>3 DEF P

-----------------------------------------------------------------------------
(* The bases number() is called with.                                      *)
Bases == {2, 8, 10, 16}

(* divl: the quotient and the remainder make the number up again.          *)
LEMMA Divided ==
  ASSUME NEW base \in Bases, NEW m \in Nat
  PROVE  /\ m \div base \in Nat /\ m % base \in 0..(base - 1)
         /\ m = (m \div base) * base + (m % base)
         /\ m >= base => m \div base < m
<1>1. base \in Nat /\ base >= 2
  BY DEF Bases
<1>2. /\ m \div base \in Nat /\ m % base \in 0..(base - 1)
      /\ m = (m \div base) * base + (m % base)
  BY <1>1
<1>3. m >= base => m \div base < m
  BY <1>1
<1> QED BY <1>2, <1>3

(* The characters that are digits.                                         *)
DigitSet == ToSet(UpperDigits) \cup ToSet(LowerDigits)

(* The character of a digit is one of them,                                *)
LEMMA CharsAre ==
  ASSUME NEW type, NEW m \in 0..15
  PROVE  /\ DigitChars(type)[m + 1] \in {UpperDigits[m + 1], LowerDigits[m + 1]}
         /\ DigitChars(type)[m + 1] \in DigitSet
<1>1. UpperDigits[m + 1] \in ToSet(UpperDigits) /\ LowerDigits[m + 1] \in ToSet(LowerDigits)
  BY DEF ToSet, UpperDigits, LowerDigits
<1> QED BY <1>1 DEF DigitChars, DigitSet

(* different digits have different characters,                             *)
LEMMA DigitsDiffer ==
  ASSUME NEW m \in 0..15, NEW v \in 0..15,
         \/ UpperDigits[m + 1] \in {UpperDigits[v + 1], LowerDigits[v + 1]}
         \/ LowerDigits[m + 1] \in {UpperDigits[v + 1], LowerDigits[v + 1]}
  PROVE  v = m
  BY DEF UpperDigits, LowerDigits

(* and so it reads as its value,                                           *)
LEMMA DigitRead ==
  ASSUME NEW type, NEW m \in 0..15
  PROVE  DigitValue(DigitChars(type)[m + 1]) = m
<1> DEFINE c == DigitChars(type)[m + 1]
<1>1. c \in {UpperDigits[m + 1], LowerDigits[m + 1]}
  BY CharsAre
<1>2. \A v \in 0..15 : c \in {UpperDigits[v + 1], LowerDigits[v + 1]} => v = m
  BY <1>1, DigitsDiffer
<1> QED BY <1>1, <1>2 DEF DigitValue

(* as every digit has one.                                                 *)
LEMMA DigitValueRange ==
  ASSUME NEW c \in DigitSet
  PROVE  DigitValue(c) \in 0..15
<1>1. PICK i \in 1..16 : c \in {UpperDigits[i], LowerDigits[i]}
  BY DEF DigitSet, ToSet, UpperDigits, LowerDigits
<1>2. i - 1 \in 0..15 /\ c \in {UpperDigits[(i - 1) + 1], LowerDigits[(i - 1) + 1]}
  BY <1>1
<1> QED BY <1>2 DEF DigitValue

-----------------------------------------------------------------------------
(* The recursion of Digits: the digits of the quotient, then the remainder. *)
DigitStep(f, n, base, type) ==
  IF n < base THEN <<DigitChars(type)[n + 1]>>
  ELSE Append(f[n \div base], DigitChars(type)[(n % base) + 1])

(* It makes digits of digits,                                              *)
LEMMA DigitStepTypes ==
  ASSUME NEW base \in Bases, NEW type, NEW n \in Nat, NEW f,
         n >= base => f[n \div base] \in Seq(DigitSet)
  PROVE  DigitStep(f, n, base, type) \in Seq(DigitSet)
<1>0. base \in Nat /\ base \in 2..16
  BY DEF Bases
<1>1. CASE n < base
  <2>1. n \in 0..15
    BY <1>0, <1>1
  <2>2. DigitChars(type)[n + 1] \in DigitSet
    BY <2>1, CharsAre
  <2> QED BY <1>1, <2>2 DEF DigitStep
<1>2. CASE ~(n < base)
  <2>1. n % base \in 0..15
    BY <1>0, Divided
  <2>2. DigitChars(type)[(n % base) + 1] \in DigitSet
    BY <2>1, CharsAre
  <2>3. f[n \div base] \in Seq(DigitSet)
    BY <1>0, <1>2
  <2> QED BY <1>2, <2>2, <2>3, AppendProperties DEF DigitStep
<1> QED BY <1>1, <1>2

(* and leads to the digits of every number up to any k.                    *)
LEMMA DigitsExist ==
  ASSUME NEW base \in Bases, NEW type, NEW k \in Nat
  PROVE  \E f \in [0..k -> Seq(DigitSet)] : \A n \in 0..k : f[n] = DigitStep(f, n, base, type)
<1> DEFINE P == {j \in 0..k : \E f \in [0..j -> Seq(DigitSet)] :
                   \A n \in 0..j : f[n] = DigitStep(f, n, base, type)}
<1>0. base \in Nat /\ base \in 2..16
  BY DEF Bases
<1>1. 0 \in P
  <2> DEFINE f == [n \in 0..0 |-> DigitStep(<< >>, 0, base, type)]
  <2>1. DigitStep(<< >>, 0, base, type) \in Seq(DigitSet)
    BY <1>0, DigitStepTypes
  <2>2. f[0] = DigitStep(f, 0, base, type)
    BY <1>0 DEF DigitStep
  <2> QED BY <2>1, <2>2
<1>2. ASSUME NEW j \in 1..k, j - 1 \in P PROVE j \in P
  <2>1. PICK f \in [0..(j - 1) -> Seq(DigitSet)] :
          \A n \in 0..(j - 1) : f[n] = DigitStep(f, n, base, type)
    BY <1>2
  <2> DEFINE new == DigitStep(f, j, base, type)
             g == [n \in 0..j |-> IF n = j THEN new ELSE f[n]]
  <2>2. \A n \in 0..j : n >= base => n \div base \in 0..(j - 1)
    <3> SUFFICES ASSUME NEW n \in 0..j, n >= base PROVE n \div base \in 0..(j - 1)
      OBVIOUS
    <3>1. n \div base \in Nat /\ n \div base < n
      BY Divided
    <3> QED BY <3>1
  <2>3. new \in Seq(DigitSet)
    <3>1. j >= base => f[j \div base] \in Seq(DigitSet)
      BY <2>2
    <3> QED BY <3>1, DigitStepTypes
  <2>4. g \in [0..j -> Seq(DigitSet)]
    BY <2>3
  <2>5. g[j] = new /\ \A n \in 0..(j - 1) : g[n] = f[n]
    OBVIOUS
  <2> HIDE DEF g
  <2>6. ASSUME NEW n \in 0..j PROVE g[n] = DigitStep(g, n, base, type)
    <3>1. n >= base => g[n \div base] = f[n \div base]
      BY <2>2, <2>5
    <3>2. DigitStep(g, n, base, type) = DigitStep(f, n, base, type)
      BY <1>0, <3>1 DEF DigitStep
    <3>3. CASE n = j
      BY <2>5, <3>2, <3>3
    <3>4. CASE n # j
      <4>1. n \in 0..(j - 1)
        BY <3>4
      <4> QED BY <2>1, <2>5, <3>2, <4>1
    <3> QED BY <3>3, <3>4
  <2>7. \E f1 \in [0..j -> Seq(DigitSet)] :
          \A n \in 0..j : f1[n] = DigitStep(f1, n, base, type)
    BY <2>4, <2>6
  <2>8. j \in 0..k
    OBVIOUS
  <2> QED BY <2>7, <2>8, Zenon
<1> HIDE DEF P
<1>3. k \in P
  BY <1>1, <1>2, Induct
<1> QED BY <1>3 DEF P

(* The digits of a number, read one by one, make it up again.              *)
Makes(D, base, n) ==
  \A w : w[0] = 0 /\ (\A i \in 1..Len(D) : w[i] = w[i - 1] * base + DigitValue(D[i]))
           => w[Len(D)] = n

(* What Digits returns (the loop around divl in number).                   *)
LEMMA DigitsMake ==
  ASSUME NEW base \in Bases, NEW type, NEW num \in Word
  PROVE  LET D == Digits(num, base, type) IN
           D \in Seq(DigitSet) /\ Len(D) >= 1 /\ Makes(D, base, num)
<1> DEFINE k == WordModulus - 1
           Body(f) == [n \in Word |-> DigitStep(f, n, base, type)]
           g == CHOOSE f : f = Body(f)
<1>0. base \in Nat /\ base \in 2..16
  BY DEF Bases
<1>1. k \in Nat /\ Word = 0..k
  BY WordAssumption DEF Word
<1>2. PICK h \in [0..k -> Seq(DigitSet)] : \A n \in 0..k : h[n] = DigitStep(h, n, base, type)
  BY <1>1, DigitsExist
<1>3. h = Body(h)
  BY <1>1, <1>2
<1>4. g = Body(g)
  BY <1>3
<1>5. Digits(num, base, type) = g[num]
  BY DEF Digits, DigitStep
<1> HIDE DEF g
<1>6. \A n \in Word : g[n] = DigitStep(g, n, base, type)
  BY <1>4
<1> DEFINE OK(n) == g[n] \in Seq(DigitSet) /\ Len(g[n]) >= 1 /\ Makes(g[n], base, n)
           T == {n \in Word : ~OK(n)}
<1>7. T = {}
  <2> SUFFICES ASSUME T # {} PROVE FALSE
    OBVIOUS
  <2>1. T \subseteq Nat
    BY <1>1
  <2>2. PICK m \in T : \A j \in T : m <= j
    <3> HIDE DEF T
    <3> QED BY <2>1, LeastNumber
  <2>3. m \in Word /\ m \in Nat /\ ~OK(m)
    BY <2>1, <2>2
  <2>4. CASE m < base
    <3> DEFINE c == DigitChars(type)[m + 1]
    <3>1. m \in 0..15
      BY <1>0, <2>3, <2>4
    <3>2. g[m] = <<c>>
      BY <1>6, <2>3, <2>4 DEF DigitStep
    <3>3. c \in DigitSet /\ DigitValue(c) = m
      BY <3>1, CharsAre, DigitRead
    <3> HIDE DEF c
    <3>4. g[m] \in Seq(DigitSet) /\ Len(g[m]) = 1 /\ g[m][1] = c
      BY <3>2, <3>3
    <3>5. ASSUME NEW w, w[0] = 0,
                 \A i \in 1..Len(g[m]) : w[i] = w[i - 1] * base + DigitValue(g[m][i])
          PROVE  w[Len(g[m])] = m
      <4>1. w[1] = w[0] * base + DigitValue(g[m][1])
        BY <3>4, <3>5
      <4>2. w[1] = 0 * base + m
        BY <3>3, <3>4, <3>5, <4>1
      <4> QED BY <1>0, <2>3, <3>4, <4>2
    <3>6. Makes(g[m], base, m)
      BY <3>5 DEF Makes
    <3> QED BY <2>3, <3>4, <3>6
  <2>5. CASE ~(m < base)
    <3> DEFINE q == m \div base
               c == DigitChars(type)[(m % base) + 1]
    <3>1. q \in Nat /\ m % base \in 0..(base - 1) /\ m = q * base + (m % base) /\ q < m
      BY <1>0, <2>3, <2>5, Divided
    <3>2. m % base \in 0..15
      <4> DEFINE r == m % base
      <4>1. r \in 0..(base - 1)
        BY <3>1
      <4> HIDE DEF r
      <4>2. r \in 0..15
        BY <1>0, <4>1
      <4> QED BY <4>2 DEF r
    <3>3. q \in Word /\ q \notin T
      BY <1>1, <2>2, <2>3, <3>1
    <3>4. OK(q)
      BY <3>3
    <3>5. g[m] = Append(g[q], c)
      BY <1>6, <2>3, <2>5 DEF DigitStep
    <3>6. c \in DigitSet /\ DigitValue(c) = m % base
      BY <3>2, CharsAre, DigitRead
    <3> HIDE DEF c, q
    <3> DEFINE l == Len(g[q])
    <3>7. /\ g[m] \in Seq(DigitSet) /\ Len(g[m]) = l + 1 /\ l \in Nat /\ l >= 1
          /\ g[m][l + 1] = c
          /\ \A i \in 1..l : g[m][i] = g[q][i]
      BY <3>4, <3>5, <3>6, AppendProperties
    <3>8. ASSUME NEW w, w[0] = 0,
                 \A i \in 1..Len(g[m]) : w[i] = w[i - 1] * base + DigitValue(g[m][i])
          PROVE  w[Len(g[m])] = m
      <4> HIDE DEF l
      <4>1. \A i \in 1..l : w[i] = w[i - 1] * base + DigitValue(g[q][i])
        BY <3>7, <3>8
      <4>2. w[l] = q
        BY <3>4, <3>8, <4>1 DEF Makes, l
      <4>3. w[l + 1] = w[(l + 1) - 1] * base + DigitValue(g[m][l + 1])
        BY <3>7, <3>8
      <4>4. (l + 1) - 1 = l
        BY <3>7
      <4>5. w[l + 1] = q * base + (m % base)
        BY <3>6, <3>7, <4>2, <4>3, <4>4
      <4> QED BY <3>1, <3>7, <4>5
    <3>9. Makes(g[m], base, m)
      BY <3>8 DEF Makes
    <3> QED BY <2>3, <3>7, <3>9
  <2> QED BY <2>4, <2>5
<1>8. OK(num)
  BY <1>7
<1> QED BY <1>5, <1>8

-----------------------------------------------------------------------------
(* What a reader of a text has read after each of its characters.          *)
LEMMA ReaderReads ==
  ASSUME NEW text, NEW base \in Nat, Len(text) \in Nat
  PROVE  \E v : /\ v[0] = 0 /\ v[Len(text)] = ValueRead(text, base)
                /\ \A i \in 1..Len(text) :
                     v[i] = IF IsDigit(text[i]) THEN v[i - 1] * base + DigitValue(text[i])
                            ELSE v[i - 1]
<1> DEFINE n == Len(text)
           Next(i, x) == IF IsDigit(text[i]) THEN x * base + DigitValue(text[i]) ELSE x
           G == [p \in (1..n) \X Nat |-> Next(p[1], p[2])]
           Body(f) == [i \in 0..n |-> IF i = 0 THEN 0 ELSE Next(i, f[i - 1])]
           v == CHOOSE f : f = Body(f)
<1>1. ASSUME NEW i \in 1..n, NEW x \in Nat PROVE Next(i, x) \in Nat
  <2>1. CASE IsDigit(text[i])
    <3>1. DigitValue(text[i]) \in Nat
      BY <2>1, DigitValueRange DEF IsDigit, DigitSet
    <3>2. x * base \in Nat
      OBVIOUS
    <3> QED BY <2>1, <3>1, <3>2
  <2> QED BY <2>1
<1>2. ValueRead(text, base) = v[n]
  BY DEF ValueRead
<1>3. \A f : \A i \in 1..n : f[i] = Next(i, f[i - 1]) =>
        f[i] = IF IsDigit(text[i]) THEN f[i - 1] * base + DigitValue(text[i]) ELSE f[i - 1]
  OBVIOUS
<1> HIDE DEF Next
<1>4. G \in [(1..n) \X Nat -> Nat]
  BY <1>1
<1>5. \A i \in 1..n, x \in Nat : G[<<i, x>>] = Next(i, x)
  OBVIOUS
<1> HIDE DEF G
<1>6. PICK g \in [0..n -> Nat] : Recurs(g, n, 0, G)
  <2> HIDE DEF n
  <2>1. n \in Nat
    BY DEF n
  <2> QED BY <1>4, <2>1, Recursion
<1>7. \A i \in 1..n : g[i] = Next(i, g[i - 1])
  <2> SUFFICES ASSUME NEW i \in 1..n PROVE g[i] = Next(i, g[i - 1])
    OBVIOUS
  <2>1. i - 1 \in 0..n
    OBVIOUS
  <2>2. g[i - 1] \in Nat
    BY <2>1
  <2>3. g[i] = G[<<i, g[i - 1]>>]
    BY <1>6 DEF Recurs
  <2> QED BY <1>5, <2>2, <2>3
<1>8. g = Body(g)
  <2>1. g[0] = 0
    BY <1>6 DEF Recurs
  <2>2. \A i \in 0..n : g[i] = Body(g)[i]
    BY <1>7, <2>1
  <2>3. g = [i \in 0..n |-> g[i]] /\ Body(g) = [i \in 0..n |-> Body(g)[i]]
    OBVIOUS
  <2> QED BY <2>2, <2>3
<1>9. v = Body(v)
  BY <1>8
<1> HIDE DEF v
<1>10. v[0] = 0
  BY <1>9
<1>11. \A i \in 1..n : v[i] = Next(i, v[i - 1])
  BY <1>9
<1>12. \A i \in 1..n : v[i] = IF IsDigit(text[i]) THEN v[i - 1] * base + DigitValue(text[i])
                              ELSE v[i - 1]
  BY <1>3, <1>11
<1> QED BY <1>2, <1>10, <1>12

(* A number in a field: nothing in front of its digits but zeros and what  *)
(* is no digit, and no digit behind them.                                  *)
LEMMA FieldRead ==
  ASSUME NEW text, NEW base \in Bases, Len(text) \in Nat, NEW D \in Seq(DigitSet), NEW num,
         Makes(D, base, num), NEW a \in Nat, a + Len(D) <= Len(text),
         \A i \in 1..a : IsDigit(text[i]) => DigitValue(text[i]) = 0,
         \A i \in 1..Len(D) : text[a + i] = D[i],
         \A i \in (a + Len(D) + 1)..Len(text) : ~IsDigit(text[i])
  PROVE  ValueRead(text, base) = num
<1> DEFINE n == Len(text)
           m == Len(D)
<1>0. base \in Nat /\ n \in Nat /\ m \in Nat
  BY DEF Bases
<1>1. PICK v : /\ v[0] = 0 /\ v[Len(text)] = ValueRead(text, base)
               /\ \A i \in 1..Len(text) :
                    v[i] = IF IsDigit(text[i]) THEN v[i - 1] * base + DigitValue(text[i])
                           ELSE v[i - 1]
  BY <1>0, ReaderReads
<1>2. \A i \in 1..m : IsDigit(text[a + i]) /\ DigitValue(text[a + i]) = DigitValue(D[i])
  BY ElementOfSeq DEF IsDigit, DigitSet
<1> HIDE DEF n, m
<1>3. v[a] = 0
  <2> DEFINE P == {i \in 0..a : v[i] = 0}
  <2>1. 0 \in P
    BY <1>1
  <2>2. ASSUME NEW i \in 1..a, i - 1 \in P PROVE i \in P
    <3>1. v[i - 1] = 0 /\ i \in 1..n
      BY <1>0, <2>2 DEF n, m
    <3>2. v[i] = IF IsDigit(text[i]) THEN v[i - 1] * base + DigitValue(text[i])
                 ELSE v[i - 1]
      BY <1>1, <3>1 DEF n
    <3>3. v[i] = 0
      BY <1>0, <3>1, <3>2
    <3> QED BY <3>3
  <2> HIDE DEF P
  <2>3. \A i \in 0..a : i \in P
    BY <2>1, <2>2, Induct
  <2>4. a \in P
    BY <2>3
  <2> QED BY <2>4 DEF P
<1>4. v[a + m] = num
  <2> DEFINE w == [i \in 0..m |-> v[a + i]]
  <2>1. w[0] = 0 /\ w[m] = v[a + m]
    BY <1>0, <1>3
  <2>2. ASSUME NEW i \in 1..m PROVE w[i] = w[i - 1] * base + DigitValue(D[i])
    <3>1. a + i \in 1..n /\ (a + i) - 1 = a + (i - 1) /\ i - 1 \in 0..m
      BY <1>0 DEF n, m
    <3>2. v[a + i] = v[(a + i) - 1] * base + DigitValue(text[a + i])
      BY <1>1, <1>2, <3>1 DEF n
    <3>3. w[i] = v[a + i] /\ w[i - 1] = v[a + (i - 1)]
      BY <3>1
    <3> HIDE DEF w
    <3> QED BY <1>2, <3>1, <3>2, <3>3
  <2> HIDE DEF w
  <2>3. w[Len(D)] = num
    BY <2>1, <2>2 DEF Makes, m
  <2> QED BY <2>1, <2>3 DEF m
<1>5. v[n] = num
  <2> DEFINE e == n - (a + m)
             P == {i \in 0..e : v[(a + m) + i] = num}
  <2>0. e \in Nat /\ (a + m) + e = n /\ a + m \in Nat
    BY <1>0 DEF n, m
  <2> HIDE DEF e
  <2>1. 0 \in P
    BY <1>4, <2>0
  <2>2. ASSUME NEW i \in 1..e, i - 1 \in P PROVE i \in P
    <3> DEFINE j == (a + m) + i
    <3>1. j \in 1..n /\ j \in (a + m + 1)..n /\ (a + m) + (i - 1) = j - 1
      BY <1>0, <2>0
    <3>2. v[j - 1] = num
      BY <2>2, <3>1
    <3> HIDE DEF j
    <3>3. v[j] = v[j - 1]
      BY <1>1, <3>1 DEF n, m
    <3> QED BY <3>2, <3>3 DEF j
  <2> HIDE DEF P
  <2>3. \A i \in 0..e : i \in P
    BY <2>0, <2>1, <2>2, Induct
  <2>4. e \in P
    BY <2>0, <2>3
  <2> QED BY <2>0, <2>4 DEF P
<1> QED BY <1>1, <1>5 DEF n

-----------------------------------------------------------------------------
(* What stands in front of the digits, and all that stands in a field.     *)
Fills == {"0", "x", "X"}
Signs == {"-", "+", SP}
FieldChars == DigitSet \cup Fills \cup Signs

(* Room that is filled up; a negative room is none.                        *)
LEMMA Padding ==
  ASSUME NEW c, NEW S, c \in S, NEW n \in Int
  PROVE  /\ Repeat(c, n) \in Seq(S)
         /\ Len(Repeat(c, n)) = IF n >= 0 THEN n ELSE 0
         /\ \A i \in 1..Len(Repeat(c, n)) : Repeat(c, n)[i] = c
<1>1. CASE n >= 0
  <2>1. Repeat(c, n) \in [1..n -> S] /\ n \in Nat
    BY <1>1 DEF Repeat
  <2>2. Repeat(c, n) \in Seq(S) /\ Len(Repeat(c, n)) = n
    BY <2>1
  <2> QED BY <1>1, <2>2 DEF Repeat
<1>2. CASE ~(n >= 0)
  <2>1. 1..n = 1..0
    BY <1>2
  <2>2. Repeat(c, n) \in [1..0 -> S]
    BY <2>1 DEF Repeat
  <2>3. Repeat(c, n) \in Seq(S) /\ Len(Repeat(c, n)) = 0
    BY <2>2
  <2> QED BY <1>2, <2>3
<1> QED BY <1>1, <1>2

(* What stands where in two texts written one behind the other.            *)
LEMMA Joined ==
  ASSUME NEW S, NEW s \in Seq(S), NEW t \in Seq(S)
  PROVE  /\ s \o t \in Seq(S) /\ Len(s \o t) = Len(s) + Len(t)
         /\ Len(s) \in Nat /\ Len(t) \in Nat
         /\ \A i \in 1..Len(s) : (s \o t)[i] = s[i]
         /\ \A i \in 1..Len(t) : (s \o t)[Len(s) + i] = t[i]
  OBVIOUS

(* The sign: one character or none, a minus exactly for a negative number. *)
LEMMA SignIs ==
  ASSUME NEW num, NEW type
  PROVE  /\ Sign(num, type) \in Seq(FieldChars) /\ Len(Sign(num, type)) \in {0, 1}
         /\ Len(Sign(num, type)) = 1 => Sign(num, type)[1] \in Signs
         /\ Sign(num, type) = <<"-">> <=> "SIGN" \in type /\ Negative(num)
         /\ Len(Sign(num, type)) = 1 /\ Sign(num, type)[1] = "-" => Sign(num, type) = <<"-">>
         /\ Len(Sign(num, type)) = 1 /\ Sign(num, type)[1] = SP => "SPACE" \in type
<1>1. "-" # "+" /\ "-" # SP /\ "+" # SP
  BY DEF SP
<1>2. {"-", "+", SP} \subseteq FieldChars
  BY DEF FieldChars, Signs
<1> HIDE DEF FieldChars
<1>3. \A c \in FieldChars : <<c>> \in Seq(FieldChars) /\ Len(<<c>>) = 1 /\ <<c>>[1] = c
  OBVIOUS
<1>4. << >> \in Seq(FieldChars) /\ Len(<< >>) = 0
  OBVIOUS
<1>5. CASE "SIGN" \in type /\ Negative(num)
  <2>1. Sign(num, type) = <<"-">>
    BY <1>5 DEF Sign
  <2> QED BY <1>1, <1>2, <1>3, <1>5, <2>1 DEF Signs
<1>6. CASE ~("SIGN" \in type /\ Negative(num)) /\ "PLUS" \in type
  <2>1. Sign(num, type) = <<"+">>
    BY <1>6 DEF Sign
  <2> QED BY <1>1, <1>2, <1>3, <1>6, <2>1 DEF Signs
<1>7. CASE ~("SIGN" \in type /\ Negative(num)) /\ "PLUS" \notin type /\ "SPACE" \in type
  <2>1. Sign(num, type) = <<SP>>
    BY <1>7 DEF Sign
  <2> QED BY <1>1, <1>2, <1>3, <1>7, <2>1 DEF Signs
<1>8. CASE ~("SIGN" \in type /\ Negative(num)) /\ "PLUS" \notin type /\ "SPACE" \notin type
  <2>1. Sign(num, type) = << >>
    BY <1>8 DEF Sign
  <2>2. << >> # <<"-">>
    BY <1>2, <1>3, <1>4
  <2> QED BY <1>4, <1>8, <2>1, <2>2
<1> QED BY <1>5, <1>6, <1>7, <1>8

(* The prefix begins with a zero and has no other digit.                   *)
LEMMA PrefixIs ==
  ASSUME NEW base, NEW type
  PROVE  /\ Prefix(base, type) \in Seq(FieldChars)
         /\ \A i \in 1..Len(Prefix(base, type)) : Prefix(base, type)[i] \in Fills
<1>1. Prefix(base, type) \in {<< >>, <<"0">>, <<"0", "x">>, <<"0", "X">>}
  BY DEF Prefix
<1>2. Fills \subseteq FieldChars
  BY DEF FieldChars
<1>3. {<< >>, <<"0">>, <<"0", "x">>, <<"0", "X">>} \subseteq Seq(Fills)
  BY DEF Fills
<1>4. Prefix(base, type) \in Seq(Fills)
  BY <1>1, <1>3
<1> HIDE DEF Fills
<1>5. Prefix(base, type) \in Seq(FieldChars)
  BY <1>2, <1>4, SeqMonotonic
<1> QED BY <1>4, <1>5, ElementOfSeq

(* The outline of a number in its field: l pads, a sign or none, fillings  *)
(* up to place a of which the last z are zeros, the digits and r pads.     *)
Outline(text, D, sign, l, a, z, r) ==
  /\ text \in Seq(FieldChars) /\ Len(text) = a + Len(D) + r
  /\ l + Len(sign) + z <= a
  /\ \A i \in 1..l : text[i] = SP
  /\ Len(sign) = 1 => text[l + 1] = sign[1]
  /\ \A i \in (l + Len(sign) + 1)..a : text[i] \in Fills
  /\ \A i \in (a - z + 1)..a : text[i] = "0"
  /\ \A i \in 1..Len(D) : text[a + i] = D[i]
  /\ \A i \in (a + Len(D) + 1)..Len(text) : text[i] = SP

(* A place behind the first of four marks lies in one of three stretches.  *)
LEMMA OneOfThree ==
  ASSUME NEW l1 \in Nat, NEW l2 \in Nat, NEW l3 \in Nat, NEW a \in Nat, NEW i \in (l1 + 1)..a
  PROVE  i \in (l1 + 1)..l2 \/ i \in (l2 + 1)..l3 \/ i \in (l3 + 1)..a
  OBVIOUS

(* The parts of number(), written one behind the other, have this outline. *)
LEMMA Outlined ==
  ASSUME NEW pl \in Seq(FieldChars), NEW sign \in Seq(FieldChars), NEW pre \in Seq(FieldChars),
         NEW inner \in Seq(FieldChars), NEW zs \in Seq(FieldChars), NEW D \in Seq(FieldChars),
         NEW pr \in Seq(FieldChars), Len(sign) \in {0, 1},
         \A i \in 1..Len(pl) : pl[i] = SP, \A i \in 1..Len(pre) : pre[i] \in Fills,
         \A i \in 1..Len(inner) : inner[i] = "0", \A i \in 1..Len(zs) : zs[i] = "0",
         \A i \in 1..Len(pr) : pr[i] = SP
  PROVE  Outline(pl \o sign \o pre \o inner \o zs \o D \o pr, D, sign, Len(pl),
                 Len(pl) + Len(sign) + Len(pre) + Len(inner) + Len(zs), Len(zs), Len(pr))
<1> DEFINE t1 == pl \o sign
           t2 == t1 \o pre
           t3 == t2 \o inner
           t4 == t3 \o zs
           t5 == t4 \o D
           t6 == t5 \o pr
<1>0. Len(pl) \in Nat /\ Len(sign) \in Nat /\ Len(pre) \in Nat /\ Len(inner) \in Nat
      /\ Len(zs) \in Nat /\ Len(D) \in Nat /\ Len(pr) \in Nat
  OBVIOUS
<1>1. /\ t1 \in Seq(FieldChars) /\ Len(t1) = Len(pl) + Len(sign)
      /\ \A i \in 1..Len(pl) : t1[i] = pl[i]
      /\ \A i \in 1..Len(sign) : t1[Len(pl) + i] = sign[i]
  BY Joined
<1> HIDE DEF t1
<1>2. /\ t2 \in Seq(FieldChars) /\ Len(t2) = Len(t1) + Len(pre)
      /\ \A i \in 1..Len(t1) : t2[i] = t1[i]
      /\ \A i \in 1..Len(pre) : t2[Len(t1) + i] = pre[i]
  <2>1. t1 \in Seq(FieldChars)
    BY <1>1
  <2> QED BY <2>1, Joined
<1> HIDE DEF t2
<1>3. /\ t3 \in Seq(FieldChars) /\ Len(t3) = Len(t2) + Len(inner)
      /\ \A i \in 1..Len(t2) : t3[i] = t2[i]
      /\ \A i \in 1..Len(inner) : t3[Len(t2) + i] = inner[i]
  <2>1. t2 \in Seq(FieldChars)
    BY <1>2
  <2> QED BY <2>1, Joined
<1> HIDE DEF t3
<1>4. /\ t4 \in Seq(FieldChars) /\ Len(t4) = Len(t3) + Len(zs)
      /\ \A i \in 1..Len(t3) : t4[i] = t3[i]
      /\ \A i \in 1..Len(zs) : t4[Len(t3) + i] = zs[i]
  <2>1. t3 \in Seq(FieldChars)
    BY <1>3
  <2> QED BY <2>1, Joined
<1> HIDE DEF t4
<1>5. /\ t5 \in Seq(FieldChars) /\ Len(t5) = Len(t4) + Len(D)
      /\ \A i \in 1..Len(t4) : t5[i] = t4[i]
      /\ \A i \in 1..Len(D) : t5[Len(t4) + i] = D[i]
  <2>1. t4 \in Seq(FieldChars)
    BY <1>4
  <2> QED BY <2>1, Joined
<1> HIDE DEF t5
<1>6. /\ t6 \in Seq(FieldChars) /\ Len(t6) = Len(t5) + Len(pr)
      /\ \A i \in 1..Len(t5) : t6[i] = t5[i]
      /\ \A i \in 1..Len(pr) : t6[Len(t5) + i] = pr[i]
  <2>1. t5 \in Seq(FieldChars)
    BY <1>5
  <2> QED BY <2>1, Joined
<1> HIDE DEF t6
<1> DEFINE a == Len(pl) + Len(sign) + Len(pre) + Len(inner) + Len(zs)
<1>7. Len(t4) = a /\ Len(t6) = a + Len(D) + Len(pr) /\ a \in Nat
  BY <1>0, <1>1, <1>2, <1>3, <1>4, <1>5, <1>6
<1>8. \A i \in 1..a : t6[i] = t4[i]
  BY <1>0, <1>5, <1>6, <1>7
<1>9. \A i \in 1..(Len(pl) + Len(sign)) : t6[i] = t1[i]
  <2> SUFFICES ASSUME NEW i \in 1..(Len(pl) + Len(sign)) PROVE t6[i] = t1[i]
    OBVIOUS
  <2>1. i \in 1..Len(t1) /\ i \in 1..Len(t2) /\ i \in 1..Len(t3) /\ i \in 1..a
    BY <1>0, <1>1, <1>2, <1>3
  <2> QED BY <1>2, <1>3, <1>4, <1>8, <2>1
<1>10. \A i \in 1..Len(pl) : t6[i] = SP
  BY <1>0, <1>1, <1>9
<1>11. Len(sign) = 1 => t6[Len(pl) + 1] = sign[1]
  BY <1>0, <1>1, <1>9
<1>12. ASSUME NEW i \in (a - Len(zs) + 1)..a PROVE t6[i] = "0"
  <2> DEFINE j == i - Len(t3)
  <2>1. j \in 1..Len(zs) /\ i = Len(t3) + j /\ i \in 1..a
    BY <1>0, <1>1, <1>2, <1>3
  <2> HIDE DEF j
  <2> QED BY <1>4, <1>8, <2>1
<1>13. ASSUME NEW i \in (Len(pl) + Len(sign) + 1)..a PROVE t6[i] \in Fills
  <2>1. CASE i \in (a - Len(zs) + 1)..a
    BY <1>12, <2>1 DEF Fills
  <2>2. CASE i \in (Len(t2) + 1)..Len(t3)
    <3> DEFINE j == i - Len(t2)
    <3>1. j \in 1..Len(inner) /\ i = Len(t2) + j /\ i \in 1..a /\ i \in 1..Len(t3)
      BY <1>0, <1>1, <1>2, <1>3, <2>2
    <3> HIDE DEF j
    <3>2. t6[i] = inner[j]
      BY <1>3, <1>4, <1>8, <3>1
    <3> QED BY <3>1, <3>2 DEF Fills
  <2>3. CASE i \in (Len(t1) + 1)..Len(t2)
    <3> DEFINE j == i - Len(t1)
    <3>1. j \in 1..Len(pre) /\ i = Len(t1) + j /\ i \in 1..a /\ i \in 1..Len(t3) /\ i \in 1..Len(t2)
      BY <1>0, <1>1, <1>2, <1>3, <2>3
    <3> HIDE DEF j
    <3>2. t6[i] = t3[i]
      BY <1>4, <1>8, <3>1, <1>3
    <3>3. t3[i] = t2[i] /\ t2[i] = pre[j]
      BY <1>2, <1>3, <3>1
    <3> QED BY <3>1, <3>2, <3>3
  <2>4. /\ Len(t1) \in Nat /\ Len(t2) \in Nat /\ Len(t3) \in Nat /\ a \in Nat
        /\ Len(t1) = Len(pl) + Len(sign) /\ a - Len(zs) = Len(t3)
    BY <1>0, <1>1, <1>2, <1>3
  <2> HIDE DEF a
  <2>5. i \in (Len(t1) + 1)..a
    BY <2>4
  <2>6. \/ i \in (Len(t1) + 1)..Len(t2) \/ i \in (Len(t2) + 1)..Len(t3)
        \/ i \in (Len(t3) + 1)..a
    BY <2>4, <2>5, OneOfThree
  <2> QED BY <2>1, <2>2, <2>3, <2>4, <2>6
<1>14. ASSUME NEW i \in 1..Len(D) PROVE t6[a + i] = D[i]
  <2>1. a + i \in 1..Len(t5)
    BY <1>0, <1>5, <1>7
  <2> QED BY <1>5, <1>6, <1>7, <2>1
<1>15. ASSUME NEW i \in (a + Len(D) + 1)..Len(t6) PROVE t6[i] = SP
  <2> DEFINE j == i - Len(t5)
  <2>1. j \in 1..Len(pr) /\ i = Len(t5) + j
    BY <1>0, <1>5, <1>6, <1>7
  <2> HIDE DEF j
  <2> QED BY <1>6, <2>1
<1>16. Len(pl) + Len(sign) + Len(zs) <= a
  BY <1>0
<1>17. Outline(t6, D, sign, Len(pl), a, Len(zs), Len(pr))
  <2> HIDE DEF a
  <2> QED BY <1>6, <1>7, <1>10, <1>11, <1>12, <1>13, <1>14, <1>15, <1>16 DEF Outline
<1> QED BY <1>17 DEF t1, t2, t3, t4, t5, t6

(* What number() writes: at least as many digits as the precision asks for, *)
(* at least as many characters as the width does, and padded on one side   *)
(* only if that makes it as wide as that.                                  *)
LEMMA NumberOutlined ==
  ASSUME NEW num \in Word, NEW base \in Bases, NEW size \in Nat \cup {-1},
         NEW precision \in Nat \cup {-1}, NEW type
  PROVE  LET sign == Sign(num, type)
             D == Digits(IF sign = <<"-">> THEN Negated(num) ELSE num, base, type)
             text == Number(num, base, size, precision, type)
         IN \E l, a, z, r \in Nat :
              /\ Outline(text, D, sign, l, a, z, r)
              /\ z + Len(D) >= precision
              /\ Len(text) >= size
              /\ l > 0 => "LEFT" \notin type /\ Len(text) = size
              /\ r > 0 => "LEFT" \in type /\ Len(text) = size
<1> DEFINE sign   == Sign(num, type)
           pre    == Prefix(base, type)
           word   == IF sign = <<"-">> THEN Negated(num) ELSE num
           D      == Digits(word, base, type)
           zs     == Repeat("0", precision - Len(D))
           room   == size - Len(sign) - Len(pre) - Len(zs) - Len(D)
           side   == IF "LEFT" \in type THEN "right"
                     ELSE IF "ZEROPAD" \in type THEN "inner" ELSE "left"
           pl     == IF "left" = side THEN Repeat(SP, room) ELSE << >>
           inner  == IF "inner" = side THEN Repeat("0", room) ELSE << >>
           pr     == IF "right" = side THEN Repeat(SP, room) ELSE << >>
           text   == Number(num, base, size, precision, type)
<1>1. text = pl \o sign \o pre \o inner \o zs \o D \o pr
  BY DEF Number
<1>2. word \in Word
  <2>1. WordModulus \in Nat /\ WordModulus > 0 /\ num \in Nat
    BY WordAssumption DEF Word
  <2>2. (WordModulus - num) % WordModulus \in 0..(WordModulus - 1)
    <3> DEFINE e == WordModulus - num
    <3>1. e \in Int
      BY <2>1
    <3> HIDE DEF e
    <3> QED BY <2>1, <3>1
  <2> QED BY <2>2 DEF Negated, Word
<1> HIDE DEF word
<1>3. D \in Seq(DigitSet) /\ Len(D) \in Nat /\ Len(D) >= 1
  BY <1>2, DigitsMake
<1>4. D \in Seq(FieldChars)
  <2>1. DigitSet \subseteq FieldChars
    BY DEF FieldChars
  <2> HIDE DEF D
  <2> QED BY <1>3, <2>1, SeqMonotonic
<1>5. "0" \in FieldChars /\ SP \in FieldChars
  BY DEF FieldChars, Fills, Signs
<1>6. sign \in Seq(FieldChars) /\ Len(sign) \in {0, 1}
  BY SignIs
<1>7. pre \in Seq(FieldChars) /\ Len(pre) \in Nat /\ \A i \in 1..Len(pre) : pre[i] \in Fills
  BY PrefixIs
<1> HIDE DEF D, sign, pre
<1>8. /\ zs \in Seq(FieldChars) /\ Len(zs) \in Nat
      /\ Len(zs) = IF precision - Len(D) >= 0 THEN precision - Len(D) ELSE 0
      /\ \A i \in 1..Len(zs) : zs[i] = "0"
  <2> DEFINE e == precision - Len(D)
  <2>1. e \in Int
    BY <1>3
  <2> HIDE DEF e
  <2>2. /\ Repeat("0", e) \in Seq(FieldChars)
        /\ Len(Repeat("0", e)) = IF e >= 0 THEN e ELSE 0
        /\ \A i \in 1..Len(Repeat("0", e)) : Repeat("0", e)[i] = "0"
    BY <1>5, <2>1, Padding
  <2> QED BY <2>1, <2>2 DEF e
<1> HIDE DEF zs
<1>9. room \in Int
  BY <1>3, <1>6, <1>7, <1>8
<1> DEFINE n == IF room >= 0 THEN room ELSE 0
<1>10. ASSUME NEW c \in FieldChars
       PROVE  /\ Repeat(c, room) \in Seq(FieldChars) /\ Len(Repeat(c, room)) = n
              /\ \A i \in 1..Len(Repeat(c, room)) : Repeat(c, room)[i] = c
  <2> HIDE DEF room
  <2> QED BY <1>9, Padding
<1>11. << >> \in Seq(FieldChars) /\ Len(<< >>) = 0
  OBVIOUS
<1>12. /\ pl \in Seq(FieldChars) /\ (\A i \in 1..Len(pl) : pl[i] = SP)
       /\ Len(pl) = IF side = "left" THEN n ELSE 0
  <2> HIDE DEF room, side, n
  <2> QED BY <1>5, <1>10, <1>11
<1>13. /\ inner \in Seq(FieldChars) /\ (\A i \in 1..Len(inner) : inner[i] = "0")
       /\ Len(inner) = IF side = "inner" THEN n ELSE 0
  <2> HIDE DEF room, side, n
  <2> QED BY <1>5, <1>10, <1>11
<1>14. /\ pr \in Seq(FieldChars) /\ (\A i \in 1..Len(pr) : pr[i] = SP)
       /\ Len(pr) = IF side = "right" THEN n ELSE 0
  <2> HIDE DEF room, side, n
  <2> QED BY <1>5, <1>10, <1>11
<1>15. /\ side \in {"left", "inner", "right"}
       /\ side = "left" => "LEFT" \notin type
       /\ side = "right" => "LEFT" \in type
  OBVIOUS
<1> HIDE DEF pl, inner, pr, side
<1> DEFINE l == Len(pl)
           a == Len(pl) + Len(sign) + Len(pre) + Len(inner) + Len(zs)
           z == Len(zs)
           r == Len(pr)
<1>16. Outline(text, D, sign, l, a, z, r)
  <2> HIDE DEF text
  <2> QED BY <1>1, <1>4, <1>6, <1>7, <1>8, <1>12, <1>13, <1>14, Outlined
<1>17. Len(text) = a + Len(D) + r
  BY <1>16 DEF Outline
<1> DEFINE rest == Len(sign) + Len(pre) + Len(zs) + Len(D)
<1>18. Len(sign) \in Nat /\ Len(pre) \in Nat /\ Len(zs) \in Nat /\ Len(D) \in Nat
  BY <1>3, <1>6, <1>7, <1>8
<1>19. rest \in Nat /\ room = size - rest /\ size \in Int
  BY <1>18
<1>20. n \in Nat /\ n >= room /\ (n > 0 => n = room)
  <2> HIDE DEF room
  <2> QED BY <1>9
<1> HIDE DEF n
<1>21. /\ Len(pl) \in Nat /\ Len(inner) \in Nat /\ Len(pr) \in Nat
       /\ Len(pl) + Len(inner) + Len(pr) = n
       /\ Len(pl) > 0 => side = "left" /\ Len(pl) = n
       /\ Len(pr) > 0 => side = "right" /\ Len(pr) = n
  <2>1. Len(pl) = IF side = "left" THEN n ELSE 0
    BY <1>12
  <2>2. Len(inner) = IF side = "inner" THEN n ELSE 0
    BY <1>13
  <2>3. Len(pr) = IF side = "right" THEN n ELSE 0
    BY <1>14
  <2> QED BY <1>15, <1>20, <2>1, <2>2, <2>3
<1>22. l \in Nat /\ a \in Nat /\ z \in Nat /\ r \in Nat
  BY <1>18, <1>21
<1>23. Len(text) = n + rest
  BY <1>17, <1>18, <1>21
<1>24. Len(text) >= size /\ (n > 0 => Len(text) = size)
  <2> HIDE DEF rest, room, text
  <2> QED BY <1>19, <1>20, <1>23
<1>25. z + Len(D) >= precision
  BY <1>3, <1>8
<1>26. l > 0 => "LEFT" \notin type /\ Len(text) = size
  <2> HIDE DEF text
  <2> QED BY <1>15, <1>21, <1>24
<1>27. r > 0 => "LEFT" \in type /\ Len(text) = size
  <2> HIDE DEF text
  <2> QED BY <1>15, <1>21, <1>24
<1> HIDE DEF l, a, z, r, text
<1>28. \E l1, a1, z1, r1 \in Nat :
          /\ Outline(text, D, sign, l1, a1, z1, r1)
          /\ z1 + Len(D) >= precision
          /\ Len(text) >= size
          /\ l1 > 0 => "LEFT" \notin type /\ Len(text) = size
          /\ r1 > 0 => "LEFT" \in type /\ Len(text) = size
  BY <1>16, <1>22, <1>25, <1>24, <1>26, <1>27
<1> QED BY <1>28 DEF text, D, sign, word

-----------------------------------------------------------------------------
(* No blank, sign or x is taken for a digit, and a zero is worth nothing.  *)
LEMMA CharsDiffer ==
  /\ {SP, "-", "+", "x", "X"} \cap DigitSet = {}
  /\ "0" \in DigitSet /\ DigitValue("0") = 0
  /\ SP \notin Fills /\ "-" \notin Fills /\ SP # "-"
<1>1. DigitSet \subseteq {"0", "1", "2", "3", "4", "5", "6", "7", "8", "9",
                          "A", "B", "C", "D", "E", "F", "a", "b", "c", "d", "e", "f"}
  BY DEF DigitSet, ToSet, UpperDigits, LowerDigits
<1>2. {SP, "-", "+", "x", "X"} \cap DigitSet = {}
  BY <1>1 DEF SP
<1>3. DigitChars({})[0 + 1] = "0"
  BY DEF DigitChars, UpperDigits
<1>4. "0" \in DigitSet /\ DigitValue("0") = 0
  BY <1>3, CharsAre, DigitRead
<1> QED BY <1>2, <1>4 DEF SP, Fills

(* The arguments vsprintf calls number() with.                             *)
LEMMA DirectiveIs ==
  ASSUME NEW d \in Scanned, d.conv \in NumberConvs
  PROVE  /\ Base(d.conv) \in Bases
         /\ Width(d) \in Nat \cup {-1} /\ d.precision \in Nat \cup {-1}
         /\ "SIGN" \in Type(d) <=> d.conv \in {"d", "i"}
         /\ "LEFT" \in Type(d) <=> "LEFT" \in d.flags
         /\ "SPACE" \in Type(d) <=> "SPACE" \in d.flags
<1>1. d.conv # "literal"
  BY DEF NumberConvs
<1>2. /\ d.flags \subseteq {"LEFT", "PLUS", "SPACE", "SPECIAL", "ZEROPAD"}
      /\ d.width \in Nat \cup {-1} /\ d.precision \in Nat \cup {-1}
  BY <1>1 DEF Scanned, Given, NumberConvs
<1>3. Base(d.conv) \in Bases
  BY DEF Base, Bases, NumberConvs
<1>4. Width(d) \in Nat \cup {-1}
  BY <1>2 DEF Width
<1>5. \A f \in {"SIGN", "LEFT", "SPACE"} :
        f \in Type(d) <=> f \in d.flags \/ (f = "SIGN" /\ d.conv \in {"d", "i"})
  BY DEF Type
<1>6. "SIGN" \notin d.flags
  BY <1>2
<1> QED BY <1>2, <1>3, <1>4, <1>5, <1>6

(* A number in its field reads back, whatever the word, the conversion, the *)
(* flags, the width and the precision (number).                            *)
LEMMA NumberReadsBack ==
  ASSUME NEW d \in Scanned, d.conv \in NumberConvs, NEW num \in Word
  PROVE  ReadsBack(Number(num, Base(d.conv), Width(d), d.precision, Type(d)), d, num)
<1> DEFINE base == Base(d.conv)
           type == Type(d)
           size == Width(d)
           precision == d.precision
           sign == Sign(num, type)
           word == IF sign = <<"-">> THEN Negated(num) ELSE num
           D    == Digits(word, base, type)
           text == Number(num, base, size, precision, type)
           negative == d.conv \in {"d", "i"} /\ Negative(num)
           n    == Len(text)
<1>1. /\ base \in Bases /\ size \in Nat \cup {-1} /\ precision \in Nat \cup {-1}
      /\ "SIGN" \in type <=> d.conv \in {"d", "i"}
      /\ "LEFT" \in type <=> "LEFT" \in d.flags
      /\ "SPACE" \in type <=> "SPACE" \in d.flags
  BY DirectiveIs
<1> HIDE DEF base, type, size, precision
<1>2. /\ Len(sign) \in {0, 1} /\ (Len(sign) = 1 => sign[1] \in Signs)
      /\ sign = <<"-">> <=> negative
      /\ Len(sign) = 1 /\ sign[1] = "-" => sign = <<"-">>
      /\ Len(sign) = 1 /\ sign[1] = SP => "SPACE" \in d.flags
  BY <1>1, SignIs
<1>3. word \in Word /\ word = IF negative THEN WordModulus - num ELSE num
  <2>1. CASE negative
    <3> DEFINE h == WordModulus \div 2
    <3>1. WordModulus \in Nat /\ WordModulus > 0 /\ WordModulus % 2 = 0 /\ num \in 0..(WordModulus - 1)
      BY WordAssumption DEF Word
    <3>2. h \in Nat /\ h > 0
      BY <3>1
    <3>3. num >= h
      BY <2>1 DEF Negative
    <3> HIDE DEF h
    <3>4. WordModulus - num \in 1..(WordModulus - 1)
      BY <3>1, <3>2, <3>3
    <3> DEFINE e == WordModulus - num
    <3> HIDE DEF e
    <3>5. e % WordModulus = e
      BY <3>1, <3>4 DEF e
    <3>6. word = WordModulus - num
      BY <1>2, <2>1, <3>5 DEF e, Negated
    <3> HIDE DEF word
    <3> QED BY <2>1, <3>1, <3>4, <3>6 DEF Word
  <2>2. CASE ~negative
    BY <1>2, <2>2
  <2> QED BY <2>1, <2>2
<1>4. PICK l, a, z, r \in Nat :
        /\ Outline(text, D, sign, l, a, z, r)
        /\ z + Len(D) >= precision
        /\ Len(text) >= size
        /\ l > 0 => "LEFT" \notin type /\ Len(text) = size
        /\ r > 0 => "LEFT" \in type /\ Len(text) = size
  <2>1. num \in Word /\ base \in Bases /\ size \in Nat \cup {-1} /\ precision \in Nat \cup {-1}
    BY <1>1
  <2> QED BY <2>1, NumberOutlined, ZenonT(30)
<1> HIDE DEF word
<1>5. D \in Seq(DigitSet) /\ Len(D) \in Nat /\ Len(D) >= 1 /\ Makes(D, base, word)
  BY <1>1, <1>3, DigitsMake
<1>6. \A i \in 1..Len(D) : D[i] \in DigitSet
  BY <1>5, ElementOfSeq
<1> HIDE DEF D, text, sign
<1>7. /\ n = a + Len(D) + r /\ n \in Nat /\ n >= 1 /\ l + Len(sign) + z <= a
      /\ \A i \in 1..l : text[i] = SP
      /\ Len(sign) = 1 => text[l + 1] = sign[1]
      /\ \A i \in (l + Len(sign) + 1)..a : text[i] \in Fills
      /\ \A i \in (a - z + 1)..a : text[i] = "0"
      /\ \A i \in 1..Len(D) : text[a + i] = D[i]
      /\ \A i \in (a + Len(D) + 1)..n : text[i] = SP
  BY <1>4, <1>5 DEF Outline
<1> HIDE DEF negative, n
(* What stands where.                                                      *)
<1>8. ASSUME NEW i \in 1..n
      PROVE  \/ i <= l /\ text[i] = SP
             \/ i = l + 1 /\ Len(sign) = 1 /\ text[i] = sign[1]
             \/ i > l + Len(sign) /\ i <= a /\ text[i] \in Fills
             \/ i > a /\ i <= a + Len(D) /\ text[i] \in DigitSet
             \/ i > a + Len(D) /\ r > 0 /\ text[i] = SP
  <2>1. CASE i <= l
    BY <1>7, <2>1
  <2>2. CASE i > l /\ i <= l + Len(sign)
    <3>1. Len(sign) = 1 /\ i = l + 1
      <4> DEFINE ls == Len(sign)
      <4>1. (ls = 0 \/ ls = 1) /\ n \in Nat
        BY <1>2, <1>7
      <4>2. i > l /\ i <= l + ls
        BY <2>2
      <4> HIDE DEF ls
      <4>3. i \in Int /\ l \in Int
        BY <4>1
      <4>4. ls = 1 /\ i = l + 1
        BY <4>1, <4>2, <4>3
      <4> QED BY <4>4 DEF ls
    <3> QED BY <1>7, <3>1
  <2>3. CASE i > l + Len(sign) /\ i <= a
    BY <1>2, <1>7, <2>3
  <2>4. CASE i > a /\ i <= a + Len(D)
    <3> DEFINE j == i - a
    <3>1. j \in 1..Len(D) /\ i = a + j
      BY <1>5, <2>4
    <3> HIDE DEF j
    <3> QED BY <1>6, <1>7, <2>4, <3>1
  <2>5. CASE i > a + Len(D)
    <3>1. i \in (a + Len(D) + 1)..n /\ r > 0
      BY <1>5, <1>7, <2>5
    <3> QED BY <1>7, <2>5, <3>1
  <2> QED BY <1>2, <1>5, <2>1, <2>2, <2>3, <2>4, <2>5
<1>9. ValueRead(text, base) = IF negative THEN WordModulus - num ELSE num
  <2>1. \A i \in 1..a : IsDigit(text[i]) => DigitValue(text[i]) = 0
    <3> SUFFICES ASSUME NEW i \in 1..a, text[i] \in DigitSet PROVE DigitValue(text[i]) = 0
      BY DEF IsDigit, DigitSet
    <3>1. i \in 1..n
      BY <1>5, <1>7
    <3>2. text[i] \in Fills \/ text[i] = SP \/ (Len(sign) = 1 /\ text[i] = sign[1])
      BY <1>5, <1>8, <3>1
    <3> QED BY <1>2, <3>2, CharsDiffer DEF Fills, Signs
  <2>2. \A i \in (a + Len(D) + 1)..n : ~IsDigit(text[i])
    BY <1>7, CharsDiffer DEF IsDigit, DigitSet
  <2>3. ValueRead(text, base) = word
    <3>1. Len(text) \in Nat /\ a + Len(D) <= Len(text)
      BY <1>5, <1>7 DEF n
    <3>2. \A i \in (a + Len(D) + 1)..Len(text) : ~IsDigit(text[i])
      BY <2>2 DEF n
    <3>3. \A i \in 1..Len(D) : text[a + i] = D[i]
      BY <1>7
    <3>4. D \in Seq(DigitSet) /\ Makes(D, base, word) /\ base \in Bases /\ a \in Nat
      BY <1>1, <1>5
    <3> QED BY <2>1, <3>1, <3>2, <3>3, <3>4, FieldRead
  <2> QED BY <1>3, <2>3
<1>10. negative <=> "-" \in ToSet(text)
  <2>1. ASSUME negative PROVE "-" \in ToSet(text)
    <3>1. sign = <<"-">>
      BY <1>2, <2>1
    <3>2. Len(sign) = 1 /\ sign[1] = "-"
      BY <3>1
    <3>3. l + 1 \in 1..n /\ text[l + 1] = "-"
      BY <1>5, <1>7, <3>2
    <3>4. DOMAIN text = 1..n
      BY <1>4 DEF Outline, n
    <3> QED BY <3>3, <3>4 DEF ToSet
  <2>2. ASSUME "-" \in ToSet(text) PROVE negative
    <3>1. DOMAIN text = 1..n
      BY <1>4 DEF Outline, n
    <3>2. PICK i \in 1..n : text[i] = "-"
      BY <2>2, <3>1 DEF ToSet
    <3>3. Len(sign) = 1 /\ sign[1] = "-"
      BY <1>8, <3>2, CharsDiffer
    <3> QED BY <1>2, <3>3
  <2> QED BY <2>1, <2>2
<1>11. Cardinality({i \in 1..n : IsDigit(text[i])}) >= precision
  <2> DEFINE S == {i \in 1..n : IsDigit(text[i])}
             lo == a - z + 1
             hi == a + Len(D)
  <2>1. lo..hi \subseteq S
    <3> SUFFICES ASSUME NEW i \in lo..hi PROVE i \in 1..n /\ text[i] \in DigitSet
      BY DEF IsDigit, DigitSet
    <3>1. i \in 1..n
      BY <1>2, <1>5, <1>7
    <3>2. CASE i <= a
      BY <1>7, <3>2, CharsDiffer
    <3>3. CASE i > a
      BY <1>2, <1>5, <1>7, <1>8, <3>1, <3>3
    <3> QED BY <3>1, <3>2, <3>3
  <2>2. IsFiniteSet(S)
    <3>1. IsFiniteSet(1..n)
      BY <1>7, FS_Interval
    <3>2. S \subseteq 1..n
      OBVIOUS
    <3> HIDE DEF S
    <3> QED BY <3>1, <3>2, FS_Subset
  <2>3. lo \in Int /\ hi \in Int /\ hi - lo + 1 = z + Len(D) /\ hi >= lo
    BY <1>5
  <2> HIDE DEF S, lo, hi
  <2>4. Cardinality(lo..hi) = hi - lo + 1
    BY <2>3, FS_Interval
  <2>5. Cardinality(lo..hi) <= Cardinality(S) /\ Cardinality(S) \in Nat
    BY <2>1, <2>2, FS_Subset, FS_CardinalityType
  <2>6. Cardinality(S) >= precision
    BY <1>1, <1>4, <1>5, <2>3, <2>4, <2>5
  <2> QED BY <2>6 DEF S
<1>12. text[n] = SP => "LEFT" \in d.flags /\ n = size
  <2> SUFFICES ASSUME text[n] = SP PROVE r > 0
    BY <1>1, <1>4 DEF n
  <2>1. n \in 1..n /\ n > a
    BY <1>5, <1>7
  <2>2. text[n] \notin DigitSet
    BY CharsDiffer
  <2> QED BY <1>2, <1>7, <1>8, <2>1, <2>2
<1>13. text[1] = SP /\ "SPACE" \notin d.flags => "LEFT" \notin d.flags /\ n = size
  <2> SUFFICES ASSUME text[1] = SP, "SPACE" \notin d.flags PROVE l > 0
    BY <1>1, <1>4 DEF n
  <2>1. 1 \in 1..n /\ 1 <= a + Len(D)
    BY <1>5, <1>7
  <2>2. text[1] \notin DigitSet /\ text[1] \notin Fills
    BY CharsDiffer
  <2>3. Len(sign) = 1 => text[1] # sign[1]
    BY <1>2
  <2> QED BY <1>5, <1>8, <2>1, <2>2, <2>3
<1>14. ASSUME NEW i \in 1..n, NEW j \in 1..n, NEW k \in 1..n, i < j, j < k, text[j] = SP
       PROVE  text[i] = SP \/ text[k] = SP
  <2>1. text[j] \notin DigitSet /\ text[j] \notin Fills
    BY <1>14, CharsDiffer
  <2>2. j <= l + 1 \/ j > a + Len(D)
    BY <1>8, <2>1
  <2>3. CASE j <= l + 1
    <3>1. i \in 1..l
      BY <1>14, <2>3
    <3> QED BY <1>7, <3>1
  <2>4. CASE j > a + Len(D)
    <3>1. k \in (a + Len(D) + 1)..n
      BY <1>5, <1>14, <2>4
    <3> QED BY <1>7, <3>1
  <2> QED BY <2>2, <2>3, <2>4
<1>15. n >= size
  BY <1>4 DEF n
<1> QED
  BY <1>9, <1>10, <1>11, <1>12, <1>13, <1>14, <1>15 DEF ReadsBack, base, negative, n, text, type, size, precision

-----------------------------------------------------------------------------
(* A format of one directive.                                              *)
LEMMA OneDirective ==
  ASSUME NEW d, NEW args, Takes(d), NEW S, Written(d, Head(args)) \in Seq(S)
  PROVE  Vsprintf(<<d>>, args) = Written(d, Head(args))
<1> DEFINE W == Written(d, Head(args))
           fmt == <<d>>
           first == [text |-> << >>, args |-> args]
           Then(k, done) ==
             IF Takes(fmt[k])
             THEN [text |-> done.text \o Written(fmt[k], Head(done.args)), args |-> Tail(done.args)]
             ELSE [done EXCEPT !.text = @ \o Written(fmt[k], 0)]
           Body(f) == [k \in 0..Len(fmt) |-> IF k = 0 THEN first ELSE Then(k, f[k - 1])]
           g == [k \in 0..Len(fmt) |-> IF k = 0 THEN first ELSE Then(1, first)]
           scan == CHOOSE f : f = Body(f)
<1>1. Len(fmt) = 1 /\ fmt[1] = d
  OBVIOUS
<1>2. Vsprintf(fmt, args) = scan[Len(fmt)].text
  BY DEF Vsprintf
<1>3. Then(1, first) = [text |-> << >> \o W, args |-> Tail(args)]
  <2>1. Then(1, first) = [text |-> first.text \o Written(fmt[1], Head(first.args)), args |-> Tail(first.args)]
    BY <1>1
  <2>2. first.text = << >> /\ first.args = args
    OBVIOUS
  <2> HIDE DEF first, Then, fmt
  <2> QED BY <1>1, <2>1, <2>2
<1> HIDE DEF first, Then, fmt, W
<1>4. g = Body(g)
  BY <1>1
<1>5. scan = Body(scan)
  BY <1>4
<1> HIDE DEF scan
<1>6. scan[0] = first
  BY <1>1, <1>5
<1>7. scan[1] = Then(1, scan[0])
  BY <1>1, <1>5
<1>8. scan[1].text = << >> \o W
  BY <1>3, <1>6, <1>7
<1>9. W \in Seq(S)
  BY DEF W
<1>10. << >> \o W = W
  BY <1>9
<1> QED BY <1>1, <1>2, <1>8, <1>10 DEF fmt, W

(* A number printed by a format of one directive reads back (vsprintf).     *)
THEOREM NumberIsWritten ==
  ASSUME NEW d \in Scanned, d.conv \in NumberConvs, NEW args, Head(args) \in Word
  PROVE  ReadsBack(Vsprintf(<<d>>, args), d, Head(args))
<1> DEFINE num == Head(args)
           text == Number(num, Base(d.conv), Width(d), d.precision, Type(d))
<1>1. text \in Seq(FieldChars)
  <2> DEFINE base == Base(d.conv)
             size == Width(d)
             precision == d.precision
             type == Type(d)
  <2>1. base \in Bases /\ size \in Nat \cup {-1} /\ precision \in Nat \cup {-1}
    BY DirectiveIs
  <2> HIDE DEF base, size, precision, type, num
  <2>2. num \in Word
    BY DEF num
  <2>3. Number(num, base, size, precision, type) \in Seq(FieldChars)
    BY <2>1, <2>2, NumberOutlined, ZenonT(30) DEF Outline
  <2> QED BY <2>3 DEF base, size, precision, type
<1>2. d.conv \notin {"literal"} /\ Takes(d)
  BY DEF NumberConvs, Takes
<1>3. Written(d, num) = text
  <2> HIDE DEF text, num
  <2>1. d.conv \notin {"literal", "c", "s", "n", "%", NUL}
    BY DEF NumberConvs, NUL
  <2>2. Written(d, num) = Number(num, Base(d.conv), Width(d), d.precision, Type(d))
    BY <2>1 DEF Written
  <2> QED BY <2>2 DEF text
<1>4. ReadsBack(text, d, num)
  BY NumberReadsBack
<1> HIDE DEF text
<1>5. Vsprintf(<<d>>, args) = text
  BY <1>1, <1>2, <1>3, OneDirective
<1> QED BY <1>4, <1>5
=============================================================================
