----------------------------- MODULE HeapProofs -----------------------------
(***************************************************************************)
(* The heap keeps its invariant, whatever the constants are, as long as    *)
(* callers heed what HeapCallers names (Liberties = {}) and ask for        *)
(* lengths a word can count with the overhead (Modest).                    *)
(*                                                                         *)
(* Every call rewrites one stretch of the heap.  The proof has the parts   *)
(*   - writes: what a header, a footer, bzero and the index change;        *)
(*   - Retiled, Rebuilt: new blocks in the place of those of a stretch     *)
(*     give a heap in order, if they tile the stretch;                     *)
(*   - per call, the stretch and its new blocks: expand (GrowOK), alloc    *)
(*     (PlaceWhole, PlaceFront, PlacePage) and free (UnifyLeft,            *)
(*     UnifyRight, ContractHeap, AddToIndex: LeftOK, RightOK, FreeOK);     *)
(*   - the steps, the invariant, and what follows from it.                 *)
(***************************************************************************)
EXTENDS HeapInv, FiniteSetTheorems, SequenceTheorems, WellFoundedInduction, TLAPS

USE DEF HeaderSize, FooterSize, Overhead

-----------------------------------------------------------------------------
(* Writes to memory                                                        *)

(* g is h except for what stands in u .. v-1.                              *)
SameHeader(h, g, a) ==
  /\ IsHeader(g, a) <=> IsHeader(h, a)
  /\ IsHeader(g, a) => g.hdr[a] = h.hdr[a]
  /\ SizeOf(g, a) = SizeOf(h, a) /\ (IsHole(g, a) <=> IsHole(h, a))

SameFooter(h, g, t) ==
  /\ HasFooter(g, t) <=> HasFooter(h, t)
  /\ HasFooter(g, t) => g.ftr[t] = h.ftr[t]

Same(h, g, u, v) ==
  /\ \A a \in Nat : a + 3 <= u \/ a >= v => SameHeader(h, g, a)
  /\ \A t \in Nat : t + 2 <= u \/ t >= v => SameFooter(h, g, t)

(* Sizes are natural numbers of a word.                                    *)
LEMMA SizeNat ==
  ASSUME NEW h, Typed(h), NEW a
  PROVE  SizeOf(h, a) \in Nat /\ SizeOf(h, a) < WordModulus
  BY HeapAssumption DEF Typed, SizeOf, IsHeader

(* What is the same outside a stretch is so outside a longer one.          *)
LEMMA SameWider ==
  ASSUME NEW h, NEW g, NEW u \in Nat, NEW v \in Nat, Same(h, g, u, v),
         NEW u2 \in Nat, NEW v2 \in Nat, u2 <= u, v <= v2
  PROVE  Same(h, g, u2, v2)
  BY DEF Same

(* Two changes of a stretch are one.                                       *)
LEMMA SameTwice ==
  ASSUME NEW h, NEW g, NEW k, NEW u \in Nat, NEW v \in Nat, Same(h, g, u, v), Same(g, k, u, v)
  PROVE  Same(h, k, u, v)
  BY DEF Same, SameHeader, SameFooter

(* A write leaves what is outside it (bzero).                              *)
LEMMA ClobberParts ==
  ASSUME NEW h, Typed(h), NEW a \in Nat, NEW n \in Nat
  PROVE  /\ Typed(Clobber(h, a, n)) /\ Same(h, Clobber(h, a, n), a, a + n)
         /\ Clobber(h, a, n).index = h.index /\ Clobber(h, a, n).end = h.end
<1> DEFINE g == Clobber(h, a, n)
<1>1. g = [hdr |-> Outside(h.hdr, 3, a, n), ftr |-> Outside(h.ftr, 2, a, n),
           index |-> h.index, end |-> h.end]
  BY DEF Clobber
<1> HIDE DEF g
<1>a. g.hdr = Outside(h.hdr, 3, a, n) /\ g.ftr = Outside(h.ftr, 2, a, n)
  BY <1>1
<1>2. /\ DOMAIN g.hdr = {x \in DOMAIN h.hdr : x + 3 <= a \/ x >= a + n}
      /\ \A x \in DOMAIN g.hdr : g.hdr[x] = h.hdr[x]
  BY <1>a DEF Outside, Restrict
<1>3. /\ DOMAIN g.ftr = {x \in DOMAIN h.ftr : x + 2 <= a \/ x >= a + n}
      /\ \A x \in DOMAIN g.ftr : g.ftr[x] = h.ftr[x]
  BY <1>a DEF Outside, Restrict
<1>4. Typed(g)
  BY <1>1, <1>2, <1>3 DEF Typed
<1>5. Same(h, g, a, a + n)
  BY <1>2, <1>3 DEF Same, SameHeader, SameFooter, IsHeader, IsHole, SizeOf, HasFooter
<1> QED
  BY <1>1, <1>4, <1>5 DEF g

(* A header is written (alloc, expand).                                    *)
LEMMA PutHeaderParts ==
  ASSUME NEW h, Typed(h), NEW x \in Nat, NEW b \in BOOLEAN, NEW s \in 0..(WordModulus - 1)
  PROVE  /\ Typed(PutHeader(h, x, b, s)) /\ Same(h, PutHeader(h, x, b, s), x, x + 3)
         /\ PutHeader(h, x, b, s).index = h.index /\ PutHeader(h, x, b, s).end = h.end
         /\ IsHeader(PutHeader(h, x, b, s), x) /\ SizeOf(PutHeader(h, x, b, s), x) = s
         /\ PutHeader(h, x, b, s).hdr[x].hole = b
<1> DEFINE k == Clobber(h, x, 3)
           g == PutHeader(h, x, b, s)
           r == [hole |-> b, size |-> s]
<1>1. Typed(k) /\ Same(h, k, x, x + 3) /\ k.index = h.index /\ k.end = h.end
  BY ClobberParts
<1>2. g = [k EXCEPT !.hdr = With(@, x, r)]
  BY DEF PutHeader
<1> HIDE DEF k, g
<1>3. g = [hdr |-> With(k.hdr, x, r), ftr |-> k.ftr, index |-> k.index, end |-> k.end]
  BY <1>1, <1>2 DEF Typed
<1>4. /\ DOMAIN g.hdr = {x} \cup DOMAIN k.hdr
      /\ \A a \in DOMAIN g.hdr : g.hdr[a] = IF a = x THEN r ELSE k.hdr[a]
  BY <1>3 DEF With
<1> HIDE DEF r
<1>5. r \in [hole : BOOLEAN, size : 0..(WordModulus - 1)] /\ r.hole = b /\ r.size = s
  BY DEF r
<1>6. Typed(g)
  BY <1>1, <1>3, <1>4, <1>5 DEF Typed
<1>7. Same(k, g, x, x + 3)
  BY <1>3, <1>4 DEF Same, SameHeader, SameFooter, IsHeader, IsHole, SizeOf, HasFooter
<1>8. Same(h, g, x, x + 3)
  BY <1>1, <1>7, SameTwice
<1>9. IsHeader(g, x) /\ SizeOf(g, x) = s /\ g.hdr[x].hole = b
  BY <1>4, <1>5 DEF IsHeader, IsHole, SizeOf
<1> QED
  BY <1>1, <1>3, <1>6, <1>8, <1>9 DEF g

FooterPut(h, g, x, a) ==
  /\ Typed(g) /\ Same(h, g, x, x + 2) /\ g.index = h.index /\ g.end = h.end
  /\ HasFooter(g, x) /\ g.ftr[x] = a

(* A footer is written (alloc, expand, contract).                          *)
LEMMA FooterWritten ==
  ASSUME NEW h, Typed(h), NEW x \in Nat, NEW a \in Nat
  PROVE  FooterPut(h, PutFooter(h, x, a), x, a)
<1> DEFINE k == Clobber(h, x, 2)
           g == PutFooter(h, x, a)
<1>1. Typed(k) /\ Same(h, k, x, x + 2) /\ k.index = h.index /\ k.end = h.end
  BY ClobberParts
<1>2. g = [k EXCEPT !.ftr = With(@, x, a)]
  BY DEF PutFooter
<1> HIDE DEF k, g
<1>3. g = [hdr |-> k.hdr, ftr |-> With(k.ftr, x, a), index |-> k.index, end |-> k.end]
  BY <1>1, <1>2 DEF Typed
<1>4. /\ DOMAIN g.ftr = {x} \cup DOMAIN k.ftr
      /\ \A t \in DOMAIN g.ftr : g.ftr[t] = IF t = x THEN a ELSE k.ftr[t]
  BY <1>3 DEF With
<1>5. Typed(g)
  BY <1>1, <1>3, <1>4 DEF Typed
<1>6. Same(k, g, x, x + 2)
  BY <1>3, <1>4 DEF Same, SameHeader, SameFooter, IsHeader, IsHole, SizeOf, HasFooter
<1>7. Same(h, g, x, x + 2)
  BY <1>1, <1>6, SameTwice
<1>8. HasFooter(g, x) /\ g.ftr[x] = a
  BY <1>4 DEF HasFooter
<1>9. g.index = h.index /\ g.end = h.end
  BY <1>1, <1>3
<1>10. FooterPut(h, g, x, a)
  BY <1>5, <1>7, <1>8, <1>9 DEF FooterPut
<1> QED BY <1>10 DEF g

(* A header keeps its place and gets another size.                         *)
LEMMA SetSizeParts ==
  ASSUME NEW h, Typed(h), NEW x \in Nat, IsHeader(h, x), NEW s \in 0..(WordModulus - 1)
  PROVE  /\ Typed(SetSize(h, x, s)) /\ Same(h, SetSize(h, x, s), x, x + 3)
         /\ SetSize(h, x, s).ftr = h.ftr
         /\ SetSize(h, x, s).index = h.index /\ SetSize(h, x, s).end = h.end
         /\ IsHeader(SetSize(h, x, s), x) /\ SizeOf(SetSize(h, x, s), x) = s
         /\ IsHole(SetSize(h, x, s), x) <=> IsHole(h, x)
<1> DEFINE g == SetSize(h, x, s)
           r == [h.hdr[x] EXCEPT !.size = s]
<1>0. h.hdr[x] \in [hole : BOOLEAN, size : 0..(WordModulus - 1)]
  BY DEF Typed, IsHeader
<1>1. r \in [hole : BOOLEAN, size : 0..(WordModulus - 1)] /\ r.hole = h.hdr[x].hole /\ r.size = s
  BY <1>0
<1>2. g = [h EXCEPT !.hdr[x] = r]
  BY DEF SetSize
<1> HIDE DEF r, g
<1>3. g = [hdr |-> [h.hdr EXCEPT ![x] = r], ftr |-> h.ftr, index |-> h.index, end |-> h.end]
  BY <1>2 DEF Typed
<1>4. /\ DOMAIN g.hdr = DOMAIN h.hdr
      /\ \A a \in DOMAIN g.hdr : g.hdr[a] = IF a = x THEN r ELSE h.hdr[a]
  BY <1>3
<1>5. Typed(g)
  BY <1>1, <1>3, <1>4 DEF Typed
<1>6. Same(h, g, x, x + 3)
  BY <1>3, <1>4 DEF Same, SameHeader, SameFooter, IsHeader, IsHole, SizeOf, HasFooter
<1>7. IsHeader(g, x) /\ SizeOf(g, x) = s /\ (IsHole(g, x) <=> IsHole(h, x))
  BY <1>1, <1>4 DEF IsHeader, IsHole, SizeOf
<1> QED
  BY <1>3, <1>5, <1>6, <1>7 DEF g

-----------------------------------------------------------------------------
(* The least-number principle                                              *)
Less == {p \in Nat \X Nat : p[1] < p[2]}

(* Numbers do not descend for ever.                                        *)
LEMMA LessWellFounded == IsWellFoundedOn(Less, Nat)
  BY NatLessThanWellFounded DEF OpToRel, Less

(* A set of numbers has a least one.                                       *)
LEMMA LeastNumber ==
  ASSUME NEW T, T \subseteq Nat, T # {}
  PROVE  \E m \in T : \A k \in T : m <= k
<1>1. \A k, m \in T : k < m => <<k, m>> \in Less
  BY DEF Less
<1>2. PICK m \in T : \A k \in T : ~(<<k, m>> \in Less)
  BY LessWellFounded, WFMin
<1>3. ASSUME NEW k \in T PROVE m <= k
  <2>1. ~(k < m)
    BY <1>1, <1>2
  <2>2. k \in Nat /\ m \in Nat
    OBVIOUS
  <2> QED BY <2>1, <2>2
<1> QED BY <1>3

-----------------------------------------------------------------------------
(* The blocks of a heap                                                    *)

(* The recursion from header to header has a solution: the blocks from a   *)
(* on are those that every set closed under "the block behind" contains    *)
(* when it contains a.                                                     *)
LEMMA BlocksDefined ==
  ASSUME NEW h, Typed(h), h.end \in Nat
  PROVE  \E f : f = [a \in Nat |-> IF a < h.end /\ SizeOf(h, a) > 0
                                   THEN {a} \cup f[a + SizeOf(h, a)] ELSE {}]
<1> DEFINE V == {a \in Nat : a < h.end /\ SizeOf(h, a) > 0}
           Behind(a) == a + SizeOf(h, a)
           Closed(S) == \A y \in S : Behind(y) \in V => Behind(y) \in S
           f == [a \in Nat |-> {x \in V : a \in V /\ \A S \in SUBSET V : a \in S /\ Closed(S) => x \in S}]
           Rec(g) == [a \in Nat |-> IF a \in V THEN {a} \cup g[Behind(a)] ELSE {}]
<1>1. \A a \in Nat : Behind(a) \in Nat
  BY DEF Typed, SizeOf, IsHeader
<1>2. ASSUME NEW a \in Nat PROVE f[a] = Rec(f)[a]
  <2>0. Behind(a) \in Nat
    BY <1>1
  <2>1. CASE a \notin V
    BY <2>1
  <2>2. CASE a \in V
    <3> DEFINE T == {a} \cup f[Behind(a)]
    <3>1. T \subseteq f[a]
      <4>1. a \in f[a]
        BY <2>2
      <4>2. ASSUME NEW x \in f[Behind(a)] PROVE x \in f[a]
        <5>1. x \in V /\ Behind(a) \in V
          BY <2>0
        <5>2. ASSUME NEW S \in SUBSET V, a \in S, Closed(S) PROVE x \in S
          <6>1. Behind(a) \in S
            BY <5>1, <5>2
          <6> QED BY <6>1, <5>2, <2>0
        <5> QED BY <5>1, <5>2, <2>2
      <4> QED BY <4>1, <4>2
    <3>2. f[a] \subseteq T
      <4>1. T \in SUBSET V /\ a \in T
        BY <2>2, <2>0
      <4>2. ASSUME NEW y \in T, Behind(y) \in V PROVE Behind(y) \in T
        <5>1. CASE y = a
          <6>1. Behind(a) \in f[Behind(a)]
            BY <5>1, <4>2, <2>0
          <6> QED BY <6>1, <5>1
        <5>2. CASE y \in f[Behind(a)]
          <6>1. \A S \in SUBSET V : Behind(a) \in S /\ Closed(S) => y \in S
            BY <5>2, <2>0
          <6>2. \A S \in SUBSET V : Behind(a) \in S /\ Closed(S) => Behind(y) \in S
            BY <6>1, <4>2
          <6>3. Behind(a) \in V
            BY <5>2, <2>0
          <6>4. Behind(y) \in f[Behind(a)]
            BY <6>2, <6>3, <4>2, <2>0
          <6> QED BY <6>4
        <5> QED BY <5>1, <5>2
      <4>3. Closed(T)
        BY <4>2
      <4>4. ASSUME NEW x \in f[a] PROVE x \in T
        <5>1. \A S \in SUBSET V : a \in S /\ Closed(S) => x \in S
          BY <4>4
        <5> QED BY <5>1, <4>1, <4>3
      <4> QED BY <4>4
    <3>3. Rec(f)[a] = T
      BY <2>2
    <3> HIDE DEF f, Rec, V, T
    <3> QED BY <3>1, <3>2, <3>3
  <2> HIDE DEF f, Rec, V
  <2> QED BY <2>1, <2>2
<1>3. f = Rec(f)
  <2>1. f = [a \in Nat |-> f[a]]
    OBVIOUS
  <2>2. Rec(f) = [a \in Nat |-> Rec(f)[a]]
    OBVIOUS
  <2> HIDE DEF f, Rec
  <2> QED BY <2>1, <2>2, <1>2
<1>4. \A g : Rec(g) = [a \in Nat |-> IF a < h.end /\ SizeOf(h, a) > 0
                                   THEN {a} \cup g[a + SizeOf(h, a)] ELSE {}]
  OBVIOUS
<1> HIDE DEF f, Rec
<1> QED BY <1>3, <1>4

(* A tiling is what following the headers yields.                          *)
LEMMA BlocksAre ==
  ASSUME NEW h, NEW B, Typed(h), h.end \in Nat, Tiling(h, B)
  PROVE  BlocksIn(h) = B
<1> DEFINE Rec(g) == [a \in Nat |-> IF a < h.end /\ SizeOf(h, a) > 0
                                   THEN {a} \cup g[a + SizeOf(h, a)] ELSE {}]
           f == CHOOSE g : g = Rec(g)
           From(a) == {c \in B : a <= c}
           Left(a) == h.end - a
           Bad == {a \in B \cup {h.end} : f[a] # From(a)}
<1>1. \E g : g = Rec(g)
  BY BlocksDefined
<1>2. f = Rec(f)
  BY <1>1
<1>3. BlocksIn(h) = f[Start]
  BY DEF BlocksIn
<1> HIDE DEF f
<1>4. /\ B \subseteq Nat /\ Start \in B
      /\ \A a \in B : /\ SizeOf(h, a) \in Nat /\ SizeOf(h, a) > 0
                      /\ Start <= a /\ a + SizeOf(h, a) <= h.end
                      /\ a + SizeOf(h, a) \in B \cup {h.end}
      /\ \A a, c \in B : a < c => a + SizeOf(h, a) <= c
  BY SizeNat DEF Tiling
<1>5. f[h.end] = From(h.end)
  <2>1. f[h.end] = {}
    BY <1>2
  <2>2. \A c \in B : ~(h.end <= c)
    BY <1>4
  <2> QED BY <2>1, <2>2
<1>6. ASSUME NEW a \in B, f[a + SizeOf(h, a)] = From(a + SizeOf(h, a))
      PROVE  f[a] = From(a)
  <2>1. f[a] = {a} \cup f[a + SizeOf(h, a)]
    BY <1>2, <1>4
  <2>2. \A c \in B : a <= c <=> c = a \/ a + SizeOf(h, a) <= c
    BY <1>4
  <2> QED BY <2>1, <2>2, <1>6
<1>7. Bad = {}
  <2> SUFFICES ASSUME Bad # {} PROVE FALSE
    OBVIOUS
  <2> DEFINE T == {Left(a) : a \in Bad}
  <2>1. T \subseteq Nat /\ T # {}
    BY <1>4
  <2>2. PICK m \in T : \A k \in T : m <= k
    BY <2>1, LeastNumber
  <2>3. PICK a \in Bad : m = Left(a)
    OBVIOUS
  <2>4. a \in B /\ f[a] # From(a)
    BY <1>5
  <2>5. a + SizeOf(h, a) \in Bad
    BY <2>4, <1>4, <1>6
  <2>6. Left(a + SizeOf(h, a)) \in T
    BY <2>5
  <2>7. Left(a + SizeOf(h, a)) < Left(a)
    BY <2>4, <1>4
  <2>8. Left(a) <= Left(a + SizeOf(h, a))
    BY <2>2, <2>3, <2>6
  <2>9. Left(a) \in Int /\ Left(a + SizeOf(h, a)) \in Int
    BY <2>4, <1>4
  <2> HIDE DEF Left
  <2> QED BY <2>7, <2>8, <2>9
<1>8. f[Start] = From(Start)
  BY <1>7, <1>4
<1>9. From(Start) = B
  BY <1>4
<1> QED BY <1>3, <1>8, <1>9

-----------------------------------------------------------------------------
(* The index                                                               *)

(* Min of a set of numbers is the least of them.                           *)
LEMMA LeastIs ==
  ASSUME NEW T, T \subseteq Nat, T # {}
  PROVE  Min(T) \in T /\ \A k \in T : Min(T) <= k
  BY LeastNumber DEF Min

(* find_smallest_hole takes an entry that fits, and there is none when it  *)
(* finds nothing.                                                          *)
LEMMA FindsFit ==
  ASSUME NEW h, h.index \in Seq(Nat), NEW size, NEW align
  PROVE  /\ FindHole(h, size, align) \in 0..Len(h.index)
         /\ FindHole(h, size, align) = 0 =>
              \A i \in 1..Len(h.index) : ~Fits(h, h.index[i], size, align)
         /\ FindHole(h, size, align) # 0 => Fits(h, h.index[FindHole(h, size, align)], size, align)
<1> DEFINE I == {i \in 1..Len(h.index) : Fits(h, h.index[i], size, align)}
<1>1. FindHole(h, size, align) = IF I # {} THEN Min(I) ELSE 0
  BY DEF FindHole, SelectInSeq
<1>2. I \subseteq Nat
  OBVIOUS
<1>3. I # {} => Min(I) \in I
  <2> HIDE DEF I
  <2> QED BY <1>2, LeastIs
<1>4. CASE I # {}
  <2>1. FindHole(h, size, align) = Min(I)
    BY <1>1, <1>4
  <2>2. Min(I) \in 1..Len(h.index) /\ Fits(h, h.index[Min(I)], size, align)
    BY <1>3, <1>4
  <2>3. Len(h.index) \in Nat
    OBVIOUS
  <2> HIDE DEF I
  <2>4. Min(I) # 0 /\ Min(I) \in 0..Len(h.index)
    BY <2>2, <2>3
  <2> QED BY <2>1, <2>2, <2>4
<1>5. CASE I = {}
  <2>1. FindHole(h, size, align) = 0
    BY <1>1, <1>5
  <2>2. \A i \in 1..Len(h.index) : ~Fits(h, h.index[i], size, align)
    BY <1>5
  <2>3. 0 \in 0..Len(h.index)
    OBVIOUS
  <2> QED BY <2>1, <2>2, <2>3
<1> QED BY <1>4, <1>5

(* t is s without its k-th element.                                        *)
Without(s, t, k) ==
  /\ s \in Seq(Nat) /\ t \in Seq(Nat) /\ Len(s) = Len(t) + 1 /\ k \in 1..Len(s)
  /\ \A i \in 1..Len(t) : t[i] = IF i < k THEN s[i] ELSE s[i + 1]

(* The elements of a sequence.                                             *)
LEMMA ToSetIs ==
  ASSUME NEW s \in Seq(Nat)
  PROVE  ToSet(s) = {s[i] : i \in 1..Len(s)}
  BY DEF ToSet

(* The sequence that has one element more has one element more.            *)
LEMMA WithoutSet ==
  ASSUME NEW s, NEW t, NEW k, Without(s, t, k)
  PROVE  ToSet(s) = ToSet(t) \cup {s[k]}
<1>0. Len(t) \in Nat /\ Len(s) \in Nat
  BY DEF Without
<1>1. ASSUME NEW i \in 1..Len(s), i # k PROVE \E j \in 1..Len(t) : t[j] = s[i]
  <2>1. CASE i < k
    <3>1. i \in 1..Len(t)
      BY <1>0, <2>1 DEF Without
    <3>2. t[i] = s[i]
      BY <2>1, <3>1 DEF Without
    <3> QED BY <3>1, <3>2
  <2>2. CASE i > k
    <3>1. i - 1 \in 1..Len(t) /\ ~(i - 1 < k) /\ (i - 1) + 1 = i
      BY <1>0, <2>2 DEF Without
    <3> QED BY <3>1 DEF Without
  <2> QED BY <1>1, <2>1, <2>2 DEF Without
<1>2. ASSUME NEW j \in 1..Len(t) PROVE \E i \in 1..Len(s) : t[j] = s[i]
  <2>1. j \in 1..Len(s) /\ j + 1 \in 1..Len(s)
    BY <1>0 DEF Without
  <2> QED BY <2>1 DEF Without
<1>3. ToSet(s) = {s[i] : i \in 1..Len(s)} /\ ToSet(t) = {t[i] : i \in 1..Len(t)}
  BY ToSetIs DEF Without
<1>4. k \in 1..Len(s)
  BY DEF Without
<1> QED BY <1>1, <1>2, <1>3, <1>4

(* And repeats nothing if the other does not and this one is new.          *)
LEMMA WithoutDistinct ==
  ASSUME NEW s, NEW t, NEW k, Without(s, t, k)
  PROVE  Distinct(s) <=> Distinct(t) /\ s[k] \notin ToSet(t)
<1> DEFINE p(i) == IF i < k THEN i ELSE i + 1
           q(i) == IF i < k THEN i ELSE i - 1
<1>0. Len(t) \in Nat /\ Len(s) \in Nat /\ k \in 1..Len(s) /\ Len(s) = Len(t) + 1
  BY DEF Without
<1>1. \A i \in 1..Len(t) : p(i) \in 1..Len(s) /\ p(i) # k /\ t[i] = s[p(i)]
  BY <1>0 DEF Without
<1>2. \A i, j \in 1..Len(t) : p(i) = p(j) => i = j
  BY <1>0
<1>3. \A i \in 1..Len(s) : i # k => q(i) \in 1..Len(t) /\ p(q(i)) = i
  BY <1>0
<1>t. ToSet(t) = {t[i] : i \in 1..Len(t)}
  BY ToSetIs DEF Without
<1> HIDE DEF p, q
<1>4. ASSUME Distinct(s)
      PROVE  Distinct(t) /\ s[k] \notin ToSet(t)
  BY <1>0, <1>1, <1>2, <1>4, <1>t DEF Distinct
<1>5. ASSUME Distinct(t), s[k] \notin ToSet(t),
             NEW i \in 1..Len(s), NEW j \in 1..Len(s), s[i] = s[j]
      PROVE  i = j
  <2>0. \A m \in 1..Len(t) : t[m] # s[k]
    BY <1>5, <1>t
  <2>1. CASE i = k /\ j = k
    BY <2>1
  <2>2. CASE i = k /\ j # k
    BY <1>1, <1>3, <1>5, <2>0, <2>2
  <2>3. CASE i # k /\ j = k
    BY <1>1, <1>3, <1>5, <2>0, <2>3
  <2>4. CASE i # k /\ j # k
    <3>1. t[q(i)] = s[i] /\ t[q(j)] = s[j] /\ q(i) \in 1..Len(t) /\ q(j) \in 1..Len(t)
      BY <1>1, <1>3, <2>4
    <3>2. q(i) = q(j)
      BY <3>1, <1>5 DEF Distinct
    <3> QED BY <3>2, <1>3, <2>4
  <2> QED BY <2>1, <2>2, <2>3, <2>4
<1> QED BY <1>4, <1>5 DEF Distinct

(* RemoveAt takes one element out.                                         *)
LEMMA RemovedAt ==
  ASSUME NEW S, NEW s \in Seq(S), NEW k \in 1..Len(s)
  PROVE  /\ RemoveAt(s, k) \in Seq(S) /\ Len(RemoveAt(s, k)) = Len(s) - 1
         /\ \A i \in 1..(Len(s) - 1) : RemoveAt(s, k)[i] = IF i < k THEN s[i] ELSE s[i + 1]
<1> DEFINE t == RemoveAt(s, k)
           n == Len(s)
           l == SubSeq(s, 1, k - 1)
           r == SubSeq(s, k + 1, n)
<1>0. n \in Nat /\ \A i \in 1..n : s[i] \in S
  OBVIOUS
<1>1. l \in Seq(S) /\ Len(l) = k - 1 /\ \A i \in 1..(k - 1) : l[i] = s[i]
  BY <1>0, SubSeqProperties
<1>2. r \in Seq(S) /\ Len(r) = n - k /\ \A i \in 1..(n - k) : r[i] = s[k + i]
  BY <1>0, SubSeqProperties
<1>3. t = l \o r
  BY DEF RemoveAt
<1> HIDE DEF l, r, t
<1>4. t \in Seq(S) /\ Len(t) = n - 1
      /\ \A i \in 1..(n - 1) : t[i] = IF i <= k - 1 THEN l[i] ELSE r[i - (k - 1)]
  <2>1. /\ l \o r \in Seq(S) /\ Len(l \o r) = Len(l) + Len(r)
        /\ \A i \in 1..(Len(l) + Len(r)) : (l \o r)[i] = IF i <= Len(l) THEN l[i] ELSE r[i - Len(l)]
    BY <1>1, <1>2, ConcatProperties
  <2>2. Len(l) = k - 1 /\ Len(l) + Len(r) = n - 1
    BY <1>0, <1>1, <1>2
  <2> QED BY <1>3, <2>1, <2>2
<1>5. ASSUME NEW i \in 1..(n - 1) PROVE t[i] = IF i < k THEN s[i] ELSE s[i + 1]
  <2>1. CASE i < k
    BY <1>0, <1>1, <1>4, <2>1
  <2>2. CASE ~(i < k)
    <3>1. i - (k - 1) \in 1..(n - k) /\ k + (i - (k - 1)) = i + 1 /\ ~(i <= k - 1)
      BY <1>0, <2>2
    <3>2. r[i - (k - 1)] = s[i + 1]
      BY <1>2, <3>1
    <3> QED BY <1>4, <2>2, <3>1, <3>2
  <2> QED BY <2>1, <2>2
<1> QED BY <1>4, <1>5 DEF t

(* remove_sorted_array takes out the place of an entry.                    *)
LEMMA RemovesAt ==
  ASSUME NEW s \in Seq(Nat), Distinct(s), NEW k \in 1..Len(s)
  PROVE  RemoveFirst(s, s[k]) = RemoveAt(s, k)
<1> DEFINE I == {i \in 1..Len(s) : s[i] = s[k]}
<1>1. I # {} /\ I \subseteq Nat /\ k \in I
  OBVIOUS
<1>2. \A i \in I : i = k
  BY DEF Distinct
<1>3. Min(I) = k
  <2> HIDE DEF I
  <2> QED BY <1>1, <1>2, LeastIs
<1> QED BY <1>1, <1>3 DEF RemoveFirst, SelectInSeq

(* remove_sorted_array takes one entry out.                                *)
LEMMA Removes ==
  ASSUME NEW s \in Seq(Nat), Distinct(s), NEW a \in ToSet(s)
  PROVE  /\ RemoveFirst(s, a) \in Seq(Nat) /\ Distinct(RemoveFirst(s, a))
         /\ ToSet(RemoveFirst(s, a)) = ToSet(s) \ {a}
<1> DEFINE t == RemoveFirst(s, a)
           n == Len(s)
<1>0. n \in Nat /\ \A i \in 1..n : s[i] \in Nat
  OBVIOUS
<1>1. PICK k \in 1..n : s[k] = a
  BY ToSetIs
<1>5. Without(s, t, k)
  <2>1. t = RemoveAt(s, k)
    BY <1>1, RemovesAt
  <2>2. t \in Seq(Nat) /\ Len(t) = n - 1
        /\ \A i \in 1..(n - 1) : t[i] = IF i < k THEN s[i] ELSE s[i + 1]
    BY <2>1, RemovedAt
  <2> HIDE DEF t
  <2>3. Len(s) = Len(t) + 1 /\ k \in 1..Len(s) /\ n - 1 = Len(t)
    BY <1>0, <2>2
  <2> HIDE DEF n
  <2> QED BY <2>2, <2>3 DEF Without
<1> HIDE DEF t
<1>6. Distinct(t) /\ a \notin ToSet(t)
  BY <1>1, <1>5, WithoutDistinct
<1>7. ToSet(s) = ToSet(t) \cup {a}
  BY <1>1, <1>5, WithoutSet
<1>8. t \in Seq(Nat)
  BY <1>5 DEF Without
<1> QED BY <1>6, <1>7, <1>8 DEF t

(* insert_sorted_array puts one entry in, wherever that is.                *)
LEMMA Inserts ==
  ASSUME NEW s \in Seq(Nat), Distinct(s), NEW a \in Nat, a \notin ToSet(s), NEW k \in 0..Len(s)
  PROVE  LET t == IF k = 0 THEN s \o <<a>> ELSE InsertAt(s, k, a) IN
         t \in Seq(Nat) /\ Distinct(t) /\ ToSet(t) = ToSet(s) \cup {a}
<1> DEFINE t == IF k = 0 THEN s \o <<a>> ELSE InsertAt(s, k, a)
           n == Len(s)
           at == IF k = 0 THEN n + 1 ELSE k
           l == SubSeq(s, 1, at - 1)
           r == SubSeq(s, at, n)
<1>0. n \in Nat /\ (\A i \in 1..n : s[i] \in Nat) /\ at \in 1..(n + 1)
  OBVIOUS
<1>1. t = (l \o <<a>>) \o r
  <2>1. CASE k = 0
    <3>1. l = s
      BY <2>1, SubSeqFull
    <3>2. r = << >>
      BY <1>0, <2>1, SubSeqEmpty
    <3>3. s \o <<a>> \in Seq(Nat)
      OBVIOUS
    <3> HIDE DEF l, r
    <3> QED BY <2>1, <3>1, <3>2, <3>3, ConcatEmptySeq
  <2>2. CASE k # 0
    BY <2>2 DEF InsertAt
  <2> QED BY <2>1, <2>2
<1>2. l \in Seq(Nat) /\ Len(l) = at - 1 /\ \A i \in 1..(at - 1) : l[i] = s[i]
  <2> HIDE DEF at
  <2> QED BY <1>0, SubSeqProperties
<1>3. r \in Seq(Nat) /\ Len(r) = n - at + 1 /\ \A i \in 1..(n - at + 1) : r[i] = s[at + i - 1]
  <2> HIDE DEF at
  <2> QED BY <1>0, SubSeqProperties
<1> HIDE DEF t, n, at, l, r
<1>4. l \o <<a>> \in Seq(Nat) /\ Len(l \o <<a>>) = at
      /\ (\A i \in 1..at : (l \o <<a>>)[i] = IF i < at THEN s[i] ELSE a)
  <2>1. <<a>> \in Seq(Nat) /\ Len(<<a>>) = 1 /\ <<a>>[1] = a
    OBVIOUS
  <2>2. /\ l \o <<a>> \in Seq(Nat) /\ Len(l \o <<a>>) = at
        /\ \A i \in 1..at : (l \o <<a>>)[i] = IF i <= at - 1 THEN l[i] ELSE <<a>>[i - (at - 1)]
    <3>1. /\ l \o <<a>> \in Seq(Nat) /\ Len(l \o <<a>>) = Len(l) + Len(<<a>>)
          /\ \A i \in 1..(Len(l) + Len(<<a>>)) :
               (l \o <<a>>)[i] = IF i <= Len(l) THEN l[i] ELSE <<a>>[i - Len(l)]
      BY <1>2, <2>1, ConcatProperties
    <3>2. Len(l) = at - 1 /\ Len(l) + Len(<<a>>) = at
      BY <1>0, <1>2, <2>1
    <3> QED BY <3>1, <3>2
  <2>3. ASSUME NEW i \in 1..at PROVE (l \o <<a>>)[i] = IF i < at THEN s[i] ELSE a
    <3>1. CASE i < at
      <4>1. i <= at - 1 /\ i \in 1..(at - 1)
        BY <1>0, <3>1
      <4> QED BY <1>2, <2>2, <3>1, <4>1
    <3>2. CASE i = at
      <4>1. ~(i <= at - 1) /\ i - (at - 1) = 1
        BY <1>0, <3>2
      <4>2. ~(i < at)
        BY <1>0, <3>2
      <4>3. (l \o <<a>>)[i] = <<a>>[1]
        BY <2>2, <4>1
      <4> QED BY <2>1, <4>2, <4>3
    <3>3. i < at \/ i = at
      BY <1>0
    <3> QED BY <3>1, <3>2, <3>3
  <2> QED BY <2>2, <2>3
<1>5. t[at] = a /\ Without(t, s, at)
  <2> DEFINE m == l \o <<a>>
  <2>1. m \in Seq(Nat) /\ Len(m) = at /\ \A i \in 1..at : m[i] = IF i < at THEN s[i] ELSE a
    BY <1>4
  <2> HIDE DEF m
  <2>2. t \in Seq(Nat) /\ Len(t) = n + 1
        /\ \A i \in 1..(n + 1) : t[i] = IF i <= at THEN m[i] ELSE r[i - at]
    <3>1. t = m \o r
      BY <1>1 DEF m
    <3>2. Len(m) + Len(r) = n + 1
      BY <1>0, <1>3, <2>1
    <3>3. /\ m \o r \in Seq(Nat) /\ Len(m \o r) = Len(m) + Len(r)
          /\ \A i \in 1..(Len(m) + Len(r)) : (m \o r)[i] = IF i <= Len(m) THEN m[i] ELSE r[i - Len(m)]
      BY <1>3, <2>1, ConcatProperties
    <3> QED BY <2>1, <3>1, <3>2, <3>3
  <2>3. t[at] = a
    BY <1>0, <2>1, <2>2
  <2>4. ASSUME NEW i \in 1..n PROVE s[i] = IF i < at THEN t[i] ELSE t[i + 1]
    <3>1. CASE i < at
      BY <1>0, <2>1, <2>2, <3>1
    <3>2. CASE ~(i < at)
      <4>1. i + 1 \in 1..(n + 1) /\ ~(i + 1 <= at) /\ (i + 1) - at \in 1..(n - at + 1)
            /\ at + ((i + 1) - at) - 1 = i
        BY <1>0, <3>2
      <4> QED BY <1>0, <1>3, <2>2, <3>2, <4>1
    <3> QED BY <3>1, <3>2
  <2>5. Without(t, s, at)
    <3>1. n = Len(s)
      BY DEF n
    <3> QED BY <1>0, <2>2, <2>4, <3>1 DEF Without
  <2> QED BY <2>3, <2>5
<1>6. Distinct(t)
  BY <1>5, WithoutDistinct
<1>7. ToSet(t) = ToSet(s) \cup {a}
  BY <1>5, WithoutSet
<1>8. t \in Seq(Nat)
  BY <1>5 DEF Without
<1> QED BY <1>6, <1>7, <1>8 DEF t

(* insert_sorted_array puts a hole somewhere into the index.               *)
LEMMA InsertHoleParts ==
  ASSUME NEW h, Typed(h), h.index \in Seq(Nat), Distinct(h.index), NEW a \in Nat, a \notin ToSet(h.index)
  PROVE  /\ Typed(InsertHole(h, a)) /\ \A u, v \in Nat : Same(h, InsertHole(h, a), u, v)
         /\ InsertHole(h, a).hdr = h.hdr /\ InsertHole(h, a).ftr = h.ftr /\ InsertHole(h, a).end = h.end
         /\ InsertHole(h, a).index \in Seq(Nat) /\ Distinct(InsertHole(h, a).index)
         /\ ToSet(InsertHole(h, a).index) = ToSet(h.index) \cup {a}
<1> DEFINE I == {i \in 1..Len(h.index) : ~Smaller(h, h.index[i], a)}
           k == IF I # {} THEN Min(I) ELSE 0
           s == IF k = 0 THEN h.index \o <<a>> ELSE InsertAt(h.index, k, a)
           g == InsertHole(h, a)
<1>1. g = [h EXCEPT !.index = s]
  BY DEF InsertHole, SelectInSeq
<1>2. k \in 0..Len(h.index)
  <2>1. I \subseteq Nat /\ I \subseteq 1..Len(h.index)
    OBVIOUS
  <2>2. Len(h.index) \in Nat
    OBVIOUS
  <2> HIDE DEF I
  <2>3. I # {} => Min(I) \in I
    BY <2>1, LeastIs
  <2>4. CASE I = {}
    BY <2>2, <2>4
  <2>5. CASE I # {}
    <3>1. k = Min(I)
      BY <2>5
    <3> HIDE DEF k
    <3>2. Min(I) \in 1..Len(h.index)
      BY <2>1, <2>3, <2>5
    <3> QED BY <2>2, <3>1, <3>2
  <2> QED BY <2>4, <2>5
<1> HIDE DEF k
<1>3. s \in Seq(Nat) /\ Distinct(s) /\ ToSet(s) = ToSet(h.index) \cup {a}
  BY <1>2, Inserts
<1> HIDE DEF s, g
<1>4. g = [hdr |-> h.hdr, ftr |-> h.ftr, index |-> s, end |-> h.end]
  BY <1>1 DEF Typed
<1>5. Typed(g) /\ \A u, v \in Nat : Same(h, g, u, v)
  BY <1>4 DEF Typed, Same, SameHeader, SameFooter, IsHeader, IsHole, SizeOf, HasFooter
<1> QED BY <1>3, <1>4, <1>5 DEF g

(* remove_sorted_array takes it out.                                       *)
LEMMA RemoveHoleParts ==
  ASSUME NEW h, Typed(h), h.index \in Seq(Nat), Distinct(h.index), NEW a \in ToSet(h.index)
  PROVE  /\ Typed(RemoveHole(h, a)) /\ \A u, v \in Nat : Same(h, RemoveHole(h, a), u, v)
         /\ RemoveHole(h, a).hdr = h.hdr /\ RemoveHole(h, a).ftr = h.ftr /\ RemoveHole(h, a).end = h.end
         /\ RemoveHole(h, a).index \in Seq(Nat) /\ Distinct(RemoveHole(h, a).index)
         /\ ToSet(RemoveHole(h, a).index) = ToSet(h.index) \ {a}
<1> DEFINE s == RemoveFirst(h.index, a)
           g == RemoveHole(h, a)
<1>1. g = [h EXCEPT !.index = s]
  BY DEF RemoveHole
<1>3. s \in Seq(Nat) /\ Distinct(s) /\ ToSet(s) = ToSet(h.index) \ {a}
  BY Removes
<1> HIDE DEF s, g
<1>4. g = [hdr |-> h.hdr, ftr |-> h.ftr, index |-> s, end |-> h.end]
  BY <1>1 DEF Typed
<1>5. Typed(g) /\ \A u, v \in Nat : Same(h, g, u, v)
  BY <1>4 DEF Typed, Same, SameHeader, SameFooter, IsHeader, IsHole, SizeOf, HasFooter
<1> QED BY <1>3, <1>4, <1>5 DEF g

-----------------------------------------------------------------------------
(* Stretches of the heap                                                   *)

(* The blocks B fill u .. v-1.                                             *)
Span(h, B, u, v) ==
  /\ B \subseteq Nat /\ u \in Nat /\ v \in Nat /\ u <= v
  /\ u # v => u \in B
  /\ \A a \in B : /\ SizeOf(h, a) >= Overhead
                  /\ u <= a /\ a + SizeOf(h, a) <= v
                  /\ a + SizeOf(h, a) \in B \cup {v}
  /\ \A a, c \in B : a < c => a + SizeOf(h, a) <= c

(* The tiling of the heap is the span from its start to its end.           *)
LEMMA TilingIsSpan ==
  ASSUME NEW h, NEW B, h.end \in Nat, Typed(h)
  PROVE  Tiling(h, B) <=> Span(h, B, Start, h.end) /\ Start < h.end
<1>1. ASSUME Tiling(h, B) PROVE Span(h, B, Start, h.end) /\ Start < h.end
  <2>1. Start \in Nat /\ SizeOf(h, Start) \in Nat /\ SizeOf(h, Start) >= 5 /\ Start + SizeOf(h, Start) <= h.end
    BY <1>1, SizeNat DEF Tiling
  <2>2. Start < h.end
    BY <2>1
  <2> QED BY <1>1, <2>1, <2>2 DEF Tiling, Span
<1>2. ASSUME Span(h, B, Start, h.end), Start < h.end PROVE Tiling(h, B)
  BY <1>2 DEF Tiling, Span
<1> QED BY <1>1, <1>2

(* A span is cut at a block.                                               *)
LEMMA SpanCut ==
  ASSUME NEW h, NEW B, NEW u, NEW v, Typed(h), Span(h, B, u, v), NEW w \in B \cup {v}
  PROVE  /\ Span(h, {a \in B : a < w}, u, w)
         /\ Span(h, {a \in B : a >= w}, w, v)
<1>0. \A a \in B : SizeOf(h, a) \in Nat
  BY SizeNat
<1>1. w \in Nat /\ u <= w /\ w <= v
  BY <1>0 DEF Span
<1>2. Span(h, {a \in B : a < w}, u, w)
  <2> DEFINE L == {a \in B : a < w}
  <2>1. \A a \in L : /\ SizeOf(h, a) >= Overhead /\ u <= a /\ a + SizeOf(h, a) <= w
                    /\ a + SizeOf(h, a) \in L \cup {w}
    BY <1>0, <1>1 DEF Span
  <2>2. u # w => u \in L
    BY <1>1 DEF Span
  <2> QED BY <1>1, <2>1, <2>2 DEF Span
<1>3. Span(h, {a \in B : a >= w}, w, v)
  <2> DEFINE R == {a \in B : a >= w}
  <2>1. \A a \in R : /\ SizeOf(h, a) >= Overhead /\ w <= a /\ a + SizeOf(h, a) <= v
                    /\ a + SizeOf(h, a) \in R \cup {v}
    BY <1>0, <1>1 DEF Span
  <2>2. w # v => w \in R
    BY <1>1 DEF Span
  <2> QED BY <1>1, <2>1, <2>2 DEF Span
<1> QED BY <1>2, <1>3

(* Two spans that meet are one.                                            *)
LEMMA SpanJoin ==
  ASSUME NEW h, NEW B, NEW C, NEW u, NEW v, NEW w, Typed(h), Span(h, B, u, w), Span(h, C, w, v)
  PROVE  Span(h, B \cup C, u, v)
<1>0. \A a \in B \cup C : SizeOf(h, a) \in Nat
  BY SizeNat
<1>1. ASSUME NEW a \in B \cup C
      PROVE  /\ SizeOf(h, a) >= Overhead
             /\ u <= a /\ a + SizeOf(h, a) <= v
             /\ a + SizeOf(h, a) \in B \cup C \cup {v}
  BY <1>0, <1>1 DEF Span
<1>2. ASSUME NEW a \in B \cup C, NEW c \in B \cup C, a < c PROVE a + SizeOf(h, a) <= c
  <2>1. CASE a \in B /\ c \in B
    BY <1>2, <2>1 DEF Span
  <2>2. CASE a \in C /\ c \in C
    BY <1>2, <2>2 DEF Span
  <2>3. CASE a \in B /\ c \in C
    BY <1>0, <1>2, <2>3 DEF Span
  <2>4. CASE a \in C /\ c \in B
    BY <1>0, <1>2, <2>4 DEF Span
  <2> QED BY <2>1, <2>2, <2>3, <2>4
<1>3. /\ B \cup C \subseteq Nat /\ u \in Nat /\ v \in Nat /\ u <= v
      /\ u # v => u \in B \cup C
  BY DEF Span
<1> QED BY <1>1, <1>2, <1>3 DEF Span

(* One block is a span.                                                    *)
LEMMA SpanOne ==
  ASSUME NEW h, NEW u \in Nat, NEW v \in Nat, u + SizeOf(h, u) = v, SizeOf(h, u) >= Overhead,
         SizeOf(h, u) \in Nat
  PROVE  Span(h, {u}, u, v)
  BY DEF Span

(* A span depends on the headers of its blocks only.                       *)
LEMMA SpanSame ==
  ASSUME NEW h, NEW g, NEW B, NEW u, NEW v, Span(h, B, u, v), \A a \in B : SameHeader(h, g, a)
  PROVE  Span(g, B, u, v)
  BY DEF Span, SameHeader

(* A call replaces the blocks between u and v by P, which fill u .. w-1;   *)
(* only at the end of the heap may v and w differ, and the end with them.  *)
Kept(B, u, v) == {a \in B : a < u \/ a >= v}

Replaces(h, B, g, P, u, v, w) ==
  /\ u \in B \cup {h.end} /\ v \in B \cup {h.end} /\ u <= v /\ u < w
  /\ Typed(g) /\ Span(g, P, u, w) /\ Footed(g, P)
  /\ \E z \in Nat : Same(h, g, u, z) /\ (v # h.end => z = v)
  /\ g.end = IF v = h.end THEN w ELSE h.end
  /\ v # h.end => w = v
  /\ u = h.end => \A a \in B : a + SizeOf(h, a) = u => ~IsHole(h, a)

(* New blocks in the place of those from u to v give a tiling again.       *)
LEMMA Retiled ==
  ASSUME NEW h, NEW B, NEW g, NEW P, NEW u, NEW v, NEW w, h.end \in Nat,
         Typed(h), Tiling(h, B), Footed(h, B), Replaces(h, B, g, P, u, v, w)
  PROVE  /\ g.end \in Nat
         /\ Tiling(g, Kept(B, u, v) \cup P) /\ Footed(g, Kept(B, u, v) \cup P)
         /\ \A a \in Kept(B, u, v) : SameHeader(h, g, a)
<1> DEFINE L == {a \in B : a < u}
           R == {a \in B : a >= v}
<1>0. /\ u \in Nat /\ v \in Nat /\ w \in Nat /\ u <= v /\ u < w
      /\ B \subseteq Nat /\ P \subseteq Nat /\ Start \in Nat /\ Start <= u
      /\ \A a \in B : SizeOf(h, a) \in Nat
      /\ g.end \in Nat /\ Start < h.end
  <2>1. B \subseteq Nat /\ Start \in Nat /\ \A a \in B : SizeOf(h, a) \in Nat
    BY SizeNat DEF Tiling
  <2>2. Start < h.end
    BY TilingIsSpan
  <2>3. \A a \in B : Start <= a
    BY DEF Tiling
  <2> QED BY <2>1, <2>2, <2>3 DEF Replaces, Span
<1>1. Span(h, B, Start, h.end)
  BY TilingIsSpan
<1>2. Span(h, L, Start, u)
  BY <1>1, SpanCut DEF Replaces
<1>3. Span(h, R, v, h.end)
  BY <1>1, SpanCut DEF Replaces
<1>4. Kept(B, u, v) = L \cup R
  BY DEF Kept
<1>5. \A a \in L : a + SizeOf(h, a) <= u
  BY <1>2 DEF Span
<1>6. PICK z \in Nat : Same(h, g, u, z) /\ (v # h.end => z = v)
  BY DEF Replaces
<1>7. v = h.end => R = {}
  <2>1. \A a \in B : a < h.end
    BY <1>0 DEF Tiling
  <2>2. \A a \in B : v = h.end => ~(a >= v)
    BY <1>0, <2>1
  <2> QED BY <2>2
<1>8. \A a \in L : a + 3 <= u
  BY <1>0, <1>2 DEF Span
<1>9. \A a \in Kept(B, u, v) : SameHeader(h, g, a)
  BY <1>0, <1>4, <1>6, <1>7, <1>8 DEF Same
<1>10. Span(g, L, Start, u)
  BY <1>2, <1>4, <1>9, SpanSame
<1>11. Span(g, R, v, h.end)
  BY <1>3, <1>4, <1>9, SpanSame
<1>12. Span(g, L \cup P, Start, w)
  BY <1>10, SpanJoin DEF Replaces
<1>13. Span(g, L \cup R \cup P, Start, g.end)
  <2>1. CASE v = h.end
    <3>1. L \cup R \cup P = L \cup P
      BY <1>7, <2>1
    <3> QED BY <1>12, <2>1, <3>1 DEF Replaces
  <2>2. CASE v # h.end
    <3>1. w = v /\ g.end = h.end
      BY <2>2 DEF Replaces
    <3>2. Span(g, (L \cup P) \cup R, Start, h.end)
      BY <1>11, <1>12, <3>1, SpanJoin DEF Replaces
    <3>3. (L \cup P) \cup R = L \cup R \cup P
      OBVIOUS
    <3> QED BY <3>1, <3>2, <3>3
  <2> QED BY <2>1, <2>2
<1>14. Start < g.end
  BY <1>0 DEF Replaces
<1>15. Tiling(g, Kept(B, u, v) \cup P)
  BY <1>0, <1>4, <1>13, <1>14, TilingIsSpan DEF Replaces
<1>16. ASSUME NEW a \in L \cup R
       PROVE  /\ ~IsHole(g, a) => Named(g, a)
              /\ a + SizeOf(g, a) # g.end => HasFooter(g, Footer(g, a))
  <2> DEFINE t == a + SizeOf(h, a) - 2
  <2>1. SameHeader(h, g, a)
    BY <1>4, <1>9
  <2>2. SizeOf(h, a) >= 5 /\ SizeOf(h, a) \in Nat /\ a \in Nat /\ a + SizeOf(h, a) <= h.end
    BY <1>0 DEF Tiling
  <2>3. t \in Nat /\ (t + 2 <= u \/ t >= z)
    BY <1>0, <1>5, <1>6, <1>7, <2>2
  <2>4. SameFooter(h, g, t)
    BY <1>6, <2>3 DEF Same
  <2>5. /\ ~IsHole(h, a) => HasFooter(h, t) /\ h.ftr[t] = a
        /\ a + SizeOf(h, a) # h.end => HasFooter(h, t)
    BY DEF Footed, Named, Footer
  <2>6. a + SizeOf(h, a) = h.end => a + SizeOf(h, a) = g.end \/ ~IsHole(h, a)
    <3>1. CASE v # h.end
      BY <3>1 DEF Replaces
    <3>2. CASE v = h.end
      <4>1. a + SizeOf(h, a) <= u
        BY <1>5, <1>7, <3>2
      <4>2. a + SizeOf(h, a) = h.end => u = h.end
        BY <1>0, <2>2, <3>2, <4>1
      <4> QED BY <4>2 DEF Replaces
    <3> QED BY <3>1, <3>2
  <2> QED BY <2>1, <2>4, <2>5, <2>6 DEF SameHeader, SameFooter, Named, Footer
<1>17. Footed(g, P)
  BY DEF Replaces
<1>18. Footed(g, Kept(B, u, v) \cup P)
  BY <1>4, <1>16, <1>17 DEF Footed
<1> QED BY <1>0, <1>9, <1>15, <1>18

-----------------------------------------------------------------------------
(* What a call has to see to besides: that no two holes meet, that the     *)
(* index has the holes, and that the callers have the other blocks.        *)
KeepsApart(h, B, g, P, u, v, w) ==
  /\ u \in P /\ IsHole(g, u) => \A a \in B : a + SizeOf(h, a) = u => ~IsHole(h, a)
  /\ \A a \in P : IsHole(g, a) =>
       /\ a + SizeOf(g, a) \in P => ~IsHole(g, a + SizeOf(g, a))
       /\ a + SizeOf(g, a) = v /\ w = v /\ v \in B => ~IsHole(h, v)

Reindexes(h, B, g, P, u, v) ==
  /\ g.index \in Seq(Nat) /\ Distinct(g.index)
  /\ ToSet(g.index) = {a \in Kept(B, u, v) : IsHole(h, a)} \cup {a \in P : IsHole(g, a)}

HandsOut(B, g, P, u, v, held, held2) ==
  /\ \A a \in P : ~IsHole(g, a) => a + HeaderSize \in DOMAIN held2
  /\ \A p \in DOMAIN held2 :
       \/ /\ p \in Nat /\ held2[p] \in Sizes
          /\ BlockOf(p) \in P /\ ~IsHole(g, BlockOf(p))
          /\ SizeOf(g, BlockOf(p)) >= held2[p] + Overhead
       \/ p \in DOMAIN held /\ BlockOf(p) \in Kept(B, u, v) /\ held2[p] = held[p]
  /\ \A p \in DOMAIN held : BlockOf(p) \in Kept(B, u, v) => p \in DOMAIN held2

(* And a heap as it should be, if index and callers go along.              *)
LEMMA Rebuilt ==
  ASSUME NEW h, NEW B, NEW held, h.end \in Nat, HeapOK(h, B, held),
         NEW g, NEW P, NEW u, NEW v, NEW w, NEW held2,
         Replaces(h, B, g, P, u, v, w), KeepsApart(h, B, g, P, u, v, w),
         Reindexes(h, B, g, P, u, v), HandsOut(B, g, P, u, v, held, held2)
  PROVE  HeapOK(g, Kept(B, u, v) \cup P, held2)
<1> DEFINE K == Kept(B, u, v)
<1>1. /\ Tiling(g, K \cup P) /\ Footed(g, K \cup P)
      /\ \A a \in K : SameHeader(h, g, a)
  BY Retiled DEF HeapOK
<1>2. /\ K = {a \in B : a < u \/ a >= v} /\ B \subseteq Nat /\ P \subseteq Nat
      /\ u \in Nat /\ v \in Nat /\ w \in Nat /\ u <= v /\ u < w
      /\ \A a \in P : u <= a /\ a < w /\ SizeOf(g, a) \in Nat
                      /\ a + SizeOf(g, a) \in P \cup {w}
  <2>1. Typed(g) /\ Span(g, P, u, w)
    BY DEF Replaces
  <2>2. \A a \in P : SizeOf(g, a) \in Nat
    BY <2>1, SizeNat
  <2>3. \A a \in P : a < w
    BY <2>1, <2>2 DEF Span
  <2> QED BY <2>1, <2>2, <2>3 DEF Kept, Replaces, HeapOK, Tiling, Span
<1>3. Indexed(g, K \cup P)
  <2>1. {a \in K \cup P : IsHole(g, a)} = {a \in K : IsHole(h, a)} \cup {a \in P : IsHole(g, a)}
    BY <1>1 DEF SameHeader
  <2> QED BY <2>1 DEF Indexed, Reindexes
<1>4. United(g, K \cup P)
  <2> SUFFICES ASSUME NEW a \in K \cup P, IsHole(g, a), a + SizeOf(g, a) \in K \cup P
               PROVE  ~IsHole(g, a + SizeOf(g, a))
    BY DEF United
  <2>1. CASE a \in P /\ a + SizeOf(g, a) \in P
    BY <2>1 DEF KeepsApart
  <2>2. CASE a \in P /\ a + SizeOf(g, a) \notin P
    <3>1. a + SizeOf(g, a) = w
      BY <1>2, <2>2
    <3>2. w \in B /\ w >= v
      BY <1>2, <2>2, <3>1
    <3>3. v # h.end
      <4>1. \A b \in B : b < h.end
        BY SizeNat DEF HeapOK, Tiling
      <4> QED BY <1>2, <3>2, <4>1
    <3>4. w = v
      BY <3>3 DEF Replaces
    <3>5. ~IsHole(h, v)
      BY <2>2, <3>1, <3>2, <3>4 DEF KeepsApart
    <3>6. v \in K
      BY <1>2, <3>2, <3>4
    <3> QED BY <1>1, <3>1, <3>4, <3>5, <3>6 DEF SameHeader
  <2>3. CASE a \in K
    <3>1. IsHole(h, a) /\ SizeOf(g, a) = SizeOf(h, a) /\ a \in B
      BY <1>1, <1>2, <2>3 DEF SameHeader
    <3>2. CASE a + SizeOf(h, a) \in K
      BY <1>1, <1>2, <3>1, <3>2 DEF SameHeader, HeapOK, United
    <3>3. CASE a + SizeOf(h, a) \in P
      <4>0. SizeOf(h, a) \in Nat /\ a \in Nat
        BY <1>2, <3>1, SizeNat DEF HeapOK
      <4>1. a < u
        <5> SUFFICES ASSUME a >= v PROVE FALSE
          BY <1>2, <2>3
        <5>1. v # h.end
          <6>1. a < h.end
            BY <3>1, SizeNat DEF HeapOK, Tiling
          <6> QED BY <1>2, <4>0, <6>1
        <5>2. w = v
          BY <5>1 DEF Replaces
        <5> QED BY <1>2, <3>3, <4>0, <5>2
      <4>2. a + SizeOf(h, a) <= u
        <5>1. u \in B \cup {h.end}
          BY DEF Replaces
        <5> QED BY <3>1, <4>1, <5>1 DEF HeapOK, Tiling
      <4>3. a + SizeOf(h, a) = u
        BY <1>2, <3>3, <4>0, <4>2
      <4> QED BY <3>1, <3>3, <4>3 DEF KeepsApart
    <3> QED BY <3>1, <3>2, <3>3
  <2> QED BY <2>1, <2>2, <2>3
<1>5. Owned(g, K \cup P, held2)
  <2>1. ASSUME NEW a \in K \cup P, ~IsHole(g, a) PROVE a + HeaderSize \in DOMAIN held2
    <3>1. CASE a \in P
      BY <2>1, <3>1 DEF HandsOut
    <3>2. CASE a \in K
      <4>1. ~IsHole(h, a) /\ a \in B /\ a \in Nat
        BY <1>1, <1>2, <2>1, <3>2 DEF SameHeader
      <4>2. a + HeaderSize \in DOMAIN held
        BY <4>1 DEF HeapOK, Owned
      <4>3. BlockOf(a + HeaderSize) = a
        BY <4>1 DEF BlockOf
      <4> QED BY <3>2, <4>2, <4>3 DEF HandsOut
    <3> QED BY <3>1, <3>2
  <2>2. ASSUME NEW p \in DOMAIN held2
        PROVE  /\ p \in Nat /\ held2[p] \in Sizes
               /\ BlockOf(p) \in K \cup P /\ ~IsHole(g, BlockOf(p))
               /\ SizeOf(g, BlockOf(p)) >= held2[p] + Overhead
    <3>1. CASE BlockOf(p) \in K /\ p \in DOMAIN held /\ held2[p] = held[p]
      BY <1>1, <3>1 DEF SameHeader, HeapOK, Owned
    <3> QED BY <3>1 DEF HandsOut
  <2> QED BY <2>1, <2>2 DEF Owned
<1>6. NoneBefore(g)
  <2>1. PICK z \in Nat : Same(h, g, u, z)
    BY DEF Replaces
  <2>2. Start \in Nat /\ Start <= u /\ u \in Nat
    <3>1. Start \in Nat /\ Start < h.end /\ \A a \in B : Start <= a
      BY TilingIsSpan DEF HeapOK, Tiling
    <3> QED BY <1>2, <3>1 DEF Replaces
  <2>3. CASE Start >= 2
    <3>1. Start - 2 \in Nat /\ (Start - 2) + 2 <= u
      BY <2>2, <2>3
    <3>2. SameFooter(h, g, Start - 2)
      BY <2>1, <3>1 DEF Same
    <3> QED BY <3>2 DEF SameFooter, HeapOK, NoneBefore
  <2>4. CASE Start < 2
    <3>1. Start - 2 \notin Nat
      BY <2>2, <2>4
    <3> QED BY <3>1 DEF NoneBefore, HasFooter, Replaces, Typed
  <2> QED BY <2>2, <2>3, <2>4
<1> QED BY <1>1, <1>3, <1>4, <1>5, <1>6 DEF HeapOK, Replaces

(* A block: header and footer.                                             *)
WriteBlock(h, x, b, s) == PutFooter(PutHeader(h, x, b, s), x + s - FooterSize, x)

(* g is h with a block of s words at x.                                    *)
Written(h, g, x, b, s) ==
  /\ Typed(g) /\ Same(h, g, x, x + s)
  /\ g.index = h.index /\ g.end = h.end
  /\ IsHeader(g, x) /\ SizeOf(g, x) = s /\ g.hdr[x].hole = b
  /\ Named(g, x)

(* A block is written, header and footer (alloc, expand).                  *)
LEMMA BlockWritten ==
  ASSUME NEW h, Typed(h), NEW x \in Nat, NEW b \in BOOLEAN, NEW s \in Nat,
         s >= Overhead, s < WordModulus
  PROVE  Written(h, WriteBlock(h, x, b, s), x, b, s)
<1> DEFINE k == PutHeader(h, x, b, s)
           t == x + s - 2
           g == PutFooter(k, t, x)
<1>0. t \in Nat /\ x + 3 <= t /\ t + 2 = x + s /\ s \in 0..(WordModulus - 1)
  BY HeapAssumption
<1>1. /\ Typed(k) /\ Same(h, k, x, x + 3) /\ k.index = h.index /\ k.end = h.end
      /\ IsHeader(k, x) /\ SizeOf(k, x) = s /\ k.hdr[x].hole = b
  BY <1>0, PutHeaderParts
<1>2. WriteBlock(h, x, b, s) = g
  BY DEF WriteBlock
<1> HIDE DEF k, t, g
<1>3. /\ Typed(g) /\ Same(k, g, t, t + 2) /\ g.index = k.index /\ g.end = k.end
      /\ HasFooter(g, t) /\ g.ftr[t] = x
  <2>1. Typed(k) /\ t \in Nat /\ x \in Nat
    BY <1>0, <1>1
  <2>2. FooterPut(k, PutFooter(k, t, x), t, x)
    BY <2>1, FooterWritten
  <2>3. FooterPut(k, g, t, x)
    BY <2>2 DEF g
  <2> QED BY <2>3 DEF FooterPut
<1>4. SameHeader(k, g, x)
  BY <1>0, <1>3 DEF Same
<1>5. Same(h, k, x, x + s)
  BY <1>0, <1>1, SameWider
<1>6. Same(k, g, x, x + s)
  BY <1>0, <1>3, SameWider
<1>7. Same(h, g, x, x + s)
  BY <1>5, <1>6, SameTwice
<1>8. Named(g, x)
  BY <1>1, <1>3, <1>4 DEF SameHeader, Named, Footer, t
<1>9. Written(h, g, x, b, s)
  BY <1>1, <1>3, <1>4, <1>7, <1>8 DEF SameHeader, Written
<1> QED BY <1>2, <1>9

(* A header gets another size, and the block its footer.                   *)
Resize(h, x, s) == PutFooter(SetSize(h, x, s), x + s - FooterSize, x)

(* A block gets another size and a footer there (expand, contract).        *)
LEMMA BlockResized ==
  ASSUME NEW h, Typed(h), NEW x \in Nat, IsHeader(h, x), NEW s \in Nat,
         s >= Overhead, s < WordModulus
  PROVE  LET g == Resize(h, x, s) IN
         /\ Typed(g) /\ Same(h, g, x, x + s)
         /\ g.index = h.index /\ g.end = h.end
         /\ IsHeader(g, x) /\ SizeOf(g, x) = s /\ (IsHole(g, x) <=> IsHole(h, x))
         /\ Named(g, x)
<1> DEFINE k == SetSize(h, x, s)
           t == x + s - 2
           g == PutFooter(k, t, x)
<1>0. t \in Nat /\ x + 3 <= t /\ t + 2 = x + s /\ s \in 0..(WordModulus - 1)
  BY HeapAssumption
<1>1. /\ Typed(k) /\ Same(h, k, x, x + 3) /\ k.index = h.index /\ k.end = h.end
      /\ IsHeader(k, x) /\ SizeOf(k, x) = s /\ (IsHole(k, x) <=> IsHole(h, x))
  BY <1>0, SetSizeParts
<1>2. Resize(h, x, s) = g
  BY DEF Resize
<1> HIDE DEF k, t, g
<1>3. /\ Typed(g) /\ Same(k, g, t, t + 2) /\ g.index = k.index /\ g.end = k.end
      /\ HasFooter(g, t) /\ g.ftr[t] = x
  <2>1. Typed(k) /\ t \in Nat /\ x \in Nat
    BY <1>0, <1>1
  <2>2. FooterPut(k, PutFooter(k, t, x), t, x)
    BY <2>1, FooterWritten
  <2>3. FooterPut(k, g, t, x)
    BY <2>2 DEF g
  <2> QED BY <2>3 DEF FooterPut
<1>4. SameHeader(k, g, x)
  BY <1>0, <1>3 DEF Same
<1>5. Same(h, k, x, x + s)
  BY <1>0, <1>1, SameWider
<1>6. Same(k, g, x, x + s)
  BY <1>0, <1>3, SameWider
<1>7. Same(h, g, x, x + s)
  BY <1>5, <1>6, SameTwice
<1>8. Named(g, x)
  BY <1>1, <1>3, <1>4 DEF SameHeader, Named, Footer, t
<1>9. /\ Typed(g) /\ Same(h, g, x, x + s)
      /\ g.index = h.index /\ g.end = h.end
      /\ IsHeader(g, x) /\ SizeOf(g, x) = s /\ (IsHole(g, x) <=> IsHole(h, x))
      /\ Named(g, x)
  BY <1>1, <1>3, <1>4, <1>7, <1>8 DEF SameHeader
<1> QED BY <1>2, <1>9

(* The end of the heap alone.                                              *)
LEMMA EndMoved ==
  ASSUME NEW h, Typed(h), NEW e \in Nat, NEW g, g = [h EXCEPT !.end = e]
  PROVE  /\ Typed(g) /\ \A u, v \in Nat : Same(h, g, u, v)
         /\ g.hdr = h.hdr /\ g.ftr = h.ftr /\ g.index = h.index /\ g.end = e
<1>1. g = [hdr |-> h.hdr, ftr |-> h.ftr, index |-> h.index, end |-> e]
  BY DEF Typed
<1>2. Typed(g) /\ \A u, v \in Nat : Same(h, g, u, v)
  BY <1>1 DEF Typed, Same, SameHeader, SameFooter, IsHeader, IsHole, SizeOf, HasFooter
<1> QED BY <1>1, <1>2

(* Max of a bounded set of numbers is the greatest of them.                *)
LEMMA GreatestIs ==
  ASSUME NEW T, T \subseteq Nat, T # {}, NEW N \in Nat, \A x \in T : x <= N
  PROVE  Max(T) \in T /\ \A x \in T : x <= Max(T)
<1> DEFINE U == {N - x : x \in T}
<1>1. U \subseteq Nat /\ U # {}
  <2>1. \A x \in T : N - x \in Nat
    OBVIOUS
  <2> QED BY <2>1
<1>2. PICK m \in U : \A k \in U : m <= k
  BY <1>1, LeastNumber
<1>3. PICK x \in T : m = N - x
  OBVIOUS
<1>4. ASSUME NEW y \in T PROVE x >= y
  <2>1. m <= N - y
    BY <1>2
  <2>2. x \in Nat /\ y \in Nat
    OBVIOUS
  <2> QED BY <1>3, <2>1, <2>2
<1>5. Max(T) \in T /\ \A y \in T : Max(T) >= y
  BY <1>4 DEF Max
<1> QED BY <1>5

-----------------------------------------------------------------------------
(* expand and the new room                                                 *)
Grown(h, e) == AddRoom([h EXCEPT !.end = e], h.end, e - h.end)

HoleAtEnd(h) ==
  h.index # << >> => Max(ToSet(h.index)) + SizeOf(h, Max(ToSet(h.index))) = h.end

(* The hole a ends the heap g and has the room g has more than h: it was   *)
(* the last hole of h, or h had none.                                      *)
TakesRoom(h, g, a) ==
  /\ a \in ToSet(g.index) /\ a + SizeOf(g, a) = g.end
  /\ SizeOf(g, a) >= g.end - h.end
  /\ h.index # << >> =>
       a = Max(ToSet(h.index)) /\ SizeOf(g, a) = SizeOf(h, a) + (g.end - h.end)

(* expand keeps the heap as it should be and makes a hole that large.      *)
LEMMA GrowOK ==
  ASSUME NEW h, NEW B, NEW held, h.end \in Nat, HeapOK(h, B, held),
         NEW e \in Nat, e >= h.end + Overhead, e < WordModulus, HoleAtEnd(h)
  PROVE  /\ \E C : HeapOK(Grown(h, e), C, held)
         /\ Grown(h, e).end = e
         /\ \E a \in Nat : TakesRoom(h, Grown(h, e), a)
<1> DEFINE k == [h EXCEPT !.end = e]
           room == e - h.end
           g == Grown(h, e)
<1>0. /\ Typed(h) /\ Tiling(h, B) /\ Footed(h, B) /\ Indexed(h, B) /\ United(h, B) /\ Owned(h, B, held)
      /\ B \subseteq Nat /\ Start \in Nat /\ Start < h.end
      /\ room \in Nat /\ room >= 5 /\ room < WordModulus /\ h.end + room = e
      /\ \A a \in B : SizeOf(h, a) \in Nat /\ SizeOf(h, a) >= 5 /\ a + SizeOf(h, a) <= h.end
      /\ \A p \in DOMAIN held : BlockOf(p) \in B
      /\ \A a \in B : a \in Nat /\ a < h.end /\ a <= h.end
  <2>1. Typed(h) /\ Tiling(h, B) /\ Footed(h, B) /\ Indexed(h, B) /\ United(h, B) /\ Owned(h, B, held)
    BY DEF HeapOK
  <2>2. Start < h.end
    BY <2>1, TilingIsSpan
  <2>3. B \subseteq Nat /\ Start \in Nat /\ \A a \in B : SizeOf(h, a) \in Nat
    BY <2>1, SizeNat DEF Tiling
  <2>4. \A a \in B : SizeOf(h, a) >= 5 /\ a + SizeOf(h, a) <= h.end
    BY <2>1 DEF Tiling
  <2>5. room \in Nat /\ room >= 5 /\ room < WordModulus /\ h.end + room = e
    BY HeapAssumption
  <2>6. \A p \in DOMAIN held : BlockOf(p) \in B
    BY <2>1 DEF Owned
  <2>7. \A a \in B : a \in Nat /\ a < h.end /\ a <= h.end
    BY <2>3, <2>4
  <2> HIDE DEF room
  <2> QED BY <2>1, <2>2, <2>3, <2>4, <2>5, <2>6, <2>7
<1>1. /\ Typed(k) /\ (\A u, v \in Nat : Same(h, k, u, v))
      /\ k.index = h.index /\ k.end = e
  BY <1>0, EndMoved
<1> HIDE DEF k, room, g
<1>2. CASE h.index = << >>
  <2> DEFINE n == WriteBlock(k, h.end, TRUE, room)
             P == {h.end}
  <2>1. g = InsertHole(n, h.end)
    BY <1>1, <1>2 DEF AddRoom, k, room, g, Grown, WriteBlock
  <2>2. /\ Typed(n) /\ Same(k, n, h.end, e) /\ n.index = << >> /\ n.end = e
        /\ IsHeader(n, h.end) /\ SizeOf(n, h.end) = room /\ IsHole(n, h.end)
        /\ Named(n, h.end)
    <3>1. Typed(k) /\ h.end \in Nat /\ TRUE \in BOOLEAN /\ room \in Nat /\ room >= Overhead
          /\ room < WordModulus
      BY <1>0, <1>1
    <3>2. Written(k, n, h.end, TRUE, room)
      BY <3>1, BlockWritten
    <3> HIDE DEF n
    <3>3. h.end + room = e /\ n.index = << >> /\ n.end = e
      BY <1>0, <1>1, <1>2, <3>2 DEF Written
    <3> QED BY <3>2, <3>3 DEF IsHole, Written
  <2> HIDE DEF n
  <2>3. n.index \in Seq(Nat) /\ Distinct(n.index) /\ ToSet(n.index) = {}
    BY <2>2 DEF Distinct, ToSet
  <2>4. /\ Typed(g) /\ (\A u, v \in Nat : Same(n, g, u, v)) /\ g.end = e
        /\ g.hdr = n.hdr /\ g.ftr = n.ftr
        /\ g.index \in Seq(Nat) /\ Distinct(g.index) /\ ToSet(g.index) = {h.end}
    <3>1. Typed(n) /\ n.index \in Seq(Nat) /\ Distinct(n.index) /\ h.end \notin ToSet(n.index) /\ n.end = e
      BY <2>2, <2>3
    <3>2. ToSet(n.index) \cup {h.end} = {h.end}
      BY <2>3
    <3>3. LET i == InsertHole(n, h.end) IN
            /\ Typed(i) /\ (\A u, v \in Nat : Same(n, i, u, v)) /\ i.end = n.end
            /\ i.hdr = n.hdr /\ i.ftr = n.ftr
            /\ i.index \in Seq(Nat) /\ Distinct(i.index) /\ ToSet(i.index) = ToSet(n.index) \cup {h.end}
      BY <3>1, InsertHoleParts
    <3> QED BY <2>1, <3>1, <3>2, <3>3
  <2>5. /\ SizeOf(g, h.end) = room /\ IsHole(g, h.end) /\ Named(g, h.end)
    BY <2>2, <2>4 DEF SizeOf, IsHole, IsHeader, HasFooter, Named, Footer
  <2>6. Same(h, g, h.end, e)
    BY <1>0, <1>1, <2>2, <2>4, SameTwice
  <2>7. {a \in B : IsHole(h, a)} = {}
    BY <1>0, <1>2 DEF Indexed, ToSet
  <2>8. Kept(B, h.end, h.end) = B
    BY <1>0 DEF Kept
  <2>9. Replaces(h, B, g, P, h.end, h.end, e)
    <3>1. Span(g, P, h.end, e)
      BY <1>0, <2>5, SpanOne
    <3>2. Footed(g, P)
      BY <2>5 DEF Footed, Named
    <3>3. h.end \in B \cup {h.end} /\ h.end <= h.end /\ h.end < e
      BY <1>0
    <3>4. \A a \in B : ~IsHole(h, a)
      BY <2>7
    <3> QED BY <2>4, <2>6, <3>1, <3>2, <3>3, <3>4 DEF Replaces
  <2>10. KeepsApart(h, B, g, P, h.end, h.end, e)
    BY <1>0, <2>5, <2>7 DEF KeepsApart
  <2>11. Reindexes(h, B, g, P, h.end, h.end)
    BY <2>4, <2>5, <2>7, <2>8 DEF Reindexes
  <2>12. HandsOut(B, g, P, h.end, h.end, held, held)
    BY <1>0, <2>5, <2>8 DEF HandsOut
  <2>13. HeapOK(g, Kept(B, h.end, h.end) \cup P, held)
    BY <2>9, <2>10, <2>11, <2>12, Rebuilt
  <2>14. TakesRoom(h, g, h.end)
    BY <1>0, <1>2, <2>4, <2>5 DEF TakesRoom, room
  <2> QED BY <2>4, <2>13, <2>14 DEF g
<1>3. CASE h.index # << >>
  <2> DEFINE last == Max(ToSet(h.index))
             P == {last}
             size == SizeOf(h, last) + room
  <2>1. last \in B /\ IsHole(h, last) /\ last \in ToSet(h.index)
    <3>1. ToSet(h.index) # {}
      <4>1. h.index \in Seq(Nat) /\ Len(h.index) # 0
        BY <1>0, <1>3, EmptySeq DEF Indexed
      <4>2. 1 \in 1..Len(h.index)
        BY <4>1
      <4>3. h.index[1] \in ToSet(h.index)
        BY <4>1, <4>2, ToSetIs
      <4> QED BY <4>3
    <3>2. ToSet(h.index) \subseteq B
      BY <1>0 DEF Indexed
    <3>3. \A x \in ToSet(h.index) : x <= h.end
      BY <1>0, <3>2
    <3>4. last \in ToSet(h.index)
      BY <1>0, <3>1, <3>2, <3>3, GreatestIs
    <3> QED BY <1>0, <3>4 DEF Indexed
  <2>2. last + SizeOf(h, last) = h.end
    BY <1>3 DEF HoleAtEnd
  <2> HIDE DEF last
  <2>3. SizeOf(k, last) = SizeOf(h, last) /\ IsHeader(k, last) /\ IsHole(k, last) /\ last \in Nat
    <3>1. SameHeader(h, k, last)
      <4>1. Same(h, k, 0, 0) /\ last \in Nat
        BY <1>0, <1>1, <2>1
      <4> QED BY <4>1 DEF Same
    <3> QED BY <1>0, <2>1, <3>1 DEF SameHeader, IsHole
  <2>4. g = Resize(k, last, size)
    BY <1>1, <1>3, <2>3 DEF AddRoom, k, room, g, Grown, last, Resize
  <2>5. size \in Nat /\ size >= 5 /\ size < WordModulus /\ last + size = e
    <3>1. last \in Nat /\ SizeOf(h, last) \in Nat /\ room \in Nat /\ room >= 5 /\ h.end + room = e
      BY <1>0, <2>1
    <3>2. WordModulus \in Nat
      BY HeapAssumption
    <3>3. last + size = e /\ size \in Nat /\ size >= 5
      BY <2>2, <3>1
    <3> HIDE DEF size
    <3> QED BY <3>1, <3>2, <3>3
  <2> HIDE DEF size
  <2>6. /\ Typed(g) /\ Same(k, g, last, e) /\ g.index = h.index /\ g.end = e
        /\ SizeOf(g, last) = size /\ IsHole(g, last)
        /\ Named(g, last)
    BY <1>1, <2>3, <2>4, <2>5, BlockResized
  <2>7. Same(h, g, last, e)
    BY <1>0, <1>1, <2>3, <2>6, SameTwice
  <2>8. ~ (last >= h.end) /\ \A a \in B : a <= last
    <3>1. \A a \in B : last < a => last + SizeOf(h, last) <= a
      BY <1>0, <2>1 DEF Tiling
    <3>2. \A a \in B : a \in Nat /\ a < h.end
      BY <1>0
    <3> QED BY <2>1, <2>2, <3>1, <3>2
  <2>9. Kept(B, last, h.end) = B \ {last}
    <3>1. \A a \in B : a < last \/ a >= h.end <=> a # last
      BY <1>0, <2>1, <2>8
    <3> QED BY <3>1 DEF Kept
  <2>10. Replaces(h, B, g, P, last, h.end, e)
    <3>1. Span(g, P, last, e)
      BY <1>0, <2>3, <2>5, <2>6, SpanOne
    <3>2. Footed(g, P)
      BY <2>6 DEF Footed, Named
    <3>3. last < e /\ last <= h.end /\ last # h.end
      BY <1>0, <2>1, <2>3, <2>5, <2>8
    <3> QED BY <1>0, <2>1, <2>6, <2>7, <3>1, <3>2, <3>3 DEF Replaces
  <2>11. KeepsApart(h, B, g, P, last, h.end, e)
    <3>1. \A a \in B : a + SizeOf(h, a) = last => ~IsHole(h, a)
      BY <1>0, <2>1 DEF United
    <3>2. last + SizeOf(g, last) # last /\ e # h.end
      BY <1>0, <2>3, <2>5, <2>6
    <3> QED BY <3>1, <3>2 DEF KeepsApart
  <2>12. Reindexes(h, B, g, P, last, h.end)
    <3>1. g.index \in Seq(Nat) /\ Distinct(g.index) /\ ToSet(g.index) = {a \in B : IsHole(h, a)}
      BY <1>0, <2>6 DEF Indexed
    <3>2. {a \in B : IsHole(h, a)} = {a \in B \ {last} : IsHole(h, a)} \cup {a \in P : IsHole(g, a)}
      BY <2>1, <2>6
    <3> QED BY <2>9, <3>1, <3>2 DEF Reindexes
  <2>13. HandsOut(B, g, P, last, h.end, held, held)
    BY <1>0, <2>1, <2>6, <2>9 DEF HandsOut, Owned
  <2>14. HeapOK(g, Kept(B, last, h.end) \cup P, held)
    BY <2>10, <2>11, <2>12, <2>13, Rebuilt
  <2>15. TakesRoom(h, g, last)
    <3>1. SizeOf(g, last) = SizeOf(h, last) + room /\ SizeOf(g, last) >= room
      BY <1>0, <2>1, <2>6 DEF size
    <3>2. last \in ToSet(g.index) /\ last + SizeOf(g, last) = g.end /\ room = g.end - h.end
      BY <2>1, <2>5, <2>6 DEF room
    <3> QED BY <3>1, <3>2 DEF TakesRoom, last
  <2> QED BY <2>3, <2>6, <2>14, <2>15 DEF g
<1> QED BY <1>2, <1>3 DEF g

(* A hole that ends the heap is the last one.                              *)
LEMMA LastIs ==
  ASSUME NEW g, NEW C, NEW held, g.end \in Nat, HeapOK(g, C, held),
         NEW a \in ToSet(g.index), a + SizeOf(g, a) = g.end
  PROVE  Max(ToSet(g.index)) = a
<1> DEFINE T == ToSet(g.index)
<1>1. T \subseteq C /\ C \subseteq Nat /\ a \in C
  BY DEF HeapOK, Indexed, Tiling
<1>2. \A c \in C : SizeOf(g, c) >= 5 /\ c + SizeOf(g, c) <= g.end /\ SizeOf(g, c) \in Nat
  BY SizeNat DEF HeapOK, Tiling
<1>3. \A c \in C : a < c => a + SizeOf(g, a) <= c
  BY <1>1 DEF HeapOK, Tiling
<1>4. \A c \in C : c \in Nat /\ c < g.end /\ c <= g.end /\ c <= a
  BY <1>1, <1>2, <1>3
<1> HIDE DEF T
<1>5. Max(T) \in T /\ \A x \in T : x <= Max(T)
  <2>1. a \in T
    BY DEF T
  <2> QED BY <1>1, <1>4, <2>1, GreatestIs
<1>6. a \in T
  BY DEF T
<1>7. Max(T) \in Nat /\ Max(T) <= a /\ a <= Max(T) /\ a \in Nat
  BY <1>1, <1>4, <1>5, <1>6
<1> QED BY <1>7 DEF T

-----------------------------------------------------------------------------
(* Pages                                                                   *)

(* A number is so many pages and a rest.                                   *)
LEMMA DivMod ==
  ASSUME NEW a \in Nat
  PROVE  /\ a \div Page \in Nat /\ a % Page \in Nat /\ a % Page < Page
         /\ a = Page * (a \div Page) + (a % Page)
<1>1. Page \in Nat /\ Page > 0
  BY HeapAssumption
<1> QED BY <1>1

(* The page a number lies in.                                              *)
LEMMA DivIs ==
  ASSUME NEW a \in Nat, NEW k \in Nat, Page * k <= a, a < Page * k + Page
  PROVE  a \div Page = k
<1> DEFINE q == a \div Page
           r == a % Page
<1>1. q \in Nat /\ r \in Nat /\ r < Page /\ a = Page * q + r /\ Page \in Nat /\ Page > 0
  BY DivMod, HeapAssumption
<1> HIDE DEF q, r
<1>2. ~(q < k)
  <2> SUFFICES ASSUME q + 1 <= k PROVE FALSE
    BY <1>1
  <2>1. Page * (q + 1) <= Page * k
    BY <1>1
  <2> QED BY <1>1, <2>1
<1>3. ~(k < q)
  <2> SUFFICES ASSUME k + 1 <= q PROVE FALSE
    BY <1>1
  <2>1. Page * (k + 1) <= Page * q
    BY <1>1
  <2> QED BY <1>1, <2>1
<1>4. q = k
  BY <1>1, <1>2, <1>3
<1> QED BY <1>4 DEF q

(* A page boundary is a multiple of the page.                              *)
LEMMA Multiple ==
  ASSUME NEW a \in Nat
  PROVE  a % Page = 0 <=> \E k \in Nat : a = Page * k
<1>0. Page \in Nat /\ Page > 0
  BY HeapAssumption
<1>1. ASSUME a % Page = 0 PROVE \E k \in Nat : a = Page * k
  <2>1. a \div Page \in Nat /\ a = Page * (a \div Page)
    BY <1>0, <1>1, DivMod
  <2> QED BY <2>1
<1>2. ASSUME NEW k \in Nat, a = Page * k PROVE a % Page = 0
  <2>1. a \div Page = k
    BY <1>0, <1>2, DivIs
  <2>2. a = Page * k + (a % Page) /\ a % Page \in Nat
    BY <2>1, DivMod
  <2> QED BY <1>0, <1>2, <2>2
<1> QED BY <1>1, <1>2

(* The rounding of expand and init_heap leads to a later boundary.         *)
LEMMA NextPageIs ==
  ASSUME NEW a \in Nat, a >= Page
  PROVE  NextPage(a) \in Nat /\ NextPage(a) > a /\ NextPage(a) % Page = 0 /\ NextPage(a) <= a + Page
<1> DEFINE q == a \div Page
           r == a % Page
<1>1. q \in Nat /\ r \in Nat /\ r < Page /\ a = Page * q + r /\ Page \in Nat /\ Page > 0
  BY DivMod, HeapAssumption
<1>2. q > 0
  <2> HIDE DEF q, r
  <2>1. q = 0 => Page * q = 0
    BY <1>1
  <2> QED BY <1>1, <2>1
<1>3. NextPage(a) = (q + 1) * Page
  BY <1>2 DEF NextPage
<1> HIDE DEF q, r
<1>4. (q + 1) * Page = Page * q + Page /\ (q + 1) * Page = Page * (q + 1)
  BY <1>1
<1>5. NextPage(a) \in Nat /\ NextPage(a) > a /\ NextPage(a) <= a + Page
  BY <1>1, <1>3, <1>4
<1>6. NextPage(a) % Page = 0
  BY <1>1, <1>3, <1>4, <1>5, Multiple
<1> QED BY <1>5, <1>6

(* The heap starts on a page boundary.                                     *)
LEMMA StartIs == Start \in Nat /\ Start % Page = 0 /\ Start >= Page
<1>1. VM_KERN_HEAP_START + VM_HEAP_INDEX_SIZE \in Nat /\ VM_KERN_HEAP_START + VM_HEAP_INDEX_SIZE >= Page
      /\ Page \in Nat
  BY HeapAssumption
<1> QED BY <1>1, NextPageIs DEF Start

(* Sums and differences of multiples.                                      *)
LEMMA MultipleSum ==
  ASSUME NEW a \in Nat, NEW b \in Nat, a % Page = 0, b % Page = 0
  PROVE  (a + b) % Page = 0 /\ (a >= b => (a - b) % Page = 0)
<1>0. Page \in Nat /\ Page > 0
  BY HeapAssumption
<1>1. PICK j \in Nat : a = Page * j
  BY Multiple
<1>2. PICK k \in Nat : b = Page * k
  BY Multiple
<1>3. a + b = Page * (j + k) /\ j + k \in Nat /\ a + b \in Nat
  BY <1>0, <1>1, <1>2
<1>4. (a + b) % Page = 0
  BY <1>3, Multiple
<1>5. ASSUME a >= b PROVE (a - b) % Page = 0
  <2>1. j >= k
    <3> SUFFICES ASSUME j + 1 <= k PROVE FALSE
      OBVIOUS
    <3>1. Page * (j + 1) <= Page * k
      BY <1>0
    <3> QED BY <1>0, <1>1, <1>2, <1>5, <3>1
  <2>2. a - b = Page * (j - k) /\ j - k \in Nat /\ a - b \in Nat
    BY <1>0, <1>1, <1>2, <1>5, <2>1
  <2> QED BY <2>2, Multiple
<1> QED BY <1>4, <1>5

-----------------------------------------------------------------------------
(* The pages of the heap                                                   *)

(* The loop of expand covers the pages between the old end and the new.    *)
LEMMA ExpandCovers ==
  ASSUME NEW old \in Nat, NEW new \in Nat, old % Page = 0, new % Page = 0, new > old,
         old > 0, NEW a \in Nat, NEW b \in Nat, a = Start + old, b = Start + new,
         NEW F, PagesOf(Start, a - 1) \subseteq F
  PROVE  /\ PagesOf(Start, b - 1) \subseteq F \cup PagesFrom(old, new)
         /\ PagesFrom(old, new) \subseteq Nat
<1>0. Page \in Nat /\ Page > 0 /\ Start \in Nat /\ Start % Page = 0
  BY HeapAssumption, StartIs
<1>1. (Start + old) % Page = 0 /\ (Start + new) % Page = 0
  BY <1>0, MultipleSum
<1>2. PICK s \in Nat : Start = Page * s
  BY <1>0, Multiple
<1>3. PICK m \in Nat : Start + old = Page * m
  BY <1>0, <1>1, Multiple
<1>4. PICK n \in Nat : Start + new = Page * n
  BY <1>0, <1>1, Multiple
<1>5. ASSUME NEW k \in Nat, k > s PROVE Page * k >= Page * s + Page
  <2>1. k >= s + 1
    BY <1>5
  <2>2. Page * k >= Page * (s + 1)
    BY <1>0, <2>1
  <2> QED BY <1>0, <2>2
<1>6. ASSUME NEW x \in Nat, NEW k \in Nat, x = Page * k, x > 0
      PROVE  (x - 1) \div Page = k - 1 /\ k \in Nat \ {0}
  <2>1. k # 0
    BY <1>0, <1>6
  <2>2. k - 1 \in Nat /\ Page * (k - 1) = Page * k - Page /\ x - 1 \in Nat
    BY <1>0, <1>6, <2>1
  <2>3. Page * (k - 1) <= x - 1 /\ x - 1 < Page * (k - 1) + Page
    BY <1>0, <1>6, <2>2
  <2> QED BY <2>1, <2>2, <2>3, DivIs
<1>7. Start \div Page = s
  BY <1>0, <1>2, DivIs
<1>8. (a - 1) \div Page = m - 1 /\ (b - 1) \div Page = n - 1
  <2>1. a = Page * m /\ a > 0 /\ b = Page * n /\ b > 0
    BY <1>0, <1>3, <1>4
  <2> QED BY <2>1, <1>6
<1>9. ASSUME NEW p \in PagesOf(Start, b - 1) PROVE p \in F \cup PagesFrom(old, new)
  <2>1. p \in Nat /\ p >= s /\ p <= n - 1
    BY <1>7, <1>8 DEF PagesOf
  <2>2. CASE p <= m - 1
    BY <1>7, <1>8, <2>1, <2>2 DEF PagesOf
  <2>3. CASE p >= m
    <3> DEFINE i == Page * p - Start
    <3>1. Page * p >= Page * m /\ Page * p \in Nat /\ Page * n = Page * (n - 1) + Page
          /\ Page * (n - 1) >= Page * p
      BY <1>0, <2>1, <2>3
    <3>2. i \in Nat /\ i >= old /\ i <= new - 1 /\ Start + i = Page * p /\ i - old \in Nat
      BY <1>0, <1>3, <1>4, <3>1
    <3>3. i - old = Page * (p - m) /\ p - m \in Nat
      BY <1>0, <1>3, <2>1, <2>3
    <3> HIDE DEF i
    <3>4. (i - old) % Page = 0
      BY <3>2, <3>3, Multiple
    <3>5. (Start + i) \div Page = p
      BY <1>0, <2>1, <3>2, DivIs
    <3> QED BY <3>2, <3>4, <3>5 DEF PagesFrom
  <2> QED BY <2>1, <2>2, <2>3
<1>10. PagesFrom(old, new) \subseteq Nat
  <2>1. \A i \in old..(new - 1) : Start + i \in Nat
    BY <1>0
  <2>2. \A i \in old..(new - 1) : (Start + i) \div Page \in Nat
    BY <2>1, DivMod
  <2> QED BY <2>2 DEF PagesFrom
<1> QED BY <1>9, <1>10

(* Callers ask for lengths an address can count.                           *)
Modest == \A n \in Sizes : n + Overhead < WordModulus

(* The length of a block does not wrap.                                    *)
LEMMA NeedIs ==
  ASSUME Modest, NEW r, r.size \in Sizes
  PROVE  r.size \in Nat /\ Need(r) = r.size + Overhead
<1> DEFINE n == r.size
<1>1. n \in Nat /\ n + 5 < WordModulus /\ WordModulus \in Nat
  <2> HIDE DEF n
  <2>1. n \in Sizes
    BY DEF n
  <2> QED BY <2>1, HeapAssumption DEF Modest
<1>2. r.size + 5 \in Nat
  BY <1>1
<1> QED BY <1>1, <1>2 DEF Need, Wrap

(* The blocks of a heap in order are those its headers lead to.            *)
LEMMA BlocksFound ==
  ASSUME NEW h, NEW B, NEW held, h.end \in Nat, HeapOK(h, B, held)
  PROVE  BlocksIn(h) = B
  BY BlocksAre DEF HeapOK

OldLength(h)    == h.end - Start
NewLength(h, r) == NextPage(OldLength(h) + Need(r))
NewEnd(h, r)    == Start + NewLength(h, r)

(* Lengths and ends of the heap before and after it expands for r.         *)
Expands(h, r) ==
  LET old == OldLength(h)
      new == NewLength(h, r)
      e   == NewEnd(h, r)
  IN /\ old \in Nat /\ old % Page = 0 /\ new \in Nat /\ new % Page = 0 /\ new > old
     /\ e \in (Start + VM_HEAP_MIN_SIZE)..HeapMax /\ e % Page = 0
     /\ Grown(h, e).end = e /\ e - h.end = new - old

(* expand makes a hole that has room for the request r, and leaves the end *)
(* of the heap on a page boundary.                                         *)
LEMMA GrowFits ==
  ASSUME Modest, NEW h, NEW B, NEW held, HeapOK(h, B, held), HoleAtEnd(h),
         h.end \in (Start + VM_HEAP_MIN_SIZE)..HeapMax, h.end % Page = 0,
         NEW r, r.size \in Sizes, ~(NewEnd(h, r) > HeapMax)
  PROVE  /\ Expands(h, r)
         /\ \E C : HeapOK(Grown(h, NewEnd(h, r)), C, held)
         /\ FindHole(Grown(h, NewEnd(h, r)), Need(r), FALSE) # 0
         /\ \E a \in Nat : TakesRoom(h, Grown(h, NewEnd(h, r)), a)
         /\ NewEnd(h, r) - h.end >= Need(r) /\ NewEnd(h, r) - h.end >= Page
<1> DEFINE old == OldLength(h)
           new == NewLength(h, r)
           e == NewEnd(h, r)
<1>d. old = h.end - Start /\ new = NextPage(old + Need(r)) /\ e = Start + new /\ ~(e > HeapMax)
  BY DEF OldLength, NewLength, NewEnd
<1> HIDE DEF old, new, e
<1>0. /\ Page \in Nat /\ Page > 0 /\ Start \in Nat /\ Start % Page = 0
      /\ VM_HEAP_MIN_SIZE \in Nat /\ VM_HEAP_MIN_SIZE >= 2 * Page
      /\ HeapMax \in Nat /\ WordModulus \in Nat /\ HeapMax < WordModulus
  BY HeapAssumption, StartIs
<1>1. h.end \in Nat /\ h.end >= Start + VM_HEAP_MIN_SIZE /\ h.end <= HeapMax
  BY <1>0
<1>2. r.size \in Nat /\ Need(r) = r.size + 5
  BY NeedIs
<1>3. old \in Nat /\ old > 0 /\ old >= Page /\ old % Page = 0 /\ Start + old = h.end
  <2>1. old \in Nat /\ old > 0 /\ old >= Page /\ Start + old = h.end
    BY <1>0, <1>1, <1>d
  <2>2. (h.end - Start) % Page = 0
    <3>1. h.end \in Nat /\ Start \in Nat /\ h.end % Page = 0 /\ Start % Page = 0 /\ h.end >= Start
      BY <1>0, <1>1
    <3> QED BY <3>1, MultipleSum
  <2> QED BY <1>d, <2>1, <2>2
<1>4. new \in Nat /\ new % Page = 0 /\ new > old + r.size + 5
  <2>1. old + Need(r) \in Nat /\ old + Need(r) >= Page
    BY <1>0, <1>2, <1>3
  <2> QED BY <1>2, <1>3, <1>d, <2>1, NextPageIs
<1>5. /\ e \in Nat /\ e <= HeapMax /\ e < WordModulus /\ e >= h.end + 5 /\ e - h.end = new - old
      /\ e - h.end >= r.size + 5 /\ e >= Start + VM_HEAP_MIN_SIZE
  <2>1. e \in Nat /\ e <= HeapMax
    BY <1>0, <1>4, <1>d
  <2>2. e - h.end = new - old
    BY <1>0, <1>1, <1>3, <1>4, <1>d
  <2>3. e >= Start + VM_HEAP_MIN_SIZE /\ e - h.end >= r.size + 5
    BY <1>0, <1>1, <1>2, <1>3, <1>4, <2>1, <2>2
  <2> QED BY <1>0, <1>1, <1>2, <2>1, <2>2, <2>3
<1>6. e % Page = 0
  BY <1>0, <1>4, <1>d, MultipleSum
<1>7. PICK C : HeapOK(Grown(h, e), C, held)
  BY <1>1, <1>5, GrowOK
<1>8. Grown(h, e).end = e
  BY <1>1, <1>5, GrowOK
<1>9. PICK a \in Nat : TakesRoom(h, Grown(h, e), a)
  BY <1>1, <1>5, GrowOK
<1>10. FindHole(Grown(h, e), Need(r), FALSE) # 0
  <2> DEFINE g == Grown(h, e)
  <2>1. g.index \in Seq(Nat)
    BY <1>7 DEF HeapOK, Indexed
  <2>2. SizeOf(g, a) \in Nat
    BY <1>7, SizeNat DEF HeapOK
  <2>3. SizeOf(g, a) >= Need(r)
    BY <1>1, <1>2, <1>5, <1>8, <1>9, <2>2 DEF TakesRoom
  <2> HIDE DEF g
  <2>4. PICK i \in 1..Len(g.index) : g.index[i] = a
    BY <1>9, <2>1, ToSetIs DEF g, TakesRoom
  <2>5. Fits(g, g.index[i], Need(r), FALSE)
    BY <2>3, <2>4 DEF Fits
  <2> QED BY <2>1, <2>5, FindsFit DEF g
<1>11. e \in (Start + VM_HEAP_MIN_SIZE)..HeapMax
  BY <1>0, <1>5
<1>12. new > old
  BY <1>2, <1>3, <1>4
<1>13. Expands(h, r)
  BY <1>3, <1>4, <1>5, <1>6, <1>8, <1>11, <1>12 DEF Expands, old, new, e
<1>14. new - old >= Page
  <2>1. PICK i \in Nat : new = Page * i
    BY <1>4, Multiple
  <2>2. PICK j \in Nat : old = Page * j
    BY <1>3, Multiple
  <2>3. i >= j + 1
    <3>1. i <= j => Page * i <= Page * j
      BY <1>0
    <3> QED BY <1>3, <1>4, <1>12, <2>1, <2>2, <3>1
  <2>4. Page * i >= Page * j + Page
    BY <1>0, <2>3
  <2>5. new >= old + Page
    BY <2>1, <2>2, <2>4
  <2> QED BY <1>0, <1>3, <1>4, <2>5
<1>15. e - h.end >= Need(r) /\ e - h.end >= Page
  BY <1>0, <1>2, <1>5, <1>14
<1> QED BY <1>7, <1>9, <1>10, <1>13, <1>15 DEF e

(* A hole a page longer than a block holds it on a page boundary.          *)
LEMMA AlignedFits ==
  ASSUME NEW g, NEW C, NEW held, HeapOK(g, C, held), NEW a \in ToSet(g.index),
         NEW need \in Nat, SizeOf(g, a) >= need + Page
  PROVE  FindHole(g, need, TRUE) # 0
<1>1. g.index \in Seq(Nat) /\ a \in Nat /\ SizeOf(g, a) \in Nat
  BY SizeNat DEF HeapOK, Indexed, Tiling
<1>2. Page \in Nat /\ Page > 0
  BY HeapAssumption
<1>3. (a + 3) % Page \in Nat
  BY <1>1, <1>2
<1>4. AlignOffset(a) \in Int /\ AlignOffset(a) <= Page
  BY <1>2, <1>3 DEF AlignOffset
<1>5. Fits(g, a, need, TRUE)
  BY <1>1, <1>2, <1>4 DEF Fits
<1>6. PICK i \in 1..Len(g.index) : g.index[i] = a
  BY <1>1, ToSetIs
<1> QED BY <1>1, <1>5, <1>6, FindsFit

(* A step that leaves heap and request alone.                              *)
LEMMA SameRequest ==
  ASSUME RequestInv, heap' = heap, request' = request
  PROVE  RequestInv'
<1>1. HeapAtLast' = HeapAtLast
  BY DEF HeapAtLast, Ready, HasFit, Expanded
<1>2. Found' = Found /\ GrowsAtEnd' = GrowsAtEnd
  BY DEF Found, GrowsAtEnd
<1>3. LastHolds(request)' = LastHolds(request) /\ IsAligned(request)' = IsAligned(request)
  BY DEF LastHolds, IsAligned
<1>4. LeavesHoles(HeapAtLast, request)' = LeavesHoles(HeapAtLast, request)
  BY <1>1 DEF LeavesHoles
<1> QED BY <1>2, <1>3, <1>4 DEF RequestInv

(* expand keeps the invariant: alloc tries again and finds room, at the    *)
(* third turn at the latest.                                               *)
LEMMA GrowKeeps ==
  ASSUME Modest, HeapInvariant, AllocGrow
  PROVE  HeapInvariant'
<1> DEFINE old == OldLength(heap)
           new == NewLength(heap, request)
           e == NewEnd(heap, request)
<1>d. old = heap.end - Start /\ new = NextPage(old + Need(request)) /\ e = Start + new
  BY DEF OldLength, NewLength, NewEnd
<1> HIDE DEF old, new, e
<1>1. /\ HeapOK(heap, Blocks, live) /\ heap.end \in Nat
      /\ heap.end \in (Start + VM_HEAP_MIN_SIZE)..HeapMax
      /\ heap.end % Page = 0 /\ PagesOf(Start, heap.end - 1) \subseteq framed
      /\ framed \subseteq present /\ framed \subseteq Nat /\ panic \in BOOLEAN
  BY StartIs, HeapAssumption DEF HeapInvariant, EndInv, EndOnPage, Backed
<1>2. /\ request.size \in Sizes /\ request.flags \in Flags
      /\ request = [size |-> request.size, flags |-> request.flags, turn |-> request.turn]
      /\ GrowsAtEnd /\ Found = 0
      /\ request.turn = 1 \/ (request.turn = 2 /\ IsAligned(request) /\ LastHolds(request))
      /\ IsAligned(request) => LeavesHoles(HeapAtLast, request)
  BY DEF HeapInvariant, RequestInv, AllocGrow
<1>3. CASE e > HeapMax
  <2>1. panic' = TRUE /\ UNCHANGED <<heap, framed, present, request, live>>
    BY <1>3, <1>d DEF AllocGrow, Panic
  <2>2. RequestInv'
    BY <2>1, SameRequest DEF HeapInvariant
  <2>3. Blocks' = Blocks /\ EndInv'
    BY <2>1 DEF HeapInvariant, EndInv, EndOnPage, Backed, Blocks
  <2> QED BY <2>1, <2>2, <2>3 DEF HeapInvariant
<1>4. CASE ~(e > HeapMax)
  <2>1. /\ framed' = framed \cup PagesFrom(old, new) /\ present' = present \cup PagesFrom(old, new)
        /\ heap' = AddRoom([heap EXCEPT !.end = e], heap.end, new - old)
        /\ request' = [request EXCEPT !.turn = @ + 1] /\ UNCHANGED <<panic, live>>
    BY <1>4, <1>d DEF AllocGrow
  <2>2. HoleAtEnd(heap)
    BY <1>2 DEF GrowsAtEnd, HoleAtEnd
  <2>3. /\ HeapOK(heap, Blocks, live) /\ HoleAtEnd(heap)
        /\ heap.end \in (Start + VM_HEAP_MIN_SIZE)..HeapMax /\ heap.end % Page = 0
        /\ request.size \in Sizes /\ ~(NewEnd(heap, request) > HeapMax)
    BY <1>1, <1>2, <1>4, <2>2 DEF e
  <2>4. /\ Expands(heap, request)
        /\ (\E C : HeapOK(Grown(heap, e), C, live))
        /\ FindHole(Grown(heap, e), Need(request), FALSE) # 0
        /\ (\E a \in Nat : TakesRoom(heap, Grown(heap, e), a))
        /\ e - heap.end >= Need(request) /\ e - heap.end >= Page
    BY <2>3, GrowFits DEF e
  <2>5. /\ old \in Nat /\ old % Page = 0 /\ new \in Nat /\ new % Page = 0 /\ new > old
        /\ e \in (Start + VM_HEAP_MIN_SIZE)..HeapMax /\ e % Page = 0
        /\ Grown(heap, e).end = e /\ e - heap.end = new - old
    BY <2>4 DEF Expands, old, new, e
  <2>6. heap' = Grown(heap, e)
    BY <2>1, <2>5 DEF Grown
  <2>7. HeapOK(heap', Blocks', live')
    <3>1. PICK C : HeapOK(heap', C, live')
      BY <2>1, <2>4, <2>6
    <3>2. heap'.end \in Nat
      <4>1. e \in Nat
        BY <2>5, StartIs, HeapAssumption
      <4> QED BY <2>5, <2>6, <4>1
    <3> QED BY <3>1, <3>2, BlocksFound DEF Blocks
  <2>8. EndInv'
    <3>1. old > 0 /\ heap.end = Start + old /\ Start \in Nat
      <4>1. Start \in Nat /\ VM_HEAP_MIN_SIZE \in Nat /\ VM_HEAP_MIN_SIZE > 0
        BY StartIs, HeapAssumption
      <4> QED BY <1>1, <1>d, <4>1
    <3>2. PagesOf(Start, e - 1) \subseteq framed \cup PagesFrom(old, new) /\ PagesFrom(old, new) \subseteq Nat
      BY <1>1, <1>d, <2>5, <3>1, ExpandCovers
    <3> QED BY <1>1, <2>1, <2>5, <2>6, <3>2 DEF EndInv, EndOnPage, Backed
  <2>9. /\ request' = [size |-> request.size, flags |-> request.flags, turn |-> request.turn + 1]
        /\ Need(request') = Need(request) /\ IsAligned(request') = IsAligned(request)
        /\ request'.turn = request.turn + 1 /\ request'.size = request.size
        /\ request'.flags = request.flags
    BY <1>2, <2>1 DEF Need, IsAligned
  <2>10. PICK a \in Nat : TakesRoom(heap, heap', a)
    BY <2>4, <2>6
  <2>11. /\ a \in ToSet(heap'.index) /\ heap'.index # << >>
         /\ Max(ToSet(heap'.index)) = a /\ a + SizeOf(heap', a) = heap'.end
         /\ heap'.end \in Nat /\ SizeOf(heap', a) \in Nat
    <3>1. a \in ToSet(heap'.index) /\ a + SizeOf(heap', a) = heap'.end
      BY <2>10 DEF TakesRoom
    <3>2. heap'.end \in Nat
      BY <2>5, <2>6, StartIs, HeapAssumption
    <3>3. Max(ToSet(heap'.index)) = a
      BY <2>7, <3>1, <3>2, LastIs
    <3>4. heap'.index # << >>
      BY <3>1 DEF ToSet
    <3>5. SizeOf(heap', a) \in Nat
      BY <2>7, SizeNat DEF HeapOK
    <3> QED BY <3>1, <3>2, <3>3, <3>4, <3>5
  <2>12. Need(request) \in Nat /\ Page \in Nat
    BY <1>2, NeedIs, HeapAssumption
  <2>13. SizeOf(heap', a) >= Need(request)
    <3>1. SizeOf(heap', a) >= heap'.end - heap.end
      BY <2>10 DEF TakesRoom
    <3> QED BY <1>1, <2>4, <2>5, <2>6, <2>11, <2>12, <3>1
  <2>14. GrowsAtEnd' /\ LastHolds(request)'
    BY <2>9, <2>11, <2>13 DEF GrowsAtEnd, LastHolds
  <2>15. CASE ~IsAligned(request)
    <3>1. IsAligned(request') = FALSE /\ ~IsAligned(request')
      BY <2>9, <2>15 DEF IsAligned
    <3>2. Found' # 0
      BY <2>4, <2>6, <2>9, <3>1 DEF Found
    <3> QED BY <1>1, <1>2, <2>1, <2>7, <2>8, <2>9, <2>15, <3>1, <3>2 DEF HeapInvariant, RequestInv
  <2>16. CASE IsAligned(request)
    <3>1. Ready(heap, request) = heap'
      <4>1. ~HasFit(heap, request)
        BY <1>2 DEF HasFit, Found
      <4>2. Expanded(heap, request) = Grown(heap, e)
        BY <1>d, <2>5 DEF Expanded, Grown
      <4> QED BY <2>6, <4>1, <4>2 DEF Ready
    <3>2. Ready(heap', request') = Ready(heap', request)
      BY <2>9 DEF Ready, HasFit, Expanded
    <3>3. LeavesHoles(HeapAtLast, request)
      BY <1>2, <2>16
    <3>4. CASE request.turn = 1
      <4>1. HeapAtLast = Ready(heap', request)
        BY <3>1, <3>4 DEF HeapAtLast
      <4>2. HeapAtLast' = Ready(heap', request)
        BY <2>9, <3>2, <3>4 DEF HeapAtLast
      <4>3. LeavesHoles(HeapAtLast, request)'
        BY <2>9, <3>3, <4>1, <4>2 DEF LeavesHoles
      <4> QED BY <1>1, <1>2, <2>1, <2>7, <2>8, <2>9, <2>14, <2>16, <3>4, <4>3
              DEF HeapInvariant, RequestInv
    <3>5. CASE request.turn = 2
      <4>1. LastHolds(request)
        BY <1>2, <3>5
      <4>2. SizeOf(heap', a) >= Need(request) + Page
        <5>1. /\ a = Max(ToSet(heap.index))
              /\ SizeOf(heap', a) = SizeOf(heap, a) + (heap'.end - heap.end)
              /\ SizeOf(heap, a) >= Need(request)
          BY <2>10, <4>1 DEF TakesRoom, LastHolds
        <5>2. SizeOf(heap, a) \in Nat
          BY <1>1, SizeNat DEF HeapOK
        <5> QED BY <1>1, <2>4, <2>5, <2>6, <2>11, <2>12, <5>1, <5>2
      <4>3. FindHole(heap', Need(request), TRUE) # 0
        BY <2>7, <2>11, <2>12, <4>2, AlignedFits
      <4>4. Found' # 0
        <5>1. IsAligned(request') = TRUE
          BY <2>9, <2>16 DEF IsAligned
        <5> QED BY <2>9, <4>3, <5>1 DEF Found
      <4>5. HeapAtLast = heap' /\ HeapAtLast' = heap'
        BY <2>9, <3>1, <3>5 DEF HeapAtLast
      <4>6. LeavesHoles(HeapAtLast, request)'
        BY <2>9, <3>3, <4>5 DEF LeavesHoles
      <4> QED BY <1>1, <1>2, <2>1, <2>7, <2>8, <2>9, <2>16, <3>5, <4>4, <4>6
              DEF HeapInvariant, RequestInv
    <3> QED BY <1>2, <3>4, <3>5
  <2> QED BY <2>15, <2>16
<1> QED BY <1>3, <1>4

-----------------------------------------------------------------------------
(* Zeroing a block                                                         *)

(* A write that leaves the headers and the footers of the blocks alone.    *)
LEMMA Untouched ==
  ASSUME NEW h, NEW B, NEW held, HeapOK(h, B, held),
         NEW g, Typed(g), g.end = h.end, g.index = h.index,
         \A a \in B : SameHeader(h, g, a) /\ SameFooter(h, g, Footer(h, a)),
         NoneBefore(g)
  PROVE  HeapOK(g, B, held)
<1>1. \A a \in B : /\ SizeOf(g, a) = SizeOf(h, a) /\ (IsHole(g, a) <=> IsHole(h, a))
                   /\ Footer(g, a) = Footer(h, a)
                   /\ HasFooter(h, Footer(h, a)) => HasFooter(g, Footer(g, a))
                   /\ Named(h, a) => Named(g, a)
  BY DEF SameHeader, SameFooter, Footer, Named
<1>2. Tiling(g, B)
  BY <1>1 DEF HeapOK, Tiling
<1>3. Footed(g, B)
  BY <1>1 DEF HeapOK, Footed
<1>4. Indexed(g, B)
  <2>1. {a \in B : IsHole(g, a)} = {a \in B : IsHole(h, a)}
    BY <1>1
  <2> QED BY <2>1 DEF HeapOK, Indexed
<1>5. United(g, B)
  BY <1>1 DEF HeapOK, United
<1>6. Owned(g, B, held)
  BY <1>1 DEF HeapOK, Owned
<1> QED BY <1>2, <1>3, <1>4, <1>5, <1>6 DEF HeapOK

(* bzero in a block leaves the heap as it is.                              *)
LEMMA ZeroKeeps ==
  ASSUME NEW h, NEW B, NEW held, HeapOK(h, B, held),
         NEW x \in B, NEW n \in Nat, SizeOf(h, x) >= n + Overhead
  PROVE  HeapOK(Clobber(h, x + HeaderSize, n), B, held)
<1> DEFINE u == x + 3
           v == x + 3 + n
           g == Clobber(h, u, n)
<1>1. Typed(h) /\ Tiling(h, B) /\ B \subseteq Nat /\ \A a \in B : SizeOf(h, a) \in Nat
  BY SizeNat DEF HeapOK, Tiling
<1>2. Typed(g) /\ Same(h, g, u, v) /\ g.index = h.index /\ g.end = h.end
  <2>1. u \in Nat /\ u + n = v
    BY <1>1
  <2> QED BY <1>1, <2>1, ClobberParts
<1> HIDE DEF g
<1>3. ASSUME NEW a \in B PROVE SameHeader(h, g, a) /\ SameFooter(h, g, Footer(h, a))
  <2>1. /\ a \in Nat /\ x \in Nat /\ SizeOf(h, a) \in Nat /\ SizeOf(h, a) >= 5
        /\ a < x => a + SizeOf(h, a) <= x
        /\ x < a => x + SizeOf(h, x) <= a
    BY <1>1 DEF Tiling
  <2>2. a + 3 <= u \/ a >= v
    BY <1>1, <2>1
  <2>3. Footer(h, a) \in Nat /\ (Footer(h, a) + 2 <= u \/ Footer(h, a) >= v)
    BY <1>1, <2>1 DEF Footer
  <2> HIDE DEF u, v
  <2> QED BY <1>2, <2>1, <2>2, <2>3 DEF Same
<1>4. NoneBefore(g)
  <2>1. Start \in Nat /\ Start <= x /\ x \in Nat
    BY <1>1, StartIs DEF Tiling
  <2>2. CASE Start >= 2
    <3>1. Start - 2 \in Nat /\ (Start - 2) + 2 <= u
      BY <2>1, <2>2
    <3>2. SameFooter(h, g, Start - 2)
      BY <1>2, <3>1 DEF Same
    <3> QED BY <3>2 DEF SameFooter, HeapOK, NoneBefore
  <2>3. CASE Start < 2
    <3>1. Start - 2 \notin Nat
      BY <2>1, <2>3
    <3> QED BY <1>2, <3>1 DEF NoneBefore, HasFooter, Typed
  <2> QED BY <2>1, <2>2, <2>3
<1>5. HeapOK(g, B, held)
  BY <1>2, <1>3, <1>4, Untouched
<1> QED BY <1>5 DEF g

-----------------------------------------------------------------------------
(* A hole is cut up                                                        *)

(* g is h with the hole a cut into the blocks P: the one at `at` for the   *)
(* caller, the others holes.                                               *)
Cuts(h, a, g, P, at) ==
  /\ Typed(g) /\ Same(h, g, a, a + SizeOf(h, a)) /\ g.end = h.end
  /\ Span(g, P, a, a + SizeOf(h, a)) /\ Footed(g, P)
  /\ at \in P /\ ~IsHole(g, at) /\ \A x \in P : x # at => IsHole(g, x)
  /\ \A x \in P : IsHole(g, x) /\ x + SizeOf(g, x) \in P => x + SizeOf(g, x) = at
  /\ g.index \in Seq(Nat) /\ Distinct(g.index)
  /\ ToSet(g.index) = (ToSet(h.index) \ {a}) \cup {x \in P : x # at}

(* A hole cut up into holes and one block keeps the heap in order.         *)
LEMMA CutKeeps ==
  ASSUME NEW h, NEW B, NEW held, h.end \in Nat, HeapOK(h, B, held),
         NEW a \in B, IsHole(h, a), NEW g, NEW P, NEW at, Cuts(h, a, g, P, at),
         NEW n \in Sizes, SizeOf(g, at) >= n + Overhead
  PROVE  \E C : at \in C /\ HeapOK(g, C, With(held, at + HeaderSize, n))
<1> DEFINE v == a + SizeOf(h, a)
           held2 == With(held, at + 3, n)
<1>0. /\ Typed(h) /\ Tiling(h, B) /\ Footed(h, B) /\ Indexed(h, B) /\ United(h, B) /\ Owned(h, B, held)
      /\ B \subseteq Nat /\ a \in Nat /\ v \in Nat /\ v >= a + 5 /\ v <= h.end
      /\ v \in B \cup {h.end}
      /\ \A x \in B : x < a \/ x = a \/ x >= v
  <2>1. Typed(h) /\ Tiling(h, B) /\ Footed(h, B) /\ Indexed(h, B) /\ United(h, B) /\ Owned(h, B, held)
    BY DEF HeapOK
  <2>2. SizeOf(h, a) \in Nat
    BY <2>1, SizeNat
  <2> QED BY <2>1, <2>2 DEF Tiling
<1>1. Kept(B, a, v) = B \ {a}
  <2>1. \A x \in B : x < a \/ x >= v <=> x # a
    BY <1>0
  <2> HIDE DEF v
  <2> QED BY <2>1 DEF Kept
<1>2. /\ Typed(g) /\ Same(h, g, a, v) /\ g.end = h.end /\ Span(g, P, a, v) /\ Footed(g, P)
      /\ at \in P /\ ~IsHole(g, at) /\ \A x \in P : x # at => IsHole(g, x)
      /\ \A x \in P : IsHole(g, x) /\ x + SizeOf(g, x) \in P => x + SizeOf(g, x) = at
      /\ g.index \in Seq(Nat) /\ Distinct(g.index)
      /\ ToSet(g.index) = (ToSet(h.index) \ {a}) \cup {x \in P : x # at}
  BY DEF Cuts
<1>u. v \in B => ~IsHole(h, v)
  BY <1>0 DEF United
<1> HIDE DEF v
<1>3. Replaces(h, B, g, P, a, v, v)
  BY <1>0, <1>2 DEF Replaces
<1>4. KeepsApart(h, B, g, P, a, v, v)
  <2>1. \A x \in B : x + SizeOf(h, x) = a => ~IsHole(h, x)
    BY <1>0 DEF United
  <2> QED BY <1>2, <1>u, <2>1 DEF KeepsApart
<1>5. Reindexes(h, B, g, P, a, v)
  <2>1. ToSet(h.index) = {x \in B : IsHole(h, x)}
    BY <1>0 DEF Indexed
  <2>2. ToSet(h.index) \ {a} = {x \in Kept(B, a, v) : IsHole(h, x)}
    BY <1>1, <2>1
  <2>3. {x \in P : x # at} = {x \in P : IsHole(g, x)}
    BY <1>2
  <2> QED BY <1>2, <2>2, <2>3 DEF Reindexes
<1>6. HandsOut(B, g, P, a, v, held, held2)
  <2>1. DOMAIN held2 = DOMAIN held \cup {at + 3} /\ held2[at + 3] = n
        /\ \A p \in DOMAIN held : p # at + 3 => held2[p] = held[p]
    BY DEF With
  <2> HIDE DEF held2
  <2>2. at \in Nat /\ at + 3 \in Nat /\ BlockOf(at + 3) = at
    BY <1>2 DEF Span, BlockOf
  <2>3. \A x \in P : ~IsHole(g, x) => x + HeaderSize \in DOMAIN held2
    BY <1>2, <2>1
  <2>4. ASSUME NEW p \in DOMAIN held PROVE BlockOf(p) \in Kept(B, a, v)
    BY <1>0, <1>1 DEF Owned
  <2>5. ASSUME NEW p \in DOMAIN held2
        PROVE  \/ /\ p \in Nat /\ held2[p] \in Sizes
                  /\ BlockOf(p) \in P /\ ~IsHole(g, BlockOf(p))
                  /\ SizeOf(g, BlockOf(p)) >= held2[p] + Overhead
               \/ p \in DOMAIN held /\ BlockOf(p) \in Kept(B, a, v) /\ held2[p] = held[p]
    <3>1. CASE p = at + 3
      BY <1>2, <2>1, <2>2, <3>1
    <3>2. CASE p # at + 3
      BY <2>1, <2>4, <3>2
    <3> QED BY <3>1, <3>2
  <2> QED BY <2>1, <2>3, <2>5 DEF HandsOut
<1>7. HeapOK(g, Kept(B, a, v) \cup P, held2)
  BY <1>3, <1>4, <1>5, <1>6, Rebuilt
<1> QED BY <1>2, <1>7

-----------------------------------------------------------------------------
(* The three ways alloc cuts a hole: all of it, its front, and a block on  *)
(* a page boundary.                                                        *)

(* alloc gives all of hole a away.                                         *)
WholeCut(h, a) == WriteBlock(RemoveHole(h, a), a, FALSE, SizeOf(h, a))

(* alloc gives the front of hole a away, and the hole behind it goes into  *)
(* the index.                                                              *)
FrontCut(h, a, need, hole, rest) ==
  InsertHole(WriteBlock(WriteBlock(RemoveHole(h, a), a, FALSE, need), hole, TRUE, rest), hole)

(* alloc leaves a hole in front, so that the block is on a page boundary.  *)
PageCut(h, a, front, at, need, hole, rest) ==
  InsertHole(WriteBlock(WriteBlock(WriteBlock(h, a, TRUE, front), at, FALSE, need),
                        hole, TRUE, rest), hole)

(* A number of a word does not wrap.                                       *)
LEMMA WrapIs ==
  ASSUME NEW n \in Nat, n < WordModulus
  PROVE  Wrap(n) = n
  BY HeapAssumption DEF Wrap

(* alloc takes the whole hole when the rest is too short for a hole.       *)
LEMMA PlaceWhole ==
  ASSUME NEW h, NEW a \in Nat, NEW r, NEW size \in Nat, SizeOf(h, a) = size, size < WordModulus,
         NEW n \in Nat, r.size = n, Need(r) = n + Overhead, n + Overhead <= size,
         size < n + Overhead + Overhead, ~IsAligned(r)
  PROVE  Place(h, a, r).heap = WholeCut(h, a) /\ Place(h, a, r).pointer = a + HeaderSize
<1> DEFINE spare == size - (n + 5)
<1>1. spare \in Nat /\ spare < 5 /\ spare < WordModulus /\ Wrap(0) = 0
  BY HeapAssumption, WrapIs
<1>2. Wrap(SizeOf(h, a) - Need(r)) = spare
  BY <1>1, WrapIs
<1>3. TooShort(spare) /\ n + spare = size - 5
  BY <1>1 DEF TooShort
<1>4. Wrap(SizeOf(h, a) - 0 - size) = 0 /\ a + 0 = a /\ a + 3 + (n + spare) = a + size - 2
  BY <1>1
<1> HIDE DEF spare
<1>5. Place(h, a, r) = [heap |-> WriteBlock(RemoveHole(h, a), a, FALSE, size), pointer |-> a + 3]
  BY <1>2, <1>3, <1>4 DEF Place, WriteBlock
<1> QED BY <1>5 DEF WholeCut

(* alloc takes the front of the hole.                                      *)
LEMMA PlaceFront ==
  ASSUME NEW h, NEW a \in Nat, NEW r, NEW size \in Nat, SizeOf(h, a) = size, size < WordModulus,
         NEW n \in Nat, r.size = n, NEW need \in Nat, Need(r) = need, need = n + Overhead,
         ~IsAligned(r), NEW hole \in Nat, hole = a + need,
         NEW rest \in Nat, rest >= Overhead, hole + rest = a + size,
         a + size <= h.end, h.end \in Nat
  PROVE  /\ Place(h, a, r).heap = FrontCut(h, a, need, hole, rest)
         /\ Place(h, a, r).pointer = a + HeaderSize
<1> DEFINE h1 == RemoveHole(h, a)
           h2 == WriteBlock(h1, a, FALSE, need)
           h3 == WriteBlock(h2, hole, TRUE, rest)
<1>1. rest < WordModulus /\ size - need = rest /\ size - 0 - need = rest
  BY HeapAssumption
<1>2. Wrap(SizeOf(h, a) - Need(r)) = rest /\ Wrap(SizeOf(h, a) - 0 - need) = rest
  BY <1>1, WrapIs
<1>3. ~TooShort(rest) /\ rest # 0
  BY <1>1 DEF TooShort
<1>4. a + 0 = a /\ a + 3 + n = a + need - 2 /\ a + 3 + n + 2 = hole /\ hole + rest - 2 < h.end
  BY <1>1
<1>6. h2 = PutFooter(PutHeader(h1, a, FALSE, need), a + 3 + n, a)
  BY <1>4 DEF WriteBlock
<1>7. h3 = PutFooter(PutHeader(h2, hole, TRUE, rest), hole + rest - 2, hole)
  BY DEF WriteBlock
<1> HIDE DEF h2, h3
<1>8. Place(h, a, r) = [heap |-> InsertHole(h3, hole), pointer |-> a + 3]
  BY <1>2, <1>3, <1>4, <1>6, <1>7 DEF Place
<1> QED BY <1>8 DEF h2, h3, FrontCut

(* alloc takes a block on to a page boundary.                              *)
LEMMA PlacePage ==
  ASSUME NEW h, NEW a \in Nat, NEW r, NEW size \in Nat, SizeOf(h, a) = size, size < WordModulus,
         NEW n \in Nat, r.size = n, NEW need \in Nat, Need(r) = need, need = n + Overhead,
         NEW front \in Nat, front >= Overhead, FrontToPointer(a) = front, IsAligned(r),
         NEW at \in Nat, at = a + front, NEW hole \in Nat, hole = at + need,
         NEW rest \in Nat, rest >= Overhead, hole + rest = a + size,
         a + size <= h.end, h.end \in Nat, h.end < WordModulus
  PROVE  /\ Place(h, a, r).heap = PageCut(h, a, front, at, need, hole, rest)
         /\ Place(h, a, r).pointer = at + HeaderSize
<1> DEFINE spare == size - need
           h1 == WriteBlock(h, a, TRUE, front)
           h2 == WriteBlock(h1, at, FALSE, need)
           h3 == WriteBlock(h2, hole, TRUE, rest)
<1>1. spare \in Nat /\ spare >= 5 /\ spare < WordModulus /\ rest < WordModulus
      /\ size - front - need = rest
  BY HeapAssumption
<1>2. Wrap(SizeOf(h, a) - Need(r)) = spare /\ Wrap(SizeOf(h, a) - front - need) = rest
  BY <1>1, WrapIs
<1>3. ~TooShort(spare) /\ rest # 0
  BY <1>1 DEF TooShort
<1>4. /\ at + 3 + n = at + need - 2 /\ at + 3 + n + 2 = hole
      /\ hole + rest - 2 < h.end
  BY <1>1
<1>5. h1 = PutFooter(PutHeader(h, a, TRUE, front), at - 2, a)
  BY DEF WriteBlock
<1>6. h2 = PutFooter(PutHeader(h1, at, FALSE, need), at + 3 + n, at)
  BY <1>4 DEF WriteBlock
<1>7. h3 = PutFooter(PutHeader(h2, hole, TRUE, rest), hole + rest - 2, hole)
  BY DEF WriteBlock
<1>8. Wrap(a + front) = at
  <2>1. at < WordModulus
    BY HeapAssumption
  <2> QED BY <2>1, WrapIs
<1> HIDE DEF spare, h1, h2, h3
<1>9. Place(h, a, r) = [heap |-> InsertHole(h3, hole), pointer |-> at + 3]
  BY <1>2, <1>3, <1>4, <1>5, <1>6, <1>7, <1>8 DEF Place
<1> QED BY <1>9 DEF h1, h2, h3, PageCut

-----------------------------------------------------------------------------
(* Each of them cuts the hole up                                           *)

(* What is known of a hole of a tiled heap.                                *)
LEMMA HoleKnown ==
  ASSUME NEW h, NEW B, NEW held, h.end \in Nat, HeapOK(h, B, held), NEW a \in B, IsHole(h, a)
  PROVE  /\ Typed(h) /\ a \in Nat /\ SizeOf(h, a) \in Nat /\ SizeOf(h, a) >= Overhead
         /\ SizeOf(h, a) < WordModulus /\ a + SizeOf(h, a) <= h.end
         /\ h.index \in Seq(Nat) /\ Distinct(h.index) /\ a \in ToSet(h.index)
         /\ \A x \in ToSet(h.index) : x \in Nat /\ (x <= a \/ x >= a + SizeOf(h, a))
<1>1. Typed(h) /\ Tiling(h, B) /\ Indexed(h, B)
  BY DEF HeapOK
<1>2. SizeOf(h, a) \in Nat /\ SizeOf(h, a) < WordModulus
  BY <1>1, SizeNat
<1>3. B \subseteq Nat /\ \A x \in B : a < x => a + SizeOf(h, a) <= x
  BY <1>1 DEF Tiling
<1>4. ToSet(h.index) = {x \in B : IsHole(h, x)}
  BY <1>1 DEF Indexed
<1>5. ASSUME NEW x \in B PROVE x \in Nat /\ (x <= a \/ x >= a + SizeOf(h, a))
  BY <1>2, <1>3
<1> QED BY <1>1, <1>2, <1>4, <1>5 DEF Tiling, Indexed

(* Each of the three cuts the hole up: the whole hole,                     *)
LEMMA CutWhole ==
  ASSUME NEW h, NEW B, NEW held, h.end \in Nat, HeapOK(h, B, held), NEW a \in B, IsHole(h, a)
  PROVE  Cuts(h, a, WholeCut(h, a), {a}, a) /\ SizeOf(WholeCut(h, a), a) = SizeOf(h, a)
<1> DEFINE k == RemoveHole(h, a)
           g == WholeCut(h, a)
           size == SizeOf(h, a)
<1>0. /\ Typed(h) /\ a \in Nat /\ size \in Nat /\ size >= 5
      /\ size < WordModulus /\ a + size <= h.end
      /\ h.index \in Seq(Nat) /\ Distinct(h.index) /\ a \in ToSet(h.index)
  BY HoleKnown
<1>1. /\ Typed(k) /\ (\A u, v \in Nat : Same(h, k, u, v)) /\ k.end = h.end
      /\ k.index \in Seq(Nat) /\ Distinct(k.index) /\ ToSet(k.index) = ToSet(h.index) \ {a}
  BY <1>0, RemoveHoleParts
<1>g. g = WriteBlock(k, a, FALSE, size)
  BY DEF WholeCut
<1> HIDE DEF k, g
<1>2. Written(k, g, a, FALSE, size)
  <2>1. Typed(k) /\ a \in Nat /\ FALSE \in BOOLEAN /\ size \in Nat /\ size >= Overhead /\ size < WordModulus
    BY <1>0, <1>1
  <2> HIDE DEF size
  <2>2. Written(k, WriteBlock(k, a, FALSE, size), a, FALSE, size)
    BY <2>1, BlockWritten
  <2> QED BY <1>g, <2>2
<1>3. /\ Typed(g) /\ Same(k, g, a, a + size) /\ g.index = k.index /\ g.end = k.end
      /\ SizeOf(g, a) = size /\ ~IsHole(g, a) /\ Named(g, a)
  BY <1>2 DEF Written, IsHole
<1> HIDE DEF size
<1>4. Same(h, g, a, a + size)
  BY <1>0, <1>1, <1>3, SameTwice
<1>5. Span(g, {a}, a, a + size)
  BY <1>0, <1>3, SpanOne
<1>6. Footed(g, {a})
  BY <1>3 DEF Footed, Named
<1>7. a + SizeOf(g, a) # a
  BY <1>0, <1>3
<1> QED BY <1>1, <1>3, <1>4, <1>5, <1>6, <1>7 DEF Cuts, size, g

(* Two blocks one behind the other.                                        *)
LEMMA SpanTwo ==
  ASSUME NEW g, Typed(g), NEW u \in Nat, NEW x \in Nat, NEW v \in Nat,
         u + SizeOf(g, u) = x, x + SizeOf(g, x) = v, SizeOf(g, u) >= Overhead, SizeOf(g, x) >= Overhead
  PROVE  Span(g, {u, x}, u, v)
<1>1. SizeOf(g, u) \in Nat /\ SizeOf(g, x) \in Nat
  BY SizeNat
<1>2. Span(g, {u}, u, x) /\ Span(g, {x}, x, v)
  BY <1>1, SpanOne
<1>3. {u} \cup {x} = {u, x}
  OBVIOUS
<1> QED BY <1>2, <1>3, SpanJoin

(* A block and its footer outside a write stay.                            *)
LEMMA BlockStays ==
  ASSUME NEW h, NEW g, Typed(h), NEW x \in Nat, SizeOf(h, x) >= Overhead, Named(h, x),
         NEW u \in Nat, NEW v \in Nat, Same(h, g, u, v), x + SizeOf(h, x) <= u
  PROVE  SizeOf(g, x) = SizeOf(h, x) /\ (IsHole(g, x) <=> IsHole(h, x)) /\ Named(g, x)
<1>1. SizeOf(h, x) \in Nat
  BY SizeNat
<1>2. SameHeader(h, g, x)
  BY <1>1 DEF Same
<1>3. Footer(h, x) \in Nat /\ Footer(h, x) + 2 <= u
  BY <1>1 DEF Footer
<1>4. SameFooter(h, g, Footer(h, x))
  BY <1>3 DEF Same
<1> QED BY <1>2, <1>4 DEF SameHeader, SameFooter, Named, Footer

(* its front,                                                              *)
LEMMA CutFront ==
  ASSUME NEW h, NEW B, NEW held, h.end \in Nat, HeapOK(h, B, held), NEW a \in B, IsHole(h, a),
         NEW need \in Nat, need >= Overhead, NEW hole \in Nat, hole = a + need,
         NEW rest \in Nat, rest >= Overhead, hole + rest = a + SizeOf(h, a)
  PROVE  /\ Cuts(h, a, FrontCut(h, a, need, hole, rest), {a, hole}, a)
         /\ SizeOf(FrontCut(h, a, need, hole, rest), a) = need
<1> DEFINE h1 == RemoveHole(h, a)
           h2 == WriteBlock(h1, a, FALSE, need)
           h3 == WriteBlock(h2, hole, TRUE, rest)
           g == FrontCut(h, a, need, hole, rest)
           v == a + SizeOf(h, a)
<1>0. /\ Typed(h) /\ a \in Nat /\ v \in Nat /\ hole + rest = v /\ rest < WordModulus /\ need < WordModulus
      /\ h.index \in Seq(Nat) /\ Distinct(h.index) /\ a \in ToSet(h.index)
      /\ hole \notin ToSet(h.index)
  <2>1. /\ Typed(h) /\ a \in Nat /\ SizeOf(h, a) \in Nat /\ SizeOf(h, a) < WordModulus
        /\ h.index \in Seq(Nat) /\ Distinct(h.index) /\ a \in ToSet(h.index)
        /\ \A x \in ToSet(h.index) : x \in Nat /\ (x <= a \/ x >= a + SizeOf(h, a))
    BY HoleKnown
  <2>2. v \in Nat /\ rest < WordModulus /\ need < WordModulus /\ a < hole /\ hole < a + SizeOf(h, a)
    <3>1. WordModulus \in Nat
      BY HeapAssumption
    <3> DEFINE size == SizeOf(h, a)
    <3>2. size \in Nat /\ size < WordModulus /\ a \in Nat /\ hole + rest = a + size
      BY <2>1
    <3> HIDE DEF size
    <3> QED BY <3>1, <3>2 DEF v, size
  <2>3. hole \notin ToSet(h.index)
    <3>1. ~(hole <= a \/ hole >= a + SizeOf(h, a))
      BY <2>1, <2>2
    <3> QED BY <2>1, <3>1
  <2> QED BY <2>1, <2>2, <2>3
<1>1. /\ Typed(h1) /\ (\A i, j \in Nat : Same(h, h1, i, j)) /\ h1.end = h.end
      /\ h1.index \in Seq(Nat) /\ Distinct(h1.index) /\ ToSet(h1.index) = ToSet(h.index) \ {a}
  BY <1>0, RemoveHoleParts
<1> HIDE DEF h1, v
<1>2. Written(h1, h2, a, FALSE, need)
  <2>1. FALSE \in BOOLEAN
    OBVIOUS
  <2> QED BY <1>0, <1>1, <2>1, BlockWritten
<1> HIDE DEF h2
<1>3. /\ Typed(h2) /\ Same(h1, h2, a, hole) /\ h2.index = h1.index /\ h2.end = h1.end
      /\ SizeOf(h2, a) = need /\ ~IsHole(h2, a) /\ Named(h2, a)
  BY <1>2 DEF Written, IsHole
<1>4. Written(h2, h3, hole, TRUE, rest)
  <2>1. TRUE \in BOOLEAN
    OBVIOUS
  <2> QED BY <1>0, <1>3, <2>1, BlockWritten
<1>5. g = InsertHole(h3, hole)
  BY DEF FrontCut, h1, h2
<1> HIDE DEF h3, g
<1>6. /\ Typed(h3) /\ Same(h2, h3, hole, v) /\ h3.index = h2.index /\ h3.end = h2.end
      /\ SizeOf(h3, hole) = rest /\ IsHole(h3, hole) /\ Named(h3, hole)
  BY <1>0, <1>4 DEF Written, IsHole
<1>7. SizeOf(h3, a) = need /\ ~IsHole(h3, a) /\ Named(h3, a)
  <2>1. Typed(h2) /\ SizeOf(h2, a) >= Overhead /\ a + SizeOf(h2, a) <= hole
    BY <1>0, <1>3
  <2>2. SizeOf(h3, a) = SizeOf(h2, a) /\ (IsHole(h3, a) <=> IsHole(h2, a)) /\ Named(h3, a)
    BY <1>0, <1>3, <1>6, <2>1, BlockStays
  <2> QED BY <1>3, <2>2
<1>8. /\ Typed(g) /\ (\A i, j \in Nat : Same(h3, g, i, j)) /\ g.end = h3.end
      /\ g.hdr = h3.hdr /\ g.ftr = h3.ftr /\ g.index \in Seq(Nat) /\ Distinct(g.index)
      /\ ToSet(g.index) = ToSet(h3.index) \cup {hole}
  <2>1. h3.index \in Seq(Nat) /\ Distinct(h3.index) /\ hole \notin ToSet(h3.index)
    BY <1>0, <1>1, <1>3, <1>6
  <2>2. LET i == InsertHole(h3, hole) IN
          /\ Typed(i) /\ (\A x, y \in Nat : Same(h3, i, x, y)) /\ i.end = h3.end
          /\ i.hdr = h3.hdr /\ i.ftr = h3.ftr /\ i.index \in Seq(Nat) /\ Distinct(i.index)
          /\ ToSet(i.index) = ToSet(h3.index) \cup {hole}
    BY <1>6, <2>1, InsertHoleParts
  <2> QED BY <1>5, <2>2
<1>9. /\ SizeOf(g, a) = need /\ ~IsHole(g, a) /\ Named(g, a)
      /\ SizeOf(g, hole) = rest /\ IsHole(g, hole) /\ Named(g, hole)
  BY <1>6, <1>7, <1>8 DEF SizeOf, IsHole, IsHeader, Named, HasFooter, Footer
<1>10. Same(h, g, a, v)
  <2>1. Same(h, h1, a, v) /\ Same(h3, g, a, v) /\ a <= hole /\ hole <= v
    BY <1>0, <1>1, <1>8
  <2>2. Same(h1, h2, a, v) /\ Same(h2, h3, a, v)
    BY <1>0, <1>3, <1>6, <2>1, SameWider
  <2>3. Same(h, h2, a, v)
    BY <1>0, <2>1, <2>2, SameTwice
  <2>4. Same(h, h3, a, v)
    BY <1>0, <2>2, <2>3, SameTwice
  <2> QED BY <1>0, <2>1, <2>4, SameTwice
<1>11. Span(g, {a, hole}, a, v)
  BY <1>0, <1>8, <1>9, SpanTwo
<1>12. Footed(g, {a, hole})
  BY <1>9 DEF Footed, Named
<1>13. a # hole /\ hole + SizeOf(g, hole) = v /\ v # a /\ v # hole
  BY <1>0, <1>9
<1>14. ToSet(g.index) = (ToSet(h.index) \ {a}) \cup {x \in {a, hole} : x # a}
  BY <1>1, <1>3, <1>6, <1>8, <1>13
<1>15. g.end = h.end /\ \A x \in {a, hole} : /\ x # a => IsHole(g, x)
                                            /\ IsHole(g, x) => x + SizeOf(g, x) \notin {a, hole}
  BY <1>1, <1>3, <1>6, <1>8, <1>9, <1>13
<1> QED BY <1>8, <1>9, <1>10, <1>11, <1>12, <1>14, <1>15 DEF Cuts, v, g

(* and a block on to a page boundary.                                      *)
LEMMA CutPage ==
  ASSUME NEW h, NEW B, NEW held, h.end \in Nat, HeapOK(h, B, held), NEW a \in B, IsHole(h, a),
         NEW front \in Nat, front >= Overhead, NEW at \in Nat, at = a + front,
         NEW need \in Nat, need >= Overhead, NEW hole \in Nat, hole = at + need,
         NEW rest \in Nat, rest >= Overhead, hole + rest = a + SizeOf(h, a)
  PROVE  /\ Cuts(h, a, PageCut(h, a, front, at, need, hole, rest), {a, at, hole}, at)
         /\ SizeOf(PageCut(h, a, front, at, need, hole, rest), at) = need
<1> DEFINE h1 == WriteBlock(h, a, TRUE, front)
           h2 == WriteBlock(h1, at, FALSE, need)
           h3 == WriteBlock(h2, hole, TRUE, rest)
           g == PageCut(h, a, front, at, need, hole, rest)
           v == a + SizeOf(h, a)
<1>0. /\ Typed(h) /\ a \in Nat /\ v \in Nat /\ hole + rest = v
      /\ rest < WordModulus /\ need < WordModulus /\ front < WordModulus
      /\ h.index \in Seq(Nat) /\ Distinct(h.index) /\ a \in ToSet(h.index)
      /\ hole \notin ToSet(h.index) /\ at \notin ToSet(h.index) /\ a < at /\ at < hole /\ hole < v
  <2>1. /\ Typed(h) /\ a \in Nat /\ SizeOf(h, a) \in Nat /\ SizeOf(h, a) < WordModulus
        /\ h.index \in Seq(Nat) /\ Distinct(h.index) /\ a \in ToSet(h.index)
        /\ \A x \in ToSet(h.index) : x \in Nat /\ (x <= a \/ x >= a + SizeOf(h, a))
    BY HoleKnown
  <2>2. v \in Nat /\ rest < WordModulus /\ need < WordModulus /\ front < WordModulus
        /\ a < at /\ at < hole /\ hole < a + SizeOf(h, a)
    <3>1. WordModulus \in Nat
      BY HeapAssumption
    <3> DEFINE size == SizeOf(h, a)
    <3>2. size \in Nat /\ size < WordModulus /\ a \in Nat /\ hole + rest = a + size
      BY <2>1
    <3> HIDE DEF size
    <3> QED BY <3>1, <3>2 DEF v, size
  <2>3. hole \notin ToSet(h.index) /\ at \notin ToSet(h.index)
    <3>1. ~(hole <= a \/ hole >= a + SizeOf(h, a)) /\ ~(at <= a \/ at >= a + SizeOf(h, a))
      BY <2>1, <2>2
    <3> QED BY <2>1, <3>1
  <2> QED BY <2>1, <2>2, <2>3
<1> HIDE DEF v
<1>1. Written(h, h1, a, TRUE, front)
  <2>1. TRUE \in BOOLEAN
    OBVIOUS
  <2> QED BY <1>0, <2>1, BlockWritten
<1> HIDE DEF h1
<1>2. /\ Typed(h1) /\ Same(h, h1, a, at) /\ h1.index = h.index /\ h1.end = h.end
      /\ SizeOf(h1, a) = front /\ IsHole(h1, a) /\ Named(h1, a)
  BY <1>1 DEF Written, IsHole
<1>3. Written(h1, h2, at, FALSE, need)
  <2>1. FALSE \in BOOLEAN
    OBVIOUS
  <2> QED BY <1>0, <1>2, <2>1, BlockWritten
<1> HIDE DEF h2
<1>4. /\ Typed(h2) /\ Same(h1, h2, at, hole) /\ h2.index = h1.index /\ h2.end = h1.end
      /\ SizeOf(h2, at) = need /\ ~IsHole(h2, at) /\ Named(h2, at)
  BY <1>3 DEF Written, IsHole
<1>5. Written(h2, h3, hole, TRUE, rest)
  <2>1. TRUE \in BOOLEAN
    OBVIOUS
  <2> QED BY <1>0, <1>4, <2>1, BlockWritten
<1>6. g = InsertHole(h3, hole)
  BY DEF PageCut, h1, h2
<1> HIDE DEF h3, g
<1>7. /\ Typed(h3) /\ Same(h2, h3, hole, v) /\ h3.index = h2.index /\ h3.end = h2.end
      /\ SizeOf(h3, hole) = rest /\ IsHole(h3, hole) /\ Named(h3, hole)
  BY <1>0, <1>5 DEF Written, IsHole
<1>8. SizeOf(h2, a) = front /\ IsHole(h2, a) /\ Named(h2, a)
  <2>1. Typed(h1) /\ SizeOf(h1, a) >= Overhead /\ a + SizeOf(h1, a) <= at
    BY <1>0, <1>2
  <2>2. SizeOf(h2, a) = SizeOf(h1, a) /\ (IsHole(h2, a) <=> IsHole(h1, a)) /\ Named(h2, a)
    BY <1>0, <1>2, <1>4, <2>1, BlockStays
  <2> QED BY <1>2, <2>2
<1>9. SizeOf(h3, a) = front /\ IsHole(h3, a) /\ Named(h3, a)
  <2>1. Typed(h2) /\ SizeOf(h2, a) >= Overhead /\ a + SizeOf(h2, a) <= hole
    BY <1>0, <1>4, <1>8
  <2>2. SizeOf(h3, a) = SizeOf(h2, a) /\ (IsHole(h3, a) <=> IsHole(h2, a)) /\ Named(h3, a)
    BY <1>0, <1>7, <1>8, <2>1, BlockStays
  <2> QED BY <1>8, <2>2
<1>10. SizeOf(h3, at) = need /\ ~IsHole(h3, at) /\ Named(h3, at)
  <2>1. Typed(h2) /\ SizeOf(h2, at) >= Overhead /\ at + SizeOf(h2, at) <= hole
    BY <1>0, <1>4
  <2>2. SizeOf(h3, at) = SizeOf(h2, at) /\ (IsHole(h3, at) <=> IsHole(h2, at)) /\ Named(h3, at)
    BY <1>0, <1>4, <1>7, <2>1, BlockStays
  <2> QED BY <1>4, <2>2
<1>11. /\ Typed(g) /\ (\A i, j \in Nat : Same(h3, g, i, j)) /\ g.end = h3.end
       /\ g.hdr = h3.hdr /\ g.ftr = h3.ftr /\ g.index \in Seq(Nat) /\ Distinct(g.index)
       /\ ToSet(g.index) = ToSet(h3.index) \cup {hole}
  <2>1. h3.index \in Seq(Nat) /\ Distinct(h3.index) /\ hole \notin ToSet(h3.index)
    BY <1>0, <1>2, <1>4, <1>7
  <2>2. LET i == InsertHole(h3, hole) IN
          /\ Typed(i) /\ (\A x, y \in Nat : Same(h3, i, x, y)) /\ i.end = h3.end
          /\ i.hdr = h3.hdr /\ i.ftr = h3.ftr /\ i.index \in Seq(Nat) /\ Distinct(i.index)
          /\ ToSet(i.index) = ToSet(h3.index) \cup {hole}
    BY <1>7, <2>1, InsertHoleParts
  <2> QED BY <1>6, <2>2
<1>12. /\ SizeOf(g, a) = front /\ IsHole(g, a) /\ Named(g, a)
       /\ SizeOf(g, at) = need /\ ~IsHole(g, at) /\ Named(g, at)
       /\ SizeOf(g, hole) = rest /\ IsHole(g, hole) /\ Named(g, hole)
  BY <1>7, <1>9, <1>10, <1>11 DEF SizeOf, IsHole, IsHeader, Named, HasFooter, Footer
<1>13. Same(h, g, a, v)
  <2>1. Same(h3, g, a, v) /\ a <= at /\ at <= hole /\ hole <= v
    BY <1>0, <1>11
  <2>2. Same(h, h1, a, v)
    BY <1>0, <1>2, <2>1, SameWider
  <2>3. Same(h1, h2, a, v)
    BY <1>0, <1>4, <2>1, SameWider
  <2>4. Same(h2, h3, a, v)
    BY <1>0, <1>7, <2>1, SameWider
  <2>5. Same(h, h2, a, v)
    BY <1>0, <2>2, <2>3, SameTwice
  <2>6. Same(h, h3, a, v)
    BY <1>0, <2>4, <2>5, SameTwice
  <2> QED BY <1>0, <2>1, <2>6, SameTwice
<1>14. Span(g, {a, at, hole}, a, v)
  <2>1. Span(g, {a}, a, at)
    BY <1>0, <1>12, SpanOne
  <2>2. Span(g, {at, hole}, at, v)
    BY <1>0, <1>11, <1>12, SpanTwo
  <2> DEFINE L == {a}
             R == {at, hole}
  <2>3. L \cup R = {a, at, hole}
    OBVIOUS
  <2>4. Span(g, L, a, at) /\ Span(g, R, at, v)
    BY <2>1, <2>2
  <2> HIDE DEF L, R
  <2>5. Span(g, L \cup R, a, v)
    BY <1>11, <2>4, SpanJoin
  <2> QED BY <2>3, <2>5
<1>15. Footed(g, {a, at, hole})
  BY <1>12 DEF Footed, Named
<1>16. a + SizeOf(g, a) = at /\ hole + SizeOf(g, hole) = v /\ v \notin {a, at, hole}
       /\ a # at /\ hole # at
  BY <1>0, <1>12
<1>17. ToSet(g.index) = (ToSet(h.index) \ {a}) \cup {x \in {a, at, hole} : x # at}
  BY <1>0, <1>2, <1>4, <1>7, <1>11, <1>16
<1>18. g.end = h.end /\ \A x \in {a, at, hole} :
         /\ x # at => IsHole(g, x)
         /\ IsHole(g, x) /\ x + SizeOf(g, x) \in {a, at, hole} => x + SizeOf(g, x) = at
  BY <1>2, <1>4, <1>7, <1>11, <1>12, <1>16
<1> QED BY <1>11, <1>12, <1>13, <1>14, <1>15, <1>17, <1>18 DEF Cuts, v, g

-----------------------------------------------------------------------------
(* alloc in a tiled heap                                                   *)

(* The hole a has room for the request r, as careful callers see to.       *)
HasRoom(h, a, r) ==
  IF IsAligned(r)
  THEN LET front == Page - HeaderSize - (a % Page)
       IN front >= Overhead /\ SizeOf(h, a) - front - Need(r) >= Overhead
  ELSE SizeOf(h, a) >= Need(r)

(* p is what alloc did of the hole a: a block at `at` for n words.         *)
Allocates(h, a, held, r, p, at, C) ==
  /\ at \in Nat /\ at \in C /\ a <= at /\ at < a + SizeOf(h, a)
  /\ p.pointer = at + HeaderSize /\ p.heap.end = h.end
  /\ SizeOf(p.heap, at) >= r.size + Overhead
  /\ HeapOK(p.heap, C, With(held, at + HeaderSize, r.size))
  /\ IsAligned(r) => (at + HeaderSize) % Page = 0

(* alloc in a hole with room keeps the heap in order.                      *)
LEMMA PlaceOK ==
  ASSUME NEW h, NEW B, NEW held, h.end \in Nat, h.end < WordModulus, HeapOK(h, B, held),
         NEW a \in B, IsHole(h, a), NEW r, NEW n \in Sizes, r.size = n,
         NEW need \in Nat, Need(r) = need, need = n + Overhead, HasRoom(h, a, r)
  PROVE  \E at, C : Allocates(h, a, held, r, Place(h, a, r), at, C)
<1> DEFINE size == SizeOf(h, a)
           p == Place(h, a, r)
<1>0. /\ Typed(h) /\ a \in Nat /\ size \in Nat /\ size >= 5 /\ size < WordModulus
      /\ a + size <= h.end /\ n \in Nat /\ need = n + 5 /\ WordModulus \in Nat
      /\ Page \in Nat /\ Page > 0
  BY HoleKnown, HeapAssumption
<1> HIDE DEF size
<1>s. SizeOf(h, a) = size
  BY DEF size
<1>1. CASE ~IsAligned(r) /\ size < need + 5
  <2>1. need <= size
    BY <1>1, <1>s DEF HasRoom
  <2>3. p.heap = WholeCut(h, a) /\ p.pointer = a + 3
    <3>1. n + Overhead <= size /\ size < n + Overhead + Overhead
      BY <1>0, <1>1, <2>1
    <3>2. Need(r) = n + Overhead
      OBVIOUS
    <3> QED BY <1>0, <1>1, <1>s, <3>1, <3>2, PlaceWhole
  <2> HIDE DEF p
  <2>4. Cuts(h, a, p.heap, {a}, a) /\ SizeOf(p.heap, a) = size
    BY <1>s, <2>3, CutWhole
  <2>5. SizeOf(p.heap, a) >= n + Overhead
    BY <1>0, <2>1, <2>4
  <2>6. PICK C : a \in C /\ HeapOK(p.heap, C, With(held, a + HeaderSize, n))
    BY <2>4, <2>5, CutKeeps
  <2>7. p.heap.end = h.end /\ a <= a /\ a < a + SizeOf(h, a)
    BY <1>0, <1>s, <2>4 DEF Cuts
  <2>8. Allocates(h, a, held, r, p, a, C)
    BY <1>0, <1>1, <2>3, <2>5, <2>6, <2>7 DEF Allocates
  <2> QED BY <2>8 DEF p
<1>2. CASE ~IsAligned(r) /\ ~(size < need + 5)
  <2> DEFINE hole == a + need
             rest == size - need
  <2>1. hole \in Nat /\ hole = a + need /\ rest \in Nat /\ rest >= 5 /\ hole + rest = a + size
    BY <1>0, <1>2
  <2> HIDE DEF hole, rest
  <2>2. /\ p.heap = FrontCut(h, a, need, hole, rest) /\ p.pointer = a + 3
    <3>1. need = n + Overhead /\ rest >= Overhead
      BY <2>1
    <3> QED BY <1>0, <1>2, <1>s, <2>1, <3>1, PlaceFront
  <2> HIDE DEF p
  <2>3. Cuts(h, a, p.heap, {a, hole}, a) /\ SizeOf(p.heap, a) = need
    <3>1. need >= Overhead /\ hole + rest = a + SizeOf(h, a)
      BY <1>0, <1>s, <2>1
    <3>2. /\ Cuts(h, a, FrontCut(h, a, need, hole, rest), {a, hole}, a)
          /\ SizeOf(FrontCut(h, a, need, hole, rest), a) = need
      BY <2>1, <3>1, CutFront
    <3> QED BY <2>2, <3>2
  <2>4. SizeOf(p.heap, a) >= n + Overhead
    BY <1>0, <2>3
  <2>5. PICK C : a \in C /\ HeapOK(p.heap, C, With(held, a + HeaderSize, n))
    BY <2>3, <2>4, CutKeeps
  <2>6. p.heap.end = h.end /\ a <= a /\ a < a + SizeOf(h, a)
    BY <1>0, <1>s, <2>3 DEF Cuts
  <2>7. Allocates(h, a, held, r, p, a, C)
    BY <1>0, <1>2, <2>2, <2>4, <2>5, <2>6 DEF Allocates
  <2> QED BY <2>7 DEF p
<1>3. CASE IsAligned(r)
  <2> DEFINE front == Page - 3 - (a % Page)
             at == a + front
             hole == at + need
             rest == size - front - need
  <2>0. front \in Int /\ front >= 5 /\ rest >= 5 /\ front < WordModulus /\ Page - (a % Page) - 3 = front
        /\ (at + 3) % Page = 0
    <3>1. a % Page \in Nat /\ a % Page < Page /\ a \div Page \in Nat
          /\ a = Page * (a \div Page) + (a % Page)
      BY <1>0, DivMod
    <3>2. front >= 5 /\ rest >= 5
      BY <1>3, <1>s DEF HasRoom
    <3>3. Page <= Start /\ Start <= HeapMax /\ HeapMax < WordModulus
      <4>1. Start + VM_HEAP_MIN_SIZE <= InitialEnd /\ InitialEnd <= HeapMax
        BY LayoutAssumption
      <4>2. InitialEnd \in Nat /\ Start \in Nat /\ HeapMax \in Nat /\ VM_HEAP_MIN_SIZE \in Nat
        BY HeapAssumption, LayoutAssumption, StartIs DEF InitialEnd
      <4> QED BY <4>1, <4>2, StartIs, HeapAssumption
    <3>4. at + 3 = Page * (a \div Page + 1) /\ a \div Page + 1 \in Nat /\ at + 3 \in Nat
      BY <1>0, <3>1
    <3>5. (at + 3) % Page = 0
      BY <3>4, Multiple
    <3>6. HeapMax \in Nat /\ Start \in Nat
      BY HeapAssumption, StartIs
    <3> QED BY <1>0, <3>1, <3>2, <3>3, <3>5, <3>6
  <2>1. /\ front \in Nat /\ at \in Nat /\ at = a + front /\ hole \in Nat /\ hole = at + need
        /\ rest \in Nat /\ hole + rest = a + size /\ a <= at /\ at < a + size
    BY <1>0, <2>0
  <2>2. FrontToPointer(a) = front
    BY <2>0, <2>1, WrapIs DEF FrontToPointer
  <2> HIDE DEF front, at, hole, rest
  <2>3. p.heap = PageCut(h, a, front, at, need, hole, rest) /\ p.pointer = at + 3
    <3>1. need = n + Overhead /\ rest >= Overhead /\ front >= Overhead
      BY <2>0
    <3> QED BY <1>0, <1>3, <1>s, <2>0, <2>1, <2>2, <3>1, PlacePage
  <2> HIDE DEF p
  <2>4. Cuts(h, a, p.heap, {a, at, hole}, at) /\ SizeOf(p.heap, at) = need
    <3>1. need >= Overhead /\ hole + rest = a + SizeOf(h, a)
      BY <1>0, <1>s, <2>1
    <3>2. /\ Cuts(h, a, PageCut(h, a, front, at, need, hole, rest), {a, at, hole}, at)
          /\ SizeOf(PageCut(h, a, front, at, need, hole, rest), at) = need
      BY <2>0, <2>1, <3>1, CutPage
    <3> QED BY <2>3, <3>2
  <2>5. SizeOf(p.heap, at) >= n + Overhead
    BY <1>0, <2>4
  <2>6. PICK C : at \in C /\ HeapOK(p.heap, C, With(held, at + HeaderSize, n))
    BY <2>4, <2>5, CutKeeps
  <2>7. p.heap.end = h.end
    BY <2>4 DEF Cuts
  <2>8. Allocates(h, a, held, r, p, at, C)
    BY <1>s, <2>0, <2>1, <2>3, <2>5, <2>6, <2>7 DEF Allocates
  <2> QED BY <2>8 DEF p
<1> QED BY <1>1, <1>2, <1>3

(* What a state of the invariant says of the heap.                         *)
LEMMA Known ==
  ASSUME HeapInvariant
  PROVE  /\ HeapOK(heap, Blocks, live) /\ heap.end \in Nat /\ heap.end <= HeapMax
         /\ heap.end >= Start + VM_HEAP_MIN_SIZE /\ heap.end % Page = 0
         /\ PagesOf(Start, heap.end - 1) \subseteq framed
         /\ framed \subseteq present /\ framed \subseteq Nat /\ panic \in BOOLEAN
         /\ heap.index \in Seq(Nat) /\ Distinct(heap.index)
         /\ ToSet(heap.index) = {a \in Blocks : IsHole(heap, a)}
         /\ Typed(heap) /\ Tiling(heap, Blocks) /\ Footed(heap, Blocks)
         /\ United(heap, Blocks) /\ Owned(heap, Blocks, live) /\ Blocks \subseteq Nat
<1>1. heap.end \in Nat /\ heap.end <= HeapMax /\ heap.end >= Start + VM_HEAP_MIN_SIZE
  <2>1. Start \in Nat /\ VM_HEAP_MIN_SIZE \in Nat /\ HeapMax \in Nat
    BY StartIs, HeapAssumption
  <2> QED BY <2>1 DEF HeapInvariant, EndInv
<1> QED BY <1>1 DEF HeapInvariant, EndInv, HeapOK, Indexed, Tiling, EndOnPage, Backed

(* Memory is granted that nobody had.                                      *)
Grants(p) ==
  /\ p \in Nat /\ p \notin DOMAIN live /\ live' = With(live, p, request.size)
  /\ IsAligned(request) => p % Page = 0

(* alloc keeps the invariant and grants memory nobody had.                 *)
LEMMA PlaceKeeps ==
  ASSUME Modest, HeapInvariant, AllocPlace
  PROVE  HeapInvariant' /\ \E p : Grants(p)
<1> DEFINE a == heap.index[Found]
           r == request
           p == Place(heap, a, r)
           n == request.size
           need == n + 5
<1>1. /\ HeapOK(heap, Blocks, live) /\ heap.end \in Nat /\ heap.index \in Seq(Nat)
      /\ ToSet(heap.index) = {x \in Blocks : IsHole(heap, x)} /\ Typed(heap)
      /\ Tiling(heap, Blocks) /\ Owned(heap, Blocks, live) /\ Blocks \subseteq Nat
  BY Known
<1>2. /\ request.size \in Sizes /\ Found # 0
      /\ IsAligned(request) => LeavesHoles(heap, request)
  <2>1. Found # 0 /\ request # NoRequest /\ request.size \in Sizes /\ request.turn \in 1..3
        /\ (IsAligned(request) => LeavesHoles(HeapAtLast, request))
    BY DEF HeapInvariant, RequestInv, AllocPlace
  <2>2. Ready(heap, request) = heap
    BY <2>1 DEF Ready, HasFit, Found
  <2>3. HeapAtLast = heap
    BY <2>1, <2>2 DEF HeapAtLast
  <2> QED BY <2>1, <2>3
<1>3. n \in Nat /\ Need(request) = need /\ need \in Nat
  BY <1>2, NeedIs
<1>4. Found \in 1..Len(heap.index) /\ Fits(heap, a, Need(request), IsAligned(request))
  <2>1. Found \in 0..Len(heap.index) /\ Fits(heap, a, Need(request), IsAligned(request))
    BY <1>1, <1>2, FindsFit DEF Found
  <2>2. Len(heap.index) \in Nat
    BY <1>1
  <2> QED BY <1>2, <2>1, <2>2
<1>5. a \in Blocks /\ IsHole(heap, a)
  <2>1. a \in ToSet(heap.index)
    BY <1>1, <1>4, ToSetIs
  <2> QED BY <1>1, <2>1
<1>6. HasRoom(heap, a, request)
  <2>1. CASE IsAligned(request)
    <3>1. LeavesHoles(heap, request)
      BY <1>2, <2>1
    <3>2. IsAligned(request) = TRUE
      BY <2>1 DEF IsAligned
    <3>3. FindHole(heap, Need(request), TRUE) = Found
      BY <3>2 DEF Found
    <3>4. Page - HeaderSize - (a % Page) >= Overhead
          /\ SizeOf(heap, a) - (Page - HeaderSize - (a % Page)) - Need(request) >= Overhead
      BY <3>1, <3>3 DEF LeavesHoles
    <3> QED BY <2>1, <3>4 DEF HasRoom
  <2>2. CASE ~IsAligned(request)
    BY <1>4, <2>2 DEF Fits, HasRoom
  <2> QED BY <2>1, <2>2
<1>7. PICK at, C : Allocates(heap, a, live, request, p, at, C)
  <2>1. Need(request) = need /\ need = n + Overhead /\ n \in Sizes /\ request.size = n
    BY <1>2, <1>3
  <2>2. heap.end < WordModulus
    BY Known, HeapAssumption
  <2> HIDE DEF need, n, a
  <2> QED BY <1>1, <1>3, <1>5, <1>6, <2>1, <2>2, PlaceOK
<1>8. /\ heap' = IF "M_ZERO" \in request.flags THEN Clobber(p.heap, p.pointer, n) ELSE p.heap
      /\ live' = With(live, p.pointer, n)
      /\ request' = NoRequest /\ UNCHANGED <<framed, present, panic>>
  BY DEF AllocPlace
<1> HIDE DEF a, p, need
<1>9. /\ at \in Nat /\ at \in C /\ a <= at /\ at < a + SizeOf(heap, a)
      /\ p.pointer = at + 3 /\ p.heap.end = heap.end
      /\ SizeOf(p.heap, at) >= n + 5
      /\ HeapOK(p.heap, C, With(live, at + 3, n))
      /\ IsAligned(request) => (at + 3) % Page = 0
  BY <1>7 DEF Allocates
<1>10. live' = With(live, at + 3, n)
  BY <1>8, <1>9
<1>11. HeapOK(heap', C, live') /\ heap'.end = heap.end
  <2>1. CASE "M_ZERO" \in request.flags
    <3>1. heap' = Clobber(p.heap, at + 3, n)
      BY <1>8, <1>9, <2>1
    <3>2. HeapOK(Clobber(p.heap, at + 3, n), C, With(live, at + 3, n))
      BY <1>3, <1>9, ZeroKeeps
    <3>3. Clobber(p.heap, at + 3, n).end = p.heap.end
      BY DEF Clobber
    <3> QED BY <1>9, <1>10, <3>1, <3>2, <3>3
  <2>2. CASE ~("M_ZERO" \in request.flags)
    BY <1>8, <1>9, <1>10, <2>2
  <2> QED BY <2>1, <2>2
<1>12. HeapOK(heap', Blocks', live')
  <2>1. BlocksIn(heap') = C
    <3>1. heap'.end \in Nat
      BY <1>1, <1>11
    <3> QED BY <1>11, <3>1, BlocksFound
  <2> QED BY <1>11, <2>1 DEF Blocks
<1>13. HeapInvariant'
  BY <1>8, <1>11, <1>12 DEF HeapInvariant, EndInv, RequestInv, EndOnPage, Backed
<1>14. at + 3 \notin DOMAIN live
  <2> SUFFICES ASSUME at + 3 \in DOMAIN live PROVE FALSE
    OBVIOUS
  <2>1. BlockOf(at + 3) = at
    BY <1>9 DEF BlockOf
  <2>2. at \in Blocks /\ ~IsHole(heap, at)
    BY <1>1, <2>1 DEF Owned
  <2>3. a < at => a + SizeOf(heap, a) <= at
    BY <1>1, <1>5, <2>2 DEF Tiling
  <2>4. a \in Nat /\ SizeOf(heap, a) \in Nat
    BY <1>1, <1>5, SizeNat
  <2>5. a # at
    BY <1>5, <2>2
  <2> QED BY <1>9, <2>3, <2>4, <2>5
<1>15. Grants(at + 3)
  BY <1>9, <1>10, <1>14 DEF Grants
<1> QED BY <1>13, <1>15

-----------------------------------------------------------------------------
(* free                                                                    *)

(* free has made one hole of the blocks from u to w, in the heap f.h; y is *)
(* behind the block that is freed, I is the index, and `add` says whether  *)
(* the hole has still to go into it.                                       *)
Joined(h, f, u, w, y, I, add) ==
  /\ f = [h |-> f.h, header |-> f.header, footer |-> f.footer, do_add |-> f.do_add,
          test_header |-> f.test_header, freed |-> f.freed]
  /\ Typed(f.h) /\ Same(h, f.h, u, w) /\ f.h.end = h.end
  /\ IsHole(f.h, u) /\ u + SizeOf(f.h, u) = w
  /\ f.header = u /\ f.footer = w - FooterSize /\ f.test_header = y /\ f.freed = {}
  /\ f.h.index \in Seq(Nat) /\ Distinct(f.h.index) /\ ToSet(f.h.index) = I
  /\ f.do_add = add

(* The hole has a footer, which need not name it.                          *)
Merged(h, f, u, w, y, I, add) ==
  Joined(h, f, u, w, y, I, add) /\ HasFooter(f.h, w - FooterSize)

(* A header becomes that of a hole.                                        *)
MarkHole(h, x) == [h EXCEPT !.hdr[x].hole = TRUE]

(* The header free marks.                                                  *)
LEMMA HoleMade ==
  ASSUME NEW h, Typed(h), NEW x \in Nat, IsHeader(h, x)
  PROVE  LET g == MarkHole(h, x) IN
         /\ Typed(g) /\ Same(h, g, x, x + 3) /\ g.ftr = h.ftr /\ g.index = h.index /\ g.end = h.end
         /\ IsHole(g, x) /\ SizeOf(g, x) = SizeOf(h, x)
<1> DEFINE g == MarkHole(h, x)
           r == [h.hdr[x] EXCEPT !.hole = TRUE]
<1>0. h.hdr[x] \in [hole : BOOLEAN, size : 0..(WordModulus - 1)]
  BY DEF Typed, IsHeader
<1>1. r \in [hole : BOOLEAN, size : 0..(WordModulus - 1)] /\ r.hole = TRUE /\ r.size = h.hdr[x].size
  BY <1>0
<1>2. g = [h EXCEPT !.hdr[x] = r]
  BY DEF MarkHole
<1> HIDE DEF r, g
<1>3. g = [hdr |-> [h.hdr EXCEPT ![x] = r], ftr |-> h.ftr, index |-> h.index, end |-> h.end]
  BY <1>2 DEF Typed
<1>4. /\ DOMAIN g.hdr = DOMAIN h.hdr
      /\ \A a \in DOMAIN g.hdr : g.hdr[a] = IF a = x THEN r ELSE h.hdr[a]
  BY <1>3
<1>5. Typed(g)
  BY <1>1, <1>3, <1>4 DEF Typed
<1>6. Same(h, g, x, x + 3)
  BY <1>3, <1>4 DEF Same, SameHeader, SameFooter, IsHeader, IsHole, SizeOf, HasFooter
<1>7. IsHole(g, x) /\ SizeOf(g, x) = SizeOf(h, x)
  BY <1>1, <1>4 DEF IsHeader, IsHole, SizeOf
<1> QED BY <1>3, <1>5, <1>6, <1>7 DEF g

(* A footer names another block.                                           *)
NameBlock(h, t, a) == [h EXCEPT !.ftr[t] = a]

(* The footer free makes name the block in front.                          *)
LEMMA FooterMoved ==
  ASSUME NEW h, Typed(h), NEW t \in Nat, HasFooter(h, t), NEW a \in Nat
  PROVE  LET g == NameBlock(h, t, a) IN
         /\ Typed(g) /\ Same(h, g, t, t + 2) /\ g.index = h.index /\ g.end = h.end
         /\ g.hdr = h.hdr /\ \A s : HasFooter(g, s) <=> HasFooter(h, s)
<1> DEFINE g == NameBlock(h, t, a)
<1>1. g = [hdr |-> h.hdr, ftr |-> [h.ftr EXCEPT ![t] = a], index |-> h.index, end |-> h.end]
  BY DEF Typed, NameBlock
<1> HIDE DEF g
<1>2. /\ DOMAIN g.ftr = DOMAIN h.ftr
      /\ \A s \in DOMAIN g.ftr : g.ftr[s] = IF s = t THEN a ELSE h.ftr[s]
  BY <1>1
<1>3. Typed(g)
  BY <1>1, <1>2 DEF Typed
<1>4. Same(h, g, t, t + 2)
  BY <1>1, <1>2 DEF Same, SameHeader, SameFooter, IsHeader, IsHole, SizeOf, HasFooter
<1> QED BY <1>1, <1>2, <1>3, <1>4 DEF HasFooter, g

(* What is behind the block x is at y.                                     *)
EndsAt(h, x, y) == x + SizeOf(h, x) = y

(* free turns the block at x to y into a hole.                             *)
LEMMA FreeingIs ==
  ASSUME NEW h, Typed(h), NEW x \in Nat, SizeOf(h, x) >= Overhead, Named(h, x),
         h.index \in Seq(Nat), Distinct(h.index),
         NEW p, BlockOf(p) = x, NEW y \in Nat, EndsAt(h, x, y)
  PROVE  Merged(h, Freeing(h, p), x, y, y, ToSet(h.index), TRUE)
<1> DEFINE g == MarkHole(h, x)
           f == Freeing(h, p)
           t == y - 2
<1>0. SizeOf(h, x) \in Nat /\ IsHeader(h, x) /\ t \in Nat /\ t >= x + 3 /\ y = x + SizeOf(h, x)
  <2>1. SizeOf(h, x) \in Nat /\ y = x + SizeOf(h, x)
    BY SizeNat DEF EndsAt
  <2>2. IsHeader(h, x)
    <3> SUFFICES ASSUME ~IsHeader(h, x) PROVE FALSE
      OBVIOUS
    <3> QED BY DEF SizeOf
  <2> QED BY <2>1, <2>2
<1>1. /\ Typed(g) /\ Same(h, g, x, x + 3) /\ g.ftr = h.ftr /\ g.index = h.index /\ g.end = h.end
      /\ IsHole(g, x) /\ SizeOf(g, x) = SizeOf(h, x)
  BY <1>0, HoleMade
<1>2. x + SizeOf(h, x) - 2 = t /\ t + 2 = y
  BY <1>0
<1>3. f = [h |-> g, header |-> x, footer |-> t, do_add |-> TRUE, test_header |-> y, freed |-> {}]
  <2>1. p - 3 = x
    BY DEF BlockOf
  <2> HIDE DEF t
  <2> QED BY <1>0, <1>2, <2>1 DEF Freeing, MarkHole
<1> HIDE DEF f, g
<1>4. HasFooter(g, t)
  BY <1>1, <1>2 DEF HasFooter, Named, Footer
<1>5. Same(h, g, x, y)
  BY <1>0, <1>1, SameWider
<1> QED BY <1>0, <1>1, <1>3, <1>4, <1>5 DEF Merged, Joined, f

(* The block z in front is a hole, and the footer names it.                *)
LEMMA LeftIs ==
  ASSUME NEW h, Typed(h), NEW f, NEW x \in Nat, NEW y \in Nat, NEW I,
         Merged(h, f, x, y, y, I, TRUE), y < WordModulus, x + Overhead <= y,
         NEW z \in Nat, IsHole(h, z), SizeOf(h, z) >= Overhead, EndsAt(h, z, x), Named(h, z)
  PROVE  Merged(h, UnifyLeft(f), z, y, y, I, FALSE)
<1> DEFINE t == x - 2
           fz == NameBlock(f.h, y - 2, z)
           size == SizeOf(fz, z) + SizeOf(fz, x)
           g == SetSize(fz, z, size)
           e == UnifyLeft(f)
<1>0. /\ Typed(f.h) /\ Same(h, f.h, x, y) /\ f.h.end = h.end /\ IsHole(f.h, x)
      /\ x + SizeOf(f.h, x) = y /\ HasFooter(f.h, y - 2)
      /\ f.header = x /\ f.footer = y - 2 /\ f.test_header = y /\ f.freed = {}
      /\ f.h.index \in Seq(Nat) /\ Distinct(f.h.index) /\ ToSet(f.h.index) = I
      /\ f = [h |-> f.h, header |-> f.header, footer |-> f.footer, do_add |-> f.do_add,
              test_header |-> f.test_header, freed |-> f.freed]
  BY DEF Merged, Joined
<1>1. SizeOf(h, z) \in Nat /\ t \in Nat /\ t + 2 <= x /\ z + 3 <= x /\ z + 3 <= y - 2 /\ z <= x /\ x <= y
      /\ y - 2 \in Nat /\ (y - 2) + 2 = y /\ z + SizeOf(h, z) = x /\ Footer(h, z) = t /\ z <= y - 2
  <2>1. SizeOf(h, z) \in Nat /\ z + SizeOf(h, z) = x
    BY SizeNat DEF EndsAt
  <2> QED BY <2>1 DEF Footer
<1>2. HasFooter(f.h, t) /\ f.h.ftr[t] = z
  <2>1. SameFooter(h, f.h, t)
    BY <1>0, <1>1 DEF Same
  <2> QED BY <1>1, <2>1 DEF SameFooter, Named
<1>3. IsHole(f.h, z) /\ IsHeader(f.h, z) /\ SizeOf(f.h, z) = SizeOf(h, z)
  <2>1. SameHeader(h, f.h, z)
    BY <1>0, <1>1 DEF Same
  <2> QED BY <2>1 DEF SameHeader, IsHole
<1>4. /\ Typed(fz) /\ Same(f.h, fz, y - 2, y) /\ fz.index = f.h.index /\ fz.end = f.h.end
      /\ fz.hdr = f.h.hdr /\ HasFooter(fz, y - 2)
  <2> DEFINE b == y - 2
  <2>1. b \in Nat /\ HasFooter(f.h, b) /\ b + 2 = y /\ fz = NameBlock(f.h, b, z)
    BY <1>0, <1>1
  <2> HIDE DEF b, fz
  <2>2. LET k == NameBlock(f.h, b, z) IN
          /\ Typed(k) /\ Same(f.h, k, b, b + 2) /\ k.index = f.h.index /\ k.end = f.h.end
          /\ k.hdr = f.h.hdr /\ \A s : HasFooter(k, s) <=> HasFooter(f.h, s)
    BY <1>0, <2>1, FooterMoved
  <2>3. /\ Typed(fz) /\ Same(f.h, fz, b, y) /\ fz.index = f.h.index /\ fz.end = f.h.end
        /\ fz.hdr = f.h.hdr /\ HasFooter(fz, b)
    BY <2>1, <2>2
  <2> QED BY <2>3 DEF b
<1>5. e = [h |-> g, header |-> z, footer |-> f.footer, do_add |-> FALSE,
           test_header |-> f.test_header, freed |-> f.freed]
  <2>1. f.header - FooterSize = t /\ t \in DOMAIN f.h.ftr /\ f.h.ftr[t] = z
    BY <1>0, <1>2 DEF HasFooter
  <2> HIDE DEF t
  <2>2. e = [f EXCEPT !.h = SetSize([@ EXCEPT !.ftr[f.footer] = z], z,
                                    SizeOf(@, z) + SizeOf(@, f.header)),
                      !.header = z, !.do_add = FALSE]
    BY <1>3, <2>1 DEF UnifyLeft
  <2>4. [f.h EXCEPT !.ftr[f.footer] = z] = fz
    BY <1>0 DEF NameBlock
  <2>3. SizeOf(fz, z) = SizeOf(f.h, z) /\ SizeOf(fz, x) = SizeOf(f.h, x)
    BY <1>4 DEF SizeOf, IsHeader
  <2> HIDE DEF e
  <2> HIDE DEF fz
  <2> QED BY <1>0, <2>2, <2>3, <2>4
<1> HIDE DEF fz
<1>6. SizeOf(fz, z) = SizeOf(h, z) /\ x + SizeOf(fz, x) = y /\ IsHole(fz, z) /\ IsHeader(fz, z)
      /\ SizeOf(fz, x) \in Nat
  BY <1>0, <1>3, <1>4, SizeNat DEF SizeOf, IsHeader, IsHole
<1>7. size \in 0..(WordModulus - 1) /\ z + size = y
  <2>1. WordModulus \in Nat
    BY HeapAssumption
  <2>2. z + size = y
    BY <1>1, <1>6
  <2> QED BY <1>1, <1>6, <2>1, <2>2
<1> HIDE DEF size
<1>8. /\ Typed(g) /\ Same(fz, g, z, z + 3) /\ g.ftr = fz.ftr /\ g.index = fz.index /\ g.end = fz.end
      /\ SizeOf(g, z) = size /\ IsHole(g, z)
  BY <1>4, <1>6, <1>7, SetSizeParts
<1> HIDE DEF g, e
<1>9. Same(h, g, z, y)
  <2>1. Same(h, f.h, z, y)
    BY <1>0, <1>1, SameWider
  <2>2. Same(f.h, fz, z, y)
    BY <1>1, <1>4, SameWider
  <2>3. Same(fz, g, z, y)
    BY <1>1, <1>8, SameWider
  <2>4. Same(h, fz, z, y)
    BY <2>1, <2>2, SameTwice
  <2> QED BY <2>3, <2>4, SameTwice
<1>10. HasFooter(g, y - 2) /\ g.index = f.h.index /\ g.end = h.end
  BY <1>0, <1>4, <1>8 DEF HasFooter
<1>11. e.h = g /\ e.header = z /\ e.footer = y - 2 /\ e.do_add = FALSE /\ e.test_header = y /\ e.freed = {}
       /\ e = [h |-> e.h, header |-> e.header, footer |-> e.footer, do_add |-> e.do_add,
               test_header |-> e.test_header, freed |-> e.freed]
  BY <1>0, <1>5
<1>12. Merged(h, e, z, y, y, I, FALSE)
  BY <1>0, <1>7, <1>8, <1>9, <1>10, <1>11 DEF Merged, Joined
<1> QED BY <1>12 DEF e

(* No block in front, or one that is no hole: nothing happens.             *)
LEMMA NoLeft ==
  ASSUME NEW h, NEW f, NEW x \in Nat, NEW y, NEW I, NEW add, Merged(h, f, x, y, y, I, add),
         \/ ~HasFooter(h, x - FooterSize)
         \/ /\ x - FooterSize \in Nat
            /\ \E z \in Nat : z + HeaderSize <= x /\ h.ftr[x - FooterSize] = z /\ ~IsHole(h, z)
  PROVE  UnifyLeft(f) = f
<1> DEFINE t == x - 2
<1>0. Typed(f.h) /\ Same(h, f.h, x, y) /\ f.header = x
  BY DEF Merged, Joined
<1>1. CASE t \in Nat
  <2>1. SameFooter(h, f.h, t)
    BY <1>0, <1>1 DEF Same
  <2>2. CASE ~HasFooter(h, t)
    <3>1. ~(f.header - FooterSize \in DOMAIN f.h.ftr)
      BY <1>0, <2>1, <2>2 DEF SameFooter, HasFooter
    <3> QED BY <3>1 DEF UnifyLeft
  <2>3. CASE HasFooter(h, t)
    <3>1. PICK z \in Nat : z + 3 <= x /\ h.ftr[t] = z /\ ~IsHole(h, z)
      BY <2>3
    <3>2. SameHeader(h, f.h, z)
      BY <1>0, <3>1 DEF Same
    <3>3. ~IsHole(f.h, z) /\ f.h.ftr[t] = z /\ f.header - FooterSize = t
      BY <1>0, <2>1, <2>3, <3>1, <3>2 DEF SameFooter, SameHeader
    <3> HIDE DEF t
    <3> QED BY <3>3 DEF UnifyLeft
  <2> QED BY <2>2, <2>3
<1>2. CASE t \notin Nat
  <2>1. ~(f.header - FooterSize \in DOMAIN f.h.ftr)
    BY <1>0, <1>2 DEF Typed
  <2> QED BY <2>1 DEF UnifyLeft
<1> QED BY <1>1, <1>2

(* The block behind is no hole: nothing happens.                           *)
LEMMA NoRight ==
  ASSUME NEW h, NEW f, NEW u, NEW y \in Nat, NEW I, NEW add, Merged(h, f, u, y, y, I, add),
         ~IsHole(h, y)
  PROVE  UnifyRight(f) = f
<1>1. SameHeader(h, f.h, y) /\ f.test_header = y
  BY DEF Merged, Joined, Same
<1>2. ~IsHole(f.h, f.test_header)
  BY <1>1 DEF SameHeader
<1> QED BY <1>2 DEF UnifyRight

(* The block behind, up to w, is a hole.                                   *)
LEMMA RightIs ==
  ASSUME NEW h, Typed(h), NEW f, NEW u \in Nat, NEW y \in Nat, NEW I, NEW add,
         Merged(h, f, u, y, y, I, add), u + Overhead <= y,
         NEW w \in Nat, y + SizeOf(h, y) = w, SizeOf(h, y) >= Overhead, w < WordModulus,
         IsHole(h, y), y \in I
  PROVE  /\ Joined(h, UnifyRight(f), u, w, y, I \ {y}, add)
         /\ HasFooter(h, w - FooterSize) => HasFooter(UnifyRight(f).h, w - FooterSize)
<1> DEFINE size == SizeOf(f.h, u) + SizeOf(f.h, y)
           s == SetSize(f.h, u, size)
           g == RemoveHole(s, y)
           e == UnifyRight(f)
<1>0. /\ Typed(f.h) /\ Same(h, f.h, u, y) /\ f.h.end = h.end /\ IsHole(f.h, u)
      /\ u + SizeOf(f.h, u) = y /\ HasFooter(f.h, y - 2)
      /\ f.header = u /\ f.footer = y - 2 /\ f.test_header = y /\ f.freed = {}
      /\ f.h.index \in Seq(Nat) /\ Distinct(f.h.index) /\ ToSet(f.h.index) = I
      /\ f = [h |-> f.h, header |-> f.header, footer |-> f.footer, do_add |-> f.do_add,
              test_header |-> f.test_header, freed |-> f.freed]
      /\ f.do_add = add
  BY DEF Merged, Joined
<1>1. SizeOf(h, y) \in Nat /\ SizeOf(f.h, u) \in Nat /\ w - 2 \in Nat /\ w - 2 >= y /\ u + 3 <= w - 2
      /\ u <= y /\ y <= w
  <2>1. SizeOf(h, y) \in Nat /\ SizeOf(f.h, u) \in Nat
    BY <1>0, SizeNat
  <2> QED BY <2>1
<1>2. IsHole(f.h, y) /\ SizeOf(f.h, y) = SizeOf(h, y)
  <2>1. SameHeader(h, f.h, y)
    BY <1>0 DEF Same
  <2> QED BY <2>1 DEF SameHeader
<1>3. size \in 0..(WordModulus - 1) /\ u + size = w
  <2>1. WordModulus \in Nat
    BY HeapAssumption
  <2>2. u + size = w
    BY <1>0, <1>1, <1>2
  <2> QED BY <1>1, <1>2, <2>1, <2>2
<1>4. e = [h |-> g, header |-> f.header, footer |-> w - 2, do_add |-> f.do_add,
           test_header |-> f.test_header, freed |-> f.freed]
  <2>1. y + SizeOf(f.h, y) - FooterSize = w - 2
    BY <1>1, <1>2
  <2>2. e = [f EXCEPT !.h = RemoveHole(SetSize(@, u, SizeOf(@, u) + SizeOf(@, y)), y),
                      !.footer = w - 2]
    BY <1>0, <1>2, <2>1 DEF UnifyRight
  <2> HIDE DEF e
  <2> QED BY <1>0, <2>2
<1> HIDE DEF size
<1>5. /\ Typed(s) /\ Same(f.h, s, u, u + 3) /\ s.ftr = f.h.ftr /\ s.index = f.h.index /\ s.end = f.h.end
      /\ SizeOf(s, u) = size /\ IsHole(s, u)
  <2>1. IsHeader(f.h, u)
    BY <1>0 DEF IsHole
  <2>2. /\ Typed(s) /\ Same(f.h, s, u, u + 3) /\ s.ftr = f.h.ftr /\ s.index = f.h.index /\ s.end = f.h.end
        /\ SizeOf(s, u) = size /\ (IsHole(s, u) <=> IsHole(f.h, u))
    BY <1>0, <1>3, <2>1, SetSizeParts
  <2> HIDE DEF s
  <2> QED BY <1>0, <2>2
<1> HIDE DEF s
<1>6. /\ Typed(g) /\ (\A i, j \in Nat : Same(s, g, i, j)) /\ g.hdr = s.hdr /\ g.ftr = s.ftr /\ g.end = s.end
      /\ g.index \in Seq(Nat) /\ Distinct(g.index) /\ ToSet(g.index) = I \ {y}
  <2>1. s.index \in Seq(Nat) /\ Distinct(s.index) /\ y \in ToSet(s.index) /\ ToSet(s.index) = I
    BY <1>0, <1>5
  <2>2. /\ Typed(g) /\ (\A i, j \in Nat : Same(s, g, i, j)) /\ g.hdr = s.hdr /\ g.ftr = s.ftr /\ g.end = s.end
        /\ g.index \in Seq(Nat) /\ Distinct(g.index) /\ ToSet(g.index) = ToSet(s.index) \ {y}
    BY <1>5, <2>1, RemoveHoleParts
  <2> QED BY <2>1, <2>2
<1> HIDE DEF g, e
<1>7. Same(h, g, u, w)
  <2>1. Same(h, f.h, u, w)
    BY <1>0, <1>1, SameWider
  <2>2. Same(f.h, s, u, w)
    <3>1. u + 3 <= w /\ u + 3 \in Nat
      BY <1>1
    <3> QED BY <1>5, <3>1, SameWider
  <2>3. Same(s, g, u, w)
    BY <1>6
  <2>4. Same(h, s, u, w)
    BY <2>1, <2>2, SameTwice
  <2> QED BY <2>3, <2>4, SameTwice
<1>8. IsHole(g, u) /\ SizeOf(g, u) = size
  BY <1>5, <1>6 DEF IsHole, IsHeader, SizeOf
<1>9. HasFooter(h, w - 2) => HasFooter(g, w - 2)
  <2>1. SameFooter(h, f.h, w - 2)
    BY <1>0, <1>1 DEF Same
  <2> QED BY <1>5, <1>6, <2>1 DEF HasFooter, SameFooter
<1>10. e.h = g /\ e.header = u /\ e.footer = w - 2 /\ e.do_add = add /\ e.test_header = y /\ e.freed = {}
       /\ e = [h |-> e.h, header |-> e.header, footer |-> e.footer, do_add |-> e.do_add,
               test_header |-> e.test_header, freed |-> e.freed]
  BY <1>0, <1>4
<1>11. Joined(h, e, u, w, y, I \ {y}, add)
  BY <1>0, <1>3, <1>5, <1>6, <1>7, <1>8, <1>10 DEF Joined
<1> QED BY <1>9, <1>10, <1>11 DEF e

(* A length below the minimum leads to the minimum.                        *)
LEMMA ContractedIs ==
  ASSUME NEW n \in Nat, n < VM_HEAP_MIN_SIZE
  PROVE  Contracted(n) = VM_HEAP_MIN_SIZE
<1> DEFINE odd == (n \div Page) % 2 = 1
<1>1. VM_HEAP_MIN_SIZE \in Nat /\ 2 * Page \in Nat /\ 2 * Page <= VM_HEAP_MIN_SIZE
  <2>1. Page \in Nat /\ VM_HEAP_MIN_SIZE \in Nat /\ VM_HEAP_MIN_SIZE >= 2 * Page
    BY HeapAssumption
  <2> QED BY <2>1
<1> HIDE DEF odd
<1>2. CASE odd
  <2>1. Contracted(n) = IF 2 * Page < VM_HEAP_MIN_SIZE THEN VM_HEAP_MIN_SIZE ELSE 2 * Page
    BY <1>2 DEF Contracted, odd
  <2> QED BY <1>1, <2>1
<1>3. CASE ~odd
  <2>1. Contracted(n) = IF n < VM_HEAP_MIN_SIZE THEN VM_HEAP_MIN_SIZE ELSE n
    BY <1>3 DEF Contracted, odd
  <2> QED BY <1>1, <2>1
<1> QED BY <1>2, <1>3

(* The hole from u to w after contract: when it ends the heap, the heap    *)
(* has its minimum size, and the hole ends there.                          *)
Ended(h, f, u, w, I, add) ==
  /\ f = [h |-> f.h, header |-> f.header, footer |-> f.footer, do_add |-> f.do_add,
          test_header |-> f.test_header, freed |-> f.freed]
  /\ Typed(f.h) /\ Same(h, f.h, u, w) /\ IsHole(f.h, u) /\ f.header = u
  /\ f.h.index \in Seq(Nat) /\ Distinct(f.h.index) /\ ToSet(f.h.index) = I
  /\ f.do_add = add
  /\ w # h.end => /\ f.h.end = h.end /\ u + SizeOf(f.h, u) = w
                  /\ HasFooter(f.h, w - FooterSize) /\ f.freed = {}
  /\ w = h.end => /\ f.h.end = Start + VM_HEAP_MIN_SIZE
                  /\ u + SizeOf(f.h, u) = Start + VM_HEAP_MIN_SIZE
                  /\ f.freed = PagesBehind(VM_HEAP_MIN_SIZE, h.end - Start)

(* free does not contract when the hole is not the last.                   *)
LEMMA NoContract ==
  ASSUME NEW h, NEW f, NEW u, NEW w \in Nat, NEW y, NEW I, NEW add, Joined(h, f, u, w, y, I, add),
         w # h.end, HasFooter(f.h, w - FooterSize)
  PROVE  Ended(h, ContractHeap(f), u, w, I, add)
<1>1. f.footer + FooterSize = w /\ f.h.end = h.end
  BY DEF Joined
<1>2. ContractHeap(f) = f
  BY <1>1 DEF ContractHeap
<1> QED BY <1>2 DEF Joined, Ended

(* It contracts the heap to its minimum when the hole is the last.         *)
LEMMA Contracts ==
  ASSUME NEW h, Typed(h), h.end \in Nat, h.end < WordModulus, h.end >= Start + VM_HEAP_MIN_SIZE,
         NEW f, NEW u \in Nat, NEW w \in Nat, NEW y, NEW I, NEW add, Joined(h, f, u, w, y, I, add),
         w = h.end, Start <= u, u - Start <= VM_HEAP_MIN_SIZE - Overhead
  PROVE  Ended(h, ContractHeap(f), u, w, I, add)
<1> DEFINE min == VM_HEAP_MIN_SIZE
           e == Start + min
           old == h.end - Start
           size == e - u
           m == [f.h EXCEPT !.end = e]
           g == Resize(m, u, size)
           k == ContractHeap(f)
<1>0. /\ f = [h |-> f.h, header |-> f.header, footer |-> f.footer, do_add |-> f.do_add,
              test_header |-> f.test_header, freed |-> f.freed]
      /\ Typed(f.h) /\ Same(h, f.h, u, w) /\ f.h.end = h.end
      /\ IsHole(f.h, u) /\ u + SizeOf(f.h, u) = w
      /\ f.header = u /\ f.footer = w - 2 /\ f.test_header = y /\ f.freed = {}
      /\ f.h.index \in Seq(Nat) /\ Distinct(f.h.index) /\ ToSet(f.h.index) = I
      /\ f.do_add = add
  BY DEF Joined
<1>1. Start \in Nat /\ min \in Nat /\ WordModulus \in Nat
  BY StartIs, HeapAssumption
<1>2. /\ e \in Nat /\ e <= h.end /\ size \in Nat /\ size >= 5 /\ size < WordModulus /\ u + size = e
      /\ e <= w /\ u <= e
  BY <1>1
<1>3. Contracted(u - Start) = min
  <2>1. u - Start \in Nat /\ u - Start < min
    BY <1>1
  <2> QED BY <2>1, ContractedIs
<1>4. Wrap(SizeOf(f.h, u) - (old - min)) = size
  <2>1. SizeOf(f.h, u) \in Nat
    BY <1>0, SizeNat
  <2>2. SizeOf(f.h, u) - (old - min) = size
    BY <1>0, <1>1, <2>1
  <2> HIDE DEF size, old, min
  <2> QED BY <1>2, <2>2, WrapIs
<1>5. k = [h |-> g, header |-> f.header, footer |-> f.footer, do_add |-> f.do_add,
           test_header |-> f.test_header, freed |-> PagesBehind(min, old)]
  <2>1. f.footer + FooterSize = f.h.end /\ size # 0
    BY <1>0, <1>2
  <2>2. f.h.end - Start = old
    BY <1>0
  <2>3. [f.h EXCEPT !.end = Start + min] = m
    OBVIOUS
  <2> HIDE DEF min, old, size, m
  <2>4. k = [f EXCEPT !.h = PutFooter(SetSize(m, u, size), u + size - FooterSize, u),
                      !.freed = PagesBehind(min, old)]
    BY <1>0, <1>3, <1>4, <2>1, <2>2, <2>3 DEF ContractHeap
  <2>5. g = PutFooter(SetSize(m, u, size), u + size - FooterSize, u)
    BY DEF Resize
  <2> HIDE DEF g, k
  <2> QED BY <1>0, <2>4, <2>5
<1> HIDE DEF size
<1>6. /\ Typed(m) /\ (\A i, j \in Nat : Same(f.h, m, i, j)) /\ m.hdr = f.h.hdr
      /\ m.index = f.h.index /\ m.end = e
  <2> HIDE DEF e, m
  <2> QED BY <1>0, <1>2, EndMoved DEF m
<1> HIDE DEF m
<1>7. IsHeader(m, u) /\ IsHole(m, u)
  BY <1>0, <1>6 DEF IsHole, IsHeader
<1>8. /\ Typed(g) /\ Same(m, g, u, u + size) /\ g.index = m.index /\ g.end = m.end
      /\ SizeOf(g, u) = size /\ (IsHole(g, u) <=> IsHole(m, u))
  BY <1>2, <1>6, <1>7, BlockResized
<1> HIDE DEF g
<1>9. Same(h, g, u, w)
  <2>1. Same(f.h, m, u, w)
    BY <1>6
  <2>2. Same(m, g, u, w)
    BY <1>2, <1>8, SameWider
  <2>3. Same(h, m, u, w)
    BY <1>0, <2>1, SameTwice
  <2> QED BY <2>2, <2>3, SameTwice
<1> HIDE DEF k
<1>10. /\ k.h = g /\ k.header = u /\ k.do_add = add /\ k.freed = PagesBehind(min, old)
       /\ k = [h |-> k.h, header |-> k.header, footer |-> k.footer, do_add |-> k.do_add,
               test_header |-> k.test_header, freed |-> k.freed]
  BY <1>0, <1>5
<1>11. g.end = e /\ u + SizeOf(g, u) = e /\ g.index = f.h.index /\ IsHole(g, u)
  BY <1>2, <1>6, <1>7, <1>8
<1>12. Ended(h, k, u, w, I, add)
  BY <1>0, <1>8, <1>9, <1>10, <1>11 DEF Ended
<1> QED BY <1>12 DEF k

-----------------------------------------------------------------------------
(* The heap after free                                                     *)

(* g is h with one hole from u to the end of the blocks up to w.           *)
Empties(h, g, u, w, J) ==
  /\ Typed(g) /\ Same(h, g, u, w) /\ IsHole(g, u)
  /\ g.index \in Seq(Nat) /\ Distinct(g.index) /\ ToSet(g.index) = J
  /\ w # h.end => g.end = h.end /\ u + SizeOf(g, u) = w /\ HasFooter(g, w - FooterSize)
  /\ w = h.end => /\ g.end = Start + VM_HEAP_MIN_SIZE
                  /\ u + SizeOf(g, u) = Start + VM_HEAP_MIN_SIZE

(* A hole that grew is in the index.                                       *)
LEMMA NotAdded ==
  ASSUME NEW h, NEW f, NEW u, NEW w, NEW I, Ended(h, f, u, w, I, FALSE), u \in I
  PROVE  Empties(h, AddToIndex(f).h, u, w, I \cup {u}) /\ AddToIndex(f).freed = f.freed
<1>1. AddToIndex(f) = f
  BY DEF Ended, AddToIndex
<1>2. I \cup {u} = I
  OBVIOUS
<1> QED BY <1>1, <1>2 DEF Ended, Empties

(* A new hole goes into it.                                                *)
LEMMA Added ==
  ASSUME NEW h, NEW f, NEW u \in Nat, NEW w \in Nat, NEW I, Ended(h, f, u, w, I, TRUE), u \notin I
  PROVE  Empties(h, AddToIndex(f).h, u, w, I \cup {u}) /\ AddToIndex(f).freed = f.freed
<1> DEFINE g == InsertHole(f.h, u)
           k == AddToIndex(f)
<1>1. k = [h |-> g, header |-> f.header, footer |-> f.footer, do_add |-> f.do_add,
           test_header |-> f.test_header, freed |-> f.freed]
  <2>1. k = [f EXCEPT !.h = InsertHole(@, u)]
    BY DEF Ended, AddToIndex
  <2> HIDE DEF k
  <2> QED BY <2>1 DEF Ended
<1>2. k.h = g /\ k.freed = f.freed
  BY <1>1
<1>3. /\ Typed(f.h) /\ Same(h, f.h, u, w) /\ IsHole(f.h, u)
      /\ f.h.index \in Seq(Nat) /\ Distinct(f.h.index) /\ ToSet(f.h.index) = I
  BY DEF Ended
<1>4. /\ Typed(g) /\ (\A i, j \in Nat : Same(f.h, g, i, j)) /\ g.hdr = f.h.hdr /\ g.ftr = f.h.ftr
      /\ g.end = f.h.end
      /\ g.index \in Seq(Nat) /\ Distinct(g.index) /\ ToSet(g.index) = ToSet(f.h.index) \cup {u}
  BY <1>3, InsertHoleParts
<1> HIDE DEF g, k
<1>5. Same(h, g, u, w)
  BY <1>3, <1>4, SameTwice
<1>6. IsHole(g, u) /\ SizeOf(g, u) = SizeOf(f.h, u) /\ \A t : HasFooter(g, t) <=> HasFooter(f.h, t)
  BY <1>3, <1>4 DEF IsHole, IsHeader, SizeOf, HasFooter
<1>7. Empties(h, g, u, w, I \cup {u})
  BY <1>3, <1>4, <1>5, <1>6 DEF Ended, Empties
<1> QED BY <1>2, <1>7 DEF k

(* The heap with one hole from u on is in order.                           *)
LEMMA EmptiedKeeps ==
  ASSUME NEW h, NEW B, NEW held, h.end \in Nat, HeapOK(h, B, held),
         NEW p \in DOMAIN held, NEW x, x = BlockOf(p),
         NEW u \in B, NEW w \in B \cup {h.end}, u <= x, x < w,
         \A b \in B : u <= b /\ b < w => b = x \/ IsHole(h, b),
         \A b \in B : b + SizeOf(h, b) = u => ~IsHole(h, b),
         w \in B => ~IsHole(h, w),
         w = h.end => u - Start <= VM_HEAP_MIN_SIZE - Overhead,
         NEW g, NEW J, Empties(h, g, u, w, J),
         J = {b \in Kept(B, u, w) : IsHole(h, b)} \cup {u}
  PROVE  HeapOK(g, Kept(B, u, w) \cup {u}, Restrict(held, DOMAIN held \ {p}))
<1> DEFINE e == IF w = h.end THEN g.end ELSE w
           P == {u}
           held2 == Restrict(held, DOMAIN held \ {p})
<1>0. /\ B \subseteq Nat /\ u \in Nat /\ w \in Nat /\ Start \in Nat /\ VM_HEAP_MIN_SIZE \in Nat
      /\ SizeOf(h, u) \in Nat /\ SizeOf(h, u) >= 5 /\ u < h.end
      /\ Tiling(h, B) /\ Owned(h, B, held) /\ p \in Nat /\ x \in B /\ x \in Nat /\ u < w
  <2>1. B \subseteq Nat /\ Tiling(h, B) /\ Owned(h, B, held)
    BY DEF HeapOK, Tiling
  <2>2. SizeOf(h, u) \in Nat
    BY SizeNat DEF HeapOK
  <2>3. SizeOf(h, u) >= 5 /\ u + SizeOf(h, u) <= h.end
    BY <2>1 DEF Tiling
  <2>4. p \in Nat /\ x \in B
    BY <2>1 DEF Owned
  <2>5. u \in Nat /\ w \in Nat /\ x \in Nat
    BY <2>1, <2>4
  <2>6. u < w
    BY <2>5
  <2> QED BY <2>1, <2>2, <2>3, <2>4, <2>5, <2>6, StartIs, HeapAssumption
<1>1. /\ Typed(g) /\ Same(h, g, u, w) /\ IsHole(g, u)
      /\ g.index \in Seq(Nat) /\ Distinct(g.index) /\ ToSet(g.index) = J
  BY DEF Empties
<1>2. SizeOf(g, u) \in Nat
  BY <1>1, SizeNat
<1>3. u + SizeOf(g, u) = e /\ g.end = (IF w = h.end THEN e ELSE h.end) /\ SizeOf(g, u) >= 5 /\ e \in Nat
      /\ (w # h.end => e = w) /\ (w # h.end => HasFooter(g, w - 2))
  <2>1. CASE w = h.end
    <3>1. g.end = Start + VM_HEAP_MIN_SIZE /\ u + SizeOf(g, u) = g.end
      BY <2>1 DEF Empties
    <3>2. SizeOf(g, u) >= 5
      BY <1>0, <1>2, <2>1, <3>1
    <3> QED BY <1>0, <2>1, <3>1, <3>2
  <2>2. CASE w # h.end
    <3>1. g.end = h.end /\ u + SizeOf(g, u) = w /\ HasFooter(g, w - 2)
      BY <2>2 DEF Empties
    <3>2. u + SizeOf(h, u) <= w
      BY <1>0, <2>2 DEF Tiling
    <3> QED BY <1>0, <1>2, <2>2, <3>1, <3>2
  <2> QED BY <2>1, <2>2
<1> HIDE DEF e
<1>4. Replaces(h, B, g, P, u, w, e)
  <2>1. Span(g, P, u, e)
    BY <1>0, <1>2, <1>3, SpanOne
  <2>2. Footed(g, P)
    <3>1. u + SizeOf(g, u) # g.end => HasFooter(g, Footer(g, u))
      <4>1. CASE w = h.end
        BY <1>3, <4>1
      <4>2. CASE w # h.end
        <5>1. u + SizeOf(g, u) = w /\ HasFooter(g, w - 2)
          BY <1>3, <4>2
        <5>2. Footer(g, u) = w - 2
          BY <1>0, <1>2, <5>1 DEF Footer
        <5> QED BY <5>1, <5>2
      <4> QED BY <4>1, <4>2
    <3> QED BY <1>1, <3>1 DEF Footed
  <2>3. u <= w /\ u < e /\ u # h.end
    BY <1>0, <1>2, <1>3
  <2> QED BY <1>0, <1>1, <1>3, <2>1, <2>2, <2>3 DEF Replaces
<1>5. KeepsApart(h, B, g, P, u, w, e)
  <2>1. u + SizeOf(g, u) # u
    BY <1>0, <1>2, <1>3
  <2> QED BY <2>1 DEF KeepsApart
<1>6. Reindexes(h, B, g, P, u, w)
  <2>1. {a \in P : IsHole(g, a)} = {u}
    BY <1>1
  <2> QED BY <1>1, <2>1 DEF Reindexes
<1>7. HandsOut(B, g, P, u, w, held, held2)
  <2>1. DOMAIN held2 = DOMAIN held \ {p} /\ \A q \in DOMAIN held2 : held2[q] = held[q]
    BY DEF Restrict
  <2> HIDE DEF held2
  <2>2. ASSUME NEW q \in DOMAIN held2 PROVE BlockOf(q) \in Kept(B, u, w)
    <3>1. q \in DOMAIN held /\ q # p
      BY <2>1
    <3>2. BlockOf(q) \in B /\ ~IsHole(h, BlockOf(q)) /\ q \in Nat
      BY <1>0, <3>1 DEF Owned
    <3>3. BlockOf(q) # x
      BY <1>0, <3>1, <3>2 DEF BlockOf
    <3>4. BlockOf(q) \in Nat
      BY <1>0, <3>2
    <3>5. ~(u <= BlockOf(q) /\ BlockOf(q) < w)
      BY <3>2, <3>3
    <3> QED BY <1>0, <3>2, <3>4, <3>5 DEF Kept
  <2>3. x \notin Kept(B, u, w)
    BY <1>0 DEF Kept
  <2> QED BY <1>1, <2>1, <2>2, <2>3 DEF HandsOut
<1> QED BY <1>4, <1>5, <1>6, <1>7, Rebuilt

(* Every block but the first has a block in front of it.                   *)
LEMMA FrontBlock ==
  ASSUME NEW h, NEW B, Typed(h), h.end \in Nat, Tiling(h, B), NEW x \in B, x # Start
  PROVE  \E z \in B : z + SizeOf(h, z) = x
<1> DEFINE T == {b \in B : b < x}
           z == Max(T)
<1>0. B \subseteq Nat /\ x \in Nat /\ Start \in B /\ Start <= x /\ x < h.end
      /\ \A b \in B : SizeOf(h, b) \in Nat /\ SizeOf(h, b) >= 5
  <2>1. B \subseteq Nat /\ Start \in B /\ Start <= x /\ x + SizeOf(h, x) <= h.end
        /\ \A b \in B : SizeOf(h, b) >= 5
    BY DEF Tiling
  <2>2. \A b \in B : SizeOf(h, b) \in Nat
    BY SizeNat
  <2> QED BY <2>1, <2>2
<1>1. T \subseteq Nat /\ T # {} /\ \A b \in T : b <= x
  <2>1. Start \in Nat /\ Start < x
    BY <1>0
  <2>2. Start \in T
    BY <1>0, <2>1
  <2>3. \A b \in T : b <= x /\ b \in Nat
    BY <1>0
  <2> HIDE DEF T
  <2> QED BY <2>2, <2>3
<1>2. z \in T /\ \A b \in T : b <= z
  <2> HIDE DEF T
  <2> QED BY <1>0, <1>1, GreatestIs
<1> HIDE DEF z
<1>3. z \in B /\ z + SizeOf(h, z) <= x /\ z + SizeOf(h, z) \in B \cup {h.end}
  BY <1>2 DEF Tiling
<1>4. z \in Nat /\ SizeOf(h, z) \in Nat /\ SizeOf(h, z) >= 5
  BY <1>0, <1>3
<1>5. ~(z + SizeOf(h, z) < x)
  <2> SUFFICES ASSUME z + SizeOf(h, z) < x PROVE FALSE
    OBVIOUS
  <2>1. z + SizeOf(h, z) \in T
    BY <1>0, <1>3, <1>4
  <2> QED BY <1>2, <1>4, <2>1
<1> QED BY <1>0, <1>3, <1>4, <1>5

(* The footer is in front of what comes behind the block.                  *)
LEMMA FooterIs ==
  ASSUME NEW h, NEW z \in Nat, SizeOf(h, z) \in Nat, NEW x \in Nat, z + SizeOf(h, z) = x
  PROVE  Footer(h, z) = x - FooterSize
  BY DEF Footer

(* After the unification with the block in front of x.                     *)
LeftDone(h, B, f, x, y, u, add) ==
  /\ Merged(h, f, u, y, y, ToSet(h.index), add)
  /\ u \in B /\ u <= x /\ u + Overhead <= y
  /\ \A b \in B : b + SizeOf(h, b) = u => ~IsHole(h, b)
  /\ \A b \in B : u <= b /\ b < y => b = x \/ (b = u /\ IsHole(h, u))
  /\ (add = TRUE /\ u = x) \/ (add = FALSE /\ IsHole(h, u))

(* And with the block at y, behind x's.                                    *)
RightDone(h, B, f, u, y, w, I, add) ==
  /\ Joined(h, f, u, w, y, I, add)
  /\ w \in B \cup {h.end} /\ y <= w
  /\ w # h.end => HasFooter(f.h, w - FooterSize)
  /\ w \in B => ~IsHole(h, w)
  /\ \A b \in B : y <= b /\ b < w => IsHole(h, b)
  /\ I = {b \in B : IsHole(h, b) /\ ~(y <= b /\ b < w)}

(* A block that is not a hole, with a block behind it.                     *)
Inner(h, B, held, x, y) ==
  /\ h.end \in Nat /\ h.end < WordModulus /\ HeapOK(h, B, held)
  /\ x \in B /\ ~IsHole(h, x) /\ y = x + SizeOf(h, x) /\ y \in B

(* What is known around such a block.                                      *)
LEMMA InnerKnown ==
  ASSUME NEW h, NEW B, NEW held, NEW x, NEW y, Inner(h, B, held, x, y)
  PROVE  /\ Typed(h) /\ B \subseteq Nat /\ Start \in Nat /\ Start <= x
         /\ x \in Nat /\ y \in Nat /\ x + Overhead <= y /\ y < h.end
         /\ Named(h, x) /\ SizeOf(h, x) >= Overhead
         /\ h.index \in Seq(Nat) /\ Distinct(h.index) /\ ToSet(h.index) = {b \in B : IsHole(h, b)}
         /\ \A b \in B : /\ SizeOf(h, b) \in Nat /\ SizeOf(h, b) >= Overhead
                         /\ b + SizeOf(h, b) <= h.end
                         /\ b + SizeOf(h, b) \in B \cup {h.end}
                         /\ b + SizeOf(h, b) # h.end => HasFooter(h, Footer(h, b))
                         /\ ~IsHole(h, b) => Named(h, b)
                         /\ IsHole(h, b) /\ b + SizeOf(h, b) \in B => ~IsHole(h, b + SizeOf(h, b))
         /\ \A b, c \in B : b < c => b + SizeOf(h, b) <= c
         /\ NoneBefore(h)
<1>1. Typed(h) /\ Tiling(h, B) /\ Footed(h, B) /\ Indexed(h, B) /\ United(h, B) /\ NoneBefore(h)
      /\ h.end \in Nat /\ x \in B /\ ~IsHole(h, x) /\ y = x + SizeOf(h, x) /\ y \in B
  BY DEF Inner, HeapOK
<1>2. \A b \in B : SizeOf(h, b) \in Nat
  BY <1>1, SizeNat
<1>3. B \subseteq Nat /\ Start \in Nat /\ Start <= x /\ x \in Nat /\ y \in Nat
  BY <1>1, StartIs DEF Tiling
<1>4. /\ \A b \in B : /\ SizeOf(h, b) >= Overhead /\ b + SizeOf(h, b) <= h.end
                      /\ b + SizeOf(h, b) \in B \cup {h.end}
      /\ \A b, c \in B : b < c => b + SizeOf(h, b) <= c
  BY <1>1 DEF Tiling
<1>5. x + Overhead <= y /\ y < h.end
  <2>1. SizeOf(h, x) \in Nat /\ SizeOf(h, x) >= 5 /\ SizeOf(h, y) \in Nat /\ SizeOf(h, y) >= 5
        /\ y + SizeOf(h, y) <= h.end
    BY <1>1, <1>2, <1>4
  <2> QED BY <1>1, <1>3, <2>1
<1>6. /\ \A b \in B : /\ b + SizeOf(h, b) # h.end => HasFooter(h, Footer(h, b))
                      /\ ~IsHole(h, b) => Named(h, b)
  BY <1>1 DEF Footed
<1>7. \A b \in B : IsHole(h, b) /\ b + SizeOf(h, b) \in B => ~IsHole(h, b + SizeOf(h, b))
  BY <1>1 DEF United
<1>8. h.index \in Seq(Nat) /\ Distinct(h.index) /\ ToSet(h.index) = {b \in B : IsHole(h, b)}
  BY <1>1 DEF Indexed
<1> QED BY <1>1, <1>2, <1>3, <1>4, <1>5, <1>6, <1>7, <1>8

(* free unites the block with the hole in front, if there is one.          *)
LEMMA LeftOK ==
  ASSUME NEW h, NEW B, NEW held, NEW p, NEW x, BlockOf(p) = x, NEW y, Inner(h, B, held, x, y),
         \A a \in B : IsHole(h, a) /\ a + SizeOf(h, a) = x => h.ftr[x - FooterSize] = a
  PROVE  \E u, add : LeftDone(h, B, UnifyLeft(Freeing(h, p)), x, y, u, add)
<1> DEFINE f == Freeing(h, p)
           I == ToSet(h.index)
<1>0. /\ Typed(h) /\ B \subseteq Nat /\ Start \in Nat /\ Start <= x
      /\ x \in Nat /\ y \in Nat /\ x + 5 <= y /\ y < h.end
      /\ Named(h, x) /\ SizeOf(h, x) >= 5
      /\ h.index \in Seq(Nat) /\ Distinct(h.index)
      /\ \A b \in B : SizeOf(h, b) \in Nat /\ SizeOf(h, b) >= 5
      /\ \A b, c \in B : b < c => b + SizeOf(h, b) <= c
      /\ x \in B /\ ~IsHole(h, x) /\ y = x + SizeOf(h, x) /\ y \in B /\ h.end \in Nat /\ h.end < WordModulus
      /\ Tiling(h, B) /\ WordModulus \in Nat
  <2>1. /\ x \in B /\ ~IsHole(h, x) /\ y = x + SizeOf(h, x) /\ y \in B /\ h.end \in Nat
        /\ h.end < WordModulus /\ Tiling(h, B)
    BY DEF Inner, HeapOK
  <2>2. /\ Typed(h) /\ B \subseteq Nat /\ Start \in Nat /\ Start <= x
        /\ x \in Nat /\ y \in Nat /\ x + 5 <= y /\ y < h.end
        /\ Named(h, x) /\ SizeOf(h, x) >= 5
        /\ h.index \in Seq(Nat) /\ Distinct(h.index)
        /\ \A b \in B : SizeOf(h, b) \in Nat /\ SizeOf(h, b) >= 5
        /\ \A b, c \in B : b < c => b + SizeOf(h, b) <= c
    BY InnerKnown
  <2>3. WordModulus \in Nat
    BY HeapAssumption
  <2> QED BY <2>1, <2>2, <2>3
<1>1. Merged(h, f, x, y, y, I, TRUE)
  <2> HIDE DEF f, I
  <2>1. EndsAt(h, x, y)
    BY <1>0 DEF EndsAt
  <2>2. SizeOf(h, x) >= Overhead
    BY <1>0
  <2> QED BY <1>0, <2>1, <2>2, FreeingIs DEF f, I
<1> HIDE DEF f, I
<1>2. \A b \in B : x <= b /\ b < y => b = x
  BY <1>0
<1>3. ASSUME NEW z \in B, z + SizeOf(h, z) = x, IsHole(h, z)
      PROVE  \E u, add : LeftDone(h, B, UnifyLeft(f), x, y, u, add)
  <2>1. z \in Nat /\ SizeOf(h, z) >= 5 /\ SizeOf(h, z) \in Nat
    BY <1>0, <1>3
  <2>2. Named(h, z)
    <3>1. HasFooter(h, Footer(h, z))
      <4>1. z + SizeOf(h, z) # h.end
        BY <1>0, <1>3
      <4> QED BY <4>1, InnerKnown
    <3>2. Footer(h, z) = x - 2
      BY <1>3, <1>0, <2>1, FooterIs
    <3>3. h.ftr[x - FooterSize] = z
      BY <1>3
    <3> QED BY <3>1, <3>2, <3>3 DEF Named
  <2>3. y < WordModulus /\ EndsAt(h, z, x)
    BY <1>0, <1>3 DEF EndsAt
  <2>0. x + Overhead <= y /\ SizeOf(h, z) >= Overhead
    BY <1>0, <2>1
  <2>4. Merged(h, UnifyLeft(f), z, y, y, I, FALSE)
    BY <1>0, <1>1, <1>3, <2>0, <2>1, <2>2, <2>3, LeftIs
  <2>5. \A b \in B : b + SizeOf(h, b) = z => ~IsHole(h, b)
    BY <1>3, InnerKnown
  <2>6. ASSUME NEW b \in B, z <= b, b < y PROVE b = x \/ (b = z /\ IsHole(h, z))
    <3>1. b \in Nat /\ (z < b => x <= b)
      BY <1>0, <1>3
    <3> QED BY <1>2, <1>3, <2>1, <2>6, <3>1
  <2>7. z <= x /\ z + 5 <= y
    BY <1>0, <1>3, <2>1
  <2>8. LeftDone(h, B, UnifyLeft(f), x, y, z, FALSE)
    <3>1. Merged(h, UnifyLeft(f), z, y, y, ToSet(h.index), FALSE)
      BY <2>4 DEF I
    <3>2. z \in B /\ z <= x /\ z + Overhead <= y /\ IsHole(h, z)
      BY <1>3, <2>7
    <3>3. \A b \in B : z <= b /\ b < y => b = x \/ (b = z /\ IsHole(h, z))
      BY <2>6
    <3> QED BY <3>1, <3>2, <3>3, <2>5 DEF LeftDone
  <2> QED BY <2>8
<1>4. ASSUME ~ \E z \in B : z + SizeOf(h, z) = x /\ IsHole(h, z)
      PROVE  \E u, add : LeftDone(h, B, UnifyLeft(f), x, y, u, add)
  <2>1. UnifyLeft(f) = f
    <3>1. CASE x = Start
      BY <1>0, <1>1, <3>1, NoLeft, InnerKnown DEF NoneBefore
    <3>2. CASE x # Start
      <4>1. PICK z \in B : z + SizeOf(h, z) = x
        BY <1>0, <3>2, FrontBlock
      <4>2. ~IsHole(h, z) /\ z \in Nat /\ SizeOf(h, z) \in Nat /\ SizeOf(h, z) >= 5
        BY <1>0, <1>4, <4>1
      <4>3. Named(h, z)
        BY <4>2, InnerKnown
      <4>4. Footer(h, z) = x - 2 /\ x - 2 \in Nat /\ z + 3 <= x
        <5>1. x \in Nat /\ x - 2 \in Nat /\ z + 3 <= x
          <6>1. x \in Nat
            BY <1>0
          <6> QED BY <4>1, <4>2, <6>1
        <5> QED BY <4>1, <4>2, <5>1, FooterIs
      <4>5. h.ftr[x - FooterSize] = z
        BY <4>3, <4>4 DEF Named
      <4> QED BY <1>0, <1>1, <4>2, <4>4, <4>5, NoLeft
    <3> QED BY <3>1, <3>2
  <2>2. LeftDone(h, B, f, x, y, x, TRUE)
    <3>1. Merged(h, f, x, y, y, ToSet(h.index), TRUE)
      BY <1>1 DEF I
    <3>2. x \in B /\ x <= x /\ x + Overhead <= y
      BY <1>0
    <3>3. \A b \in B : x <= b /\ b < y => b = x \/ (b = x /\ IsHole(h, x))
      BY <1>2
    <3>4. \A b \in B : b + SizeOf(h, b) = x => ~IsHole(h, b)
      BY <1>4
    <3> QED BY <3>1, <3>2, <3>3, <3>4 DEF LeftDone
  <2> QED BY <2>1, <2>2
<1> QED BY <1>3, <1>4 DEF f

(* And with the hole behind.                                               *)
LEMMA RightOK ==
  ASSUME NEW h, NEW B, NEW held, NEW x, NEW y, Inner(h, B, held, x, y),
         NEW f, NEW u, NEW add, LeftDone(h, B, f, x, y, u, add)
  PROVE  \E w, I : RightDone(h, B, UnifyRight(f), u, y, w, I, add)
<1> DEFINE H == {b \in B : IsHole(h, b)}
<1>0. /\ Typed(h) /\ B \subseteq Nat /\ y \in Nat /\ y < h.end /\ y \in B /\ h.end \in Nat
      /\ h.end < WordModulus /\ WordModulus \in Nat
      /\ \A b \in B : SizeOf(h, b) \in Nat /\ SizeOf(h, b) >= 5
      /\ \A b, c \in B : b < c => b + SizeOf(h, b) <= c
      /\ ToSet(h.index) = H
  <2>1. y \in B /\ h.end \in Nat /\ h.end < WordModulus
    BY DEF Inner
  <2>2. /\ Typed(h) /\ B \subseteq Nat /\ y \in Nat /\ y < h.end
        /\ \A b \in B : SizeOf(h, b) \in Nat /\ SizeOf(h, b) >= 5
        /\ \A b, c \in B : b < c => b + SizeOf(h, b) <= c
        /\ ToSet(h.index) = H
    BY InnerKnown
  <2>3. WordModulus \in Nat
    BY HeapAssumption
  <2> QED BY <2>1, <2>2, <2>3
<1>1. Merged(h, f, u, y, y, H, add) /\ u \in B /\ u \in Nat /\ u + 5 <= y
  BY <1>0 DEF LeftDone
<1> HIDE DEF H
<1>2. CASE ~IsHole(h, y)
  <2>1. UnifyRight(f) = f
    BY <1>0, <1>1, <1>2, NoRight
  <2>2. Joined(h, f, u, y, y, H, add) /\ HasFooter(f.h, y - 2)
    BY <1>1 DEF Merged
  <2>3. \A b \in B : ~(y <= b /\ b < y)
    BY <1>0
  <2>4. H = {b \in B : IsHole(h, b) /\ ~(y <= b /\ b < y)}
    BY <2>3 DEF H
  <2>5. RightDone(h, B, f, u, y, y, H, add)
    BY <1>0, <1>2, <2>2, <2>3, <2>4 DEF RightDone
  <2> QED BY <2>1, <2>5
<1>3. CASE IsHole(h, y)
  <2> DEFINE w == y + SizeOf(h, y)
             I == H \ {y}
  <2>1. w \in Nat /\ w <= h.end /\ w \in B \cup {h.end} /\ y < w /\ w < WordModulus
        /\ (w # h.end => HasFooter(h, Footer(h, y))) /\ (w \in B => ~IsHole(h, w))
        /\ Footer(h, y) = w - 2 /\ SizeOf(h, y) >= Overhead
    <3>1. w <= h.end /\ w \in B \cup {h.end}
          /\ (w # h.end => HasFooter(h, Footer(h, y))) /\ (w \in B => ~IsHole(h, w))
      BY <1>0, <1>3, InnerKnown
    <3>2. SizeOf(h, y) \in Nat /\ SizeOf(h, y) >= 5
      BY <1>0
    <3>3. Footer(h, y) = w - 2
      <4>1. w \in Nat /\ y + SizeOf(h, y) = w
        BY <1>0, <3>2
      <4> HIDE DEF w
      <4> QED BY <1>0, <3>2, <4>1, FooterIs
    <3> QED BY <1>0, <3>1, <3>2, <3>3
  <2>2. \A b \in B : y <= b /\ b < w <=> b = y
    BY <1>0, <2>1
  <2>w. y + SizeOf(h, y) = w
    OBVIOUS
  <2> HIDE DEF w
  <2>3. /\ Joined(h, UnifyRight(f), u, w, y, I, add)
        /\ HasFooter(h, w - FooterSize) => HasFooter(UnifyRight(f).h, w - FooterSize)
    <3>1. y \in H
      BY <1>0, <1>3 DEF H
    <3> QED BY <1>0, <1>1, <1>3, <2>1, <2>w, <3>1, RightIs
  <2>4. I = {b \in B : IsHole(h, b) /\ ~(y <= b /\ b < w)}
    BY <2>2 DEF H
  <2> HIDE DEF I
  <2>5. w # h.end => HasFooter(UnifyRight(f).h, w - FooterSize)
    BY <2>1, <2>3
  <2>6. y <= w /\ \A b \in B : y <= b /\ b < w => IsHole(h, b)
    BY <1>0, <1>3, <2>1, <2>2
  <2>7. RightDone(h, B, UnifyRight(f), u, y, w, I, add)
    BY <2>1, <2>3, <2>4, <2>5, <2>6 DEF RightDone
  <2> QED BY <2>7
<1> QED BY <1>2, <1>3

(* What a free leaves: k is free's variables at its end, C the blocks.     *)
Frees(h, k, C, held) ==
  /\ HeapOK(k.h, C, held)
  /\ \/ k.h.end = h.end /\ k.freed = {}
     \/ k.h.end = Start + VM_HEAP_MIN_SIZE /\ k.freed = PagesBehind(VM_HEAP_MIN_SIZE, h.end - Start)

(* Contract leaves the hole from u to w of the minimum size.               *)
LeavesMinimum(h, u, w) == w = h.end => u - Start <= VM_HEAP_MIN_SIZE - Overhead

(* free keeps the heap in order.                                           *)
LEMMA FreeOK ==
  ASSUME NEW h, NEW B, NEW held, NEW p \in DOMAIN held, NEW x, BlockOf(p) = x,
         NEW y, Inner(h, B, held, x, y), h.end >= Start + VM_HEAP_MIN_SIZE,
         \A a \in B : IsHole(h, a) /\ a + SizeOf(h, a) = x => h.ftr[x - FooterSize] = a,
         NEW f, UnifyRight(UnifyLeft(Freeing(h, p))) = f, LeavesMinimum(h, f.header, f.footer + FooterSize)
  PROVE  \E C : Frees(h, Freed(Freeing(h, p)), C, Restrict(held, DOMAIN held \ {p}))
<1> DEFINE k == Freed(Freeing(h, p))
           g == UnifyLeft(Freeing(h, p))
           held2 == Restrict(held, DOMAIN held \ {p})
<1>1. PICK u, add : LeftDone(h, B, g, x, y, u, add)
  BY LeftOK
<1> HIDE DEF g
<1>2. PICK w, I : RightDone(h, B, UnifyRight(g), u, y, w, I, add)
  BY <1>1, RightOK
<1>3. UnifyRight(g) = f /\ k = AddToIndex(ContractHeap(f))
  BY DEF g, Freed
<1> HIDE DEF k
<1>4. /\ Joined(h, f, u, w, y, I, add) /\ w \in B \cup {h.end} /\ y <= w
      /\ (w # h.end => HasFooter(f.h, w - FooterSize)) /\ (w \in B => ~IsHole(h, w))
      /\ (\A b \in B : y <= b /\ b < w => IsHole(h, b))
      /\ I = {b \in B : IsHole(h, b) /\ ~(y <= b /\ b < w)}
  BY <1>2, <1>3 DEF RightDone
<1>5. /\ u \in B /\ u <= x /\ u + Overhead <= y
      /\ (\A b \in B : b + SizeOf(h, b) = u => ~IsHole(h, b))
      /\ (\A b \in B : u <= b /\ b < y => b = x \/ (b = u /\ IsHole(h, u)))
      /\ (add = TRUE /\ u = x) \/ (add = FALSE /\ IsHole(h, u))
  BY <1>1 DEF LeftDone
<1>6. /\ Typed(h) /\ B \subseteq Nat /\ Start \in Nat /\ x \in Nat /\ y \in Nat /\ x < y
      /\ (\A b \in B : Start <= b)
      /\ u \in Nat /\ w \in Nat /\ h.end \in Nat /\ h.end < WordModulus /\ x \in B /\ ~IsHole(h, x)
      /\ HeapOK(h, B, held)
  <2>1. /\ x \in B /\ ~IsHole(h, x) /\ h.end \in Nat /\ h.end < WordModulus /\ HeapOK(h, B, held)
    BY DEF Inner
  <2>2. /\ Typed(h) /\ B \subseteq Nat /\ Start \in Nat /\ x \in Nat /\ y \in Nat /\ x + Overhead <= y
    BY InnerKnown
  <2>3. \A b \in B : Start <= b
    BY <2>1 DEF HeapOK, Tiling
  <2>4. u \in Nat /\ w \in Nat
    BY <1>4, <1>5, <2>1, <2>2
  <2> QED BY <2>1, <2>2, <2>3, <2>4
<1>7. w = h.end => Start <= u /\ u - Start <= VM_HEAP_MIN_SIZE - Overhead
  <2>1. f.header = u /\ f.footer = w - FooterSize
    BY <1>4 DEF Joined
  <2>2. f.footer + FooterSize = w
    BY <1>6, <2>1
  <2>3. LeavesMinimum(h, u, w)
    BY <2>1, <2>2
  <2> QED BY <1>5, <1>6, <2>3 DEF LeavesMinimum
<1> DEFINE e == ContractHeap(f)
<1>8. Ended(h, e, u, w, I, add)
  <2>1. CASE w = h.end
    BY <1>4, <1>6, <1>7, <2>1, Contracts
  <2>2. CASE w # h.end
    <3>1. HasFooter(f.h, w - FooterSize)
      BY <1>4, <2>2
    <3> QED BY <1>4, <1>6, <2>2, <3>1, NoContract
  <2> QED BY <2>1, <2>2
<1>9. k = AddToIndex(e)
  BY <1>3
<1> HIDE DEF e
<1>10. Empties(h, k.h, u, w, I \cup {u}) /\ k.freed = e.freed
  <2>1. CASE add = TRUE /\ u = x
    <3>1. u \notin I
      BY <1>4, <1>6, <2>1
    <3>2. Ended(h, e, u, w, I, TRUE)
      BY <1>8, <2>1
    <3> QED BY <1>6, <1>9, <3>1, <3>2, Added
  <2>2. CASE add = FALSE /\ IsHole(h, u)
    <3>1. u \in I
      <4>1. ~(y <= u)
        BY <1>5, <1>6
      <4> QED BY <1>4, <1>5, <2>2, <4>1
    <3>2. Ended(h, e, u, w, I, FALSE)
      BY <1>8, <2>2
    <3> QED BY <1>9, <3>1, <3>2, NotAdded
  <2> QED BY <1>5, <2>1, <2>2
<1>11. I \cup {u} = {b \in Kept(B, u, w) : IsHole(h, b)} \cup {u}
  <2>1. ASSUME NEW b \in I, b # u PROVE b \in Kept(B, u, w)
    <3>1. b \in B /\ IsHole(h, b) /\ ~(y <= b /\ b < w)
      BY <1>4, <2>1
    <3>2. ~(u <= b /\ b < y)
      BY <1>5, <1>6, <2>1, <3>1
    <3> QED BY <1>4, <1>6, <3>1, <3>2 DEF Kept
  <2>2. ASSUME NEW b \in Kept(B, u, w), IsHole(h, b) PROVE b \in I
    <3>1. b \in B /\ b \in Nat /\ (b < u \/ w <= b)
      BY <1>6 DEF Kept
    <3>2. ~(y <= b /\ b < w)
      BY <1>4, <1>5, <1>6, <3>1
    <3> QED BY <1>4, <2>2, <3>1, <3>2
  <2>3. \A b \in I : IsHole(h, b)
    BY <1>4
  <2> HIDE DEF Kept
  <2> QED BY <2>1, <2>2, <2>3
<1>12. HeapOK(k.h, Kept(B, u, w) \cup {u}, held2)
  <2>1. ASSUME NEW b \in B, u <= b, b < w PROVE b = x \/ IsHole(h, b)
    <3>1. b \in Nat
      BY <1>6
    <3>2. CASE b < y
      BY <1>5, <2>1, <3>2
    <3>3. CASE ~(b < y)
      <4>1. y <= b
        BY <1>6, <3>1, <3>3
      <4> QED BY <1>4, <2>1, <4>1
    <3> QED BY <3>2, <3>3
  <2>2. u \in B /\ w \in B \cup {h.end} /\ u <= x /\ x < w
    BY <1>4, <1>5, <1>6
  <2>3. w = h.end => u - Start <= VM_HEAP_MIN_SIZE - Overhead
    BY <1>7
  <2>4. x = BlockOf(p)
    OBVIOUS
  <2> DEFINE J == I \cup {u}
             G == k.h
  <2>5. Empties(h, G, u, w, J) /\ J = {b \in Kept(B, u, w) : IsHole(h, b)} \cup {u}
    BY <1>10, <1>11
  <2> HIDE DEF J, G
  <2>6. HeapOK(G, Kept(B, u, w) \cup {u}, Restrict(held, DOMAIN held \ {p}))
    BY <1>4, <1>5, <1>6, <2>1, <2>2, <2>3, <2>4, <2>5, EmptiedKeeps
  <2> QED BY <2>6 DEF G
<1>13. \/ k.h.end = h.end /\ k.freed = {}
       \/ k.h.end = Start + VM_HEAP_MIN_SIZE /\ k.freed = PagesBehind(VM_HEAP_MIN_SIZE, h.end - Start)
  <2>1. CASE w = h.end
    <3>1. k.h.end = Start + VM_HEAP_MIN_SIZE
      BY <1>10, <2>1 DEF Empties
    <3>2. k.freed = PagesBehind(VM_HEAP_MIN_SIZE, h.end - Start)
      BY <1>8, <1>10, <2>1 DEF Ended
    <3> QED BY <3>1, <3>2
  <2>2. CASE w # h.end
    <3>1. k.h.end = h.end
      BY <1>10, <2>2 DEF Empties
    <3>2. k.freed = {}
      BY <1>8, <1>10, <2>2 DEF Ended
    <3> QED BY <3>1, <3>2
  <2> QED BY <2>1, <2>2
<1>14. Frees(h, k, Kept(B, u, w) \cup {u}, held2)
  BY <1>12, <1>13 DEF Frees
<1> QED BY <1>14 DEF k

(* Pages come in the order of their addresses.                             *)
LEMMA DivMono ==
  ASSUME NEW a \in Nat, NEW b \in Nat, a <= b
  PROVE  a \div Page <= b \div Page
<1> DEFINE j == a \div Page
           k == b \div Page
           r == a % Page
           s == b % Page
<1>1. /\ j \in Nat /\ r \in Nat /\ a = Page * j + r
      /\ k \in Nat /\ s \in Nat /\ s < Page /\ b = Page * k + s
      /\ Page \in Nat
  BY DivMod, HeapAssumption
<1> HIDE DEF j, k, r, s
<1>2. ASSUME j > k PROVE FALSE
  <2>1. j >= k + 1
    BY <1>1, <1>2
  <2>2. Page * j >= Page * (k + 1)
    BY <1>1, <2>1
  <2>3. Page * (k + 1) = Page * k + Page /\ Page * k \in Nat /\ Page * j \in Nat
    BY <1>1
  <2> QED BY <1>1, <2>2, <2>3
<1>3. j <= k
  BY <1>1, <1>2
<1> QED BY <1>3 DEF j, k

(* The pages contract gives back are not those of the heap that is left.   *)
LEMMA ContractCovers ==
  ASSUME NEW old \in Nat, old >= VM_HEAP_MIN_SIZE, NEW F, PagesOf(Start, (Start + old) - 1) \subseteq F
  PROVE  PagesOf(Start, (Start + VM_HEAP_MIN_SIZE) - 1) \subseteq F \ PagesBehind(VM_HEAP_MIN_SIZE, old)
<1> DEFINE e == Start + VM_HEAP_MIN_SIZE
<1>1. /\ Page \in Nat /\ Page > 0 /\ Start \in Nat /\ VM_HEAP_MIN_SIZE \in Nat /\ VM_HEAP_MIN_SIZE >= Page
      /\ Start % Page = 0 /\ VM_HEAP_MIN_SIZE % Page = 0
  <2>1. VM_HEAP_MIN_SIZE >= 2 * Page /\ Page \in Nat /\ Page > 0 /\ VM_HEAP_MIN_SIZE \in Nat
        /\ VM_HEAP_MIN_SIZE % Page = 0
    BY HeapAssumption
  <2> QED BY <2>1, StartIs
<1>2. e \in Nat /\ e >= Page /\ e % Page = 0
  <2>1. e \in Nat /\ e >= Page
    BY <1>1
  <2>2. (Start + VM_HEAP_MIN_SIZE) % Page = 0
    BY <1>1, MultipleSum
  <2> QED BY <2>1, <2>2
<1>3. PICK k \in Nat : e = Page * k
  BY <1>2, Multiple
<1>4. ASSUME NEW i \in Nat, i >= e PROVE i \div Page >= k
  <2>1. e \div Page = k
    BY <1>1, <1>2, <1>3, DivIs
  <2> HIDE DEF e
  <2>2. e \div Page <= i \div Page
    BY <1>2, <1>4, DivMono
  <2>3. i \div Page \in Nat
    BY DivMod
  <2> QED BY <2>1, <2>2, <2>3
<1>5. (e - 1) \div Page = k - 1
  <2>1. k # 0
    BY <1>1, <1>2, <1>3
  <2>2. k - 1 \in Nat /\ Page * (k - 1) = Page * k - Page
    BY <1>1, <2>1
  <2> HIDE DEF e
  <2>3. e - 1 \in Nat /\ Page * (k - 1) <= e - 1 /\ e - 1 < Page * (k - 1) + Page
    BY <1>1, <1>2, <1>3, <2>2
  <2> QED BY <2>2, <2>3, DivIs
<1>6. (e - 1) \div Page <= ((Start + old) - 1) \div Page /\ ((Start + old) - 1) \div Page \in Nat
  <2>1. e - 1 \in Nat /\ (Start + old) - 1 \in Nat /\ e - 1 <= (Start + old) - 1
    BY <1>1, <1>2
  <2> HIDE DEF e
  <2> QED BY <2>1, DivMod, DivMono
<1>7. ASSUME NEW q \in PagesOf(Start, e - 1) PROVE q \in F /\ q \notin PagesBehind(VM_HEAP_MIN_SIZE, old)
  <2> HIDE DEF e
  <2>1. Start \div Page \in Nat
    BY <1>1, DivMod
  <2>2. q \in Nat /\ q >= Start \div Page /\ q <= (e - 1) \div Page
    BY <1>5, <2>1 DEF PagesOf
  <2>3. q \in F
    <3>1. q \in PagesOf(Start, (Start + old) - 1)
      BY <1>5, <1>6, <2>1, <2>2 DEF PagesOf
    <3> QED BY <3>1
  <2>4. ASSUME NEW i \in (VM_HEAP_MIN_SIZE + 1)..(old - Page) PROVE (Start + i) \div Page # q
    <3>1. Start + i \in Nat /\ Start + i >= e
      BY <1>1 DEF e
    <3>2. (Start + i) \div Page >= k /\ (Start + i) \div Page \in Nat
      BY <1>4, <3>1, DivMod
    <3> QED BY <1>5, <2>2, <3>2
  <2> QED BY <2>3, <2>4 DEF PagesBehind
<1> QED BY <1>7

(* A block that is not the last one has a block behind it.                 *)
LEMMA BehindIs ==
  ASSUME NEW h, NEW B, NEW held, HeapOK(h, B, held), h.end \in Nat, h.end < WordModulus,
         NEW p \in DOMAIN held, Freeing(h, p).test_header < h.end,
         NEW x, x = BlockOf(p), NEW y, y = x + SizeOf(h, x)
  PROVE  /\ Inner(h, B, held, x, y)
         /\ Merged(h, Freeing(h, p), x, y, y, ToSet(h.index), TRUE)
<1>1. /\ h.index \in Seq(Nat) /\ Distinct(h.index)
      /\ Typed(h) /\ Tiling(h, B) /\ Footed(h, B) /\ Owned(h, B, held) /\ B \subseteq Nat
  BY DEF HeapOK, Indexed, Tiling
<1>2. x \in B /\ ~IsHole(h, x) /\ p \in Nat
  BY <1>1 DEF Owned
<1>3. x \in Nat /\ SizeOf(h, x) \in Nat /\ SizeOf(h, x) >= Overhead /\ Start <= x
      /\ y \in B \cup {h.end} /\ Named(h, x)
  <2>1. x \in Nat /\ SizeOf(h, x) \in Nat
    BY <1>1, <1>2, SizeNat
  <2> QED BY <1>1, <1>2, <2>1 DEF Tiling, Footed
<1>4. y \in Nat /\ EndsAt(h, x, y) /\ BlockOf(p) = x
  BY <1>3 DEF EndsAt
<1>5. Merged(h, Freeing(h, p), x, y, y, ToSet(h.index), TRUE)
  BY <1>1, <1>3, <1>4, FreeingIs
<1>6. Freeing(h, p).test_header = y
  BY <1>5 DEF Merged, Joined
<1>7. y \in B
  BY <1>3, <1>4, <1>6
<1> QED BY <1>2, <1>5, <1>7 DEF Inner

(* free finds what it looks for around a block that is not the last.       *)
LEMMA FreeRuns ==
  ASSUME HeapInvariant, NEW p \in DOMAIN live, HasBehind(p)
  PROVE  ~FreeStops(p) /\ Inner(heap, Blocks, live, BlockOf(p), BlockOf(p) + SizeOf(heap, BlockOf(p)))
<1> DEFINE x == BlockOf(p)
           y == x + SizeOf(heap, x)
           f == Freeing(heap, p)
<1>1. /\ HeapOK(heap, Blocks, live) /\ heap.end \in Nat /\ heap.end <= HeapMax
      /\ PagesOf(Start, heap.end - 1) \subseteq framed /\ framed \subseteq present
      /\ ToSet(heap.index) = {a \in Blocks : IsHole(heap, a)}
  BY Known
<1>2. f.test_header < heap.end
  BY DEF HasBehind
<1> HIDE DEF x, y, f
<1>3. Inner(heap, Blocks, live, x, y) /\ Merged(heap, f, x, y, y, ToSet(heap.index), TRUE)
  <2>1. heap.end < WordModulus
    <3>1. HeapMax \in Nat /\ WordModulus \in Nat /\ HeapMax < WordModulus
      BY HeapAssumption
    <3> QED BY <1>1, <3>1
  <2>2. x = BlockOf(p) /\ y = x + SizeOf(heap, x)
    BY DEF x, y
  <2> QED BY <1>1, <1>2, <2>1, <2>2, BehindIs DEF f
<1>4. /\ Same(heap, f.h, x, y) /\ f.header = x /\ f.footer = y - 2 /\ f.test_header = y
      /\ ToSet(f.h.index) = ToSet(heap.index)
  BY <1>3 DEF Merged, Joined
<1>5. /\ Start \in Nat /\ Start <= x /\ x \in Nat /\ y \in Nat /\ x + 5 <= y /\ y < heap.end
      /\ Named(heap, x) /\ SizeOf(heap, x) \in Nat /\ SizeOf(heap, x) >= 5 /\ y \in Blocks
  BY <1>3, InnerKnown DEF Inner
<1>6. ~NoBlock(heap, f)
  <2>1. IsHeader(heap, x)
    <3> SUFFICES ASSUME ~IsHeader(heap, x) PROVE FALSE
      OBVIOUS
    <3> QED BY <1>5 DEF SizeOf
  <2>2. y - 2 \in DOMAIN heap.ftr
    <3>1. Footer(heap, x) = y - 2
      BY <1>5 DEF Footer, y
    <3> QED BY <1>5, <3>1 DEF Named, HasFooter
  <2> QED BY <1>4, <2>1, <2>2 DEF NoBlock
<1>7. ~BehindStops(f)
  <2>1. y \div Page \in present
    <3>1. Start <= y /\ y <= heap.end - 1 /\ heap.end - 1 \in Nat
      BY <1>1, <1>5
    <3>2. /\ Start \div Page <= y \div Page /\ y \div Page <= (heap.end - 1) \div Page
          /\ Start \div Page \in Nat /\ y \div Page \in Nat /\ (heap.end - 1) \div Page \in Nat
      BY <1>5, <3>1, DivMod, DivMono
    <3>3. y \div Page \in PagesOf(Start, heap.end - 1)
      BY <3>2 DEF PagesOf
    <3> QED BY <1>1, <3>3
  <2>2. IsHole(f.h, y) => y \in ToSet(f.h.index)
    <3>1. SameHeader(heap, f.h, y)
      BY <1>4, <1>5 DEF Same
    <3>2. IsHole(f.h, y) => IsHole(heap, y)
      BY <3>1 DEF SameHeader, IsHole
    <3> QED BY <1>1, <1>4, <1>5, <3>2
  <2> QED BY <1>4, <2>1, <2>2 DEF BehindStops
<1> QED BY <1>3, <1>6, <1>7 DEF FreeStops, x, y, f

(* free keeps the invariant, and the kernel runs on.                       *)
LEMMA FreeKeeps ==
  ASSUME HeapInvariant, NEW p \in DOMAIN live,
         FooterNamesHole(p), HasBehind(p), KeepsMinimum(p), Kfree(p)
  PROVE  HeapInvariant' /\ panic' = panic
<1> DEFINE x == BlockOf(p)
           y == x + SizeOf(heap, x)
           f == UnifyRight(UnifyLeft(Freeing(heap, p)))
           k == Freed(Freeing(heap, p))
           held == Restrict(live, DOMAIN live \ {p})
<1>1. ~FreeStops(p) /\ Inner(heap, Blocks, live, x, y)
  BY FreeRuns
<1>2. /\ request = NoRequest /\ live' = held /\ heap' = k.h /\ framed' = framed \ k.freed
      /\ UNCHANGED <<present, request, panic>>
  BY <1>1 DEF Kfree
<1>3. /\ heap.end \in Nat /\ heap.end <= HeapMax /\ heap.end >= Start + VM_HEAP_MIN_SIZE
      /\ heap.end % Page = 0 /\ PagesOf(Start, heap.end - 1) \subseteq framed
      /\ framed \subseteq present /\ framed \subseteq Nat /\ panic \in BOOLEAN
  BY Known
<1>4. Start \in Nat /\ Start % Page = 0 /\ VM_HEAP_MIN_SIZE \in Nat /\ VM_HEAP_MIN_SIZE % Page = 0
      /\ HeapMax \in Nat
  BY StartIs, HeapAssumption
<1> HIDE DEF x, y, f, k
<1>5. \A a \in Blocks : IsHole(heap, a) /\ a + SizeOf(heap, a) = x => heap.ftr[x - FooterSize] = a
  BY DEF FooterNamesHole, Holes, x
<1>6. LeavesMinimum(heap, f.header, f.footer + FooterSize)
  BY DEF KeepsMinimum, LeavesMinimum, f
<1>7. \E C : Frees(heap, k, C, held)
  <2>1. BlockOf(p) = x /\ UnifyRight(UnifyLeft(Freeing(heap, p))) = f
    BY DEF x, f
  <2> QED BY <1>1, <1>3, <1>5, <1>6, <2>1, FreeOK DEF k
<1>8. PICK C : Frees(heap, k, C, held)
  BY <1>7
<1>9. /\ HeapOK(heap', C, live')
      /\ \/ heap'.end = heap.end /\ k.freed = {}
         \/ heap'.end = Start + VM_HEAP_MIN_SIZE
            /\ k.freed = PagesBehind(VM_HEAP_MIN_SIZE, heap.end - Start)
  BY <1>2, <1>8 DEF Frees
<1> HIDE DEF held
<1>10. EndInv'
  <2>1. CASE heap'.end = heap.end /\ k.freed = {}
    <3>1. framed' = framed
      BY <1>2, <2>1
    <3> QED BY <1>2, <2>1, <3>1 DEF HeapInvariant, EndInv, EndOnPage, Backed
  <2>2. CASE heap'.end = Start + VM_HEAP_MIN_SIZE
             /\ k.freed = PagesBehind(VM_HEAP_MIN_SIZE, heap.end - Start)
    <3>1. heap'.end \in (Start + VM_HEAP_MIN_SIZE)..HeapMax
      BY <1>3, <1>4, <2>2
    <3>2. heap'.end % Page = 0
      BY <1>4, <2>2, MultipleSum
    <3>3. PagesOf(Start, heap'.end - 1) \subseteq framed'
      <4> DEFINE old == heap.end - Start
      <4>1. old \in Nat /\ old >= VM_HEAP_MIN_SIZE /\ Start + old = heap.end
        BY <1>3, <1>4
      <4> HIDE DEF old
      <4>2. PagesOf(Start, (Start + VM_HEAP_MIN_SIZE) - 1)
              \subseteq framed \ PagesBehind(VM_HEAP_MIN_SIZE, old)
        BY <1>3, <4>1, ContractCovers
      <4> QED BY <1>2, <2>2, <4>2 DEF old
    <3>4. framed' \subseteq present' /\ framed' \subseteq Nat
      BY <1>2, <1>3
    <3> QED BY <3>1, <3>2, <3>3, <3>4 DEF EndInv, EndOnPage, Backed
  <2> QED BY <1>9, <2>1, <2>2
<1>11. HeapOK(heap', Blocks', live')
  <2>1. heap'.end \in Nat
    BY <1>3, <1>4, <1>9
  <2>2. BlocksIn(heap') = C
    BY <1>9, <2>1, BlocksFound
  <2> QED BY <1>9, <2>2 DEF Blocks
<1>12. RequestInv'
  BY <1>2 DEF RequestInv, NoRequest
<1> QED BY <1>2, <1>3, <1>10, <1>11, <1>12 DEF HeapInvariant

-----------------------------------------------------------------------------
(* The invariant                                                           *)

(* init_heap establishes the invariant.                                    *)
LEMMA InitKeeps == Init => HeapInvariant
<1> SUFFICES ASSUME Init PROVE HeapInvariant
  OBVIOUS
<1> DEFINE size == InitialEnd - Start
           r == [hole |-> TRUE, size |-> size]
<1>1. /\ heap = [hdr |-> [a \in {Start} |-> r], ftr |-> << >>, index |-> <<Start>>, end |-> InitialEnd]
      /\ framed = PagesOf(VM_KERN_HEAP_START, InitialEnd - 1)
      /\ present = framed /\ request = NoRequest /\ live = << >> /\ panic = FALSE
  BY DEF Init
<1>2. /\ Page \in Nat /\ Page > 0 /\ VM_KERN_HEAP_START \in Nat /\ VM_HEAP_INDEX_SIZE \in Nat
      /\ HeapMax \in Nat /\ WordModulus \in Nat /\ HeapMax < WordModulus /\ VM_HEAP_MIN_SIZE \in Nat
      /\ VM_HEAP_MIN_SIZE >= 2 * Page /\ VM_KERN_HEAP_START >= Page
      /\ VM_KERN_HEAP_START % Page = 0 /\ VM_KERN_HEAP_INITIAL_SIZE % Page = 0
  BY HeapAssumption
<1>3. /\ VM_KERN_HEAP_INITIAL_SIZE \in Nat /\ Start + VM_HEAP_MIN_SIZE <= InitialEnd
      /\ InitialEnd <= HeapMax /\ Overhead <= VM_HEAP_MIN_SIZE
  BY LayoutAssumption
<1>4. InitialEnd \in Nat /\ InitialEnd % Page = 0
  <2>1. InitialEnd \in Nat
    BY <1>2, <1>3 DEF InitialEnd
  <2>2. (VM_KERN_HEAP_START + VM_KERN_HEAP_INITIAL_SIZE) % Page = 0
    BY <1>2, <1>3, MultipleSum
  <2> QED BY <2>1, <2>2 DEF InitialEnd
<1>5. Start \in Nat /\ Start >= Page
  BY StartIs
<1>6. VM_KERN_HEAP_START <= Start
  <2> DEFINE a == VM_KERN_HEAP_START + VM_HEAP_INDEX_SIZE
  <2>1. a \in Nat /\ a >= Page
    BY <1>2
  <2>2. Start = NextPage(a)
    BY DEF Start
  <2> HIDE DEF a
  <2>3. Start > a
    BY <2>1, <2>2, NextPageIs
  <2> QED BY <1>2, <1>5, <2>1, <2>3 DEF a
<1>7. size \in Nat /\ size >= 5 /\ size <= WordModulus - 1 /\ Start + size = InitialEnd
  <2>1. size \in Nat /\ Start + size = InitialEnd /\ size <= WordModulus - 1
    BY <1>2, <1>3, <1>4, <1>5
  <2> QED BY <1>2, <1>3, <1>4, <1>5, <2>1
<1> HIDE DEF size
<1>8. r \in [hole : BOOLEAN, size : 0..(WordModulus - 1)] /\ r.hole = TRUE /\ r.size = size
  BY <1>2, <1>7
<1> HIDE DEF r
<1>9. /\ heap.hdr = [a \in {Start} |-> r] /\ heap.ftr = << >> /\ heap.index = <<Start>>
      /\ heap.end = InitialEnd
      /\ heap = [hdr |-> heap.hdr, ftr |-> heap.ftr, index |-> heap.index, end |-> heap.end]
  BY <1>1
<1>10. /\ DOMAIN heap.hdr = {Start} /\ heap.hdr[Start] = r /\ DOMAIN heap.ftr = {} /\ DOMAIN live = {}
  BY <1>1, <1>9
<1>11. Typed(heap)
  BY <1>5, <1>8, <1>9, <1>10 DEF Typed
<1>12. IsHole(heap, Start) /\ SizeOf(heap, Start) = size
  BY <1>8, <1>10 DEF IsHole, IsHeader, SizeOf
<1> DEFINE B == {Start}
<1>13. Tiling(heap, B)
  BY <1>5, <1>7, <1>9, <1>12 DEF Tiling
<1>14. Footed(heap, B)
  BY <1>7, <1>9, <1>12 DEF Footed
<1>15. Indexed(heap, B)
  <2>1. heap.index \in Seq(Nat) /\ Len(heap.index) = 1 /\ heap.index[1] = Start
    BY <1>5, <1>9
  <2>2. Distinct(heap.index)
    BY <2>1 DEF Distinct
  <2>3. ToSet(heap.index) = {Start}
    <3>1. \A v : v \in ToSet(heap.index) <=> \E i \in 1..Len(heap.index) : heap.index[i] = v
      BY <2>1, ToSetIs
    <3> QED BY <2>1, <3>1
  <2> QED BY <1>12, <2>1, <2>2, <2>3 DEF Indexed
<1>16. United(heap, B) /\ Owned(heap, B, live) /\ NoneBefore(heap)
  <2>1. United(heap, B)
    BY <1>5, <1>7, <1>12 DEF United
  <2>2. Owned(heap, B, live)
    BY <1>10, <1>12 DEF Owned
  <2>3. NoneBefore(heap)
    BY <1>10 DEF NoneBefore, HasFooter
  <2> QED BY <2>1, <2>2, <2>3
<1>17. HeapOK(heap, Blocks, live)
  <2>1. HeapOK(heap, B, live)
    BY <1>11, <1>13, <1>14, <1>15, <1>16 DEF HeapOK
  <2>2. BlocksIn(heap) = B
    BY <1>4, <1>9, <2>1, BlocksFound
  <2> QED BY <2>1, <2>2 DEF Blocks
<1>18. EndInv
  <2>1. heap.end \in (Start + VM_HEAP_MIN_SIZE)..HeapMax /\ EndOnPage
    BY <1>2, <1>3, <1>4, <1>5, <1>9 DEF EndOnPage
  <2>2. PagesOf(Start, heap.end - 1) \subseteq framed
    <3>1. VM_KERN_HEAP_START \div Page <= Start \div Page /\ VM_KERN_HEAP_START \div Page \in Nat
          /\ Start \div Page \in Nat
      BY <1>2, <1>5, <1>6, DivMod, DivMono
    <3> QED BY <1>1, <1>9, <3>1 DEF PagesOf
  <2>3. framed \subseteq Nat
    <3>1. VM_KERN_HEAP_START \div Page \in Nat
      BY <1>2, DivMod
    <3> QED BY <1>1, <3>1 DEF PagesOf
  <2> QED BY <1>1, <2>1, <2>2, <2>3 DEF EndInv, Backed
<1> QED BY <1>1, <1>17, <1>18 DEF HeapInvariant, RequestInv

(* A call of kmalloc begins.                                               *)
LEMMA AskKeeps ==
  ASSUME Liberties = {}, HeapInvariant, NEW n \in Sizes, NEW flags \in Flags, Asks(n, flags)
  PROVE  HeapInvariant' /\ panic' = panic
<1> DEFINE r == [size |-> n, flags |-> flags]
           q == [size |-> n, flags |-> flags, turn |-> 1]
<1>1. request' = q /\ UNCHANGED <<heap, framed, present, live, panic>>
  BY DEF Asks, Kmalloc
<1>2. q.size = n /\ q.flags = flags /\ q.turn = 1 /\ r.size = n /\ r.flags = flags
  OBVIOUS
<1>3. /\ HasFit(heap, r) \/ GrowsAtEnd
      /\ IsAligned(r) => LeavesHoles(Ready(Ready(heap, r), r), r)
  BY DEF Asks
<1>4. q = [size |-> q.size, flags |-> q.flags, turn |-> q.turn]
  OBVIOUS
<1> HIDE DEF r, q
<1>5. Need(r) = Need(q) /\ IsAligned(r) = IsAligned(q)
  BY <1>2 DEF Need, IsAligned
<1>6. \A h : /\ HasFit(h, r) <=> FindHole(h, Need(q), IsAligned(q)) # 0
             /\ Ready(h, r) = Ready(h, q) /\ (LeavesHoles(h, r) <=> LeavesHoles(h, q))
  BY <1>5 DEF HasFit, Ready, Expanded, LeavesHoles
<1>7. Found' = FindHole(heap, Need(q), IsAligned(q))
  BY <1>1 DEF Found
<1>8. GrowsAtEnd' = GrowsAtEnd /\ IsAligned(request)' = IsAligned(q)
  BY <1>1 DEF GrowsAtEnd, IsAligned
<1>9. HeapAtLast' = Ready(Ready(heap, q), q)
  BY <1>1, <1>2 DEF HeapAtLast
<1>10. RequestInv'
  <2>1. (Found = 0 => GrowsAtEnd)'
    BY <1>3, <1>6, <1>7, <1>8
  <2>2. (IsAligned(request) => LeavesHoles(HeapAtLast, request))'
    <3>1. IsAligned(q) => LeavesHoles(Ready(Ready(heap, q), q), q)
      BY <1>3, <1>5, <1>6
    <3>2. LeavesHoles(HeapAtLast, request)' <=> LeavesHoles(HeapAtLast', q)
      BY <1>1 DEF LeavesHoles
    <3> QED BY <1>8, <1>9, <3>1, <3>2
  <2>3. (request.size \in Sizes /\ request.flags \in Flags /\ request.turn = 1
         /\ request = [size |-> request.size, flags |-> request.flags, turn |-> request.turn])'
    BY <1>1, <1>2, <1>4
  <2> QED BY <2>1, <2>2, <2>3 DEF RequestInv
<1>11. Blocks' = Blocks
  BY <1>1 DEF Blocks
<1> QED BY <1>1, <1>10, <1>11 DEF HeapInvariant, EndInv, EndOnPage, Backed

(* Nothing happens.                                                        *)
LEMMA StutterKeeps == HeapInvariant /\ UNCHANGED vars => HeapInvariant'
<1> SUFFICES ASSUME HeapInvariant, UNCHANGED vars PROVE HeapInvariant'
  OBVIOUS
<1>1. UNCHANGED <<heap, framed, present, request, live, panic>>
  BY DEF vars
<1>2. RequestInv'
  BY <1>1, SameRequest DEF HeapInvariant
<1>3. Blocks' = Blocks /\ EndInv'
  BY <1>1 DEF HeapInvariant, EndInv, EndOnPage, Backed, Blocks
<1> QED BY <1>1, <1>2, <1>3 DEF HeapInvariant

(* Callers that heed what the heap can do.                                 *)
LEMMA CallsKeep ==
  ASSUME Liberties = {}, HeapInvariant, Calls
  PROVE  HeapInvariant' /\ panic' = panic
<1>1. ASSUME NEW n \in Sizes, NEW flags \in Flags, Asks(n, flags)
      PROVE  HeapInvariant' /\ panic' = panic
  BY <1>1, AskKeeps
<1>2. ASSUME NEW p \in DOMAIN live, GivesBack(p) PROVE HeapInvariant' /\ panic' = panic
  BY <1>2, FreeKeeps DEF GivesBack
<1> QED BY <1>1, <1>2 DEF Calls

(* Every step keeps the invariant.                                         *)
LEMMA StepKeeps ==
  ASSUME Modest, Liberties = {}, HeapInvariant, [Calls \/ AllocGrow \/ AllocPlace]_vars
  PROVE  HeapInvariant'
<1>1. CASE Calls
  BY <1>1, CallsKeep
<1>2. CASE AllocGrow
  BY <1>2, GrowKeeps
<1>3. CASE AllocPlace
  BY <1>3, PlaceKeeps
<1>4. CASE UNCHANGED vars
  BY <1>4, StutterKeeps
<1> QED BY <1>1, <1>2, <1>3, <1>4

(* Callers that stay within what the heap can do find it, after every     *)
(* call, as the invariant says.                                            *)
THEOREM HeapInvariantHolds ==
  ASSUME Modest, Liberties = {} PROVE CallerSpec => []HeapInvariant
<1>1. HeapInvariant /\ [Calls \/ AllocGrow \/ AllocPlace]_vars => HeapInvariant'
  BY StepKeeps
<1> QED BY InitKeeps, <1>1, PTL DEF CallerSpec

-----------------------------------------------------------------------------
(* What the invariant says                                                 *)

(* A sequence without repetition is as long as the set of its elements.    *)
LEMMA DistinctCount ==
  ASSUME NEW s \in Seq(Nat), Distinct(s)
  PROVE  IsFiniteSet(ToSet(s)) /\ Cardinality(ToSet(s)) = Len(s)
<1> DEFINE n == Len(s)
           f == [i \in 1..n |-> s[i]]
<1>1. n \in Nat /\ ToSet(s) = {s[i] : i \in 1..n}
  BY ToSetIs
<1>2. \A i, j \in 1..n : s[i] = s[j] => i = j
  BY DEF Distinct
<1> HIDE DEF n
<1>3. f \in Bijection(1..n, ToSet(s))
  BY <1>1, <1>2 DEF Bijection, Injection, Surjection, IsInjective
<1>4. ExistsBijection(1..n, ToSet(s))
  BY <1>3 DEF ExistsBijection
<1>5. Cardinality(ToSet(s)) = n
  BY <1>1, <1>4, FS_CountingElements
<1>6. IsFiniteSet(1..n)
  BY <1>1, FS_Interval
<1>7. IsFiniteSet(ToSet(s))
  BY <1>4, <1>6, FS_Bijection
<1> QED BY <1>5, <1>7 DEF n

(* The properties of Heap are parts of the invariant.                      *)
LEMMA TiledThen == HeapInvariant => HeapTiled
<1> SUFFICES ASSUME HeapInvariant PROVE HeapTiled
  OBVIOUS
<1>1. Tiling(heap, Blocks) /\ Footed(heap, Blocks) /\ Owned(heap, Blocks, live) /\ Blocks \subseteq Nat
  BY Known
<1>2. \A a \in Blocks : a + SizeOf(heap, a) \in Blocks \cup {heap.end}
  BY <1>1 DEF Tiling
<1>3. Blocks \ Holes = {BlockOf(p) : p \in DOMAIN live}
  <2>1. ASSUME NEW a \in Blocks \ Holes PROVE \E p \in DOMAIN live : a = BlockOf(p)
    <3>1. a \in Nat /\ ~IsHole(heap, a)
      BY <1>1 DEF Holes
    <3>2. a + 3 \in DOMAIN live /\ a = BlockOf(a + 3)
      BY <1>1, <3>1 DEF Owned, BlockOf
    <3> QED BY <3>2
  <2>2. \A p \in DOMAIN live : BlockOf(p) \in Blocks \ Holes
    BY <1>1 DEF Owned, Holes
  <2> QED BY <2>1, <2>2
<1>4. ASSUME NEW p \in DOMAIN live
      PROVE  /\ SizeOf(heap, BlockOf(p)) >= live[p] + Overhead
             /\ Named(heap, BlockOf(p))
  BY <1>1 DEF Owned, Footed
<1>5. \A p \in DOMAIN live :
        LET a == BlockOf(p)
            footer == a + SizeOf(heap, a) - FooterSize
        IN /\ SizeOf(heap, a) >= live[p] + Overhead
           /\ footer \in DOMAIN heap.ftr /\ heap.ftr[footer] = a
  BY <1>4 DEF Named, HasFooter, Footer
<1> QED BY <1>2, <1>3, <1>5 DEF HeapTiled

(* The index has as many entries as there are holes.                       *)
LEMMA IndexThen == HeapInvariant => IndexIsHoles
  BY Known, DistinctCount DEF IndexIsHoles, Holes

(* No hole follows another.                                                *)
LEMMA UnitedThen == HeapInvariant => Coalesced
  BY Known DEF Coalesced, Holes, United

(* Frames, the end of the heap, and the turns of alloc.                    *)
LEMMA EndThen == HeapInvariant => Backed /\ FewRetries
<1>1. HeapInvariant => Backed
  BY DEF HeapInvariant, EndInv
<1>2. HeapInvariant => FewRetries
  BY DEF HeapInvariant, RequestInv, NoRequest, FewRetries
<1> QED BY <1>1, <1>2

(* Blocks that tile the heap do not overlap.                               *)
LEMMA BlocksApart ==
  ASSUME NEW h, NEW B, NEW held, HeapOK(h, B, held), h.end \in Nat, NEW p \in DOMAIN held
  PROVE  /\ p >= Start + HeaderSize /\ p + held[p] + FooterSize <= h.end
         /\ \A q \in DOMAIN held : q # p => p + held[p] <= q \/ q + held[q] <= p
<1>1. Tiling(h, B) /\ Owned(h, B, held) /\ Typed(h)
  BY DEF HeapOK
<1>2. ASSUME NEW q \in DOMAIN held
      PROVE  /\ q \in Nat /\ held[q] \in Nat /\ BlockOf(q) = q - 3 /\ BlockOf(q) \in B
             /\ SizeOf(h, BlockOf(q)) \in Nat /\ SizeOf(h, BlockOf(q)) >= held[q] + 5
  <2>1. /\ q \in Nat /\ held[q] \in Sizes /\ BlockOf(q) \in B
        /\ SizeOf(h, BlockOf(q)) >= held[q] + Overhead
    BY <1>1 DEF Owned
  <2>2. held[q] \in Nat
    BY <2>1, HeapAssumption
  <2>3. SizeOf(h, BlockOf(q)) \in Nat
    BY <1>1, SizeNat
  <2>4. BlockOf(q) = q - 3
    BY DEF BlockOf
  <2> QED BY <2>1, <2>2, <2>3, <2>4
<1>3. Start \in Nat
  BY StartIs
<1>4. p >= Start + 3 /\ p + held[p] + 2 <= h.end
  <2>1. Start <= BlockOf(p) /\ BlockOf(p) + SizeOf(h, BlockOf(p)) <= h.end
    BY <1>1, <1>2 DEF Tiling
  <2> QED BY <1>2, <1>3, <2>1
<1>5. ASSUME NEW q \in DOMAIN held, q # p PROVE p + held[p] <= q \/ q + held[q] <= p
  <2>1. /\ BlockOf(p) < BlockOf(q) => BlockOf(p) + SizeOf(h, BlockOf(p)) <= BlockOf(q)
        /\ BlockOf(q) < BlockOf(p) => BlockOf(q) + SizeOf(h, BlockOf(q)) <= BlockOf(p)
    BY <1>1, <1>2 DEF Tiling
  <2>2. CASE p < q
    BY <1>2, <2>1, <2>2
  <2>3. CASE q < p
    BY <1>2, <2>1, <2>3
  <2> QED BY <1>2, <1>5, <2>2, <2>3
<1> QED BY <1>4, <1>5

LEMMA DisjointThen == HeapInvariant => LiveDisjoint
<1> SUFFICES ASSUME HeapInvariant PROVE LiveDisjoint
  OBVIOUS
<1>1. HeapOK(heap, Blocks, live) /\ heap.end \in Nat
  BY Known
<1> QED BY <1>1, BlocksApart DEF LiveDisjoint

-----------------------------------------------------------------------------
(* How many holes there are                                                *)

(* The request in the works is one of the MaxLive blocks.                  *)
LiveBounded ==
  /\ IsFiniteSet(DOMAIN live)
  /\ Cardinality(DOMAIN live) + (IF request = NoRequest THEN 0 ELSE 1) <= MaxLive

(* The bound on blocks holds on.                                           *)
LEMMA BoundKept ==
  ASSUME LiveBounded, [Calls \/ AllocGrow \/ AllocPlace]_vars
  PROVE  LiveBounded'
<1> DEFINE n == Cardinality(DOMAIN live)
<1>0. MaxLive \in Nat /\ IsFiniteSet(DOMAIN live) /\ n \in Nat
      /\ n + (IF request = NoRequest THEN 0 ELSE 1) <= MaxLive
  BY HeapAssumption, FS_CardinalityType DEF LiveBounded
<1>1. ASSUME NEW m \in Sizes, NEW flags \in Flags, Kmalloc(m, flags) PROVE LiveBounded'
  <2>1. n < MaxLive /\ live' = live
    BY <1>1 DEF Kmalloc
  <2> QED BY <1>0, <2>1 DEF LiveBounded
<1>2. ASSUME NEW p \in DOMAIN live, Kfree(p) PROVE LiveBounded'
  <2>1. DOMAIN live' = DOMAIN live \ {p}
    BY <1>2 DEF Kfree, Restrict
  <2>2. IsFiniteSet(DOMAIN live') /\ Cardinality(DOMAIN live') = n - 1
    <3> DEFINE S == DOMAIN live
    <3>1. IsFiniteSet(S) /\ p \in S
      BY <1>0, <1>2
    <3> HIDE DEF S
    <3>2. IsFiniteSet(S \ {p}) /\ Cardinality(S \ {p}) = Cardinality(S) - 1
      BY <3>1, FS_RemoveElement
    <3> QED BY <2>1, <3>2 DEF S
  <2> QED BY <1>0, <2>2 DEF LiveBounded
<1>3. CASE AllocGrow
  <2>1. live' = live /\ request # NoRequest
    BY <1>3 DEF AllocGrow
  <2> QED BY <1>0, <2>1 DEF LiveBounded
<1>4. CASE AllocPlace
  <2>1. PICK p : live' = With(live, p, request.size)
    BY <1>4 DEF AllocPlace
  <2>2. request # NoRequest /\ request' = NoRequest
    BY <1>4 DEF AllocPlace
  <2>3. DOMAIN live' = DOMAIN live \cup {p}
    BY <2>1 DEF With
  <2>4. IsFiniteSet(DOMAIN live') /\ Cardinality(DOMAIN live') <= n + 1
    <3> DEFINE S == DOMAIN live
    <3>1. IsFiniteSet(S) /\ Cardinality(S) \in Nat
      BY <1>0
    <3> HIDE DEF S
    <3>2. IsFiniteSet(S \cup {p}) /\ Cardinality(S \cup {p}) <= Cardinality(S) + 1
      BY <3>1, FS_AddElement
    <3> QED BY <2>3, <3>2 DEF S
  <2>5. Cardinality(DOMAIN live') \in Nat
    BY <2>4, FS_CardinalityType
  <2> QED BY <1>0, <2>2, <2>4, <2>5 DEF LiveBounded
<1>5. CASE UNCHANGED vars
  BY <1>5 DEF LiveBounded, vars
<1> QED BY <1>1, <1>2, <1>3, <1>4, <1>5 DEF Calls, Asks, GivesBack

(* Behind a hole is the end of the heap or a block that somebody holds.    *)
LEMMA FewHoles ==
  ASSUME HeapInvariant, LiveBounded
  PROVE  Len(heap.index) <= MaxLive + 1
<1> DEFINE H == {a \in Blocks : IsHole(heap, a)}
           T == DOMAIN live \cup {heap.end + 3}
           f == [a \in H |-> a + SizeOf(heap, a) + 3]
<1>1. /\ heap.index \in Seq(Nat) /\ Distinct(heap.index) /\ ToSet(heap.index) = H
      /\ Typed(heap) /\ Tiling(heap, Blocks) /\ United(heap, Blocks) /\ Owned(heap, Blocks, live)
      /\ Blocks \subseteq Nat
  BY Known
<1>2. IsFiniteSet(H) /\ Cardinality(H) = Len(heap.index)
  BY <1>1, DistinctCount
<1>3. /\ IsFiniteSet(T) /\ Cardinality(T) <= Cardinality(DOMAIN live) + 1
      /\ Cardinality(T) \in Nat /\ Cardinality(DOMAIN live) \in Nat
  <2>1. IsFiniteSet(DOMAIN live)
    BY DEF LiveBounded
  <2>2. Cardinality(DOMAIN live) \in Nat
    BY <2>1, FS_CardinalityType
  <2>3. IsFiniteSet(T) /\ Cardinality(T) <= Cardinality(DOMAIN live) + 1
    BY <2>1, <2>2, FS_AddElement
  <2> QED BY <2>2, <2>3, FS_CardinalityType
<1>4. ASSUME NEW a \in H
      PROVE  a \in Nat /\ a \in Blocks /\ SizeOf(heap, a) \in Nat /\ a + SizeOf(heap, a) + 3 \in T
             /\ SizeOf(heap, a) >= 5
  <2>1. a \in Nat /\ a \in Blocks /\ IsHole(heap, a) /\ SizeOf(heap, a) \in Nat
    BY <1>1, SizeNat
  <2>2. a + SizeOf(heap, a) \in Blocks \cup {heap.end} /\ SizeOf(heap, a) >= 5
    BY <1>1, <2>1 DEF Tiling
  <2>3. CASE a + SizeOf(heap, a) \in Blocks
    <3>1. ~IsHole(heap, a + SizeOf(heap, a))
      BY <1>1, <2>1, <2>3 DEF United
    <3>2. (a + SizeOf(heap, a)) + 3 \in DOMAIN live
      BY <1>1, <2>3, <3>1 DEF Owned
    <3> QED BY <2>1, <2>2, <3>2
  <2> QED BY <2>1, <2>2, <2>3
<1>5. ASSUME NEW a \in H, NEW c \in H, f[a] = f[c] PROVE a = c
  <2>1. a + SizeOf(heap, a) = c + SizeOf(heap, c)
    BY <1>4, <1>5
  <2>2. (a < c => a + SizeOf(heap, a) <= c) /\ (c < a => c + SizeOf(heap, c) <= a)
    BY <1>1, <1>4 DEF Tiling
  <2>3. /\ a \in Nat /\ c \in Nat /\ SizeOf(heap, a) \in Nat /\ SizeOf(heap, c) \in Nat
        /\ SizeOf(heap, a) >= 5 /\ SizeOf(heap, c) >= 5
    BY <1>4
  <2> QED BY <2>1, <2>2, <2>3
<1>6. f \in Injection(H, T)
  <2>1. \A a \in H : a + SizeOf(heap, a) + 3 \in T
    BY <1>4
  <2> HIDE DEF H, T
  <2>2. f \in [H -> T]
    BY <2>1
  <2> HIDE DEF f
  <2> QED BY <1>5, <2>2 DEF Injection, IsInjective
<1>7. Cardinality(H) <= Cardinality(T)
  <2> HIDE DEF f, H, T
  <2> QED BY <1>3, <1>6, FS_Injection
<1>8. Cardinality(DOMAIN live) <= MaxLive /\ MaxLive \in Nat
  BY <1>3, HeapAssumption DEF LiveBounded
<1>9. Len(heap.index) \in Nat
  BY <1>1
<1> HIDE DEF H, T
<1> QED BY <1>2, <1>3, <1>7, <1>8, <1>9

(* With fewer blocks than it has entries, the index has enough room.       *)
LEMMA TypesThen ==
  ASSUME HeapInvariant, LiveBounded, MaxLive < VM_HEAP_INDEX_SIZE
  PROVE  TypeOK
<1>1. Typed(heap) /\ Owned(heap, Blocks, live) /\ heap.index \in Seq(Nat) /\ heap.end \in Nat
      /\ heap.end <= HeapMax /\ heap.end >= Start + VM_HEAP_MIN_SIZE /\ framed \subseteq present
  BY Known
<1>2. MaxLive \in Nat /\ VM_HEAP_INDEX_SIZE \in Nat /\ HeapMax \in Nat /\ VM_HEAP_MIN_SIZE \in Nat
      /\ Start \in Nat
  BY HeapAssumption, StartIs
<1>3. Len(heap.index) <= VM_HEAP_INDEX_SIZE
  <2>1. Len(heap.index) <= MaxLive + 1 /\ Len(heap.index) \in Nat
    BY <1>1, FewHoles
  <2> QED BY <1>2, <2>1
<1>4. heap.end \in Start..HeapMax
  BY <1>1, <1>2
<1>5. request \in [size : Sizes, flags : Flags, turn : Nat] \cup {NoRequest}
  BY DEF HeapInvariant, RequestInv
<1>6. \A a \in DOMAIN heap.hdr : heap.hdr[a] \in [hole : BOOLEAN, size : 0..(WordModulus - 1)]
  BY <1>1 DEF Typed
<1>7. \A a \in DOMAIN heap.ftr : heap.ftr[a] \in Nat
  BY <1>1 DEF Typed
<1>8. \A p \in DOMAIN live : live[p] \in Sizes
  BY <1>1 DEF Owned
<1>9. panic \in BOOLEAN
  BY DEF HeapInvariant
<1> QED BY <1>1, <1>3, <1>4, <1>5, <1>6, <1>7, <1>8, <1>9 DEF TypeOK

(* Callers never hold more than MaxLive blocks.                            *)
THEOREM LiveBoundedHolds == CallerSpec => []LiveBounded
<1>1. Init => LiveBounded
  <2>1. ASSUME Init PROVE DOMAIN live = {} /\ request = NoRequest
    BY <2>1 DEF Init
  <2> QED BY <2>1, FS_EmptySet, HeapAssumption DEF LiveBounded
<1>2. LiveBounded /\ [Calls \/ AllocGrow \/ AllocPlace]_vars => LiveBounded'
  BY BoundKept
<1> QED BY <1>1, <1>2, PTL DEF CallerSpec

(* Heap and index stay within their types: the index never outgrows its    *)
(* room when callers hold fewer blocks than it has entries (kassert "has   *)
(* enough room" of insert_sorted_array).                                   *)
THEOREM HeapTypes ==
  ASSUME Modest, Liberties = {}, MaxLive < VM_HEAP_INDEX_SIZE
  PROVE  CallerSpec => []TypeOK
<1>1. HeapInvariant /\ LiveBounded => TypeOK
  BY TypesThen
<1> QED BY HeapInvariantHolds, LiveBoundedHolds, <1>1, PTL

(* Blocks fill the heap, and those that are no holes are the ones handed   *)
(* out, long enough and with their footers (alloc, free).                  *)
THEOREM HeapTiledHolds ==
  ASSUME Modest, Liberties = {} PROVE CallerSpec => []HeapTiled
<1> QED BY HeapInvariantHolds, TiledThen, PTL

(* The index holds every hole once and nothing else (alloc, free).         *)
THEOREM IndexIsHolesHolds ==
  ASSUME Modest, Liberties = {} PROVE CallerSpec => []IndexIsHoles
<1> QED BY HeapInvariantHolds, IndexThen, PTL

(* free unites a block with the holes on both sides of it.                 *)
THEOREM CoalescedHolds ==
  ASSUME Modest, Liberties = {} PROVE CallerSpec => []Coalesced
<1> QED BY HeapInvariantHolds, UnitedThen, PTL

(* Every page of the heap has a frame (expand, contract).                  *)
THEOREM HeapBacked ==
  ASSUME Modest, Liberties = {} PROVE CallerSpec => []Backed
<1> QED BY HeapInvariantHolds, EndThen, PTL

(* The heap that alloc has expanded has a hole that fits, and one that is  *)
(* long enough on a page boundary when alloc has expanded it once more:    *)
(* alloc calls itself once at most, for an aligned block twice.            *)
THEOREM FewRetriesHold ==
  ASSUME Modest, Liberties = {} PROVE CallerSpec => []FewRetries
<1> QED BY HeapInvariantHolds, EndThen, PTL

(* Blocks of different callers do not overlap and lie in the heap.         *)
THEOREM LiveDisjointHolds ==
  ASSUME Modest, Liberties = {} PROVE CallerSpec => []LiveDisjoint
<1> QED BY HeapInvariantHolds, DisjointThen, PTL

-----------------------------------------------------------------------------
(* The heap implements the allocator                                       *)

(* The request as the allocator sees it.                                   *)
Asked == [size |-> request.size, flags |-> request.flags]

(* Init of the heap is that of the allocator.                              *)
LEMMA InitImplements == Init => A!Init
  BY DEF Init, A!Init, NoRequest

(* A call of kmalloc begins.                                               *)
LEMMA AskImplements ==
  ASSUME NEW n \in Sizes, NEW flags \in Flags, HeapInvariant, Kmalloc(n, flags)
  PROVE  A!Ask(n, flags)
<1>1. ~panic /\ request = NoRequest /\ live' = live /\ panic' = panic
      /\ request' = [size |-> n, flags |-> flags, turn |-> 1]
  BY DEF Kmalloc, Running
<1>2. Asked = [size |-> -1, flags |-> {}] /\ Asked' = [size |-> n, flags |-> flags]
  BY <1>1 DEF NoRequest, Asked
<1> QED BY <1>1, <1>2 DEF A!Ask, Asked

(* A request in the works is one the allocator sees.                       *)
LEMMA PendingIs ==
  ASSUME HeapInvariant, request # NoRequest
  PROVE  request.size \in Nat /\ Asked # [size |-> -1, flags |-> {}]
<1>1. request.size \in Nat
  BY HeapAssumption DEF HeapInvariant, RequestInv
<1>2. Asked.size = request.size /\ [size |-> -1, flags |-> {}].size = -1
  BY DEF Asked
<1> QED BY <1>1, <1>2

(* expand is no step of the allocator, or memory has run out.              *)
LEMMA GrowImplements ==
  ASSUME HeapInvariant, AllocGrow
  PROVE  A!OutOfMemory \/ UNCHANGED A!vars
<1>1. ~panic /\ request # NoRequest /\ live' = live
  BY DEF AllocGrow, Running
<1>2. Asked # [size |-> -1, flags |-> {}]
  BY <1>1, PendingIs
<1>3. CASE Panic
  <2>1. panic' = TRUE /\ request' = request
    BY <1>3 DEF Panic
  <2>2. Asked' = Asked
    BY <2>1 DEF Asked
  <2> QED BY <1>1, <1>2, <2>1, <2>2 DEF A!OutOfMemory, Asked
<1>4. CASE request' = [request EXCEPT !.turn = @ + 1] /\ UNCHANGED panic
  <2>1. request = [size |-> request.size, flags |-> request.flags, turn |-> request.turn]
    BY <1>1 DEF HeapInvariant, RequestInv
  <2>2. request'.size = request.size /\ request'.flags = request.flags
    BY <1>4, <2>1
  <2>3. Asked' = Asked
    BY <2>2 DEF Asked
  <2> QED BY <1>1, <1>4, <2>3 DEF A!vars, Asked
<1>5. Panic \/ (request' = [request EXCEPT !.turn = @ + 1] /\ UNCHANGED panic)
  BY DEF AllocGrow
<1> QED BY <1>3, <1>4, <1>5

LiveApart == LiveDisjoint /\ heap.end \in Nat /\ heap.end <= HeapMax

(* What callers hold after a step does not overlap.                        *)
LEMMA ApartAfter == HeapInvariant' => LiveApart'
<1>1. HeapInvariant => LiveApart
  BY DisjointThen, Known DEF LiveApart
<1> QED BY <1>1, PTL

(* alloc grants memory nobody had.                                         *)
LEMMA PlaceImplements ==
  ASSUME Modest, HeapInvariant, AllocPlace
  PROVE  A!Answer
<1>1. PICK p : Grants(p)
  BY PlaceKeeps
<1> DEFINE n == request.size
<1>2. ~panic /\ request # NoRequest /\ request' = NoRequest /\ panic' = panic
  BY DEF AllocPlace, Running
<1>3. n \in Nat /\ Asked # [size |-> -1, flags |-> {}] /\ Asked' = [size |-> -1, flags |-> {}]
  <2>1. n \in Nat /\ Asked # [size |-> -1, flags |-> {}]
    BY <1>2, PendingIs
  <2>2. Asked' = [size |-> -1, flags |-> {}]
    BY <1>2 DEF Asked, NoRequest
  <2> QED BY <2>1, <2>2
<1>4. p \in Nat /\ p \notin DOMAIN live /\ live' = With(live, p, n)
      /\ (IsAligned(request) => p % Page = 0)
  BY <1>1 DEF Grants
<1>5. /\ live' = [q \in DOMAIN live \cup {p} |-> IF q = p THEN n ELSE live[q]]
      /\ p \in DOMAIN live' /\ live'[p] = n
      /\ \A q \in DOMAIN live : q \in DOMAIN live' /\ live'[q] = live[q] /\ q # p
  BY <1>4 DEF With
<1>6. LiveDisjoint' /\ heap'.end \in Nat /\ heap'.end <= HeapMax
  <2>1. HeapInvariant'
    BY PlaceKeeps
  <2> QED BY <2>1, ApartAfter DEF LiveApart
<1> HIDE DEF n
<1>7. p >= Start + 3 /\ p + n + 2 <= heap'.end
  BY <1>5, <1>6 DEF LiveDisjoint
<1>8. ASSUME NEW q \in DOMAIN live PROVE p + n <= q \/ q + live[q] <= p
  <2>1. p + live'[p] <= q \/ q + live'[q] <= p
    BY <1>5, <1>6 DEF LiveDisjoint
  <2> QED BY <1>5, <2>1
<1>9. p \in Start..(HeapMax - 1) /\ (p..(p + n - 1)) \subseteq Start..(HeapMax - 1)
  <2>1. Start \in Nat /\ HeapMax \in Nat
    BY StartIs, HeapAssumption
  <2> QED BY <1>3, <1>4, <1>6, <1>7, <2>1
<1>10. A!Unused(p, n)
  BY <1>8, <1>9 DEF A!Unused
<1>11. "M_ALIGNED" \in Asked.flags => p % Page = 0
  BY <1>4 DEF IsAligned, Asked
<1>12. A!Grant(p)
  BY <1>2, <1>3, <1>5, <1>10, <1>11 DEF A!Grant, Asked, n
<1> QED BY <1>9, <1>12 DEF A!Answer

(* free takes a block back and does not stop.                              *)
LEMMA FreeImplements ==
  ASSUME HeapInvariant, NEW p \in DOMAIN live, HasBehind(p), Kfree(p)
  PROVE  A!Release(p)
<1>1. ~FreeStops(p)
  BY FreeRuns
<1>2. ~panic /\ request = NoRequest /\ request' = request /\ panic' = panic
      /\ live' = Restrict(live, DOMAIN live \ {p})
  BY <1>1 DEF Kfree, Running
<1>3. Asked = [size |-> -1, flags |-> {}] /\ Asked' = Asked
  BY <1>2 DEF Asked, NoRequest
<1> QED BY <1>2, <1>3 DEF A!Release, Asked, Restrict, A!Restrict

(* Every step of the heap is one of the allocator or none.                 *)
LEMMA StepImplements ==
  ASSUME Modest, Liberties = {}, HeapInvariant, [Calls \/ AllocGrow \/ AllocPlace]_vars
  PROVE  [A!Next]_(A!vars)
<1>1. ASSUME NEW n \in Sizes, NEW flags \in Flags, Kmalloc(n, flags) PROVE A!Next
  BY <1>1, AskImplements DEF A!Next
<1>2. ASSUME NEW p \in DOMAIN live, HasBehind(p), Kfree(p) PROVE A!Next
  BY <1>2, FreeImplements DEF A!Next
<1>3. CASE Calls
  BY <1>1, <1>2, <1>3 DEF Calls, Asks, GivesBack
<1>4. CASE AllocGrow
  BY <1>4, GrowImplements DEF A!Next, A!Answer
<1>5. CASE AllocPlace
  BY <1>5, PlaceImplements DEF A!Next
<1>6. CASE UNCHANGED vars
  BY <1>6 DEF vars, A!vars
<1> QED BY <1>3, <1>4, <1>5, <1>6

(* What callers see of the heap are steps of the allocator: memory it      *)
(* grants overlaps nobody's and is aligned when asked for, and free never  *)
(* stops the kernel (alloc, free).  It is a statement of safety, which     *)
(* does not say that calls return.                                         *)
THEOREM ImplementsAllocator ==
  ASSUME Modest, Liberties = {}
  PROVE  CallerSpec => AllocatorSpec
<1>1. HeapInvariant /\ [Calls \/ AllocGrow \/ AllocPlace]_vars => [A!Next]_(A!vars)
  BY StepImplements
<1> QED BY HeapInvariantHolds, InitImplements, <1>1, PTL DEF CallerSpec, AllocatorSpec, A!Spec
=============================================================================
