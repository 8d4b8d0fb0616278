-------------------------- MODULE SharedHeapProofs -------------------------
(***************************************************************************)
(* A call of alloc or free that no other one overlaps comes, step by step, *)
(* to the one step that Heap makes of it; so up to the first overlap the   *)
(* heap stays in order and no two threads hold the same memory.            *)
(***************************************************************************)
EXTENDS SharedInv, HeapProofs

USE DEF HeaderSize, FooterSize, Overhead

-----------------------------------------------------------------------------
(* alloc in steps                                                          *)

(* The search stops at the first hole that fits.                           *)
LEMMA FirstFit ==
  ASSUME NEW h, h.index \in Seq(Nat), NEW need, NEW i \in 1..(Len(h.index) + 1),
         \A j \in 1..(i - 1) : ~Fits(h, h.index[j], need, FALSE)
  PROVE  /\ i = Len(h.index) + 1 => FindHole(h, need, FALSE) = 0
         /\ i # Len(h.index) + 1 /\ Fits(h, h.index[i], need, FALSE) =>
              FindHole(h, need, FALSE) = i
<1> DEFINE found == FindHole(h, need, FALSE)
           n == Len(h.index)
           I == {j \in 1..n : Fits(h, h.index[j], need, FALSE)}
<1>1. n \in Nat /\ i \in 1..(n + 1)
  OBVIOUS
<1>2. \A j \in I : j \in 1..n /\ j >= i
  <2>1. ASSUME NEW j \in I, ~(j >= i) PROVE FALSE
    <3>1. j \in 1..n /\ Fits(h, h.index[j], need, FALSE)
      OBVIOUS
    <3>2. j \in 1..(i - 1)
      <4> HIDE DEF n, I
      <4> QED BY <1>1, <2>1, <3>1
    <3> QED BY <3>1, <3>2
  <2> QED BY <2>1
<1>3. found = IF I # {} THEN Min(I) ELSE 0
  BY DEF FindHole, SelectInSeq
<1>4. CASE i = n + 1
  <2>1. I = {}
    <3> SUFFICES ASSUME NEW j \in I PROVE FALSE
      OBVIOUS
    <3>1. j \in 1..n /\ j >= i
      BY <1>2
    <3> HIDE DEF n, I
    <3> QED BY <1>1, <1>4, <3>1
  <2> QED BY <1>1, <1>3, <1>4, <2>1
<1>5. CASE i # n + 1 /\ Fits(h, h.index[i], need, FALSE)
  <2>1. i \in 1..n
    <3> HIDE DEF n
    <3> QED BY <1>1, <1>5
  <2>2. i \in I
    BY <1>5, <2>1
  <2>3. I \subseteq Nat /\ I # {}
    <3>1. I \subseteq 1..n
      OBVIOUS
    <3> HIDE DEF n, I
    <3> QED BY <1>1, <2>2, <3>1
  <2> HIDE DEF I
  <2>4. Min(I) \in I /\ \A k \in I : Min(I) <= k
    BY <2>3, LeastIs
  <2>5. Min(I) <= i /\ Min(I) >= i /\ Min(I) \in Nat /\ i \in Nat
    BY <1>2, <2>2, <2>3, <2>4
  <2>6. Min(I) = i
    BY <2>5
  <2> QED BY <1>3, <1>5, <2>3, <2>6
<1> QED BY <1>4, <1>5

(* The place of the hole alloc takes, and the hole.                        *)
PlaceFor(h, r) == FindHole(h, Need(r), FALSE)
HoleFor(h, r)  == h.index[PlaceFor(h, r)]

(* What FindHole has found is a hole that has room.                        *)
LEMMA FoundIs ==
  ASSUME Modest, NEW h, NEW held, InOrder(h, held), NEW r, r.size \in Sizes,
         PlaceFor(h, r) # 0
  PROVE  /\ PlaceFor(h, r) \in 1..Len(h.index)
         /\ HoleFor(h, r) \in Nat /\ HoleFor(h, r) \in BlocksIn(h) /\ IsHole(h, HoleFor(h, r))
         /\ Need(r) \in Nat /\ Need(r) = r.size + Overhead /\ r.size \in Nat
         /\ SizeOf(h, HoleFor(h, r)) \in Nat /\ SizeOf(h, HoleFor(h, r)) < WordModulus
         /\ Need(r) <= SizeOf(h, HoleFor(h, r))
         /\ h.index \in Seq(Nat) /\ Distinct(h.index)
         /\ h.end \in Nat /\ h.end < WordModulus
         /\ HoleFor(h, r) + SizeOf(h, HoleFor(h, r)) <= h.end
         /\ h.end >= Start + VM_HEAP_MIN_SIZE
<1> DEFINE i == PlaceFor(h, r)
           a == HoleFor(h, r)
<1>a. i # 0
  OBVIOUS
<1>b. a = h.index[i]
  BY DEF HoleFor
<1> DEFINE B == BlocksIn(h)
<1>1. HeapOK(h, B, held)
  BY DEF InOrder
<1>2. /\ h.end \in Nat /\ h.end <= HeapMax /\ HeapMax < WordModulus /\ h.end < WordModulus
      /\ h.end >= Start + VM_HEAP_MIN_SIZE
  <2>1. Start \in Nat /\ VM_HEAP_MIN_SIZE \in Nat /\ HeapMax \in Nat /\ WordModulus \in Nat
        /\ HeapMax < WordModulus
    BY StartIs, HeapAssumption
  <2> QED BY <2>1 DEF InOrder
<1> HIDE DEF B, i, a
<1>3. h.index \in Seq(Nat) /\ Distinct(h.index) /\ ToSet(h.index) = {x \in B : IsHole(h, x)}
  BY <1>1 DEF HeapOK, Indexed
<1>4. i \in 1..Len(h.index) /\ Fits(h, a, Need(r), FALSE)
  <2>1. i \in 0..Len(h.index) /\ Fits(h, a, Need(r), FALSE)
    BY <1>3, <1>a, <1>b, FindsFit DEF i, PlaceFor
  <2>2. Len(h.index) \in Nat
    BY <1>3
  <2>3. \A n \in Nat : i \in 0..n => i \in 1..n
    BY <1>a
  <2> QED BY <2>1, <2>2, <2>3
<1>5. a \in B /\ IsHole(h, a)
  <2>1. a \in ToSet(h.index)
    BY <1>3, <1>4, <1>b, ToSetIs
  <2> QED BY <1>3, <2>1
<1>6. Need(r) \in Nat /\ Need(r) = r.size + Overhead /\ r.size \in Nat
  <2>1. r.size \in Nat /\ Need(r) = r.size + Overhead
    BY NeedIs
  <2> QED BY <2>1
<1>7. /\ a \in Nat /\ SizeOf(h, a) \in Nat /\ SizeOf(h, a) < WordModulus
      /\ a + SizeOf(h, a) <= h.end
  BY <1>1, <1>2, <1>5, HoleKnown
<1>8. Need(r) <= SizeOf(h, a)
  BY <1>4, <1>6, <1>7 DEF Fits
<1> QED BY <1>2, <1>3, <1>4, <1>5, <1>6, <1>7, <1>8 DEF B, i, a

(* The length of the block and of the rest, as alloc has them when hole    *)
(* and hole_size are known.                                                *)
LEMMA RestIs ==
  ASSUME NEW size \in Nat, size < WordModulus, NEW need \in Nat, need <= size,
         NEW b, b = (IF TooShort(Wrap(size - need)) THEN size ELSE need)
  PROVE  \/ size - need < Overhead /\ b = size /\ Wrap(size - b) = 0
         \/ size - need >= Overhead /\ b = need /\ Wrap(size - b) = size - need
<1>1. WordModulus \in Nat /\ size - need \in Nat /\ size - need < WordModulus /\ 0 < WordModulus
  BY HeapAssumption
<1>2. Wrap(size - need) = size - need /\ Wrap(0) = 0
  BY <1>1, WrapIs
<1>3. TooShort(size - need) <=> size - need < Overhead
  BY DEF TooShort
<1>4. CASE size - need < Overhead
  <2>1. b = size /\ size - b = 0
    BY <1>2, <1>3, <1>4
  <2> QED BY <1>2, <1>4, <2>1
<1>5. CASE ~(size - need < Overhead)
  <2>1. b = need /\ size - need >= Overhead
    BY <1>1, <1>2, <1>3, <1>5
  <2> QED BY <1>2, <2>1
<1> QED BY <1>4, <1>5

(* All the steps together are Place.                                       *)
LEMMA AllocatedIs ==
  ASSUME NEW h, h.end \in Nat, NEW a \in Nat, NEW r, ~IsAligned(r),
         NEW size \in Nat, SizeOf(h, a) = size, size < WordModulus, a + size <= h.end,
         NEW n \in Nat, r.size = n, NEW need \in Nat, Need(r) = need, need = n + Overhead,
         need <= size,
         NEW b, b = (IF TooShort(Wrap(size - need)) THEN size ELSE need)
  PROVE  /\ Place(h, a, r).heap = Allocated(h, a, b, Wrap(size - b))
         /\ Place(h, a, r).pointer = a + HeaderSize
<1>1. CASE size - need < Overhead /\ b = size /\ Wrap(size - b) = 0
  <2>1. size < n + Overhead + Overhead
    BY <1>1
  <2>2. Place(h, a, r).heap = WholeCut(h, a) /\ Place(h, a, r).pointer = a + HeaderSize
    BY <2>1, PlaceWhole
  <2>3. WholeCut(h, a) = Allocated(h, a, b, 0)
    BY <1>1 DEF WholeCut, WriteBlock, Allocated, Blocked, Headed
  <2> QED BY <1>1, <2>2, <2>3
<1>2. CASE size - need >= Overhead /\ b = need /\ Wrap(size - b) = size - need
  <2> DEFINE rest == size - need
             hole == a + need
  <2>1. rest \in Nat /\ rest >= Overhead /\ hole \in Nat /\ hole = a + need /\ hole + rest = a + size
        /\ rest # 0 /\ hole + rest - 2 < h.end /\ Wrap(size - b) = rest
    BY <1>2
  <2> HIDE DEF rest, hole
  <2>2. /\ Place(h, a, r).heap = FrontCut(h, a, need, hole, rest)
        /\ Place(h, a, r).pointer = a + HeaderSize
    BY <2>1, PlaceFront
  <2>3. FrontCut(h, a, need, hole, rest) = Allocated(h, a, b, rest)
    BY <1>2, <2>1 DEF FrontCut, WriteBlock, Allocated, RestFooted, RestHeaded, Blocked, Headed
  <2> QED BY <2>1, <2>2, <2>3
<1> QED BY <1>1, <1>2, RestIs

-----------------------------------------------------------------------------
(* The threads                                                             *)

(* A thread's variables, and threads c that are as ThreadsOK wants them.   *)
Frame(f) ==
  /\ f = [at |-> f.at, got |-> f.got, size |-> f.size, i |-> f.i, hole |-> f.hole,
          hole_size |-> f.hole_size, pointer |-> f.pointer, freeing |-> f.freeing]
  /\ f.got \in Seq([pointer : Nat, size : Sizes])

FreeSteps == {"free", "left", "right", "contract", "add", "freed"}

(* t's variables become those of f, the other threads' stay.               *)
Becomes(t, f) == th' = [u \in Threads |-> IF u = t THEN f ELSE th[u]]

(* The pointers that the threads of c hold.                                *)
HeldBy(c) == UNION {{b.pointer : b \in ToSet(c[t].got)} : t \in Threads}

LEMMA HeldByIs ==
  ASSUME NEW c, NEW p
  PROVE  p \in HeldBy(c) <=> \E u \in Threads : \E i \in DOMAIN c[u].got : p = c[u].got[i].pointer
<1>1. p \in HeldBy(c) <=> \E u \in Threads : p \in {b.pointer : b \in ToSet(c[u].got)}
  BY DEF HeldBy
<1>2. ASSUME NEW u \in Threads
      PROVE  p \in {b.pointer : b \in ToSet(c[u].got)}
               <=> \E i \in DOMAIN c[u].got : p = c[u].got[i].pointer
  BY DEF ToSet
<1> QED BY <1>1, <1>2

LEMMA FramesAre ==
  ThreadsOK <=> th = [t \in Threads |-> th[t]] /\ \A t \in Threads : Frame(th[t])
BY DEF ThreadsOK, Frame

(* What is known while no two calls have overlapped: the threads and the   *)
(* blocks they hold.                                                       *)
HandsOK(held) ==
  /\ ThreadsOK /\ HeldOnce
  /\ held \in [Pointers -> Sizes] /\ Hands(held)

(* A thread goes on in its call, and keeps what it holds.                  *)
LEMMA GoesOn ==
  ASSUME NEW held, HandsOK(held), NEW t \in Threads, NEW f, Frame(f), Becomes(t, f),
         f.got = th[t].got, f.pointer = th[t].pointer,
         Inside \subseteq {t}, f.at # "caller", f.at \in FreeSteps <=> th[t].at \in FreeSteps
  PROVE  HandsOK(held)' /\ Inside' = {t}
<1>1. th = [u \in Threads |-> th[u]] /\ \A u \in Threads : Frame(th[u])
  BY FramesAre DEF HandsOK
<1>2. /\ th' = [u \in Threads |-> th'[u]] /\ th'[t] = f
      /\ \A u \in Threads : u # t => th'[u] = th[u]
  BY DEF Becomes
<1>3. \A u \in Threads : /\ th'[u].got = th[u].got /\ th'[u].pointer = th[u].pointer
                         /\ th'[u].at \in FreeSteps <=> th[u].at \in FreeSteps
  BY <1>2
<1>4. ThreadsOK'
  <2>1. \A u \in Threads : Frame(th'[u])
    BY <1>1, <1>2
  <2> QED BY <1>2, <2>1 DEF ThreadsOK, Frame
<1>5. InHands' = InHands /\ Freers' = Freers
  <2>1. InHands = HeldBy(th) /\ InHands' = HeldBy(th')
    BY DEF InHands, HeldBy
  <2>2. HeldBy(th') = HeldBy(th)
    BY <1>3 DEF HeldBy
  <2> QED BY <1>3, <2>1, <2>2 DEF Freers, FreeSteps
<1>6. Pointers' = Pointers
  BY <1>3, <1>5 DEF Pointers, Freers
<1>7. HeldOnce'
  BY <1>3, <1>5 DEF HandsOK, HeldOnce, Freers
<1>8. Hands(held)'
  BY <1>3, <1>6 DEF HandsOK, Hands
<1>9. Inside' = {t}
  <2>1. \A u \in Threads : th'[u].at # "caller" <=> u = t
    BY <1>2 DEF Inside
  <2> QED BY <2>1 DEF Inside
<1> QED BY <1>4, <1>6, <1>7, <1>8, <1>9 DEF HandsOK

(* A call of t that no other one overlaps, begun with the heap h.          *)
During(held, t, h) ==
  HandsOK(held) /\ Inside = {t} /\ alone = {h} /\ InOrder(h, held)

LEMMA GoesOnFrom ==
  ASSUME NEW held, HandsOK(held), NEW t \in Threads, Inside \subseteq {t},
         NEW f, Frame(f), Becomes(t, f), f.got = th[t].got, f.pointer = th[t].pointer,
         f.at # "caller", f.at \in FreeSteps <=> th[t].at \in FreeSteps,
         NEW k, alone' = {k}, InOrder(k, held), (Allocating(t, k) \/ Releasing(t, k))'
  PROVE  SharedInvariant'
<1>1. HandsOK(held)' /\ Inside' = {t}
  BY GoesOn
<1>2. \E u \in Threads, g \in alone' :
         /\ Inside' = {u} /\ alone' = {g} /\ InOrder(g, held)
         /\ (Allocating(u, g) \/ Releasing(u, g))'
  BY <1>1
<1>3. Inside' # {}
  BY <1>1
<1> QED BY <1>1, <1>2, <1>3 DEF SharedInvariant, HandsOK

LEMMA CallKeeps ==
  ASSUME NEW held, NEW t \in Threads, NEW h, During(held, t, h), NEW f, Frame(f), Becomes(t, f),
         f.got = th[t].got, f.pointer = th[t].pointer,
         f.at # "caller", f.at \in FreeSteps <=> th[t].at \in FreeSteps,
         alone' = alone, (Allocating(t, h) \/ Releasing(t, h))'
  PROVE  SharedInvariant'
<1>1. alone' = {h} /\ InOrder(h, held) /\ HandsOK(held) /\ Inside \subseteq {t}
  BY DEF During
<1> QED BY <1>1, GoesOnFrom

(* A step that changes nothing but the rest of the kernel.                 *)
LEMMA NothingKeeps ==
  ASSUME SharedInvariant, UNCHANGED <<heap, th, alone>>
  PROVE  SharedInvariant'
<1>1. /\ Inside' = Inside /\ Pointers' = Pointers /\ (ThreadsOK' <=> ThreadsOK)
      /\ (HeldOnce' <=> HeldOnce) /\ \A held : Hands(held)' <=> Hands(held)
  BY DEF Inside, Pointers, InHands, Freers, ThreadsOK, HeldOnce, Hands
<1>2. \A t, h : (Allocating(t, h) <=> Allocating(t, h)') /\ (Releasing(t, h) <=> Releasing(t, h)')
  BY DEF Allocating, Seeks, Takes, Releasing, IsAt, Request, BlockSize, Rest, GrowsAtEnd
<1> QED BY <1>1, <1>2 DEF SharedInvariant

(* t goes on to the next step of its call, and only that.                  *)
Moved(t, at) == [th[t] EXCEPT !.at = at]

LEMMA GoIs ==
  ASSUME ThreadsOK, NEW t \in Threads, NEW at, Go(t, at)
  PROVE  /\ Becomes(t, Moved(t, at)) /\ Frame(Moved(t, at)) /\ th'[t] = Moved(t, at)
         /\ Moved(t, at) = [at |-> at, got |-> th[t].got, size |-> th[t].size, i |-> th[t].i,
                            hole |-> th[t].hole, hole_size |-> th[t].hole_size,
                            pointer |-> th[t].pointer, freeing |-> th[t].freeing]
<1>1. Frame(th[t]) /\ th = [u \in Threads |-> th[u]]
  BY FramesAre
<1>2. Moved(t, at) = [at |-> at, got |-> th[t].got, size |-> th[t].size, i |-> th[t].i,
                      hole |-> th[t].hole, hole_size |-> th[t].hole_size,
                      pointer |-> th[t].pointer, freeing |-> th[t].freeing]
  BY <1>1 DEF Frame, Moved
<1>3. Becomes(t, Moved(t, at))
  BY <1>1 DEF Go, Moved, Becomes
<1>4. Frame(Moved(t, at))
  BY <1>1, <1>2 DEF Frame
<1> QED BY <1>2, <1>3, <1>4 DEF Becomes

-----------------------------------------------------------------------------
(* The steps of alloc                                                      *)

LEMMA SearchKeeps ==
  ASSUME SharedInvariant, Modest, NEW held, NEW t \in Threads, NEW h, During(held, t, h),
         Allocating(t, h), Search(t)
  PROVE  SharedInvariant'
<1> DEFINE r == Request(t)
           need == Need(r)
           i == th[t].i
<1>1. /\ th[t].at = "search" /\ heap' = heap /\ alone' = alone /\ ThreadsOK
  BY DEF Search, At, Keeps, During, HandsOK
<1>2. /\ heap = h /\ th[t].size \in Sizes /\ i \in 1..(Len(h.index) + 1)
      /\ \A j \in 1..(i - 1) : ~Fits(h, h.index[j], need, FALSE)
      /\ FindHole(h, need, FALSE) = 0 => GrowsAtEnd
  BY <1>1 DEF Allocating, Seeks, Takes
<1>3. h.index \in Seq(Nat) /\ Len(h.index) \in Nat
  BY DEF During, InOrder, HeapOK, Indexed
<1>4. /\ i = Len(h.index) + 1 => FindHole(h, need, FALSE) = 0
      /\ i # Len(h.index) + 1 /\ Fits(h, h.index[i], need, FALSE) =>
           FindHole(h, need, FALSE) = i
  <2> HIDE DEF i, need
  <2> QED BY <1>2, <1>3, FirstFit
<1>5. i > Len(h.index) <=> i = Len(h.index) + 1
  <2> DEFINE n == Len(h.index)
  <2>1. n \in Nat /\ i \in 1..(n + 1)
    BY <1>2, <1>3
  <2> HIDE DEF n, i
  <2>2. i > n <=> i = n + 1
    BY <2>1
  <2> QED BY <2>2 DEF n
<1>6. th[t].at \notin FreeSteps /\ GrowsAtEnd' = GrowsAtEnd
  BY <1>1 DEF FreeSteps, GrowsAtEnd
<1>7. CASE i > Len(h.index)
  <2>1. Go(t, "grow")
    BY <1>2, <1>7 DEF Search
  <2>2. FindHole(h, need, FALSE) = 0
    BY <1>4, <1>5, <1>7
  <2>3. Request(t)' = r /\ th'[t].at = "grow" /\ th'[t].size = th[t].size
    BY <1>1, <2>1, GoIs DEF Request
  <2>4. Allocating(t, h)'
    BY <1>1, <1>2, <1>6, <2>2, <2>3 DEF Allocating, Seeks
  <2> QED BY <1>1, <1>6, <2>1, <2>4, GoIs, CallKeeps DEF FreeSteps
<1>8. CASE ~(i > Len(h.index)) /\ Fits(h, h.index[i], need, FALSE)
  <2>1. Go(t, "lookup")
    BY <1>2, <1>8 DEF Search
  <2>2. FindHole(h, need, FALSE) = i /\ i # 0
    <3>1. i # Len(h.index) + 1 /\ Fits(h, h.index[i], need, FALSE)
      BY <1>5, <1>8
    <3>2. i # 0
      BY <1>2
    <3> QED BY <1>4, <3>1, <3>2
  <2>3. Request(t)' = r /\ th'[t].at = "lookup" /\ th'[t].size = th[t].size /\ th'[t].i = i
    BY <1>1, <2>1, GoIs DEF Request
  <2>4. Allocating(t, h)'
    BY <1>1, <1>2, <1>6, <2>2, <2>3 DEF Allocating, Seeks
  <2> QED BY <1>1, <1>6, <2>1, <2>4, GoIs, CallKeeps DEF FreeSteps
<1>9. CASE ~(i > Len(h.index)) /\ ~Fits(h, h.index[i], need, FALSE)
  <2> DEFINE f == [th[t] EXCEPT !.i = i + 1]
  <2>1. th' = [th EXCEPT ![t].i = i + 1]
    BY <1>2, <1>9 DEF Search
  <2>2. Frame(th[t]) /\ th = [u \in Threads |-> th[u]]
    BY <1>1, FramesAre
  <2>3. f = [at |-> th[t].at, got |-> th[t].got, size |-> th[t].size, i |-> i + 1,
             hole |-> th[t].hole, hole_size |-> th[t].hole_size,
             pointer |-> th[t].pointer, freeing |-> th[t].freeing]
    BY <2>2 DEF Frame
  <2>4. Becomes(t, f)
    BY <2>1, <2>2 DEF Becomes
  <2> HIDE DEF f
  <2>5. Frame(f) /\ th'[t] = f
    BY <2>2, <2>3, <2>4 DEF Frame, Becomes
  <2>6. /\ i + 1 \in 1..(Len(h.index) + 1)
        /\ \A j \in 1..((i + 1) - 1) : ~Fits(h, h.index[j], need, FALSE)
    <3> DEFINE n == Len(h.index)
               Unfit(j) == ~Fits(h, h.index[j], need, FALSE)
    <3>1. /\ n \in Nat /\ i \in 1..(n + 1) /\ ~(i > n) /\ Unfit(i)
          /\ \A j \in 1..(i - 1) : Unfit(j)
      BY <1>2, <1>3, <1>9
    <3> HIDE DEF n, i, Unfit
    <3>2. i + 1 \in 1..(n + 1) /\ \A j \in 1..((i + 1) - 1) : Unfit(j)
      BY <3>1
    <3> QED BY <3>2 DEF n, Unfit
  <2>7. Request(t)' = r /\ th'[t].at = "search" /\ th'[t].size = th[t].size /\ th'[t].i = i + 1
    BY <1>1, <2>3, <2>5 DEF Request
  <2>8. Allocating(t, h)'
    <3> HIDE DEF i, r
    <3> QED BY <1>1, <1>2, <1>6, <2>6, <2>7 DEF Allocating, Seeks
  <2> QED BY <1>1, <1>6, <2>3, <2>4, <2>5, <2>8, CallKeeps
<1> QED BY <1>7, <1>8, <1>9

(* Every step behind the search leaves the thread's search alone.          *)
LEMMA TakesNext ==
  ASSUME SharedInvariant, NEW held, NEW t \in Threads, NEW h, During(held, t, h),
         th[t].size \in Sizes, th[t].at \notin FreeSteps,
         PlaceFor(h, Request(t)) # 0, th[t].i = PlaceFor(h, Request(t)),
         th[t].hole = h.index[th[t].i], th[t].hole_size = SizeOf(h, th[t].hole),
         NEW at, Go(t, at), at \notin FreeSteps, at # "caller", alone' = alone,
         \/ at = "header" /\ heap' = RemoveHole(h, th[t].hole)
         \/ at = "footer" /\ heap' = Headed(h, th[t].hole, BlockSize(t))
         \/ at = "rest_header" /\ Rest(t) # 0 /\ heap' = Blocked(h, th[t].hole, BlockSize(t))
         \/ at = "rest_footer" /\ Rest(t) # 0
            /\ heap' = RestHeaded(h, th[t].hole, BlockSize(t), Rest(t))
         \/ at = "insert" /\ Rest(t) # 0
            /\ heap' = RestFooted(h, th[t].hole, BlockSize(t), Rest(t))
         \/ at = "return" /\ heap' = Allocated(h, th[t].hole, BlockSize(t), Rest(t))
  PROVE  SharedInvariant'
<1>1. ThreadsOK
  BY DEF During, HandsOK
<1>2. /\ th'[t].at = at /\ th'[t].size = th[t].size /\ th'[t].i = th[t].i
      /\ th'[t].hole = th[t].hole /\ th'[t].hole_size = th[t].hole_size
      /\ Becomes(t, Moved(t, at)) /\ Frame(Moved(t, at)) /\ Moved(t, at).at = at
      /\ Moved(t, at).got = th[t].got /\ Moved(t, at).pointer = th[t].pointer
  BY <1>1, GoIs
<1>3. Request(t)' = Request(t) /\ BlockSize(t)' = BlockSize(t) /\ Rest(t)' = Rest(t)
  BY <1>2 DEF Request, BlockSize, Rest
<1>4. Takes(t, h)'
  BY <1>2, <1>3 DEF Takes, PlaceFor
<1>5. Allocating(t, h)'
  BY <1>2, <1>4 DEF Allocating
<1> QED BY <1>2, <1>5, CallKeeps

(* What a thread knows behind the search.                                  *)
Chosen(t, h) ==
  /\ th[t].size \in Sizes
  /\ PlaceFor(h, Request(t)) # 0 /\ th[t].i = PlaceFor(h, Request(t))
  /\ th[t].hole = h.index[th[t].i] /\ th[t].hole_size = SizeOf(h, th[t].hole)

LEMMA LookupKeeps ==
  ASSUME SharedInvariant, Modest, NEW held, NEW t \in Threads, NEW h, During(held, t, h),
         Allocating(t, h), Lookup(t)
  PROVE  SharedInvariant'
<1> DEFINE r == Request(t)
           i == th[t].i
           hole == h.index[i]
           f == [th[t] EXCEPT !.at = "remove", !.hole = hole, !.hole_size = SizeOf(h, hole)]
<1>1. th[t].at = "lookup" /\ alone' = alone /\ ThreadsOK
  BY DEF Lookup, At, Keeps, During, HandsOK
<1>2. /\ heap = h /\ th[t].size \in Sizes /\ PlaceFor(h, r) # 0 /\ i = PlaceFor(h, r)
  BY <1>1 DEF Allocating, Seeks, Takes, PlaceFor
<1>3. i \in 1..Len(h.index) /\ h.index \in Seq(Nat)
  <2>1. InOrder(h, held) /\ r.size \in Sizes
    BY <1>2 DEF During, Request
  <2> QED BY <1>2, <2>1, FoundIs
<1>4. ~(i > Len(h.index))
  <2>1. Len(h.index) \in Nat
    BY <1>3
  <2>2. \A n \in Nat : i \in 1..n => ~(i > n)
    OBVIOUS
  <2> QED BY <1>3, <2>1, <2>2
<1>5. /\ th' = [th EXCEPT ![t].at = "remove", ![t].hole = hole,
                          ![t].hole_size = SizeOf(heap, hole)]
      /\ heap' = heap
  BY <1>2, <1>4 DEF Lookup
<1>6. Frame(th[t]) /\ th = [u \in Threads |-> th[u]]
  BY <1>1, FramesAre
<1> HIDE DEF hole
<1>7. f = [at |-> "remove", got |-> th[t].got, size |-> th[t].size, i |-> th[t].i,
           hole |-> hole, hole_size |-> SizeOf(h, hole),
           pointer |-> th[t].pointer, freeing |-> th[t].freeing]
  <2> DEFINE g == th[t]
             n == SizeOf(h, hole)
  <2>1. g = [at |-> g.at, got |-> g.got, size |-> g.size, i |-> g.i, hole |-> g.hole,
             hole_size |-> g.hole_size, pointer |-> g.pointer, freeing |-> g.freeing]
    BY <1>6 DEF Frame
  <2> HIDE DEF g, n
  <2>2. [g EXCEPT !.at = "remove", !.hole = hole, !.hole_size = n]
          = [at |-> "remove", got |-> g.got, size |-> g.size, i |-> g.i, hole |-> hole,
             hole_size |-> n, pointer |-> g.pointer, freeing |-> g.freeing]
    <3> DEFINE g1 == [g EXCEPT !.at = "remove"]
               g2 == [g1 EXCEPT !.hole = hole]
    <3>1. g1 = [at |-> "remove", got |-> g.got, size |-> g.size, i |-> g.i, hole |-> g.hole,
                hole_size |-> g.hole_size, pointer |-> g.pointer, freeing |-> g.freeing]
      BY <2>1
    <3> HIDE DEF g1
    <3>2. g2 = [at |-> "remove", got |-> g.got, size |-> g.size, i |-> g.i, hole |-> hole,
                hole_size |-> g.hole_size, pointer |-> g.pointer, freeing |-> g.freeing]
      BY <3>1
    <3> HIDE DEF g2
    <3>3. [g EXCEPT !.at = "remove", !.hole = hole, !.hole_size = n] = [g2 EXCEPT !.hole_size = n]
      BY DEF g1, g2
    <3>4. [g2 EXCEPT !.hole_size = n]
            = [at |-> "remove", got |-> g.got, size |-> g.size, i |-> g.i, hole |-> hole,
               hole_size |-> n, pointer |-> g.pointer, freeing |-> g.freeing]
      BY <3>2
    <3> QED BY <3>3, <3>4
  <2> QED BY <2>2 DEF g, n
<1>8. Becomes(t, f)
  BY <1>2, <1>5, <1>6 DEF Becomes
<1> HIDE DEF f
<1>9. Frame(f) /\ th'[t] = f
  BY <1>6, <1>7, <1>8 DEF Frame, Becomes
<1>10. Takes(t, h)'
  <2>1. Request(t)' = r
    BY <1>7, <1>9 DEF Request
  <2>2. /\ th'[t].at = "remove" /\ th'[t].i = i /\ th'[t].hole = hole
        /\ th'[t].hole_size = SizeOf(h, hole)
    BY <1>7, <1>9
  <2>3. heap' = h /\ hole = h.index[i]
    BY <1>2, <1>5 DEF hole
  <2> HIDE DEF i, r
  <2> QED BY <1>2, <2>1, <2>2, <2>3 DEF Takes, PlaceFor
<1>11. Allocating(t, h)'
  BY <1>2, <1>7, <1>9, <1>10 DEF Allocating
<1> QED BY <1>1, <1>7, <1>8, <1>9, <1>11, CallKeeps DEF FreeSteps

LEMMA RemoveKeeps ==
  ASSUME SharedInvariant, Modest, NEW held, NEW t \in Threads, NEW h, During(held, t, h),
         Allocating(t, h), RemoveEntry(t)
  PROVE  SharedInvariant'
<1>1. th[t].at = "remove" /\ alone' = alone
  BY DEF RemoveEntry, At, Keeps
<1>2. Chosen(t, h) /\ heap = h
  BY <1>1 DEF Allocating, Seeks, Takes, PlaceFor, Chosen
<1>3. th[t].i \in 1..Len(h.index) /\ h.index \in Seq(Nat) /\ Distinct(h.index)
  <2>1. InOrder(h, held) /\ Request(t).size \in Sizes /\ PlaceFor(h, Request(t)) # 0
    BY <1>2 DEF During, Request, Chosen
  <2> QED BY <1>2, <2>1, FoundIs DEF Chosen
<1>4. ~(th[t].i > Len(h.index))
  <2>1. Len(h.index) \in Nat
    BY <1>3
  <2>2. \A n \in Nat : th[t].i \in 1..n => ~(th[t].i > n)
    OBVIOUS
  <2> QED BY <1>3, <2>1, <2>2
<1>5. heap' = [h EXCEPT !.index = RemoveAt(@, th[t].i)] /\ Go(t, "header")
  BY <1>2, <1>4 DEF RemoveEntry
<1>6. heap' = RemoveHole(h, th[t].hole)
  <2>1. RemoveAt(h.index, th[t].i) = RemoveFirst(h.index, th[t].hole)
    BY <1>2, <1>3, RemovesAt DEF Chosen
  <2> QED BY <1>5, <2>1 DEF RemoveHole
<1> QED BY <1>1, <1>2, <1>5, <1>6, TakesNext DEF FreeSteps, Chosen

(* What the steps have made of h is what Place makes of it: one more block *)
(* in order.                                                               *)
LEMMA PlacedIs ==
  ASSUME Modest, NEW held, NEW t \in Threads, NEW h, InOrder(h, held), Chosen(t, h)
  PROVE  /\ Place(h, th[t].hole, Request(t)).heap
              = Allocated(h, th[t].hole, BlockSize(t), Rest(t))
         /\ Place(h, th[t].hole, Request(t)).pointer = Pointer(t)
         /\ th[t].hole \in Nat /\ BlockSize(t) \in Nat
         /\ Pointer(t) \in Nat /\ Pointer(t) \notin DOMAIN held
         /\ InOrder(Allocated(h, th[t].hole, BlockSize(t), Rest(t)),
                    With(held, Pointer(t), th[t].size))
<1> DEFINE r == Request(t)
           a == th[t].hole
           size == SizeOf(h, a)
           n == th[t].size
           need == Need(r)
           b == BlockSize(t)
           g == Allocated(h, a, b, Rest(t))
<1>1. a = HoleFor(h, r) /\ r.size = n /\ n \in Sizes /\ ~IsAligned(r) /\ th[t].hole_size = size
      /\ PlaceFor(h, r) # 0
  BY DEF Chosen, HoleFor, Request, IsAligned
<1>2. /\ a \in Nat /\ a \in BlocksIn(h) /\ IsHole(h, a)
      /\ need \in Nat /\ need = n + Overhead /\ n \in Nat
      /\ size \in Nat /\ size < WordModulus /\ need <= size
      /\ h.end \in Nat /\ a + size <= h.end
  BY <1>1, FoundIs
<1>3. HeapOK(h, BlocksIn(h), held)
  BY DEF InOrder
<1>4. b = (IF TooShort(Wrap(size - need)) THEN size ELSE need) /\ Rest(t) = Wrap(size - b)
  BY <1>1 DEF BlockSize, Rest
<1> HIDE DEF size, need, b, a, n, r
<1>5. /\ Place(h, a, r).heap = g /\ Place(h, a, r).pointer = a + HeaderSize
  <2>1. SizeOf(h, a) = size /\ Need(r) = need
    BY DEF size, need
  <2> HIDE DEF g
  <2> QED BY <1>1, <1>2, <1>4, <2>1, AllocatedIs DEF g
<1>6. \E at, C : Allocates(h, a, held, r, Place(h, a, r), at, C)
  <2>1. HasRoom(h, a, r) /\ Need(r) = need
    BY <1>1, <1>2 DEF HasRoom, size, need
  <2>2. h.end < WordModulus
    <3>1. h.end <= HeapMax
      BY StartIs, HeapAssumption DEF InOrder
    <3> QED BY <1>2, <3>1, HeapAssumption
  <2> QED BY <1>1, <1>2, <1>3, <2>1, <2>2, PlaceOK
<1> HIDE DEF g
<1>7. PICK at, C : Allocates(h, a, held, r, Place(h, a, r), at, C)
  BY <1>6
<1>8. at = a /\ g.end = h.end /\ HeapOK(g, C, With(held, a + 3, n))
  BY <1>1, <1>2, <1>5, <1>7 DEF Allocates
<1>9. BlocksIn(g) = C
  BY <1>2, <1>8, BlocksFound
<1>10. InOrder(g, With(held, a + 3, n))
  BY <1>8, <1>9 DEF InOrder
<1>11. a + 3 \notin DOMAIN held
  <2> SUFFICES ASSUME a + 3 \in DOMAIN held PROVE FALSE
    OBVIOUS
  <2>1. BlockOf(a + 3) = a
    BY <1>2 DEF BlockOf
  <2> QED BY <1>2, <1>3, <2>1 DEF HeapOK, Owned
<1>12. Pointer(t) = a + 3 /\ Pointer(t) \in Nat
  BY <1>2 DEF Pointer, a
<1>13. a \in Nat /\ b \in Nat
  BY <1>2, <1>4
<1> QED BY <1>5, <1>10, <1>11, <1>12, <1>13 DEF g, a, b, n, r

(* The steps that write: the block and the rest, and the index.            *)
LEMMA WritesKeep ==
  ASSUME SharedInvariant, Modest, NEW held, NEW t \in Threads, NEW h, During(held, t, h), Allocating(t, h),
         \/ BlockHeader(t) \/ BlockFooter(t) \/ RestHeader(t) \/ RestFooter(t) \/ InsertEntry(t)
  PROVE  SharedInvariant'
<1> DEFINE a == th[t].hole
           b == BlockSize(t)
           rest == Rest(t)
<1>1. th[t].at \in {"header", "footer", "rest_header", "rest_footer", "insert"} /\ alone' = alone
  BY DEF BlockHeader, BlockFooter, RestHeader, RestFooter, InsertEntry, At, Keeps
<1>2. Chosen(t, h) /\ Takes(t, h)
  BY <1>1 DEF Allocating, Seeks, Takes, PlaceFor, Chosen
<1>3. th[t].at \notin FreeSteps
  BY <1>1 DEF FreeSteps
<1>4. CASE BlockHeader(t)
  <2>1. heap = RemoveHole(h, a)
    BY <1>2, <1>4 DEF Takes, BlockHeader, At
  <2>2. heap' = Headed(h, a, b) /\ Go(t, "footer")
    BY <1>4, <2>1 DEF BlockHeader, Headed
  <2> QED BY <1>1, <1>2, <1>3, <2>2, TakesNext DEF FreeSteps, Chosen
<1>5. CASE BlockFooter(t)
  <2>1. heap = Headed(h, a, b)
    BY <1>2, <1>5 DEF Takes, BlockFooter, At
  <2>2. heap' = Blocked(h, a, b) /\ Go(t, IF rest = 0 THEN "return" ELSE "rest_header")
    <3>1. heap' = PutFooter(heap, RestHole(t) - FooterSize, a)
      BY <1>5 DEF BlockFooter
    <3>2. Go(t, IF rest = 0 THEN "return" ELSE "rest_header")
      BY <1>5 DEF BlockFooter
    <3>3. RestHole(t) = a + b /\ a \in Nat /\ b \in Nat
      BY <1>2, PlacedIs DEF RestHole, During
    <3> HIDE DEF a, b, rest
    <3>4. RestHole(t) - FooterSize = a + b - FooterSize
      BY <3>3
    <3>5. heap' = PutFooter(Headed(h, a, b), a + b - FooterSize, a)
      BY <2>1, <3>1, <3>4
    <3> QED BY <3>2, <3>5 DEF Blocked
  <2>3. CASE rest = 0
    <3>1. heap' = Allocated(h, a, b, rest) /\ Go(t, "return")
      BY <2>2, <2>3 DEF Allocated
    <3> QED BY <1>1, <1>2, <1>3, <3>1, TakesNext DEF FreeSteps, Chosen
  <2>4. CASE rest # 0
    <3>1. heap' = Blocked(h, a, b) /\ Go(t, "rest_header")
      BY <2>2, <2>4
    <3> QED BY <1>1, <1>2, <1>3, <2>4, <3>1, TakesNext DEF FreeSteps, Chosen
  <2> QED BY <2>3, <2>4
<1>6. CASE RestHeader(t)
  <2>1. rest # 0 /\ heap = Blocked(h, a, b)
    BY <1>2, <1>6 DEF Takes, RestHeader, At
  <2>2. heap' = RestHeaded(h, a, b, rest) /\ Go(t, "rest_footer")
    BY <1>6, <2>1 DEF RestHeader, RestHeaded, RestHole
  <2> QED BY <1>1, <1>2, <1>3, <2>1, <2>2, TakesNext DEF FreeSteps, Chosen
<1>7. CASE RestFooter(t)
  <2>1. rest # 0 /\ heap = RestHeaded(h, a, b, rest)
    BY <1>2, <1>7 DEF Takes, RestFooter, At
  <2>2. heap.end = h.end
    <3>1. \A g, x, y, z : PutHeader(g, x, y, z).end = g.end /\ PutFooter(g, x, y).end = g.end
      <4> TAKE g, x, y, z
      <4>1. PutHeader(g, x, y, z).end = g.end
        BY DEF PutHeader, Clobber
      <4>2. PutFooter(g, x, y).end = g.end
        BY DEF PutFooter, Clobber
      <4> QED BY <4>1, <4>2
    <3>2. RemoveHole(h, a).end = h.end
      <4> HIDE DEF a
      <4>1. RemoveHole(h, a) = [h EXCEPT !.index = RemoveFirst(@, a)]
        BY DEF RemoveHole
      <4>2. h = [hdr |-> h.hdr, ftr |-> h.ftr, index |-> h.index, end |-> h.end]
        BY DEF During, InOrder, HeapOK, Typed
      <4> QED BY <4>1, <4>2
    <3>3. Headed(h, a, b).end = h.end
      BY <3>2 DEF Headed, PutHeader, Clobber
    <3>4. Blocked(h, a, b).end = h.end
      BY <3>1, <3>3 DEF Blocked
    <3>5. RestHeaded(h, a, b, rest).end = h.end
      BY <3>4 DEF RestHeaded, PutHeader, Clobber
    <3> QED BY <2>1, <3>5
  <2>3. heap' = RestFooted(h, a, b, rest) /\ Go(t, "insert")
    BY <1>7, <2>1, <2>2 DEF RestFooter, RestFooted, RestHole
  <2> QED BY <1>1, <1>2, <1>3, <2>1, <2>3, TakesNext DEF FreeSteps, Chosen
<1>8. CASE InsertEntry(t)
  <2>1. rest # 0 /\ heap = RestFooted(h, a, b, rest)
    BY <1>2, <1>8 DEF Takes, InsertEntry, At
  <2>2. CASE Len(heap.index) >= VM_HEAP_INDEX_SIZE
    BY <1>1, <1>8, <2>2, NothingKeeps DEF InsertEntry, Stops
  <2>3. CASE ~(Len(heap.index) >= VM_HEAP_INDEX_SIZE)
    <3>1. heap' = Allocated(h, a, b, rest) /\ Go(t, "return")
      BY <1>8, <2>1, <2>3 DEF InsertEntry, Allocated, RestHole
    <3> QED BY <1>1, <1>2, <1>3, <3>1, TakesNext DEF FreeSteps, Chosen
  <2> QED BY <2>2, <2>3
<1> QED BY <1>4, <1>5, <1>6, <1>7, <1>8

(* expand gives a heap in order, with which the call begins again.         *)
LEMMA GrowingKeeps ==
  ASSUME SharedInvariant, Modest, NEW held, NEW t \in Threads, NEW h, During(held, t, h),
         Allocating(t, h), Grow(t)
  PROVE  SharedInvariant'
<1> DEFINE r == Request(t)
           e == NewEnd(h, r)
           f == [th[t] EXCEPT !.at = "search", !.i = 1]
<1>1. th[t].at = "grow" /\ ThreadsOK /\ alone = {h} /\ InOrder(h, held)
  BY DEF Grow, At, During, HandsOK
<1>2. /\ heap = h /\ th[t].size \in Sizes /\ GrowsAtEnd /\ r.size \in Sizes
  BY <1>1 DEF Allocating, Seeks, Takes, Request
<1>3. CASE e > HeapMax
  <2>1. Stops /\ UNCHANGED alone
    BY <1>2, <1>3 DEF Grow, NewEnd, NewLength, OldLength
  <2> QED BY <2>1, NothingKeeps DEF Stops
<1>4. CASE ~(e > HeapMax)
  <2>1. /\ heap' = AddRoom([h EXCEPT !.end = e], h.end, NewLength(h, r) - OldLength(h))
        /\ th' = [th EXCEPT ![t].at = "search", ![t].i = 1]
        /\ alone' = {heap'}
    BY <1>1, <1>2, <1>4 DEF Grow, NewEnd, NewLength, OldLength
  <2>2. /\ HeapOK(h, BlocksIn(h), held) /\ HoleAtEnd(h)
        /\ h.end \in (Start + VM_HEAP_MIN_SIZE)..HeapMax /\ h.end % Page = 0
    BY <1>1, <1>2 DEF InOrder, GrowsAtEnd, HoleAtEnd
  <2>3. /\ Expands(h, r) /\ (\E C : HeapOK(Grown(h, e), C, held))
        /\ FindHole(Grown(h, e), Need(r), FALSE) # 0
    BY <1>2, <1>4, <2>2, GrowFits
  <2>4. /\ e \in (Start + VM_HEAP_MIN_SIZE)..HeapMax /\ e % Page = 0
        /\ Grown(h, e).end = e /\ e - h.end = NewLength(h, r) - OldLength(h)
    BY <2>3 DEF Expands
  <2> HIDE DEF e
  <2>5. heap' = Grown(h, e)
    BY <2>1, <2>4 DEF Grown
  <2>6. InOrder(heap', held)
    <3>1. PICK C : HeapOK(heap', C, held)
      BY <2>3, <2>5
    <3>2. heap'.end \in Nat
      <4>1. e \in Nat
        BY <2>4, StartIs, HeapAssumption
      <4> QED BY <2>4, <2>5, <4>1
    <3> QED BY <2>4, <2>5, <3>1, <3>2, BlocksFound DEF InOrder
  <2>7. Frame(th[t]) /\ th = [u \in Threads |-> th[u]]
    BY <1>1, FramesAre
  <2>8. f = [at |-> "search", got |-> th[t].got, size |-> th[t].size, i |-> 1,
             hole |-> th[t].hole, hole_size |-> th[t].hole_size,
             pointer |-> th[t].pointer, freeing |-> th[t].freeing]
    <3>1. Moved(t, "search") = [at |-> "search", got |-> th[t].got, size |-> th[t].size,
                                i |-> th[t].i, hole |-> th[t].hole, hole_size |-> th[t].hole_size,
                                pointer |-> th[t].pointer, freeing |-> th[t].freeing]
      BY <2>7 DEF Frame, Moved
    <3>2. f = [Moved(t, "search") EXCEPT !.i = 1]
      BY DEF Moved
    <3> QED BY <3>1, <3>2
  <2>9. Becomes(t, f)
    BY <2>1, <2>7 DEF Becomes
  <2> HIDE DEF f
  <2>10. Frame(f) /\ th'[t] = f
    BY <2>7, <2>8, <2>9 DEF Frame, Becomes
  <2>11. PICK k : k = heap'
    OBVIOUS
  <2>12. Allocating(t, k)'
    <3>1. Request(t)' = r /\ th'[t].at = "search" /\ th'[t].i = 1 /\ th'[t].size = th[t].size
      BY <2>8, <2>10 DEF Request
    <3>2. FindHole(k, Need(r), FALSE) # 0 /\ 1 \in 1..(Len(k.index) + 1)
      <4>1. k.index \in Seq(Nat)
        BY <2>6, <2>11 DEF InOrder, HeapOK, Indexed
      <4>2. Len(k.index) \in Nat
        BY <4>1
      <4>3. \A n \in Nat : 1 \in 1..(n + 1)
        OBVIOUS
      <4> QED BY <2>3, <2>5, <2>11, <4>2, <4>3
    <3>3. 1..(1 - 1) = {}
      OBVIOUS
    <3> HIDE DEF r
    <3> QED BY <1>2, <2>11, <3>1, <3>2, <3>3 DEF Allocating, Seeks
  <2>13. alone' = {k} /\ InOrder(k, held) /\ HandsOK(held) /\ Inside \subseteq {t}
    BY <2>1, <2>6, <2>11 DEF During
  <2> QED BY <1>1, <2>8, <2>9, <2>10, <2>12, <2>13, GoesOnFrom DEF FreeSteps
<1> QED BY <1>3, <1>4

(* A thread between calls.                                                 *)
LEMMA CallerIs ==
  ASSUME NEW got
  PROVE  [Caller EXCEPT !.got = got]
           = [at |-> "caller", got |-> got, size |-> 0, i |-> 1, hole |-> 0,
              hole_size |-> 0, pointer |-> 0, freeing |-> {}]
<1> DEFINE c == Caller
<1>1. c = [at |-> c.at, got |-> c.got, size |-> c.size, i |-> c.i, hole |-> c.hole,
           hole_size |-> c.hole_size, pointer |-> c.pointer, freeing |-> c.freeing]
  BY DEF Caller
<1>2. /\ c.at = "caller" /\ c.size = 0 /\ c.i = 1 /\ c.hole = 0 /\ c.hole_size = 0
      /\ c.pointer = 0 /\ c.freeing = {}
  BY DEF Caller
<1> HIDE DEF c
<1>3. [c EXCEPT !.got = got]
        = [at |-> c.at, got |-> got, size |-> c.size, i |-> c.i, hole |-> c.hole,
           hole_size |-> c.hole_size, pointer |-> c.pointer, freeing |-> c.freeing]
  BY <1>1
<1> QED BY <1>2, <1>3 DEF c

(* alloc returns.                                                          *)
LEMMA ReturnKeeps ==
  ASSUME SharedInvariant, Modest, NEW held, NEW t \in Threads, NEW h, During(held, t, h),
         Allocating(t, h), Return(t)
  PROVE  SharedInvariant'
<1> DEFINE p == Pointer(t)
           n == th[t].size
           b == [pointer |-> p, size |-> n]
           f == [Caller EXCEPT !.got = Append(th[t].got, b)]
           held2 == With(held, p, n)
<1>1. /\ th[t].at = "return" /\ th' = [th EXCEPT ![t] = f] /\ heap' = heap /\ alone' = alone
      /\ HandsOK(held) /\ Inside = {t} /\ alone = {h} /\ InOrder(h, held)
  BY DEF Return, At, During, vars
<1>2. /\ Chosen(t, h) /\ heap = Allocated(h, th[t].hole, BlockSize(t), Rest(t)) /\ n \in Sizes
  BY <1>1 DEF Allocating, Seeks, Takes, Chosen, PlaceFor
<1>3. p \in Nat /\ p \notin DOMAIN held /\ InOrder(heap, held2)
  BY <1>1, <1>2, PlacedIs
<1> HIDE DEF p, n
<1>4. th = [u \in Threads |-> th[u]] /\ \A u \in Threads : Frame(th[u])
  BY <1>1, FramesAre DEF HandsOK
<1>5. f = [at |-> "caller", got |-> Append(th[t].got, b), size |-> 0, i |-> 1, hole |-> 0,
           hole_size |-> 0, pointer |-> 0, freeing |-> {}]
  <2> DEFINE got == Append(th[t].got, b)
  <2> HIDE DEF got, b
  <2>1. [Caller EXCEPT !.got = got]
          = [at |-> "caller", got |-> got, size |-> 0, i |-> 1, hole |-> 0,
             hole_size |-> 0, pointer |-> 0, freeing |-> {}]
    BY CallerIs
  <2> QED BY <2>1 DEF got
<1>6. b \in [pointer : Nat, size : Sizes]
  BY <1>2, <1>3 DEF n
<1>7. /\ f.got \in Seq([pointer : Nat, size : Sizes]) /\ Len(f.got) = Len(th[t].got) + 1
      /\ f.got[Len(th[t].got) + 1] = b /\ \A i \in 1..Len(th[t].got) : f.got[i] = th[t].got[i]
      /\ Len(th[t].got) \in Nat
  <2>1. th[t].got \in Seq([pointer : Nat, size : Sizes])
    BY <1>4 DEF Frame
  <2> DEFINE s == th[t].got
             S == [pointer : Nat, size : Sizes]
  <2>2. s \in Seq(S) /\ b \in S
    BY <1>6, <2>1
  <2> HIDE DEF s, S, b
  <2>3. /\ Append(s, b) \in Seq(S) /\ Len(Append(s, b)) = Len(s) + 1
        /\ Append(s, b)[Len(s) + 1] = b /\ \A i \in 1..Len(s) : Append(s, b)[i] = s[i]
        /\ Len(s) \in Nat
    BY <2>2, AppendProperties
  <2> QED BY <1>5, <2>3 DEF s, S
<1> HIDE DEF f, b
<1>8. /\ th' = [u \in Threads |-> th'[u]] /\ th'[t] = f
      /\ \A u \in Threads : u # t => th'[u] = th[u]
  BY <1>1, <1>4
<1>9. ThreadsOK'
  <2>1. Frame(f)
    BY <1>5, <1>7 DEF Frame
  <2>2. \A u \in Threads : Frame(th'[u])
    BY <1>4, <1>8, <2>1
  <2> QED BY <1>8, <2>2 DEF ThreadsOK, Frame
<1> DEFINE m == Len(th[t].got)
<1>10. DOMAIN f.got = 1..(m + 1) /\ DOMAIN th[t].got = 1..m /\ f.got[m + 1] = b
       /\ f.got[m + 1].pointer = p /\ f.got[m + 1].size = n /\ m \in Nat
       /\ \A i \in 1..m : f.got[i] = th[t].got[i]
  <2>1. DOMAIN f.got = 1..(m + 1) /\ DOMAIN th[t].got = 1..m
    BY <1>4, <1>7 DEF Frame
  <2>2. b.pointer = p /\ b.size = n
    BY DEF b
  <2> QED BY <1>7, <2>1, <2>2
<1> HIDE DEF m
<1>11. \A i \in 1..(m + 1) : i \in 1..m \/ i = m + 1
  BY <1>10
<1>12. InHands' = InHands \cup {p} /\ Freers' = Freers /\ t \notin Freers
  <2>1. InHands = HeldBy(th) /\ InHands' = HeldBy(th')
    BY DEF InHands, HeldBy
  <2>2. \A q : q \in HeldBy(th') <=> q \in HeldBy(th) \cup {p}
    <3> TAKE q
    <3>1. ASSUME q \in HeldBy(th') PROVE q \in HeldBy(th) \cup {p}
      <4>1. PICK u \in Threads : \E i \in DOMAIN th'[u].got : q = th'[u].got[i].pointer
        BY <3>1, HeldByIs
      <4>2. PICK i \in DOMAIN th'[u].got : q = th'[u].got[i].pointer
        BY <4>1
      <4>3. CASE u = t /\ i = m + 1
        BY <1>8, <1>10, <4>2, <4>3
      <4>4. CASE ~(u = t /\ i = m + 1)
        <5>1. i \in DOMAIN th[u].got /\ q = th[u].got[i].pointer
          BY <1>8, <1>10, <1>11, <4>2, <4>4
        <5> QED BY <5>1, HeldByIs
      <4> QED BY <4>3, <4>4
    <3>2. ASSUME q \in HeldBy(th) PROVE q \in HeldBy(th')
      <4>1. PICK u \in Threads : \E i \in DOMAIN th[u].got : q = th[u].got[i].pointer
        BY <3>2, HeldByIs
      <4>2. PICK i \in DOMAIN th[u].got : q = th[u].got[i].pointer
        BY <4>1
      <4>3. i \in DOMAIN th'[u].got /\ q = th'[u].got[i].pointer
        <5>1. CASE u = t
          <6>1. i \in 1..m /\ 1..m \subseteq 1..(m + 1)
            BY <1>10, <4>2, <5>1
          <6> QED BY <1>8, <1>10, <4>2, <5>1, <6>1
        <5>2. CASE u # t
          BY <1>8, <4>2, <5>2
        <5> QED BY <5>1, <5>2
      <4> QED BY <4>3, HeldByIs
    <3>3. p \in HeldBy(th')
      <4>1. m + 1 \in DOMAIN th'[t].got /\ p = th'[t].got[m + 1].pointer
        BY <1>8, <1>10
      <4> QED BY <4>1, HeldByIs
    <3> QED BY <3>1, <3>2, <3>3
  <2>3. Freers' = Freers /\ t \notin Freers
    BY <1>1, <1>5, <1>8 DEF Freers
  <2> QED BY <2>1, <2>2, <2>3
<1>13. Pointers' = Pointers \cup {p} /\ p \notin Pointers
  <2>1. \A u \in Freers : th'[u].pointer = th[u].pointer
    BY <1>8, <1>12 DEF Freers
  <2>2. p \notin Pointers
    BY <1>1, <1>3 DEF HandsOK, Hands
  <2> QED BY <1>12, <2>1, <2>2 DEF Pointers
<1>14. HeldOnce'
  <2>1. ASSUME NEW u \in Threads, NEW v \in Threads, NEW i \in DOMAIN th'[u].got,
               NEW j \in DOMAIN th'[v].got, th'[u].got[i].pointer = th'[v].got[j].pointer
        PROVE  u = v /\ i = j
    <3>1. \A w \in Threads : \A k \in DOMAIN th'[w].got :
            \/ w = t /\ k = m + 1 /\ th'[w].got[k].pointer = p
            \/ /\ k \in DOMAIN th[w].got /\ th'[w].got[k].pointer = th[w].got[k].pointer
               /\ th'[w].got[k].pointer # p
      <4> TAKE w \in Threads
      <4> TAKE k \in DOMAIN th'[w].got
      <4>1. CASE w = t /\ k = m + 1
        BY <1>8, <1>10, <4>1
      <4>2. CASE ~(w = t /\ k = m + 1)
        <5>1. k \in DOMAIN th[w].got /\ th'[w].got[k].pointer = th[w].got[k].pointer
          BY <1>8, <1>10, <1>11, <4>2
        <5>2. th[w].got[k].pointer \in HeldBy(th)
          BY <5>1, HeldByIs
        <5>3. th[w].got[k].pointer # p
          BY <1>13, <5>2 DEF Pointers, InHands, HeldBy
        <5> QED BY <5>1, <5>3
      <4> QED BY <4>1, <4>2
    <3> QED BY <1>1, <2>1, <3>1 DEF HandsOK, HeldOnce
  <2>2. \A u \in Freers' : th'[u].pointer \notin InHands'
    <3> SUFFICES ASSUME NEW u \in Freers' PROVE th'[u].pointer \notin InHands'
      OBVIOUS
    <3>1. u \in Freers /\ u # t /\ u \in Threads
      BY <1>12 DEF Freers
    <3>2. th'[u].pointer = th[u].pointer /\ th[u].pointer \notin InHands
      BY <1>1, <1>8, <3>1 DEF HandsOK, HeldOnce
    <3>3. th[u].pointer \in Pointers
      BY <3>1 DEF Pointers
    <3> QED BY <1>12, <1>13, <3>2, <3>3
  <2> QED BY <2>1, <2>2 DEF HeldOnce
<1>15. held2 \in [Pointers' -> Sizes] /\ held2[p] = n /\ \A q \in Pointers : held2[q] = held[q]
  <2>1. held \in [Pointers -> Sizes] /\ n \in Sizes
    BY <1>1, <1>2 DEF HandsOK, n
  <2> QED BY <1>13, <2>1 DEF With
<1> HIDE DEF held2
<1>16. PICK k : k = held2
  OBVIOUS
<1>17. Hands(k)'
  <2>1. ASSUME NEW u \in Threads, NEW i \in DOMAIN th'[u].got
        PROVE  k[th'[u].got[i].pointer] = th'[u].got[i].size
    <3>1. CASE u = t /\ i = m + 1
      BY <1>8, <1>10, <1>15, <1>16, <3>1
    <3>2. CASE ~(u = t /\ i = m + 1)
      <4>1. i \in DOMAIN th[u].got /\ th'[u].got[i] = th[u].got[i]
        BY <1>8, <1>10, <1>11, <3>2
      <4>2. th[u].got[i].pointer \in Pointers
        BY <4>1, HeldByIs DEF Pointers, InHands, HeldBy
      <4>3. held[th[u].got[i].pointer] = th[u].got[i].size
        BY <1>1, <4>1 DEF HandsOK, Hands
      <4> QED BY <1>15, <1>16, <4>1, <4>2, <4>3
    <3> QED BY <3>1, <3>2
  <2>2. DOMAIN k = Pointers'
    BY <1>15, <1>16
  <2> QED BY <2>1, <2>2 DEF Hands
<1>18. Inside' = {}
  BY <1>1, <1>5, <1>8 DEF Inside
<1>19. k \in [Pointers' -> Sizes] /\ InOrder(heap', k)
  BY <1>1, <1>3, <1>15, <1>16 DEF held2
<1> QED BY <1>9, <1>14, <1>17, <1>18, <1>19 DEF SharedInvariant

(* No call is under way.                                                   *)
Between(held) == HandsOK(held) /\ Inside = {} /\ alone # {} /\ InOrder(heap, held)

(* A call of alloc begins.                                                 *)
LEMMA AllocBegins ==
  ASSUME NEW held, Between(held), NEW t \in Threads, NEW n \in Sizes, GrowsAtEnd, Kmallocs(t, n)
  PROVE  SharedInvariant'
<1> DEFINE f == [th[t] EXCEPT !.at = "search", !.size = n, !.i = 1]
           g == [at |-> "search", got |-> th[t].got, size |-> n, i |-> 1,
                 hole |-> th[t].hole, hole_size |-> th[t].hole_size,
                 pointer |-> th[t].pointer, freeing |-> th[t].freeing]
<1>1. /\ th[t].at = "caller" /\ alone' = {heap} /\ heap' = heap /\ HandsOK(held)
      /\ Inside \subseteq {t} /\ InOrder(heap, held)
      /\ th' = [th EXCEPT ![t].at = "search", ![t].size = n, ![t].i = 1]
  BY DEF Kmallocs, At, Begin, Between, vars
<1>2. Frame(th[t]) /\ th = [u \in Threads |-> th[u]]
  BY <1>1, FramesAre DEF HandsOK
<1>3. f = g
  <2> DEFINE f2 == [Moved(t, "search") EXCEPT !.size = n]
  <2>1. Moved(t, "search") = [at |-> "search", got |-> th[t].got, size |-> th[t].size,
                              i |-> th[t].i, hole |-> th[t].hole, hole_size |-> th[t].hole_size,
                              pointer |-> th[t].pointer, freeing |-> th[t].freeing]
    BY <1>2 DEF Frame, Moved
  <2>2. f2 = [at |-> "search", got |-> th[t].got, size |-> n, i |-> th[t].i, hole |-> th[t].hole,
              hole_size |-> th[t].hole_size, pointer |-> th[t].pointer, freeing |-> th[t].freeing]
    BY <2>1
  <2>3. f = [f2 EXCEPT !.i = 1]
    BY DEF Moved
  <2> HIDE DEF f2
  <2> QED BY <2>2, <2>3
<1>4. Becomes(t, f)
  BY <1>1, <1>2 DEF Becomes
<1> HIDE DEF f
<1>5. Frame(g) /\ Becomes(t, g) /\ th'[t] = g
  BY <1>2, <1>3, <1>4 DEF Frame, Becomes
<1>6. PICK k : k = heap
  OBVIOUS
<1>7. Allocating(t, k)'
  <2>1. th'[t].at = "search" /\ th'[t].i = 1 /\ th'[t].size = n
    BY <1>5
  <2>2. 1 \in 1..(Len(k.index) + 1)
    <3>1. k.index \in Seq(Nat)
      BY <1>1, <1>6 DEF InOrder, HeapOK, Indexed
    <3>2. Len(k.index) \in Nat
      BY <3>1
    <3>3. \A m \in Nat : 1 \in 1..(m + 1)
      OBVIOUS
    <3> QED BY <3>2, <3>3
  <2>3. 1..(1 - 1) = {}
    OBVIOUS
  <2>4. GrowsAtEnd'
    BY <1>1 DEF GrowsAtEnd
  <2> QED BY <1>1, <1>6, <2>1, <2>2, <2>3, <2>4 DEF Allocating, Seeks
<1>8. alone' = {k} /\ InOrder(k, held)
  BY <1>1, <1>6
<1> QED BY <1>1, <1>5, <1>7, <1>8, GoesOnFrom DEF FreeSteps

-----------------------------------------------------------------------------
(* The steps of free                                                       *)

(* The variables of free.                                                  *)
Variables(f) ==
  f = [h |-> f.h, header |-> f.header, footer |-> f.footer, do_add |-> f.do_add,
       test_header |-> f.test_header, freed |-> f.freed]

LEMMA VariableSet ==
  ASSUME NEW f, Variables(f), NEW x
  PROVE  /\ Variables([f EXCEPT !.h = x]) /\ Variables([f EXCEPT !.header = x])
         /\ Variables([f EXCEPT !.footer = x]) /\ Variables([f EXCEPT !.do_add = x])
         /\ Variables([f EXCEPT !.freed = x])
<1>1. Variables([f EXCEPT !.h = x])
  BY DEF Variables
<1>2. Variables([f EXCEPT !.header = x])
  BY DEF Variables
<1>3. Variables([f EXCEPT !.footer = x])
  BY DEF Variables
<1>4. Variables([f EXCEPT !.do_add = x])
  BY DEF Variables
<1>5. Variables([f EXCEPT !.freed = x])
  BY DEF Variables
<1> QED BY <1>1, <1>2, <1>3, <1>4, <1>5

LEMMA VariablesStay ==
  ASSUME NEW h, NEW p
  PROVE  LET f == Freeing(h, p)
             g == UnifyRight(UnifyLeft(f))
         IN /\ Variables(f) /\ Variables(UnifyLeft(f)) /\ Variables(g)
            /\ Variables(ContractHeap(g)) /\ Variables(Freed(f))
<1>1. Variables(Freeing(h, p))
  BY DEF Freeing, Variables
<1>2. ASSUME NEW f, Variables(f) PROVE Variables(UnifyLeft(f))
  <2>1. \A x, y, z : Variables([f EXCEPT !.h = x, !.header = y, !.do_add = z])
    <3> TAKE x, y, z
    <3> DEFINE f1 == [f EXCEPT !.h = x]
               f2 == [f1 EXCEPT !.header = y]
               f3 == [f2 EXCEPT !.do_add = z]
    <3>1. f3 = [f EXCEPT !.h = x, !.header = y, !.do_add = z]
      OBVIOUS
    <3>2. Variables(f1)
      BY <1>2, VariableSet
    <3> HIDE DEF f1
    <3>3. Variables(f2)
      BY <3>2, VariableSet
    <3> HIDE DEF f2
    <3>4. Variables(f3)
      BY <3>3, VariableSet
    <3> QED BY <3>1, <3>4
  <2> QED BY <1>2, <2>1 DEF UnifyLeft
<1>3. ASSUME NEW f, Variables(f) PROVE Variables(UnifyRight(f))
  <2>1. \A x, y : Variables([f EXCEPT !.h = x, !.footer = y])
    <3> TAKE x, y
    <3> DEFINE f1 == [f EXCEPT !.h = x]
               f2 == [f1 EXCEPT !.footer = y]
    <3>1. f2 = [f EXCEPT !.h = x, !.footer = y]
      OBVIOUS
    <3>2. Variables(f1)
      BY <1>3, VariableSet
    <3> HIDE DEF f1
    <3>3. Variables(f2)
      BY <3>2, VariableSet
    <3> QED BY <3>1, <3>3
  <2> QED BY <1>3, <2>1 DEF UnifyRight
<1>4. ASSUME NEW f, Variables(f) PROVE Variables(ContractHeap(f))
  <2>1. \A x, y : Variables([f EXCEPT !.h = x, !.freed = y])
    <3> TAKE x, y
    <3> DEFINE f1 == [f EXCEPT !.h = x]
               f2 == [f1 EXCEPT !.freed = y]
    <3>1. f2 = [f EXCEPT !.h = x, !.freed = y]
      OBVIOUS
    <3>2. Variables(f1)
      BY <1>4, VariableSet
    <3> HIDE DEF f1
    <3>3. Variables(f2)
      BY <3>2, VariableSet
    <3> QED BY <3>1, <3>3
  <2> QED BY <1>4, <2>1 DEF ContractHeap
<1>5. ASSUME NEW f, Variables(f) PROVE Variables(AddToIndex(f))
  BY <1>5, VariableSet DEF AddToIndex
<1> QED BY <1>1, <1>2, <1>3, <1>4, <1>5 DEF Freed

LEMMA NowIs ==
  ASSUME NEW t, NEW f, Variables(f), IsAt(t, f)
  PROVE  Now(t) = f
<1>1. th[t].freeing = [f EXCEPT !.h = << >>] /\ heap = f.h
  BY DEF IsAt
<1>2. [[f EXCEPT !.h = << >>] EXCEPT !.h = f.h] = f
  BY DEF Variables
<1> QED BY <1>1, <1>2 DEF Now

(* free goes on to the next stage.                                         *)
LEMMA FreesNext ==
  ASSUME SharedInvariant, NEW held, NEW t \in Threads, NEW h, During(held, t, h),
         th[t].at \in FreeSteps, MayFree(h, th[t].pointer), alone' = alone, NEW g, NEW at,
         Goes(t, g, at),
         LET f == Freeing(h, th[t].pointer) IN
           \/ at = "left" /\ g = f
           \/ at = "right" /\ g = UnifyLeft(f)
           \/ at = "contract" /\ g = UnifyRight(UnifyLeft(f))
           \/ at = "add" /\ g = ContractHeap(UnifyRight(UnifyLeft(f)))
           \/ at = "freed" /\ g = Freed(f)
  PROVE  SharedInvariant'
<1> DEFINE c == [th[t] EXCEPT !.freeing = [g EXCEPT !.h = << >>], !.at = at]
           d == [at |-> at, got |-> th[t].got, size |-> th[t].size, i |-> th[t].i,
                 hole |-> th[t].hole, hole_size |-> th[t].hole_size,
                 pointer |-> th[t].pointer, freeing |-> [g EXCEPT !.h = << >>]]
<1>1. Frame(th[t]) /\ th = [u \in Threads |-> th[u]]
  BY FramesAre DEF During, HandsOK
<1>2. heap' = g.h /\ th' = [th EXCEPT ![t].freeing = [g EXCEPT !.h = << >>], ![t].at = at]
  BY DEF Goes
<1>3. c = d
  <2> DEFINE x == [g EXCEPT !.h = << >>]
             c1 == [th[t] EXCEPT !.freeing = x]
  <2> HIDE DEF x
  <2>1. c1 = [at |-> th[t].at, got |-> th[t].got, size |-> th[t].size, i |-> th[t].i,
              hole |-> th[t].hole, hole_size |-> th[t].hole_size,
              pointer |-> th[t].pointer, freeing |-> x]
    BY <1>1 DEF Frame
  <2>2. c = [c1 EXCEPT !.at = at]
    BY DEF x
  <2> HIDE DEF c1
  <2>3. [c1 EXCEPT !.at = at]
          = [at |-> at, got |-> th[t].got, size |-> th[t].size, i |-> th[t].i,
             hole |-> th[t].hole, hole_size |-> th[t].hole_size,
             pointer |-> th[t].pointer, freeing |-> x]
    BY <2>1
  <2> QED BY <2>2, <2>3 DEF x
<1>4. Becomes(t, c)
  BY <1>1, <1>2 DEF Becomes
<1> HIDE DEF c
<1>5. Becomes(t, d) /\ Frame(d) /\ th'[t] = d
  BY <1>1, <1>3, <1>4 DEF Frame, Becomes
<1>6. /\ th'[t].at = at /\ th'[t].pointer = th[t].pointer
      /\ th'[t].freeing = [g EXCEPT !.h = << >>]
  BY <1>5
<1>7. IsAt(t, g)'
  BY <1>2, <1>6 DEF IsAt
<1>8. Releasing(t, h)'
  BY <1>6, <1>7 DEF Releasing
<1>9. at \in FreeSteps /\ at # "caller"
  BY DEF FreeSteps
<1> QED BY <1>5, <1>8, <1>9, CallKeeps

(* free up to its return.                                                  *)
LEMMA FreeingKeeps ==
  ASSUME SharedInvariant, NEW held, NEW t \in Threads, NEW h, During(held, t, h), Releasing(t, h),
         Mark(t) \/ UnifyToLeft(t) \/ UnifyToRight(t) \/ Contract(t) \/ AddHole(t)
  PROVE  SharedInvariant'
<1> DEFINE p == th[t].pointer
           f == Freeing(h, p)
<1>1. th[t].at \in {"free", "left", "right", "contract", "add"} /\ alone' = alone
  BY DEF Mark, UnifyToLeft, UnifyToRight, Contract, AddHole, At, Keeps
<1>2. th[t].at \in FreeSteps /\ MayFree(h, p)
  BY <1>1 DEF FreeSteps, Releasing
<1>3. /\ Variables(f) /\ Variables(UnifyLeft(f)) /\ Variables(UnifyRight(UnifyLeft(f)))
      /\ Variables(ContractHeap(UnifyRight(UnifyLeft(f))))
  BY VariablesStay
<1>4. CASE Mark(t)
  <2>1. heap = h
    BY <1>4 DEF Releasing, Mark, At
  <2>2. CASE NoBlock(heap, f)
    BY <1>1, <1>4, <2>1, <2>2, NothingKeeps DEF Mark, Stops
  <2>3. CASE ~NoBlock(heap, f)
    <3>1. Goes(t, f, "left")
      BY <1>4, <2>1, <2>3 DEF Mark
    <3> QED BY <1>1, <1>2, <3>1, FreesNext
  <2> QED BY <2>2, <2>3
<1>5. CASE UnifyToLeft(t)
  <2>1. Now(t) = f
    <3>1. IsAt(t, f)
      BY <1>5 DEF Releasing, UnifyToLeft, At
    <3> QED BY <1>3, <3>1, NowIs
  <2>2. Goes(t, UnifyLeft(f), "right")
    BY <1>5, <2>1 DEF UnifyToLeft
  <2> QED BY <1>1, <1>2, <2>2, FreesNext
<1>6. CASE UnifyToRight(t)
  <2>1. Now(t) = UnifyLeft(f)
    <3>1. IsAt(t, UnifyLeft(f))
      BY <1>6 DEF Releasing, UnifyToRight, At
    <3> QED BY <1>3, <3>1, NowIs
  <2>2. CASE BehindStops(Now(t))
    BY <1>1, <1>6, <2>2, NothingKeeps DEF UnifyToRight, Stops
  <2>3. CASE ~BehindStops(Now(t))
    <3>1. Goes(t, UnifyRight(UnifyLeft(f)), "contract")
      BY <1>6, <2>1, <2>3 DEF UnifyToRight
    <3> QED BY <1>1, <1>2, <3>1, FreesNext
  <2> QED BY <2>2, <2>3
<1>7. CASE Contract(t)
  <2>1. Now(t) = UnifyRight(UnifyLeft(f))
    <3>1. IsAt(t, UnifyRight(UnifyLeft(f)))
      BY <1>7 DEF Releasing, Contract, At
    <3> QED BY <1>3, <3>1, NowIs
  <2>2. Goes(t, ContractHeap(UnifyRight(UnifyLeft(f))), "add")
    BY <1>7, <2>1 DEF Contract
  <2> QED BY <1>1, <1>2, <2>2, FreesNext
<1>8. CASE AddHole(t)
  <2>1. Now(t) = ContractHeap(UnifyRight(UnifyLeft(f)))
    <3>1. IsAt(t, ContractHeap(UnifyRight(UnifyLeft(f))))
      BY <1>8 DEF Releasing, AddHole, At
    <3> QED BY <1>3, <3>1, NowIs
  <2>2. Goes(t, Freed(f), "freed")
    BY <1>8, <2>1 DEF AddHole, Freed
  <2> QED BY <1>1, <1>2, <2>2, FreesNext
<1> QED BY <1>4, <1>5, <1>6, <1>7, <1>8

(* A call of free begins.                                                  *)
LEMMA FreeBegins ==
  ASSUME NEW held, Between(held), NEW t \in Threads, NEW k \in DOMAIN th[t].got,
         LET p == th[t].got[k].pointer
         IN FooterNamesHole(p) /\ HasBehind(p) /\ KeepsMinimum(p),
         Kfrees(t, k)
  PROVE  SharedInvariant'
<1> DEFINE s == th[t].got
           p == s[k].pointer
           m == Len(s)
           S == [pointer : Nat, size : Sizes]
           d == [at |-> "free", got |-> RemoveAt(s, k), size |-> th[t].size, i |-> th[t].i,
                 hole |-> th[t].hole, hole_size |-> th[t].hole_size,
                 pointer |-> p, freeing |-> th[t].freeing]
<1>1. /\ th[t].at = "caller" /\ alone' = {heap} /\ heap' = heap /\ HandsOK(held)
      /\ Inside = {} /\ InOrder(heap, held)
      /\ th' = [th EXCEPT ![t].at = "free", ![t].pointer = p, ![t].got = RemoveAt(@, k)]
  BY DEF Kfrees, At, Begin, Between, vars
<1>2. th = [u \in Threads |-> th[u]] /\ \A u \in Threads : Frame(th[u])
  BY <1>1, FramesAre DEF HandsOK
<1>3. th' = [u \in Threads |-> IF u = t THEN d ELSE th[u]]
  <2> DEFINE g == th[t]
             r == RemoveAt(s, k)
             g1 == [g EXCEPT !.at = "free"]
             g2 == [g1 EXCEPT !.pointer = p]
  <2>1. g = [at |-> g.at, got |-> g.got, size |-> g.size, i |-> g.i, hole |-> g.hole,
             hole_size |-> g.hole_size, pointer |-> g.pointer, freeing |-> g.freeing]
    BY <1>2 DEF Frame
  <2>2. th' = [th EXCEPT ![t] = [g2 EXCEPT !.got = r]]
    BY <1>1
  <2> HIDE DEF p, r
  <2>3. g1 = [at |-> "free", got |-> g.got, size |-> g.size, i |-> g.i, hole |-> g.hole,
              hole_size |-> g.hole_size, pointer |-> g.pointer, freeing |-> g.freeing]
    <3> HIDE DEF g
    <3> QED BY <2>1
  <2> HIDE DEF g1
  <2>4. g2 = [at |-> "free", got |-> g.got, size |-> g.size, i |-> g.i, hole |-> g.hole,
              hole_size |-> g.hole_size, pointer |-> p, freeing |-> g.freeing]
    <3> HIDE DEF g
    <3> QED BY <2>3
  <2> HIDE DEF g2
  <2>5. [g2 EXCEPT !.got = r]
          = [at |-> "free", got |-> r, size |-> g.size, i |-> g.i, hole |-> g.hole,
             hole_size |-> g.hole_size, pointer |-> p, freeing |-> g.freeing]
    <3> HIDE DEF g
    <3> QED BY <2>4
  <2>6. th' = [th EXCEPT ![t] = d]
    BY <2>2, <2>5 DEF r
  <2> HIDE DEF d
  <2> QED BY <1>2, <2>6
<1>4. /\ th' = [u \in Threads |-> th'[u]] /\ th'[t] = d
      /\ \A u \in Threads : u # t => th'[u] = th[u]
  BY <1>3
<1>5. s \in Seq(S) /\ m \in Nat /\ DOMAIN s = 1..m /\ k \in 1..m /\ p \in Nat
  <2>1. s \in Seq(S)
    BY <1>2 DEF Frame
  <2>2. DOMAIN s = 1..m /\ m \in Nat
    BY <2>1
  <2>3. s[k] \in S
    <3>1. s \in Seq(S) /\ k \in 1..Len(s)
      BY <2>1, <2>2
    <3> HIDE DEF s, S
    <3> QED BY <3>1, ElementOfSeq
  <2> QED BY <2>1, <2>2, <2>3
<1>6. /\ RemoveAt(s, k) \in Seq(S) /\ DOMAIN RemoveAt(s, k) = 1..(m - 1)
      /\ \A i \in 1..(m - 1) : RemoveAt(s, k)[i] = IF i < k THEN s[i] ELSE s[i + 1]
  <2>1. s \in Seq(S) /\ k \in 1..Len(s)
    BY <1>5
  <2> HIDE DEF s, S
  <2>2. /\ RemoveAt(s, k) \in Seq(S) /\ Len(RemoveAt(s, k)) = m - 1
        /\ \A i \in 1..(m - 1) : RemoveAt(s, k)[i] = IF i < k THEN s[i] ELSE s[i + 1]
    BY <2>1, RemovedAt
  <2>3. DOMAIN RemoveAt(s, k) = 1..Len(RemoveAt(s, k))
    BY <2>2
  <2> QED BY <2>2, <2>3
<1>7. /\ d.at = "free" /\ d.got = RemoveAt(s, k) /\ d.pointer = p /\ Frame(d)
  <2> HIDE DEF p
  <2>1. d.got = RemoveAt(s, k) /\ d.at = "free" /\ d.pointer = p
    OBVIOUS
  <2> QED BY <1>6, <2>1 DEF Frame
<1> HIDE DEF d
<1>8. ThreadsOK'
  <2>1. \A u \in Threads : Frame(th'[u])
    BY <1>2, <1>4, <1>7
  <2> QED BY <1>4, <2>1 DEF ThreadsOK, Frame
<1>9. Freers = {} /\ Freers' = {t} /\ Inside' = {t}
  <2>1. \A u \in Threads : th[u].at = "caller"
    BY <1>1 DEF Inside
  <2>2. \A u \in Threads : u # t => th'[u].at = "caller"
    BY <1>4, <2>1
  <2>3. th'[t].at = "free"
    BY <1>4, <1>7
  <2> QED BY <2>1, <2>2, <2>3 DEF Freers, Inside
(* Where an entry of t's stood before.                                     *)
<1> DEFINE from(u, i) == IF u = t /\ ~(i < k) THEN i + 1 ELSE i
<1>10. \A u \in Threads : \A i \in DOMAIN th'[u].got :
         /\ from(u, i) \in DOMAIN th[u].got /\ th'[u].got[i] = th[u].got[from(u, i)]
         /\ ~(u = t /\ from(u, i) = k)
  <2> TAKE u \in Threads
  <2> TAKE i \in DOMAIN th'[u].got
  <2>1. CASE u # t
    BY <1>4, <2>1
  <2>2. CASE u = t
    <3>1. i \in 1..(m - 1) /\ th'[u].got[i] = IF i < k THEN s[i] ELSE s[i + 1]
      BY <1>4, <1>6, <1>7, <2>2
    <3>2. from(u, i) \in 1..m /\ from(u, i) # k
      <4> HIDE DEF s, m
      <4> QED BY <1>5, <2>2, <3>1
    <3> QED BY <1>5, <2>2, <3>1, <3>2
  <2> QED BY <2>1, <2>2
<1>11. \A u, v \in Threads : \A i \in DOMAIN th'[u].got, j \in DOMAIN th'[v].got :
         u = v /\ from(u, i) = from(v, j) => i = j
  <2> TAKE u, v \in Threads
  <2> TAKE i \in DOMAIN th'[u].got, j \in DOMAIN th'[v].got
  <2>1. CASE u = t /\ v = t
    <3>1. i \in 1..(m - 1) /\ j \in 1..(m - 1)
      BY <1>4, <1>6, <1>7, <2>1
    <3> HIDE DEF m
    <3> QED BY <1>5, <2>1, <3>1
  <2> QED BY <2>1
<1>12. \A u \in Threads : \A i \in DOMAIN th[u].got :
         \/ u = t /\ i = k
         \/ \E j \in DOMAIN th'[u].got : th'[u].got[j] = th[u].got[i]
  <2> TAKE u \in Threads
  <2> TAKE i \in DOMAIN th[u].got
  <2>1. CASE u # t
    BY <1>4, <2>1
  <2>2. CASE u = t /\ i # k
    <3> DEFINE j == IF i < k THEN i ELSE i - 1
    <3>1. i \in 1..m
      BY <1>5, <2>2
    <3>2. j \in 1..(m - 1) /\ (j < k => j = i) /\ (~(j < k) => j + 1 = i)
      <4> HIDE DEF m
      <4> QED BY <1>5, <2>2, <3>1
    <3> HIDE DEF j
    <3>3. RemoveAt(s, k)[j] = s[i]
      BY <1>6, <3>2
    <3>4. DOMAIN th'[u].got = 1..(m - 1) /\ th'[u].got[j] = th[u].got[i]
      BY <1>4, <1>6, <1>7, <2>2, <3>3
    <3> QED BY <3>2, <3>4
  <2> QED BY <2>1, <2>2
<1>13. \A i \in DOMAIN th[t].got, u \in Threads : \A j \in DOMAIN th[u].got :
         th[t].got[i].pointer = th[u].got[j].pointer => t = u /\ i = j
  BY <1>1 DEF HandsOK, HeldOnce
<1>14. p \notin InHands' /\ InHands = InHands' \cup {p}
  <2>1. InHands = HeldBy(th) /\ InHands' = HeldBy(th')
    BY DEF InHands, HeldBy
  <2>2. p \notin HeldBy(th')
    <3> SUFFICES ASSUME p \in HeldBy(th') PROVE FALSE
      OBVIOUS
    <3>1. PICK u \in Threads : \E i \in DOMAIN th'[u].got : p = th'[u].got[i].pointer
      BY HeldByIs
    <3>2. PICK i \in DOMAIN th'[u].got : p = th'[u].got[i].pointer
      BY <3>1
    <3> DEFINE j == from(u, i)
    <3>3. j \in DOMAIN th[u].got /\ th[u].got[j].pointer = th[t].got[k].pointer
          /\ ~(u = t /\ j = k)
      BY <1>10, <3>2
    <3> HIDE DEF j
    <3> QED BY <1>13, <3>3
  <2>3. p \in HeldBy(th)
    BY HeldByIs
  <2>4. ASSUME NEW q \in HeldBy(th') PROVE q \in HeldBy(th)
    <3>1. PICK u \in Threads : \E i \in DOMAIN th'[u].got : q = th'[u].got[i].pointer
      BY HeldByIs
    <3>2. PICK i \in DOMAIN th'[u].got : q = th'[u].got[i].pointer
      BY <3>1
    <3> DEFINE j == from(u, i)
    <3>3. j \in DOMAIN th[u].got /\ q = th[u].got[j].pointer
      BY <1>10, <3>2
    <3> HIDE DEF j
    <3> QED BY <3>3, HeldByIs
  <2>5. ASSUME NEW q \in HeldBy(th), q # p PROVE q \in HeldBy(th')
    <3>1. PICK u \in Threads : \E i \in DOMAIN th[u].got : q = th[u].got[i].pointer
      BY HeldByIs
    <3>2. PICK i \in DOMAIN th[u].got : q = th[u].got[i].pointer
      BY <3>1
    <3>3. PICK j \in DOMAIN th'[u].got : th'[u].got[j] = th[u].got[i]
      BY <1>12, <2>5, <3>2
    <3> QED BY <3>2, <3>3, HeldByIs
  <2> QED BY <2>1, <2>2, <2>3, <2>4, <2>5
<1> HIDE DEF from
<1>15. Pointers' = Pointers
  <2>1. th'[t].pointer = p
    BY <1>4, <1>7
  <2> QED BY <1>9, <1>14, <2>1 DEF Pointers
<1>16. HeldOnce'
  <2>1. ASSUME NEW u \in Threads, NEW v \in Threads, NEW i \in DOMAIN th'[u].got,
               NEW j \in DOMAIN th'[v].got, th'[u].got[i].pointer = th'[v].got[j].pointer
        PROVE  u = v /\ i = j
    <3>1. /\ from(u, i) \in DOMAIN th[u].got /\ th'[u].got[i] = th[u].got[from(u, i)]
          /\ from(v, j) \in DOMAIN th[v].got /\ th'[v].got[j] = th[v].got[from(v, j)]
      BY <1>10
    <3>2. u = v /\ from(u, i) = from(v, j)
      BY <1>1, <2>1, <3>1 DEF HandsOK, HeldOnce
    <3> QED BY <1>11, <3>2
  <2>2. th'[t].pointer \notin InHands'
    BY <1>4, <1>7, <1>14
  <2> QED BY <1>9, <2>1, <2>2 DEF HeldOnce
<1>17. Hands(held)'
  <2>1. ASSUME NEW u \in Threads, NEW i \in DOMAIN th'[u].got
        PROVE  held[th'[u].got[i].pointer] = th'[u].got[i].size
    <3>1. from(u, i) \in DOMAIN th[u].got /\ th'[u].got[i] = th[u].got[from(u, i)]
      BY <1>10
    <3> QED BY <1>1, <3>1 DEF HandsOK, Hands
  <2>2. DOMAIN held = Pointers'
    BY <1>1, <1>15 DEF HandsOK, Hands
  <2> QED BY <2>1, <2>2 DEF Hands
<1>18. PICK h : h = heap
  OBVIOUS
<1>19. Releasing(t, h)'
  <2>1. MayFree(h, p)
    <3>1. FooterNamesHole(p) /\ HasBehind(p) /\ KeepsMinimum(p)
      OBVIOUS
    <3> HIDE DEF p
    <3> QED BY <1>18, <3>1 DEF MayFree, FooterNamesHole, HasBehind, KeepsMinimum, Holes, Blocks
  <2>2. th'[t].at = "free" /\ th'[t].pointer = p /\ heap' = h
    BY <1>1, <1>4, <1>7, <1>18
  <2> QED BY <2>1, <2>2 DEF Releasing
<1>20. held \in [Pointers' -> Sizes]
  BY <1>1, <1>15 DEF HandsOK
<1>21. \E u \in Threads, g \in alone' :
         /\ Inside' = {u} /\ alone' = {g} /\ InOrder(g, held)
         /\ (Allocating(u, g) \/ Releasing(u, g))'
  BY <1>1, <1>9, <1>18, <1>19
<1>22. Inside' # {}
  BY <1>9
<1> QED BY <1>8, <1>16, <1>17, <1>20, <1>21, <1>22 DEF SharedInvariant

(* free returns.                                                           *)
LEMMA FreeEnds ==
  ASSUME NEW held, NEW t \in Threads, NEW h, During(held, t, h), Releasing(t, h), FreeReturns(t)
  PROVE  SharedInvariant'
<1> DEFINE p == th[t].pointer
           f == [Caller EXCEPT !.got = th[t].got]
           g == UnifyRight(UnifyLeft(Freeing(h, p)))
           x == BlockOf(p)
           held2 == Restrict(held, DOMAIN held \ {p})
<1>1. /\ th[t].at = "freed" /\ th' = [th EXCEPT ![t] = f] /\ heap' = heap /\ alone' = alone
      /\ HandsOK(held) /\ Inside = {t} /\ alone = {h} /\ InOrder(h, held)
  BY DEF FreeReturns, At, During, vars
<1>2. MayFree(h, p) /\ heap = Freed(Freeing(h, p)).h
  BY <1>1 DEF Releasing, IsAt
<1>3. th = [u \in Threads |-> th[u]] /\ \A u \in Threads : Frame(th[u])
  BY <1>1, FramesAre DEF HandsOK
<1>4. f = [at |-> "caller", got |-> th[t].got, size |-> 0, i |-> 1, hole |-> 0,
           hole_size |-> 0, pointer |-> 0, freeing |-> {}]
  BY CallerIs
<1> HIDE DEF f
<1>5. /\ th' = [u \in Threads |-> th'[u]] /\ th'[t] = f
      /\ \A u \in Threads : u # t => th'[u] = th[u]
  BY <1>1, <1>3
<1>6. f.at = "caller" /\ f.got = th[t].got /\ Frame(f)
  BY <1>3, <1>4 DEF Frame
<1>7. ThreadsOK'
  <2>1. \A u \in Threads : Frame(th'[u])
    BY <1>3, <1>5, <1>6
  <2> QED BY <1>5, <2>1 DEF ThreadsOK, Frame
<1>8. \A u \in Threads : th'[u].got = th[u].got
  BY <1>5, <1>6
<1>9. Freers = {t} /\ Freers' = {} /\ Inside' = {}
  <2>1. \A u \in Threads : u # t => th[u].at = "caller"
    BY <1>1 DEF Inside
  <2>2. \A u \in Threads : th'[u].at = "caller"
    BY <1>5, <1>6, <2>1
  <2> QED BY <1>1, <2>1, <2>2 DEF Freers, Inside
<1>10. InHands' = InHands /\ p \notin InHands /\ Pointers = InHands \cup {p} /\ Pointers' = InHands
  <2>1. InHands = HeldBy(th) /\ InHands' = HeldBy(th')
    BY DEF InHands, HeldBy
  <2>2. HeldBy(th') = HeldBy(th)
    BY <1>8 DEF HeldBy
  <2>3. p \notin InHands
    BY <1>1, <1>9 DEF HandsOK, HeldOnce
  <2> QED BY <1>9, <2>1, <2>2, <2>3 DEF Pointers
<1>11. HeldOnce'
  BY <1>1, <1>8, <1>9 DEF HandsOK, HeldOnce
<1>12. held \in [Pointers -> Sizes] /\ p \in DOMAIN held /\ DOMAIN held = Pointers
  BY <1>1, <1>10 DEF HandsOK
<1>13. held2 \in [Pointers' -> Sizes] /\ \A q \in InHands : held2[q] = held[q]
  BY <1>10, <1>12 DEF Restrict
<1>14. PICK k : k = held2
  OBVIOUS
<1>15. Hands(k)'
  <2>1. ASSUME NEW u \in Threads, NEW i \in DOMAIN th'[u].got
        PROVE  k[th'[u].got[i].pointer] = th'[u].got[i].size
    <3>1. i \in DOMAIN th[u].got /\ th'[u].got[i] = th[u].got[i]
      BY <1>8
    <3>2. th[u].got[i].pointer \in InHands
      BY <3>1, HeldByIs DEF InHands, HeldBy
    <3>3. held[th[u].got[i].pointer] = th[u].got[i].size
      BY <1>1, <3>1 DEF HandsOK, Hands
    <3> QED BY <1>13, <1>14, <3>1, <3>2, <3>3
  <2>2. DOMAIN k = Pointers'
    BY <1>13, <1>14
  <2> QED BY <2>1, <2>2 DEF Hands
<1>16. /\ HeapOK(h, BlocksIn(h), held) /\ h.end \in (Start + VM_HEAP_MIN_SIZE)..HeapMax
       /\ h.end % Page = 0
  BY <1>1 DEF InOrder
<1>17. /\ Start \in Nat /\ Start % Page = 0 /\ VM_HEAP_MIN_SIZE \in Nat
       /\ VM_HEAP_MIN_SIZE % Page = 0 /\ HeapMax \in Nat /\ WordModulus \in Nat
       /\ HeapMax < WordModulus
  BY StartIs, HeapAssumption
<1>18. h.end \in Nat /\ h.end < WordModulus /\ h.end >= Start + VM_HEAP_MIN_SIZE /\ h.end <= HeapMax
  BY <1>16, <1>17
<1>19. Inner(h, BlocksIn(h), held, x, x + SizeOf(h, x))
  <2>1. Freeing(h, p).test_header < h.end
    BY <1>2 DEF MayFree
  <2> HIDE DEF x, p
  <2>2. x = BlockOf(p)
    BY DEF x
  <2> QED BY <1>12, <1>16, <1>18, <2>1, <2>2, BehindIs
<1>20. \E C : Frees(h, Freed(Freeing(h, p)), C, held2)
  <2>1. \A a \in BlocksIn(h) : IsHole(h, a) /\ a + SizeOf(h, a) = x => h.ftr[x - FooterSize] = a
    BY <1>2 DEF MayFree
  <2>2. LeavesMinimum(h, g.header, g.footer + FooterSize)
    BY <1>2 DEF MayFree, LeavesMinimum
  <2> HIDE DEF x, p, g
  <2>3. x = BlockOf(p) /\ UnifyRight(UnifyLeft(Freeing(h, p))) = g
    BY DEF x, g
  <2> QED BY <1>12, <1>18, <1>19, <2>1, <2>2, <2>3, FreeOK
<1>21. PICK C : Frees(h, Freed(Freeing(h, p)), C, held2)
  BY <1>20
<1>22. HeapOK(heap', C, k) /\ (heap'.end = h.end \/ heap'.end = Start + VM_HEAP_MIN_SIZE)
  BY <1>1, <1>2, <1>14, <1>21 DEF Frees
<1>23. /\ heap'.end \in (Start + VM_HEAP_MIN_SIZE)..HeapMax /\ heap'.end % Page = 0
       /\ heap'.end \in Nat
  <2>1. (Start + VM_HEAP_MIN_SIZE) % Page = 0
    BY <1>17, MultipleSum
  <2>2. CASE heap'.end = h.end
    BY <1>16, <1>18, <2>2
  <2>3. CASE heap'.end = Start + VM_HEAP_MIN_SIZE
    BY <1>17, <1>18, <2>1, <2>3
  <2> QED BY <1>22, <2>2, <2>3
<1>24. InOrder(heap', k)
  BY <1>22, <1>23, BlocksFound DEF InOrder
<1>25. k \in [Pointers' -> Sizes]
  BY <1>13, <1>14
<1> QED BY <1>7, <1>9, <1>11, <1>15, <1>24, <1>25 DEF SharedInvariant

-----------------------------------------------------------------------------
(* The invariant                                                           *)

(* What the invariant says while no two calls have overlapped.             *)
LEMMA InvariantIs ==
  ASSUME SharedInvariant, alone # {}
  PROVE  \E held :
           \/ Between(held)
           \/ \E t \in Threads : \E h : During(held, t, h) /\ (Allocating(t, h) \/ Releasing(t, h))
<1>1. ThreadsOK /\ HeldOnce
  BY DEF SharedInvariant
<1>2. PICK held \in [Pointers -> Sizes] :
        /\ Hands(held)
        /\ IF Inside = {} THEN InOrder(heap, held)
           ELSE \E t \in Threads, h \in alone :
                  /\ Inside = {t} /\ alone = {h} /\ InOrder(h, held)
                  /\ Allocating(t, h) \/ Releasing(t, h)
  BY DEF SharedInvariant
<1>3. HandsOK(held)
  BY <1>1, <1>2 DEF HandsOK
<1>4. CASE Inside = {}
  BY <1>2, <1>3, <1>4 DEF Between
<1>5. CASE Inside # {}
  BY <1>2, <1>3, <1>5 DEF During
<1> QED BY <1>4, <1>5

(* init_heap leaves a heap in order, and no thread holds any of it.        *)
LEMMA SharedInitKeeps == SharedInit => SharedInvariant
<1> SUFFICES ASSUME SharedInit PROVE SharedInvariant
  OBVIOUS
<1>1. Init /\ th = [t \in Threads |-> Caller] /\ alone = {heap}
  BY DEF SharedInit
<1>2. HeapInvariant /\ live = << >>
  BY <1>1, InitKeeps DEF Init
<1>3. InOrder(heap, << >>)
  BY <1>2 DEF HeapInvariant, EndInv, EndOnPage, InOrder, Blocks
<1>4. \A t \in Threads : th[t] = Caller
  BY <1>1
<1>5. /\ Caller = [at |-> "caller", got |-> << >>, size |-> 0, i |-> 1, hole |-> 0,
                   hole_size |-> 0, pointer |-> 0, freeing |-> {}]
      /\ Caller.at = "caller" /\ Caller.got = << >>
  BY DEF Caller
<1>6. ThreadsOK
  <2>1. Frame(Caller)
    BY <1>5 DEF Frame
  <2>2. th = [t \in Threads |-> th[t]]
    BY <1>1
  <2> QED BY <1>4, <2>1, <2>2, FramesAre
<1>7. Inside = {} /\ Freers = {} /\ \A t \in Threads : DOMAIN th[t].got = {}
  BY <1>4, <1>5 DEF Inside, Freers
<1>8. Pointers = {}
  <2>1. \A q : q \notin HeldBy(th)
    BY <1>7, HeldByIs
  <2>2. InHands = {}
    BY <2>1 DEF InHands, HeldBy
  <2> QED BY <1>7, <2>2 DEF Pointers
<1>9. HeldOnce /\ Hands(<< >>) /\ << >> \in [Pointers -> Sizes]
  BY <1>7, <1>8 DEF HeldOnce, Hands
<1> QED BY <1>3, <1>6, <1>7, <1>9 DEF SharedInvariant

(* A call that begins within another ends what the invariant is about.     *)
LEMMA OverlapKeeps ==
  ASSUME NEW t \in Threads, Inside # {},
         (\E n \in Sizes : Kmallocs(t, n)) \/ \E k \in DOMAIN th[t].got : Kfrees(t, k)
  PROVE  SharedInvariant'
<1>1. alone' = {}
  BY DEF Kmallocs, Kfrees, Begin
<1> QED BY <1>1 DEF SharedInvariant

(* Once two calls have overlapped the heap is no longer followed.          *)
LEMMA OverlapStays ==
  ASSUME alone = {}, CarefulNext
  PROVE  alone' = {}
BY DEF CarefulNext, Kmallocs, Kfrees, Begin, Work, Search, Grow, Lookup, RemoveEntry, BlockHeader,
       BlockFooter, RestHeader, RestFooter, InsertEntry, Return, Mark, UnifyToLeft, UnifyToRight,
       Contract, AddHole, FreeReturns, Keeps, Stops

LEMMA WorkKeeps ==
  ASSUME SharedInvariant, Modest, NEW held, NEW t \in Threads, NEW h, During(held, t, h),
         Allocating(t, h) \/ Releasing(t, h), NEW u \in Threads, Work(u)
  PROVE  SharedInvariant'
<1>1. th[u].at # "caller"
  BY DEF Work, Search, Grow, Lookup, RemoveEntry, BlockHeader, BlockFooter, RestHeader, RestFooter,
         InsertEntry, Return, Mark, UnifyToLeft, UnifyToRight, Contract, AddHole, FreeReturns, At
<1>2. u = t
  BY <1>1 DEF During, Inside
<1>3. CASE Allocating(t, h)
  <2>1. th[t].at \notin FreeSteps
    BY <1>3 DEF Allocating, Seeks, Takes, FreeSteps
  <2>2. ~(Mark(t) \/ UnifyToLeft(t) \/ UnifyToRight(t) \/ Contract(t) \/ AddHole(t) \/ FreeReturns(t))
    BY <2>1 DEF Mark, UnifyToLeft, UnifyToRight, Contract, AddHole, FreeReturns, At, FreeSteps
  <2> QED BY <1>2, <1>3, <2>2, SearchKeeps, GrowingKeeps, LookupKeeps, RemoveKeeps, WritesKeep,
             ReturnKeeps DEF Work
<1>4. CASE Releasing(t, h)
  <2>1. th[t].at \in FreeSteps
    BY <1>4 DEF Releasing, FreeSteps
  <2>2. ~(\/ Search(t) \/ Grow(t) \/ Lookup(t) \/ RemoveEntry(t) \/ BlockHeader(t) \/ BlockFooter(t)
          \/ RestHeader(t) \/ RestFooter(t) \/ InsertEntry(t) \/ Return(t))
    BY <2>1 DEF Search, Grow, Lookup, RemoveEntry, BlockHeader, BlockFooter, RestHeader, RestFooter,
                InsertEntry, Return, At, FreeSteps
  <2> QED BY <1>2, <1>4, <2>2, FreeingKeeps, FreeEnds DEF Work
<1> QED BY <1>3, <1>4

LEMMA SharedStepKeeps ==
  ASSUME Modest, SharedInvariant, [CarefulNext]_sharedVars
  PROVE  SharedInvariant'
<1>1. CASE UNCHANGED sharedVars
  <2>1. UNCHANGED <<heap, th, alone>>
    BY <1>1 DEF sharedVars, vars
  <2> QED BY <2>1, NothingKeeps
<1>2. CASE CarefulNext /\ alone = {}
  <2>1. alone' = {}
    BY <1>2, OverlapStays
  <2> QED BY <2>1 DEF SharedInvariant
<1>3. CASE CarefulNext /\ alone # {}
  <2>1. PICK held :
          \/ Between(held)
          \/ \E t \in Threads : \E h : During(held, t, h) /\ (Allocating(t, h) \/ Releasing(t, h))
    BY <1>3, InvariantIs
  <2>2. PICK u \in Threads :
          \/ /\ Inside = {} => GrowsAtEnd
             /\ \E n \in Sizes : Kmallocs(u, n)
          \/ \E k \in DOMAIN th[u].got :
               /\ Inside = {} =>
                    LET p == th[u].got[k].pointer IN
                      FooterNamesHole(p) /\ HasBehind(p) /\ KeepsMinimum(p)
               /\ Kfrees(u, k)
          \/ Work(u)
    BY <1>3 DEF CarefulNext
  <2>3. CASE Between(held)
    <3>1. Inside = {}
      BY <2>3 DEF Between
    <3>2. ~Work(u)
      <4>1. th[u].at = "caller"
        BY <3>1 DEF Inside
      <4> QED BY <4>1 DEF Work, Search, Grow, Lookup, RemoveEntry, BlockHeader, BlockFooter,
                 RestHeader, RestFooter, InsertEntry, Return, Mark, UnifyToLeft, UnifyToRight,
                 Contract, AddHole, FreeReturns, At
    <3>3. CASE GrowsAtEnd /\ \E n \in Sizes : Kmallocs(u, n)
      BY <2>3, <3>3, AllocBegins
    <3>4. ASSUME NEW k \in DOMAIN th[u].got,
                 LET p == th[u].got[k].pointer IN
                   FooterNamesHole(p) /\ HasBehind(p) /\ KeepsMinimum(p),
                 Kfrees(u, k)
          PROVE  SharedInvariant'
      BY <2>3, <3>4, FreeBegins
    <3> QED BY <2>2, <3>1, <3>2, <3>3, <3>4
  <2>4. CASE \E t \in Threads : \E h : During(held, t, h) /\ (Allocating(t, h) \/ Releasing(t, h))
    <3>0. PICK t \in Threads : \E h : During(held, t, h) /\ (Allocating(t, h) \/ Releasing(t, h))
      BY <2>4
    <3>1. PICK h : During(held, t, h) /\ (Allocating(t, h) \/ Releasing(t, h))
      BY <3>0
    <3>2. Inside # {}
      BY <3>1 DEF During
    <3>3. CASE Work(u)
      BY <3>1, <3>3, WorkKeeps
    <3>4. CASE ~Work(u)
      BY <2>2, <3>2, <3>4, OverlapKeeps
    <3> QED BY <3>3, <3>4
  <2> QED BY <2>1, <2>3, <2>4
<1> QED BY <1>1, <1>2, <1>3

(* Until two calls overlap, the heap is in order between calls and, within *)
(* one, what its steps have made of the heap it began with (alloc, free).  *)
THEOREM SharedInvariantHolds ==
  ASSUME Modest PROVE CarefulSpec => []SharedInvariant
<1>1. SharedInvariant /\ [CarefulNext]_sharedVars => SharedInvariant'
  BY SharedStepKeeps
<1> QED BY SharedInitKeeps, <1>1, PTL DEF CarefulSpec

-----------------------------------------------------------------------------
(* What the invariant says                                                 *)

(* Up to the first overlap the memory in the threads' hands is disjoint.   *)
LEMMA ApartThen ==
  ASSUME SharedInvariant, alone # {}
  PROVE  NewlyAllocated
<1>1. PICK held :
        \/ Between(held)
        \/ \E t \in Threads : \E h : During(held, t, h) /\ (Allocating(t, h) \/ Releasing(t, h))
  BY InvariantIs
<1>2. HandsOK(held) /\ \E h : InOrder(h, held)
  BY <1>1 DEF Between, During
<1>3. PICK h : InOrder(h, held)
  BY <1>2
<1>4. HeapOK(h, BlocksIn(h), held) /\ h.end \in Nat
  <2>1. Start \in Nat /\ VM_HEAP_MIN_SIZE \in Nat /\ HeapMax \in Nat
    BY StartIs, HeapAssumption
  <2> QED BY <1>3, <2>1 DEF InOrder
<1> SUFFICES ASSUME NEW t \in Threads, NEW u \in Threads,
                    NEW i \in DOMAIN th[t].got, NEW j \in DOMAIN th[u].got, <<t, i>> # <<u, j>>
             PROVE  LET a == th[t].got[i]
                        b == th[u].got[j]
                    IN a.pointer + a.size <= b.pointer \/ b.pointer + b.size <= a.pointer
  BY DEF NewlyAllocated
<1> DEFINE p == th[t].got[i].pointer
           q == th[u].got[j].pointer
<1>5. p # q
  BY <1>2 DEF HandsOK, HeldOnce
<1>6. /\ p \in DOMAIN held /\ held[p] = th[t].got[i].size
      /\ q \in DOMAIN held /\ held[q] = th[u].got[j].size
  <2>1. p \in HeldBy(th) /\ q \in HeldBy(th)
    BY HeldByIs
  <2> QED BY <1>2, <2>1 DEF HandsOK, Hands, Pointers, InHands, HeldBy
<1>7. p + held[p] <= q \/ q + held[q] <= p
  <2> HIDE DEF p, q
  <2> QED BY <1>4, <1>5, <1>6, BlocksApart
<1> QED BY <1>6, <1>7

(* alloc returns "a pointer to a newly allocated memory block" up to the   *)
(* first time two calls overlap: until then no two blocks in the hands of  *)
(* the threads share memory.                                               *)
THEOREM NewUntilOverlap ==
  ASSUME Modest PROVE CarefulSpec => [](alone # {} => NewlyAllocated)
<1>1. SharedInvariant => (alone # {} => NewlyAllocated)
  BY ApartThen
<1> QED BY SharedInvariantHolds, <1>1, PTL
=============================================================================
