----------------------------- MODULE SharedHeap ----------------------------
(***************************************************************************)
(* kmalloc and kfree called by several threads, with the timer anywhere    *)
(* inside alloc and free (heap.c, sorted_array.c): the two calls take no   *)
(* lock and leave interrupts on.                                           *)
(*                                                                         *)
(* The heap is that of module Heap.  A step of a thread is one turn of the *)
(* search, one operation on the index, one header or footer, or one stage  *)
(* of free; expand with the room it gains is one step.  Heap's request and *)
(* live belong to calls that are made one at a time and are not used.      *)
(***************************************************************************)
EXTENDS Heap

CONSTANT Threads

VARIABLES
  th,    \* the threads: where they are in a call, and its variables
  alone  \* history: the heap when the call under way began, or began again
         \* after expand, until for the first time two calls overlap

sharedVars == <<vars, th, alone>>

(* got: the memory the thread has been given and holds; freeing: the       *)
(* variables of free, without the heap.                                    *)
Caller == [at |-> "caller", got |-> << >>, size |-> 0, i |-> 1, hole |-> 0,
           hole_size |-> 0, pointer |-> 0, freeing |-> {}]

SharedInit ==
  /\ Init
  /\ th = [t \in Threads |-> Caller]
  /\ alone = {heap}

Inside == {t \in Threads : th[t].at # "caller"}
At(t, at) == Running /\ th[t].at = at
Request(t) == [size |-> th[t].size, flags |-> {}, turn |-> 1]

Go(t, at) == th' = [th EXCEPT ![t].at = at]
Stops == panic' = TRUE /\ UNCHANGED <<heap, th>>
Keeps == UNCHANGED <<framed, present, request, live, alone>>

-----------------------------------------------------------------------------
(* A call begins.  Bound: none does once two have overlapped, and those    *)
(* come to their ends.                                                     *)
Begin == alone # {} /\ alone' = IF Inside = {} THEN {heap} ELSE {}

(* alloc.                                                                  *)
Kmallocs(t, n) ==
  /\ At(t, "caller") /\ Begin
  /\ Len(th[t].got) < MaxLive
  /\ th' = [th EXCEPT ![t].at = "search", ![t].size = n, ![t].i = 1]
  /\ UNCHANGED vars

(* find_smallest_hole: the next entry of the index.                        *)
Search(t) ==
  /\ At(t, "search")
  /\ IF th[t].i > Len(heap.index)
     THEN Go(t, "grow")
     ELSE IF Fits(heap, heap.index[th[t].i], Need(Request(t)), FALSE)
     THEN Go(t, "lookup")
     ELSE th' = [th EXCEPT ![t].i = @ + 1]
  /\ UNCHANGED <<heap, panic>> /\ Keeps

(* expand; then alloc begins again.                                        *)
Grow(t) ==
  /\ At(t, "grow")
  /\ LET oldLength == heap.end - Start
         newLength == NextPage(oldLength + Need(Request(t)))
         pages == PagesFrom(oldLength, newLength)
     IN IF Start + newLength > HeapMax
        THEN Stops /\ UNCHANGED <<framed, present, alone>>
        ELSE /\ framed' = framed \cup pages
             /\ present' = present \cup pages
             /\ heap' = AddRoom([heap EXCEPT !.end = Start + newLength],
                                heap.end, newLength - oldLength)
             /\ th' = [th EXCEPT ![t].at = "search", ![t].i = 1]
             /\ alone' = IF alone = {} THEN {} ELSE {heap'}
             /\ UNCHANGED panic
  /\ UNCHANGED <<request, live>>

(* The hole is looked up again by its place, and its size loaded.          *)
Lookup(t) ==
  /\ At(t, "lookup")
  /\ IF th[t].i > Len(heap.index)
     THEN Stops
     ELSE LET hole == heap.index[th[t].i] IN
            /\ th' = [th EXCEPT ![t].at = "remove", ![t].hole = hole,
                                ![t].hole_size = SizeOf(heap, hole)]
            /\ UNCHANGED <<heap, panic>>
  /\ Keeps

(* remove_sorted_array: whatever stands at that place now.                 *)
RemoveEntry(t) ==
  /\ At(t, "remove")
  /\ IF th[t].i > Len(heap.index)
     THEN Stops
     ELSE /\ heap' = [heap EXCEPT !.index = RemoveAt(@, th[t].i)]
          /\ Go(t, "header")
          /\ UNCHANGED panic
  /\ Keeps

(* The length of the block, overhead included, and of the hole behind it.  *)
BlockSize(t) ==
  IF TooShort(Wrap(th[t].hole_size - Need(Request(t)))) THEN th[t].hole_size
  ELSE Need(Request(t))
Rest(t) == Wrap(th[t].hole_size - BlockSize(t))
RestHole(t) == th[t].hole + BlockSize(t)

BlockHeader(t) ==
  /\ At(t, "header")
  /\ heap' = PutHeader(heap, th[t].hole, FALSE, BlockSize(t))
  /\ Go(t, "footer")
  /\ UNCHANGED panic /\ Keeps

BlockFooter(t) ==
  /\ At(t, "footer")
  /\ heap' = PutFooter(heap, RestHole(t) - FooterSize, th[t].hole)
  /\ Go(t, IF Rest(t) = 0 THEN "return" ELSE "rest_header")
  /\ UNCHANGED panic /\ Keeps

RestHeader(t) ==
  /\ At(t, "rest_header")
  /\ heap' = PutHeader(heap, RestHole(t), TRUE, Rest(t))
  /\ Go(t, "rest_footer")
  /\ UNCHANGED panic /\ Keeps

RestFooter(t) ==
  LET footer == RestHole(t) + Rest(t) - FooterSize
  IN /\ At(t, "rest_footer")
     /\ heap' = IF footer < heap.end THEN PutFooter(heap, footer, RestHole(t)) ELSE heap
     /\ Go(t, "insert")
     /\ UNCHANGED panic /\ Keeps

(* insert_sorted_array.  Mutation: the rest goes to the end of the index.  *)
InsertLast(t) ==
  /\ At(t, "insert")
  /\ heap' = [heap EXCEPT !.index = Append(@, RestHole(t))]
  /\ Go(t, "return")
  /\ UNCHANGED panic /\ Keeps

InsertEntry(t) ==
  /\ At(t, "insert")
  /\ IF Len(heap.index) >= VM_HEAP_INDEX_SIZE
     THEN Stops
     ELSE /\ heap' = InsertHole(heap, RestHole(t))
          /\ Go(t, "return")
          /\ UNCHANGED panic
  /\ Keeps

Pointer(t) == th[t].hole + HeaderSize

Return(t) ==
  /\ At(t, "return")
  /\ th' = [th EXCEPT ![t] =
       [Caller EXCEPT !.got =
          Append(th[t].got, [pointer |-> Pointer(t), size |-> th[t].size])]]
  /\ UNCHANGED <<vars, alone>>

-----------------------------------------------------------------------------
(* free gets the k-th of the thread's blocks.                              *)
Kfrees(t, k) ==
  /\ At(t, "caller") /\ Begin
  /\ th' = [th EXCEPT ![t].at = "free", ![t].pointer = th[t].got[k].pointer,
                      ![t].got = RemoveAt(@, k)]
  /\ UNCHANGED vars

(* The heap and the variables of free become those of f.                   *)
Goes(t, f, at) ==
  /\ heap' = f.h
  /\ th' = [th EXCEPT ![t].freeing = [f EXCEPT !.h = << >>], ![t].at = at]

(* They are found, and the block is marked as a hole.                      *)
Mark(t) ==
  LET f == Freeing(heap, th[t].pointer)
  IN /\ At(t, "free")
     /\ IF NoBlock(heap, f) THEN Stops ELSE Goes(t, f, "left") /\ UNCHANGED panic
     /\ Keeps

(* free's variables, with the heap as it is now.                           *)
Now(t) == [th[t].freeing EXCEPT !.h = heap]

UnifyToLeft(t) ==
  /\ At(t, "left")
  /\ Goes(t, UnifyLeft(Now(t)), "right")
  /\ UNCHANGED panic /\ Keeps

UnifyToRight(t) ==
  /\ At(t, "right")
  /\ IF BehindStops(Now(t)) THEN Stops
     ELSE Goes(t, UnifyRight(Now(t)), "contract") /\ UNCHANGED panic
  /\ Keeps

Contract(t) ==
  LET f == ContractHeap(Now(t))
  IN /\ At(t, "contract")
     /\ Goes(t, f, "add")
     /\ framed' = framed \ f.freed
     /\ UNCHANGED <<present, request, live, panic, alone>>

AddHole(t) ==
  /\ At(t, "add")
  /\ Goes(t, AddToIndex(Now(t)), "freed")
  /\ UNCHANGED panic /\ Keeps

FreeReturns(t) ==
  /\ At(t, "freed")
  /\ th' = [th EXCEPT ![t] = [Caller EXCEPT !.got = th[t].got]]
  /\ UNCHANGED <<vars, alone>>

-----------------------------------------------------------------------------
Work(t) ==
  \/ Search(t) \/ Grow(t) \/ Lookup(t) \/ RemoveEntry(t)
  \/ BlockHeader(t) \/ BlockFooter(t)
  \/ RestHeader(t) \/ RestFooter(t) \/ InsertEntry(t) \/ Return(t)
  \/ Mark(t) \/ UnifyToLeft(t) \/ UnifyToRight(t) \/ Contract(t)
  \/ AddHole(t) \/ FreeReturns(t)

SharedNext ==
  \E t \in Threads :
    \/ \E n \in Sizes : Kmallocs(t, n)
    \/ \E k \in DOMAIN th[t].got : Kfrees(t, k)
    \/ Work(t)

SharedSpec == SharedInit /\ [][SharedNext]_sharedVars

-----------------------------------------------------------------------------
(* alloc returns "a pointer to a newly allocated memory block": no two     *)
(* blocks in the hands of the threads share memory.                        *)
NewlyAllocated ==
  \A t, u \in Threads :
    \A i \in DOMAIN th[t].got, j \in DOMAIN th[u].got :
      <<t, i>> # <<u, j>> =>
        LET a == th[t].got[i]
            b == th[u].got[j]
        IN a.pointer + a.size <= b.pointer \/ b.pointer + b.size <= a.pointer
=============================================================================
