----------------------------- MODULE Allocator -----------------------------
(***************************************************************************)
(* What kmalloc and kfree promise their callers (kmalloc.h, heap.h): every *)
(* request gets memory no other caller holds, on a page boundary when it   *)
(* asks for that, or the kernel stops because there is none; memory given  *)
(* back can be handed out again.                                           *)
(***************************************************************************)
EXTENDS Integers, Functions

CONSTANTS Addresses, Sizes, Flags, Page, NoRequest

VARIABLES live, request, stopped

vars == <<live, request, stopped>>

Init == live = << >> /\ request = NoRequest /\ ~stopped

Ask(n, flags) ==
  /\ ~stopped /\ request = NoRequest
  /\ request' = [size |-> n, flags |-> flags]
  /\ UNCHANGED <<live, stopped>>

(* p .. p+n-1 is in nobody's hands.                                        *)
Unused(p, n) ==
  /\ (p..(p + n - 1)) \subseteq Addresses
  /\ \A q \in DOMAIN live : p + n <= q \/ q + live[q] <= p

Grant(p) ==
  /\ ~stopped /\ request # NoRequest
  /\ Unused(p, request.size)
  /\ "M_ALIGNED" \in request.flags => p % Page = 0
  /\ live' = [q \in DOMAIN live \cup {p} |-> IF q = p THEN request.size ELSE live[q]]
  /\ request' = NoRequest
  /\ UNCHANGED stopped

OutOfMemory ==
  /\ ~stopped /\ request # NoRequest
  /\ stopped' = TRUE
  /\ UNCHANGED <<live, request>>

Release(p) ==
  /\ ~stopped /\ request = NoRequest
  /\ live' = Restrict(live, DOMAIN live \ {p})
  /\ UNCHANGED <<request, stopped>>

Answer == OutOfMemory \/ \E p \in Addresses : Grant(p)

Next ==
  \/ \E n \in Sizes, flags \in Flags : Ask(n, flags)
  \/ Answer
  \/ \E p \in DOMAIN live : Release(p)

Spec == Init /\ [][Next]_vars
=============================================================================
