-------------------------- MODULE MCSchedulerFair --------------------------
(***************************************************************************)
(* The fair scheduler with nodes that kmalloc returns in their order.  No  *)
(* node is ever freed here and no property names one, so that every        *)
(* behaviour is one of these up to the names of the nodes.                 *)
(***************************************************************************)
EXTENDS SchedulerRefinement

InOrder == \A n \in used' \ used : \A k \in Nodes \ used : n <= k

OrderedFairSpec == Init /\ [][Next /\ InOrder]_vars /\ Fairness
=============================================================================
