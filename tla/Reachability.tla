---------------------------- MODULE Reachability ----------------------------
(***************************************************************************)
(* The set of control blocks that tracing must keep, defined with no       *)
(* reference to any tracing order: a block is reachable from the roots R   *)
(* when every set that contains R and is closed under the references E     *)
(* contains it.  E[n] is the set of blocks that the value of n points to,  *)
(* the pointers its trace_refs_trait passes to mark.                       *)
(***************************************************************************)

(* S holds every pointer found in one of its blocks. *)
Closed(S, E) == \A n \in S : E[n] \subseteq S

(* The least closed subset of N that contains R. *)
ReachableFrom(N, E, R) ==
  {n \in N : \A S \in SUBSET N : R \subseteq S /\ Closed(S, E) => n \in S}
=============================================================================
