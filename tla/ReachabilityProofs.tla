------------------------- MODULE ReachabilityProofs -------------------------
(***************************************************************************)
(* What is reachable, in any graph: for the blocks of the heap and for the *)
(* classes that a class inherits from.                                     *)
(***************************************************************************)
EXTENDS Reachability, TLAPS

(* Any closed set that holds the roots holds everything reachable. *)
LEMMA ReachableLeast ==
  ASSUME NEW N, NEW E, NEW R, NEW S \in SUBSET N,
         R \subseteq S, Closed(S, E)
  PROVE  ReachableFrom(N, E, R) \subseteq S
BY DEF ReachableFrom

(* In a graph with no dangling pointer, what is reachable holds the roots  *)
(* and is closed.                                                          *)
LEMMA ReachableClosed ==
  ASSUME NEW N, NEW E, NEW R, R \subseteq N, Closed(N, E)
  PROVE  /\ ReachableFrom(N, E, R) \subseteq N
         /\ R \subseteq ReachableFrom(N, E, R)
         /\ Closed(ReachableFrom(N, E, R), E)
<1>1. ReachableFrom(N, E, R) \subseteq N
  BY DEF ReachableFrom
<1>2. R \subseteq ReachableFrom(N, E, R)
  BY DEF ReachableFrom
<1>3. ASSUME NEW n \in ReachableFrom(N, E, R), NEW m \in E[n]
      PROVE  m \in ReachableFrom(N, E, R)
  <2>1. m \in N
    BY <1>1 DEF Closed
  <2>2. ASSUME NEW S \in SUBSET N, R \subseteq S, Closed(S, E)
        PROVE  m \in S
    BY <2>2 DEF ReachableFrom, Closed
  <2> QED
    BY <2>1, <2>2 DEF ReachableFrom
<1> QED
  BY <1>1, <1>2, <1>3 DEF Closed

(* Marking what is reachable: when nothing is left to trace, the marked    *)
(* blocks are exactly the reachable ones.                                  *)
LEMMA ReachableUnique ==
  ASSUME NEW N, NEW E, NEW R, NEW S \in SUBSET N,
         R \subseteq S, Closed(S, E), S \subseteq ReachableFrom(N, E, R)
  PROVE  S = ReachableFrom(N, E, R)
BY ReachableLeast
=============================================================================
