---------------------------- MODULE GcHeapProofs ----------------------------
(***************************************************************************)
(* Proofs about GcHeap and the string table composed with it, for any set  *)
(* of addresses, any block sizes and any object graph.  Everything about   *)
(* the heap follows from one inductive invariant, HeapIInv: the tri-colour *)
(* invariant of the worklist loop strengthened with what each phase of     *)
(* collect_garbage knows of the marks.                                     *)
(***************************************************************************)
EXTENDS InternedStrings, ReachabilityProofs, SequenceTheorems, FiniteSetTheorems,
        WellFoundedInduction

(* The contents of a sequence, and that no value occurs twice in it. *)
Entries(s) == {s[i] : i \in 1..Len(s)}
Distinct(s) == \A i, j \in 1..Len(s) : s[i] = s[j] => i = j

-----------------------------------------------------------------------------
(* The worklist as a stack *)

LEMMA AppendEntries ==
  ASSUME NEW S, NEW s \in Seq(S), NEW b \in S
  PROVE  /\ Append(s, b) \in Seq(S)
         /\ Entries(Append(s, b)) = Entries(s) \cup {b}
         /\ Distinct(s) /\ b \notin Entries(s) => Distinct(Append(s, b))
<1> DEFINE t == Append(s, b)
<1>1. /\ t \in Seq(S)
      /\ Len(t) = Len(s) + 1
      /\ Len(s) \in Nat
      /\ \A i \in 1..Len(s) : t[i] = s[i]
      /\ t[Len(s) + 1] = b
  OBVIOUS
<1> HIDE DEF t
<1>2. Entries(t) = Entries(s) \cup {b}
  <2>1. ASSUME NEW i \in 1..Len(t)
        PROVE  t[i] \in Entries(s) \cup {b}
    <3>1. CASE i \in 1..Len(s)
      BY <1>1, <3>1 DEF Entries
    <3>2. CASE i = Len(s) + 1
      BY <1>1, <3>2
    <3> QED BY <1>1, <3>1, <3>2
  <2>2. ASSUME NEW i \in 1..Len(s)
        PROVE  s[i] \in Entries(t)
    <3>1. i \in 1..Len(t) /\ t[i] = s[i] BY <1>1
    <3> QED BY <3>1 DEF Entries
  <2>3. b \in Entries(t)
    <3>1. Len(s) + 1 \in 1..Len(t) BY <1>1
    <3> QED BY <1>1, <3>1 DEF Entries
  <2> QED BY <2>1, <2>2, <2>3 DEF Entries
<1>3. ASSUME Distinct(s), b \notin Entries(s),
             NEW i \in 1..Len(t), NEW j \in 1..Len(t), t[i] = t[j]
      PROVE  i = j
  <2>1. CASE i \in 1..Len(s) /\ j \in 1..Len(s)
    BY <1>1, <1>3, <2>1 DEF Distinct
  <2>2. CASE i = Len(s) + 1 /\ j \in 1..Len(s)
    BY <1>1, <1>3, <2>2 DEF Entries
  <2>3. CASE j = Len(s) + 1 /\ i \in 1..Len(s)
    BY <1>1, <1>3, <2>3 DEF Entries
  <2>4. CASE i = Len(s) + 1 /\ j = Len(s) + 1
    BY <2>4
  <2> QED BY <1>1, <2>1, <2>2, <2>3, <2>4
<1>4. Distinct(s) /\ b \notin Entries(s) => Distinct(t)
  BY <1>3 DEF Distinct
<1> QED BY <1>1, <1>2, <1>4 DEF t

LEMMA SubSeqPrefix ==
  ASSUME NEW S, NEW s \in Seq(S), NEW n \in 0..Len(s)
  PROVE  /\ SubSeq(s, 1, n) \in Seq(S)
         /\ Len(SubSeq(s, 1, n)) = n
         /\ \A i \in 1..n : SubSeq(s, 1, n)[i] = s[i]
<1>1. \A i \in 1..n : s[i] \in S
  BY ElementOfSeq
<1> QED BY <1>1

LEMMA PopEntries ==
  ASSUME NEW S, NEW s \in Seq(S), s # <<>>, Distinct(s)
  PROVE  LET t == SubSeq(s, 1, Len(s) - 1)
         IN  /\ t \in Seq(S)
             /\ s[Len(s)] \in Entries(s)
             /\ Entries(t) = Entries(s) \ {s[Len(s)]}
             /\ Distinct(t)
<1> DEFINE t == SubSeq(s, 1, Len(s) - 1)
<1>1. Len(s) \in Nat \ {0}
  BY EmptySeq
<1>2. Len(s) - 1 \in 0..Len(s)
  BY <1>1
<1>3. /\ t \in Seq(S)
      /\ Len(t) = Len(s) - 1
      /\ \A i \in 1..Len(s) - 1 : t[i] = s[i]
  BY <1>2, SubSeqPrefix
<1> HIDE DEF t
<1>4. s[Len(s)] \in Entries(s)
  BY <1>1 DEF Entries
<1>5. Entries(t) = Entries(s) \ {s[Len(s)]}
  <2>1. ASSUME NEW i \in 1..Len(t)
        PROVE  t[i] \in Entries(s) \ {s[Len(s)]}
    <3>1. i \in 1..Len(s) /\ t[i] = s[i] /\ i # Len(s)
      BY <1>1, <1>3
    <3>2. s[i] # s[Len(s)]
      BY <1>1, <3>1 DEF Distinct
    <3> QED BY <3>1, <3>2 DEF Entries
  <2>2. ASSUME NEW i \in 1..Len(s), s[i] # s[Len(s)]
        PROVE  s[i] \in Entries(t)
    <3>1. i \in 1..Len(t) /\ t[i] = s[i]
      BY <1>1, <1>3, <2>2
    <3> QED BY <3>1 DEF Entries
  <2> QED BY <2>1, <2>2 DEF Entries
<1>6. Distinct(t)
  <2>1. \A i \in 1..Len(t) : i \in 1..Len(s) /\ t[i] = s[i]
    BY <1>1, <1>3
  <2> QED BY <2>1 DEF Distinct
<1> QED BY <1>3, <1>4, <1>5, <1>6 DEF t

-----------------------------------------------------------------------------
(* Facts of a state of the heap *)

LEMMA GrayIsEntries == Gray = Entries(gray_worklist)
BY DEF Gray, Entries

LEMMA QueuedOnceIsDistinct == QueuedOnce <=> Distinct(gray_worklist)
BY DEF QueuedOnce, Distinct

(* What a call of mark does to the flags and to the worklist. *)
LEMMA MarkStep ==
  ASSUME HeapTypeOK, QueuedOnce, Gray \subseteq marked,
         NEW b \in all_ptrs, Mark(b)
  PROVE  /\ marked' = marked \cup {b}
         /\ gray_worklist' \in Seq(all_ptrs)
         /\ Gray' = Gray \cup (IF b \in marked THEN {} ELSE {b})
         /\ QueuedOnce'
<1>1. CASE b \in marked
  BY <1>1 DEF Mark, HeapTypeOK, Gray, QueuedOnce
<1>2. CASE b \notin marked
  <2>1. /\ marked' = marked \cup {b}
        /\ gray_worklist' = Append(gray_worklist, b)
    BY <1>2 DEF Mark
  <2>2. b \notin Entries(gray_worklist) /\ Distinct(gray_worklist)
    BY <1>2, GrayIsEntries, QueuedOnceIsDistinct
  <2>3. gray_worklist \in Seq(all_ptrs)
    BY DEF HeapTypeOK
  <2>4. /\ Append(gray_worklist, b) \in Seq(all_ptrs)
        /\ Entries(Append(gray_worklist, b)) = Entries(gray_worklist) \cup {b}
        /\ Distinct(Append(gray_worklist, b))
    BY <2>2, <2>3, AppendEntries
  <2>5. Gray' = Entries(gray_worklist')
    BY DEF Gray, Entries
  <2>6. QueuedOnce' <=> Distinct(gray_worklist')
    BY DEF QueuedOnce, Distinct
  <2> QED BY <1>2, <2>1, <2>4, <2>5, <2>6, GrayIsEntries
<1> QED BY <1>1, <1>2

(* The reachable blocks exist, hold the roots and are closed. *)
LEMMA KeptClosed ==
  ASSUME HeapIInv
  PROVE  /\ Kept \subseteq all_ptrs
         /\ roots \cup pinned \subseteq Kept
         /\ Closed(Kept, refs)
<1>1. roots \cup pinned \subseteq all_ptrs
  BY DEF HeapIInv, HeapTypeOK, NoDangling
<1>2. Closed(all_ptrs, refs)
  BY DEF HeapIInv, NoDangling, Closed
<1> QED BY <1>1, <1>2, ReachableClosed DEF Kept

-----------------------------------------------------------------------------
(* The inductive invariant *)

LEMMA HeapInitInv == HeapInit => HeapIInv
BY DEF HeapInit, HeapIInv, HeapTypeOK, NoDangling, TriColor, SweepExact,
       QueuedOnce, Gray, Phases

LEMMA HeapNextInv == HeapIInv /\ [HeapNext]_heapVars => HeapIInv'
<1> SUFFICES ASSUME HeapIInv, [HeapNext]_heapVars
             PROVE  HeapIInv'
  OBVIOUS
<1> USE DEF HeapIInv
<1>1. ASSUME NEW b \in Block, NEW size \in Sizes, NEW rs \in Held, Make(b, size, rs)
      PROVE  HeapIInv'
  <2>1. rs \subseteq all_ptrs
    BY DEF Held
  <2>2. HeapTypeOK'
    <3>1. gray_worklist' \in Seq(all_ptrs')
      BY <1>1, SeqMonotonic DEF Make, HeapTypeOK
    <3>2. n_allocated_bytes' \in Int
      BY <1>1, HeapAssumption DEF Make, HeapTypeOK
    <3> QED BY <1>1, <2>1, <3>1, <3>2 DEF Make, HeapTypeOK, Phases
  <2>3. NoDangling'
    BY <1>1, <2>1 DEF Make, HeapTypeOK, NoDangling
  <2> QED
    BY <1>1, <2>2, <2>3 DEF Make, HeapTypeOK, TriColor, SweepExact, QueuedOnce, Gray
<1>2. ASSUME NEW b \in all_ptrs, NEW rs \in Held, StoreRefs(b, rs)
      PROVE  HeapIInv'
  <2>1. rs \subseteq all_ptrs
    BY DEF Held
  <2>2. HeapTypeOK'
    BY <1>2, <2>1 DEF StoreRefs, HeapTypeOK, Phases
  <2>3. NoDangling'
    BY <1>2, <2>1 DEF StoreRefs, HeapTypeOK, NoDangling
  <2> QED
    BY <1>2, <2>2, <2>3 DEF StoreRefs, TriColor, SweepExact, QueuedOnce, Gray
<1>3. ASSUME NEW rs \in SUBSET all_ptrs, SetRoots(rs)
      PROVE  HeapIInv'
  BY <1>3 DEF SetRoots, HeapTypeOK, Phases, NoDangling, TriColor, SweepExact,
              QueuedOnce, Gray
<1>4. ASSUME NEW b \in all_ptrs, MarkByHand(b)
      PROVE  HeapIInv'
  <2>1. Mark(b)
    BY <1>4 DEF MarkByHand
  <2>2. /\ marked' = marked \cup {b}
        /\ gray_worklist' \in Seq(all_ptrs)
        /\ Gray' = Gray \cup (IF b \in marked THEN {} ELSE {b})
        /\ QueuedOnce'
    BY <2>1, MarkStep
  <2>3. Gray' = marked' /\ pinned' = marked'
    BY <1>4, <2>2 DEF MarkByHand
  <2> QED
    BY <1>4, <2>2, <2>3 DEF MarkByHand, HeapTypeOK, Phases, NoDangling, TriColor, SweepExact
<1>5. CASE BeginCollect
  <2>1. Kept' = Kept /\ Gray' = Gray
    BY <1>5 DEF BeginCollect, Kept, Gray
  <2>2. TriColor'
    BY <1>5, <2>1, KeptClosed DEF BeginCollect, TriColor
  <2> QED
    BY <1>5, <2>1, <2>2 DEF BeginCollect, HeapTypeOK, Phases, NoDangling, SweepExact, QueuedOnce
<1>6. ASSUME NEW b \in pending, MarkPending(b)
      PROVE  HeapIInv'
  <2>1. Mark(b) /\ b \in all_ptrs
    BY <1>6 DEF MarkPending, HeapTypeOK
  <2>2. /\ marked' = marked \cup {b}
        /\ gray_worklist' \in Seq(all_ptrs)
        /\ Gray' = Gray \cup (IF b \in marked THEN {} ELSE {b})
        /\ QueuedOnce'
    BY <2>1, MarkStep
  <2>3. /\ marked' \cup pending' = marked \cup pending
        /\ marked' \ Gray' \subseteq marked \ Gray
    BY <1>6, <2>2 DEF MarkPending
  <2>4. Kept' = Kept
    BY <1>6 DEF MarkPending, Kept
  <2>5. TriColor'
    BY <1>6, <2>3, <2>4 DEF MarkPending, TriColor
  <2> QED
    BY <1>6, <2>1, <2>2, <2>5 DEF MarkPending, HeapTypeOK, Phases, NoDangling, SweepExact
<1>7. CASE TraceNext
  <2> DEFINE top == gray_worklist[Len(gray_worklist)]
  <2>1. /\ gray_worklist' \in Seq(all_ptrs)
        /\ top \in Gray
        /\ Gray' = Gray \ {top}
        /\ QueuedOnce'
    <3>1. gray_worklist \in Seq(all_ptrs) /\ gray_worklist # <<>>
      BY <1>7 DEF TraceNext, HeapTypeOK
    <3>2. Distinct(gray_worklist)
      BY QueuedOnceIsDistinct
    <3>3. gray_worklist' = SubSeq(gray_worklist, 1, Len(gray_worklist) - 1)
      BY <1>7 DEF TraceNext
    <3>4. /\ gray_worklist' \in Seq(all_ptrs)
          /\ top \in Entries(gray_worklist)
          /\ Entries(gray_worklist') = Entries(gray_worklist) \ {top}
          /\ Distinct(gray_worklist')
      BY <3>1, <3>2, <3>3, PopEntries
    <3>5. Gray' = Entries(gray_worklist')
      BY DEF Gray, Entries
    <3>6. QueuedOnce' <=> Distinct(gray_worklist')
      BY DEF QueuedOnce, Distinct
    <3> QED BY <3>4, <3>5, <3>6, GrayIsEntries
  <2>2. top \in marked /\ top \in Kept /\ top \in all_ptrs
    BY <1>7, <2>1 DEF TraceNext, TriColor, HeapTypeOK
  <2>3. pending' = refs[top] /\ refs[top] \subseteq Kept /\ refs[top] \subseteq all_ptrs
    BY <1>7, <2>2, KeptClosed DEF TraceNext, Closed
  <2>4. Kept' = Kept
    BY <1>7 DEF TraceNext, Kept
  <2>5. TriColor'
    BY <1>7, <2>1, <2>3, <2>4 DEF TraceNext, TriColor
  <2> QED
    BY <1>7, <2>1, <2>3, <2>5 DEF TraceNext, HeapTypeOK, Phases, NoDangling, SweepExact
<1>8. CASE BeginSweep
  <2>1. Gray = {}
    BY <1>8 DEF BeginSweep, Gray
  <2>2. marked \subseteq all_ptrs /\ roots \cup pinned \subseteq marked /\ Closed(marked, refs)
    BY <1>8, <2>1 DEF BeginSweep, TriColor, HeapTypeOK, Closed
  <2>3. marked \subseteq Kept
    BY <1>8 DEF BeginSweep, TriColor
  <2>4. marked = Kept
    BY <2>2, <2>3, ReachableUnique DEF Kept
  <2>5. Kept' = Kept
    BY <1>8 DEF BeginSweep, Kept
  <2> QED
    BY <1>8, <2>4, <2>5 DEF BeginSweep, HeapTypeOK, Phases, NoDangling, TriColor,
                            SweepExact, QueuedOnce, Gray
<1>9. ASSUME NEW b \in pending, Destroy(b)
      PROVE  HeapIInv'
  <2>1. Kept' = Kept
    BY <1>9 DEF Destroy, Kept
  <2>2. n_allocated_bytes' \in Int
    <3>1. b \in Block /\ size_of \in [Block -> Sizes \cup {0}] /\ n_allocated_bytes \in Int
      BY <1>9 DEF HeapTypeOK
    <3>2. size_of[b] \in Sizes \cup {0}
      BY <3>1
    <3>3. size_of[b] \in Int
      <4>1. \A size \in Sizes \cup {0} : size \in Int
        BY HeapAssumption
      <4> QED BY <3>2, <4>1
    <3> QED BY <1>9, <3>1, <3>3 DEF Destroy
  <2> QED
    BY <1>9, <2>1, <2>2 DEF Destroy, HeapTypeOK, Phases, NoDangling, TriColor,
                            SweepExact, QueuedOnce, Gray
<1>10. CASE EndCollect
  <2>1. marked = Kept /\ all_ptrs' = Kept /\ gray_worklist = <<>>
    BY <1>10, KeptClosed DEF EndCollect, SweepExact
  <2>2. Gray = {} /\ Gray' = {}
    BY <1>10, <2>1 DEF EndCollect, Gray
  <2>3. HeapTypeOK'
    <3>1. gray_worklist' \in Seq(all_ptrs')
      BY <1>10, <2>1 DEF EndCollect
    <3>2. roots \subseteq Block
      BY DEF HeapTypeOK
    <3> QED BY <1>10, <3>1 DEF EndCollect, HeapTypeOK, Phases
  <2>4. NoDangling'
    BY <1>10, <2>1, KeptClosed DEF EndCollect, HeapTypeOK, NoDangling, Closed
  <2> QED
    BY <1>10, <2>1, <2>2, <2>3, <2>4 DEF EndCollect, TriColor, SweepExact, QueuedOnce
<1>11. CASE UNCHANGED heapVars
  <2>1. Gray' = Gray /\ Kept' = Kept
    BY <1>11 DEF heapVars, Gray, Kept
  <2>2. HeapTypeOK' /\ NoDangling' /\ QueuedOnce'
    BY <1>11 DEF heapVars, HeapTypeOK, NoDangling, QueuedOnce
  <2>3. TriColor' /\ SweepExact'
    BY <1>11, <2>1 DEF heapVars, TriColor, SweepExact
  <2> QED BY <1>11, <2>1, <2>2, <2>3 DEF heapVars
<1> QED
  BY <1>1, <1>2, <1>3, <1>4, <1>5, <1>6, <1>7, <1>8, <1>9, <1>10, <1>11
     DEF HeapNext, Mutate, CollectStep

(* What the loops of collect_garbage rely on between any two iterations:   *)
(* hand-marked and gray blocks are marked, the roots are marked once the   *)
(* callbacks are done, a block under destruction is not, and between       *)
(* collections nothing is marked but by hand (memory.cpp:7-46).            *)
THEOREM HeapInvariant == HeapSpec => []HeapIInv
BY HeapInitInv, HeapNextInv, PTL DEF HeapSpec

-----------------------------------------------------------------------------
(* The theorems *)

(* Type correctness: the collector only handles blocks it still owns, for  *)
(* any number of addresses and any graph (GC_heap, memory.cpp:7-46).       *)
THEOREM HeapTypeCorrect == HeapSpec => []HeapTypeOK
<1>1. HeapIInv => HeapTypeOK
  BY DEF HeapIInv
<1> QED BY <1>1, HeapInvariant, PTL

(* No pointer of a root or of a surviving block outlives its target.       *)
THEOREM HeapNoDangling == HeapSpec => []NoDangling
<1>1. HeapIInv => NoDangling
  BY DEF HeapIInv
<1> QED BY <1>1, HeapInvariant, PTL

(* The tri-colour invariant of the worklist loop (memory.cpp:24-30).       *)
THEOREM HeapTriColor == HeapSpec => []TriColor
<1>1. HeapIInv => TriColor
  BY DEF HeapIInv
<1> QED BY <1>1, HeapInvariant, PTL

(* The sweep erases exactly the blocks that cannot be reached, cyclic      *)
(* garbage included (memory.cpp:33-41).                                    *)
THEOREM HeapSweepExact == HeapSpec => []SweepExact
<1>1. HeapIInv => SweepExact
  BY DEF HeapIInv
<1> QED BY <1>1, HeapInvariant, PTL

(* No block is queued twice (memory.cpp:9-14).                             *)
THEOREM HeapQueuedOnce == HeapSpec => []QueuedOnce
<1>1. HeapIInv => QueuedOnce
  BY DEF HeapIInv
<1> QED BY <1>1, HeapInvariant, PTL

-----------------------------------------------------------------------------
(* The refinement *)

LEMMA ContractInitStep == HeapInit => Contract!ContractInit
BY DEF HeapInit, Contract!ContractInit

LEMMA ContractNextStep ==
  HeapIInv /\ [HeapNext]_heapVars => [Contract!ContractNext]_(Contract!contractVars)
<1> SUFFICES ASSUME HeapIInv, [HeapNext]_heapVars
             PROVE  \/ Contract!ContractNext
                    \/ UNCHANGED Contract!contractVars
  OBVIOUS
<1> USE DEF Contract!contractVars, Contract!ContractNext
<1>1. ASSUME NEW b \in Block, NEW size \in Sizes, NEW rs \in Held, Make(b, size, rs)
      PROVE  Contract!ContractNext
  <2>1. rs \in SUBSET all_ptrs
    BY DEF Held
  <2>2. Contract!Allocate(b, rs)
    BY <1>1 DEF Make, Contract!Allocate
  <2> QED BY <2>1, <2>2
<1>2. ASSUME NEW b \in all_ptrs, NEW rs \in Held, StoreRefs(b, rs)
      PROVE  Contract!ContractNext
  <2>1. rs \in SUBSET all_ptrs /\ b \in Block
    BY DEF Held, HeapIInv, HeapTypeOK
  <2>2. Contract!Store(b, rs)
    BY <1>2 DEF StoreRefs, Contract!Store
  <2> QED BY <2>1, <2>2
<1>3. ASSUME NEW rs \in SUBSET all_ptrs, SetRoots(rs)
      PROVE  Contract!ContractNext
  BY <1>3 DEF SetRoots, Contract!Anchor
<1>4. ASSUME NEW b \in all_ptrs, MarkByHand(b)
      PROVE  Contract!ContractNext
  BY <1>4 DEF MarkByHand, Contract!Pin
<1>5. CASE EndCollect
  <2>1. all_ptrs' = Kept
    BY <1>5, KeptClosed DEF EndCollect, HeapIInv, SweepExact
  <2>2. Contract!Collect
    BY <1>5, <2>1 DEF EndCollect, Contract!Collect, Kept,
                      ReachableFrom, Contract!ReachableFrom, Closed, Contract!Closed
  <2> QED BY <2>2
<1>6. CASE \/ BeginCollect \/ TraceNext \/ BeginSweep
           \/ \E b \in pending : MarkPending(b) \/ Destroy(b)
           \/ UNCHANGED heapVars
  BY <1>6 DEF BeginCollect, TraceNext, BeginSweep, MarkPending, Destroy, heapVars
<1> QED
  BY <1>1, <1>2, <1>3, <1>4, <1>5, <1>6 DEF HeapNext, Mutate, CollectStep

(* The incremental collector implements its contract: seen by the owner of *)
(* the pointers, a collection removes the unreachable blocks in one step   *)
(* and changes nothing else (GC_heap, memory.hpp:104-145).                 *)
THEOREM HeapImplementsContract == HeapSpec => ImplementsContract
BY HeapInvariant, ContractInitStep, ContractNextStep, PTL
   DEF HeapSpec, ImplementsContract, Contract!ContractSpec

-----------------------------------------------------------------------------
(* InternedStrings.  A step of the composed system is a step of the heap,  *)
(* so the heap's invariant carries over; what is added is how the two weak *)
(* tables follow the strings.                                              *)
LEMMA NothingHeld == {} \in Held
BY FS_EmptySet, HeapAssumption DEF Held

LEMMA StringsStepIsHeapStep == [StringsNext]_stringsVars => [HeapNext]_heapVars
<1>1. StringsNext => [HeapNext]_heapVars
  <2>1. ASSUME NEW c \in Chars, GetKnown(c) PROVE UNCHANGED heapVars
    BY <2>1 DEF GetKnown, stringsVars
  <2>2. ASSUME NEW c \in Chars, NEW b \in Block, NEW size \in Sizes, GetNew(c, b, size)
        PROVE  \E rs \in Held : Make(b, size, rs)
    BY <2>2, NothingHeld DEF GetNew
  <2>3. ASSUME NEW b \in Block, NEW size \in Sizes, NEW rs \in Held, MakeObject(b, size, rs)
        PROVE  Make(b, size, rs)
    BY <2>3 DEF MakeObject
  <2>4. ASSUME NEW b \in all_ptrs, NEW rs \in Held, StoreInObject(b, rs)
        PROVE  StoreRefs(b, rs)
    BY <2>4 DEF StoreInObject
  <2>5. ASSUME NEW b \in pending, DestroyAndForget(b) PROVE Destroy(b)
    BY <2>5 DEF DestroyAndForget
  <2>6. EndCollectStrings => EndCollect
    BY DEF EndCollectStrings
  <2>7. OtherHeapStep => HeapNext
    BY DEF OtherHeapStep, HeapNext, Mutate, CollectStep
  <2> QED
    BY <2>1, <2>2, <2>3, <2>4, <2>5, <2>6, <2>7 DEF StringsNext, HeapNext, Mutate, CollectStep
<1>2. UNCHANGED stringsVars => UNCHANGED heapVars
  BY DEF stringsVars
<1> QED BY <1>1, <1>2

-----------------------------------------------------------------------------
(* The strings that exist *)

(* A step that touches neither the blocks, the marks nor the tables, and   *)
(* destroys nothing, keeps everything that is said about the strings.      *)
LEMMA SameStrings ==
  ASSUME StringsIInv, Strings' = Strings, UNCHANGED <<tableVars, all_ptrs>>
  PROVE  /\ StringsTypeOK'
         /\ TableExact'
         /\ CanonicalPointer'
BY DEF StringsIInv, StringsTypeOK, TableExact, CanonicalPointer, tableVars

LEMMA StringsInitInv == StringsInit => StringsIInv
<1> SUFFICES ASSUME StringsInit PROVE StringsIInv
  OBVIOUS
<1>1. HeapIInv
  BY HeapInitInv DEF StringsInit
<1>2. Strings = {}
  BY DEF StringsInit, HeapInit, Strings
<1> QED
  BY <1>1, <1>2 DEF StringsInit, StringsIInv, StringsTypeOK, TableExact, CanonicalPointer

LEMMA StringsNextInv == StringsIInv /\ [StringsNext]_stringsVars => StringsIInv'
<1> SUFFICES ASSUME StringsIInv, [StringsNext]_stringsVars
             PROVE  StringsIInv'
  OBVIOUS
<1>0. HeapIInv /\ HeapIInv'
  BY HeapNextInv, StringsStepIsHeapStep DEF StringsIInv
<1>a. /\ StringsTypeOK /\ TableExact /\ CanonicalPointer
      /\ \A b \in Block \ all_ptrs : chars[b] = NotAString
  BY DEF StringsIInv, StringsTypeOK
<1>b. /\ all_ptrs \subseteq Block
      /\ all_ptrs' \subseteq Block
  BY <1>0 DEF HeapIInv, HeapTypeOK
<1>1. ASSUME NEW c \in Chars, GetKnown(c)
      PROVE  StringsIInv'
  <2>1. Strings' = Strings
    BY <1>1 DEF GetKnown, stringsVars, heapVars, tableVars, Strings, Destroyed
  <2> QED BY <1>0, <1>1, <2>1, SameStrings DEF GetKnown, stringsVars, heapVars, StringsIInv
<1>2. ASSUME NEW c \in Chars, NEW b \in Block, NEW size \in Sizes, GetNew(c, b, size)
      PROVE  StringsIInv'
  <2>1. /\ strings_by_chars[c] = Null
        /\ phase = "mutate" /\ phase' = "mutate"
        /\ b \notin all_ptrs
        /\ all_ptrs' = all_ptrs \cup {b}
        /\ chars' = [chars EXCEPT ![b] = c]
        /\ strings_by_chars' = [strings_by_chars EXCEPT ![c] = b]
        /\ strings_by_ptr' = [strings_by_ptr EXCEPT ![b] = b]
    BY <1>2 DEF GetNew, Make
  <2>2. Strings' = Strings \cup {b}
    BY <1>a, <1>b, <2>1, StringsAssumption DEF Strings, Destroyed, StringsTypeOK
  <2>3. StringsTypeOK'
    BY <1>a, <2>1 DEF StringsTypeOK
  <2>4. b \notin Strings /\ Strings \subseteq Block
    BY <1>b, <2>1 DEF Strings
  <2>5. \A s \in Strings : chars[s] # c
    BY <1>a, <1>b, <2>1, <2>4, StringsAssumption DEF CanonicalPointer
  <2>6. TableExact'
    BY <1>a, <2>1, <2>2, <2>4 DEF TableExact, StringsTypeOK
  <2>7. CanonicalPointer'
    <3>1. ASSUME NEW s \in Strings', NEW t \in Strings', chars'[s] = chars'[t]
          PROVE  s = t
      BY <1>a, <2>1, <2>2, <2>4, <2>5, <3>1 DEF CanonicalPointer, StringsTypeOK
    <3>2. ASSUME NEW s \in Strings'
          PROVE  strings_by_chars'[chars'[s]] = s
      <4>1. CASE s = b
        BY <1>a, <2>1, <4>1 DEF StringsTypeOK
      <4>2. CASE s # b
        BY <1>a, <2>1, <2>2, <2>4, <2>5, <4>2 DEF CanonicalPointer, StringsTypeOK, Strings
      <4> QED BY <4>1, <4>2
    <3> QED BY <3>1, <3>2 DEF CanonicalPointer
  <2> QED BY <1>0, <1>a, <2>1, <2>3, <2>6, <2>7 DEF StringsIInv, StringsTypeOK
<1>3. ASSUME NEW b \in Block, NEW size \in Sizes, NEW rs \in Held, MakeObject(b, size, rs)
      PROVE  StringsIInv'
  <2>1. /\ phase = "mutate" /\ phase' = "mutate"
        /\ b \notin all_ptrs /\ all_ptrs' = all_ptrs \cup {b}
        /\ UNCHANGED tableVars
    BY <1>3 DEF MakeObject, Make
  <2>2. Strings' = Strings
    BY <1>a, <2>1 DEF Strings, Destroyed, tableVars
  <2> QED
    BY <1>0, <1>a, <2>1, <2>2 DEF StringsIInv, StringsTypeOK, TableExact, CanonicalPointer, tableVars
<1>4. ASSUME NEW b \in all_ptrs, NEW rs \in Held, StoreInObject(b, rs)
      PROVE  StringsIInv'
  <2>1. UNCHANGED <<tableVars, all_ptrs, phase, marked, pending>>
    BY <1>4 DEF StoreInObject, StoreRefs
  <2>2. Strings' = Strings
    BY <2>1 DEF Strings, Destroyed, tableVars
  <2> QED BY <1>0, <2>1, <2>2, SameStrings DEF StringsIInv
<1>5. ASSUME NEW b \in pending, DestroyAndForget(b)
      PROVE  StringsIInv'
  <2>1. /\ phase = "destroy" /\ phase' = "destroy"
        /\ pending' = pending \ {b}
        /\ UNCHANGED <<chars, all_ptrs, marked>>
        /\ OnDestroy(b)
    BY <1>5 DEF DestroyAndForget, Destroy
  <2>2. b \in all_ptrs /\ b \notin marked
    BY <1>0, <2>1 DEF HeapIInv, HeapTypeOK
  <2>3. Strings' = Strings \ {b}
    BY <2>1, <2>2 DEF Strings, Destroyed
  <2>4. CASE b \in Strings
    <3>1. strings_by_ptr[b] = b /\ b \in Block /\ b # Null
      BY <1>a, <1>b, <2>2, <2>4, StringsAssumption DEF TableExact
    <3>2. /\ strings_by_chars' = [strings_by_chars EXCEPT ![chars[b]] = Null]
          /\ strings_by_ptr' = [strings_by_ptr EXCEPT ![b] = Null]
      BY <2>1, <3>1 DEF OnDestroy
    <3>3. StringsTypeOK'
      BY <1>a, <2>1, <3>2 DEF StringsTypeOK
    <3>4. TableExact'
      <4>1. ASSUME NEW c \in Chars, strings_by_chars'[c] # Null
            PROVE  strings_by_chars'[c] \in Strings' /\ chars'[strings_by_chars'[c]] = c
        <5>1. c # chars[b] /\ strings_by_chars'[c] = strings_by_chars[c]
          BY <1>a, <3>2, <4>1 DEF StringsTypeOK
        <5>2. strings_by_chars[c] \in Strings /\ chars[strings_by_chars[c]] = c
          BY <1>a, <4>1, <5>1 DEF TableExact
        <5> QED BY <2>1, <2>3, <5>1, <5>2
      <4>2. \A a \in Block : strings_by_ptr'[a] = IF a \in Strings' THEN a ELSE Null
        BY <1>a, <2>3, <3>2 DEF TableExact, StringsTypeOK
      <4> QED BY <4>1, <4>2 DEF TableExact
    <3>5. CanonicalPointer'
      BY <1>a, <2>1, <2>3, <2>4, <3>2 DEF CanonicalPointer, StringsTypeOK, Strings
    <3> QED BY <1>0, <1>a, <2>1, <3>3, <3>4, <3>5 DEF StringsIInv
  <2>5. CASE b \notin Strings
    <3>1. strings_by_ptr[b] = Null
      BY <1>a, <1>b, <2>2, <2>5 DEF TableExact
    <3>2. UNCHANGED <<strings_by_chars, strings_by_ptr>>
      BY <1>a, <2>1, <3>1 DEF OnDestroy, StringsTypeOK
    <3>3. Strings' = Strings
      BY <2>3, <2>5
    <3> QED BY <1>0, <2>1, <3>2, <3>3, SameStrings DEF StringsIInv, tableVars
  <2> QED BY <2>4, <2>5
<1>6. CASE EndCollectStrings
  <2>1. /\ phase = "destroy" /\ phase' = "mutate" /\ pending = {}
        /\ all_ptrs' = all_ptrs \cap marked
        /\ chars' = [b \in Block |-> IF b \in all_ptrs' THEN chars[b] ELSE NotAString]
        /\ UNCHANGED <<strings_by_chars, strings_by_ptr>>
    BY <1>6 DEF EndCollectStrings, EndCollect
  <2>2. Strings' = Strings /\ Strings \subseteq all_ptrs'
    BY <1>b, <2>1 DEF Strings, Destroyed
  <2>3. \A s \in Strings : chars'[s] = chars[s]
    BY <1>b, <2>1, <2>2
  <2>4. StringsTypeOK'
    <3>1. \A c \in Chars : strings_by_chars[c] \in all_ptrs' \cup {Null}
      BY <1>a, <2>2 DEF TableExact
    <3>2. \A b \in Block : strings_by_ptr[b] \in all_ptrs' \cup {Null}
      BY <1>a, <2>2 DEF TableExact
    <3>3. chars' \in [Block -> Chars \cup {NotAString}]
      BY <1>a, <2>1 DEF StringsTypeOK
    <3>4. \A b \in Block \ all_ptrs' : chars'[b] = NotAString
      BY <2>1
    <3> QED BY <1>a, <2>1, <3>1, <3>2, <3>3, <3>4 DEF StringsTypeOK
  <2>5. TableExact' /\ CanonicalPointer'
    BY <1>a, <2>1, <2>2, <2>3 DEF TableExact, CanonicalPointer
  <2> QED BY <1>0, <2>1, <2>4, <2>5 DEF StringsIInv
<1>7. CASE OtherHeapStep
  <2>1. UNCHANGED <<tableVars, all_ptrs>>
    BY <1>7 DEF OtherHeapStep, SetRoots, MarkByHand, BeginCollect, MarkPending, TraceNext, BeginSweep
  <2>2. Destroyed = {} /\ Destroyed' = {}
    <3>1. phase # "destroy"
      BY <1>7 DEF OtherHeapStep, SetRoots, MarkByHand, BeginCollect, MarkPending, TraceNext, BeginSweep
    <3>2. phase' # "destroy" \/ pending' = all_ptrs' \ marked'
      BY <1>7 DEF OtherHeapStep, SetRoots, MarkByHand, BeginCollect, MarkPending, TraceNext, BeginSweep
    <3> QED BY <3>1, <3>2 DEF Destroyed
  <2>3. Strings' = Strings
    BY <2>1, <2>2 DEF Strings, tableVars
  <2> QED BY <1>0, <2>1, <2>3, SameStrings DEF StringsIInv
<1>8. CASE UNCHANGED stringsVars
  <2>1. Strings' = Strings
    BY <1>8 DEF stringsVars, heapVars, tableVars, Strings, Destroyed
  <2> QED BY <1>0, <1>8, <2>1, SameStrings DEF stringsVars, heapVars, StringsIInv
<1> QED
  BY <1>1, <1>2, <1>3, <1>4, <1>5, <1>6, <1>7, <1>8 DEF StringsNext

LEMMA StringsInvariant == StringsSpec => []StringsIInv
BY StringsInitInv, StringsNextInv, PTL DEF StringsSpec

-----------------------------------------------------------------------------
(* The theorems *)

(* The tables only name blocks the heap owns (interned_strings.hpp).       *)
THEOREM StringsTypeCorrect == StringsSpec => []StringsTypeOK
<1>1. StringsIInv => StringsTypeOK
  BY DEF StringsIInv
<1> QED BY <1>1, StringsInvariant, PTL

(* The weak tables describe exactly the strings that exist, at every point *)
(* of every collection (interned_strings.cpp:8-14).                        *)
THEOREM StringsTableExact == StringsSpec => []TableExact
<1>1. StringsIInv => TableExact
  BY DEF StringsIInv
<1> QED BY <1>1, StringsInvariant, PTL

(* Equal contents are the same address (interned_strings.cpp:27-55).       *)
THEOREM StringsCanonical == StringsSpec => []CanonicalPointer
<1>1. StringsIInv => CanonicalPointer
  BY DEF StringsIInv
<1> QED BY <1>1, StringsInvariant, PTL

(* Seen through the heap, the composed system is the heap: what is shown   *)
(* of the collector holds with the strings in it.                          *)
THEOREM StringsImplementHeap == StringsSpec => HeapSpec
<1>1. StringsInit => HeapInit
  BY DEF StringsInit
<1> QED BY <1>1, StringsStepIsHeapStep, PTL DEF StringsSpec, HeapSpec

-----------------------------------------------------------------------------
(* Sums over finite sets, which are folds of the community modules *)

LEMMA SubsetsByInduction ==
  ASSUME NEW S, IsFiniteSet(S), NEW B,
         \A s \in SUBSET S : (\A t \in SUBSET s : t # s => t \in B) => s \in B
  PROVE  SUBSET S \subseteq B
<1> DEFINE Bad == (SUBSET S) \ B
<1>1. SUFFICES ASSUME Bad # {} PROVE FALSE
  OBVIOUS
<1>2. IsWellFoundedOn(StrictSubsetOrdering(S), FiniteSubsetsOf(S))
  BY FS_StrictSubsetOrderingWellFounded
<1>3. Bad \subseteq FiniteSubsetsOf(S)
  BY FS_FiniteSubsetsOfFinite
<1>. HIDE DEF Bad
<1>4. PICK s \in Bad : \A t \in Bad : ~ (<<t, s>> \in StrictSubsetOrdering(S))
  BY <1>1, <1>2, <1>3, WFMin
<1>5. \A t \in SUBSET s : t # s => t \in B
  <2>1. ASSUME NEW t \in SUBSET s, t # s, t \notin B PROVE FALSE
    <3>1. t \in Bad /\ s \in SUBSET S /\ t \in SUBSET S
      BY <2>1 DEF Bad
    <3>2. <<t, s>> \in StrictSubsetOrdering(S)
      BY <2>1, <3>1 DEF StrictSubsetOrdering
    <3>. QED
      BY <1>4, <3>1, <3>2
  <2>. QED
    BY <2>1
<1>. QED
  BY <1>4, <1>5 DEF Bad

Some(s) == CHOOSE b \in s : TRUE

LEMMA SomeIsOne ==
  ASSUME NEW s, s # {}
  PROVE  Some(s) \in s
BY DEF Some

(* The fold over the subsets of T. *)
Adds(size, T, f) ==
  f = [s \in SUBSET T |-> IF s = {} THEN 0 ELSE size[Some(s)] + f[s \ {Some(s)}]]

SumOf(size, T) == MapThenSumSet(LAMBDA b : size[b], T)

LEMMA SumIsFold ==
  ASSUME NEW size, NEW T
  PROVE  SumOf(size, T) = (CHOOSE f : Adds(size, T, f))[T]
BY DEF SumOf, MapThenSumSet, MapThenFoldSet, Adds, Some

Counted(size, T) == \A b \in T : size[b] \in Int

(* The sizes of the blocks of a set are all that its sum depends on. *)
LEMMA FoldsAgree ==
  ASSUME NEW S, IsFiniteSet(S), NEW small, NEW large, NEW T, S \subseteq T,
         \A b \in S : small[b] = large[b],
         NEW f, Adds(small, S, f), NEW g, Adds(large, T, g)
  PROVE  \A s \in SUBSET S : f[s] = g[s]
<1> DEFINE B == {s \in SUBSET S : f[s] = g[s]}
<1>1. ASSUME NEW s \in SUBSET S, \A t \in SUBSET s : t # s => t \in B
      PROVE  f[s] = g[s]
  <2>1. CASE s = {}
    <3>1. s \in SUBSET T
      OBVIOUS
    <3>2. f[s] = 0
      BY <2>1 DEF Adds
    <3>3. g[s] = 0
      BY <2>1, <3>1 DEF Adds
    <3>. QED
      BY <3>2, <3>3
  <2>2. CASE s # {}
    <3>1. PICK b : b = Some(s)
      OBVIOUS
    <3>2. b \in s /\ b \in S /\ s \in SUBSET T /\ s \ {b} \in SUBSET s /\ s \ {b} # s
      BY <2>2, <3>1, SomeIsOne
    <3>3. f[s \ {b}] = g[s \ {b}]
      BY <1>1, <3>2
    <3>4. f[s] = small[b] + f[s \ {b}]
      BY <2>2, <3>1 DEF Adds
    <3>5. g[s] = large[b] + g[s \ {b}]
      BY <2>2, <3>1, <3>2 DEF Adds
    <3>6. small[b] = large[b]
      BY <3>2
    <3>. QED
      BY <3>3, <3>4, <3>5, <3>6
  <2>. QED
    BY <2>1, <2>2
<1>2. SUBSET S \subseteq B
  <2>1. \A s \in SUBSET S : (\A t \in SUBSET s : t # s => t \in B) => s \in B
    BY <1>1
  <2>. HIDE DEF B
  <2>. QED
    BY <2>1, SubsetsByInduction
<1>. QED
  BY <1>2

LEMMA FoldExists ==
  ASSUME NEW T, IsFiniteSet(T), NEW size
  PROVE  Adds(size, T, CHOOSE f : Adds(size, T, f))
<1> DEFINE B == {s \in SUBSET T : \E f : Adds(size, s, f)}
           F(s) == CHOOSE f : Adds(size, s, f)
<1>1. ASSUME NEW s \in SUBSET T, \A t \in SUBSET s : t # s => t \in B
      PROVE  \E f : Adds(size, s, f)
  <2>1. \A t \in SUBSET s : t # s => Adds(size, t, F(t))
    BY <1>1
  <2>. HIDE DEF F, B
  <2>2. PICK last : last = IF s = {} THEN 0 ELSE size[Some(s)] + F(s \ {Some(s)})[s \ {Some(s)}]
    OBVIOUS
  <2> DEFINE f == [t \in SUBSET s |-> IF t = s THEN last ELSE F(t)[t]]
  <2>3. ASSUME NEW t \in SUBSET s
        PROVE  f[t] = IF t = {} THEN 0 ELSE size[Some(t)] + f[t \ {Some(t)}]
    <3>1. CASE t = s /\ t = {}
      BY <2>2, <3>1
    <3>2. CASE t = s /\ t # {}
      <4>1. Some(s) \in s /\ s \ {Some(s)} \in SUBSET s /\ s \ {Some(s)} # s
        BY <3>2, SomeIsOne
      <4>2. f[s \ {Some(s)}] = F(s \ {Some(s)})[s \ {Some(s)}]
        BY <4>1
      <4>3. f[s] = last
        OBVIOUS
      <4>. HIDE DEF f
      <4>. QED
        BY <2>2, <3>2, <4>2, <4>3
    <3>3. CASE t # s
      <4>1. Adds(size, t, F(t)) /\ f[t] = F(t)[t]
        BY <2>1, <3>3
      <4>2. CASE t = {}
        <5>1. F(t)[t] = 0
          BY <4>1, <4>2 DEF Adds
        <5>. HIDE DEF f
        <5>. QED
          BY <4>1, <4>2, <5>1
      <4>3. CASE t # {}
        <5>1. PICK r : r = t \ {Some(t)}
          OBVIOUS
        <5>2. r \in SUBSET t /\ r \in SUBSET s /\ r # s
          BY <4>3, <5>1, <3>3, SomeIsOne
        <5>3. F(t)[t] = size[Some(t)] + F(t)[r]
          BY <4>1, <4>3, <5>1 DEF Adds
        <5>4. Adds(size, r, F(r)) /\ f[r] = F(r)[r]
          BY <2>1, <5>2
        <5>5. F(r)[r] = F(t)[r]
          <6>1. r \in SUBSET T /\ IsFiniteSet(r)
            BY <5>2, FS_Subset
          <6>2. r \subseteq t /\ r \in SUBSET r
            BY <5>2
          <6>. HIDE DEF f
          <6>. QED
            BY <4>1, <5>4, <6>1, <6>2, FoldsAgree
        <5>. HIDE DEF f
        <5>. QED
          BY <4>1, <4>3, <5>1, <5>3, <5>4, <5>5
      <4>. QED
        BY <4>2, <4>3
    <3>. QED
      BY <3>1, <3>2, <3>3
  <2>4. f = [t \in SUBSET s |-> f[t]]
    OBVIOUS
  <2>. HIDE DEF f
  <2>5. [t \in SUBSET s |-> f[t]]
          = [t \in SUBSET s |-> IF t = {} THEN 0 ELSE size[Some(t)] + f[t \ {Some(t)}]]
    BY <2>3
  <2>6. Adds(size, s, f)
    BY <2>4, <2>5, Zenon DEF Adds
  <2>. QED
    BY <2>6
<1>2. SUBSET T \subseteq B
  <2>1. \A s \in SUBSET T : (\A t \in SUBSET s : t # s => t \in B) => s \in B
    BY <1>1
  <2>. HIDE DEF B
  <2>. QED
    BY <2>1, SubsetsByInduction
<1>3. \E f : Adds(size, T, f)
  BY <1>2
<1>. QED
  BY <1>3

(* Whatever order the elements are added in. *)
LEMMA FoldTakesAny ==
  ASSUME NEW T, IsFiniteSet(T), NEW size, Counted(size, T), NEW f, Adds(size, T, f)
  PROVE  /\ \A s \in SUBSET T : f[s] \in Int
         /\ \A s \in SUBSET T : \A b \in s : f[s] = size[b] + f[s \ {b}]
<1> DEFINE B == {s \in SUBSET T : f[s] \in Int /\ \A b \in s : f[s] = size[b] + f[s \ {b}]}
<1>1. ASSUME NEW s \in SUBSET T, \A t \in SUBSET s : t # s => t \in B
      PROVE  f[s] \in Int /\ \A b \in s : f[s] = size[b] + f[s \ {b}]
  <2>1. CASE s = {}
    <3>1. f[s] = 0
      BY <2>1 DEF Adds
    <3>. QED
      BY <2>1, <3>1
  <2>2. CASE s # {}
    <3>1. PICK a : a = Some(s)
      OBVIOUS
    <3>2. a \in s
      BY <2>2, <3>1, SomeIsOne
    <3>3. f[s] = size[a] + f[s \ {a}]
      BY <2>2, <3>1 DEF Adds
    <3>4. \A c \in s : s \ {c} \in SUBSET s /\ s \ {c} # s /\ s \ {c} \in B /\ size[c] \in Int
      BY <1>1 DEF Counted
    <3>5. \A c \in s : f[s \ {c}] \in Int /\ size[c] \in Int
                       /\ \A b \in s \ {c} : f[s \ {c}] = size[b] + f[(s \ {c}) \ {b}]
      BY <3>4
    <3>6. \A b, c \in s : b # c => (s \ {b}) \ {c} \in SUBSET s /\ (s \ {b}) \ {c} # s
      OBVIOUS
    <3>7. \A b, c \in s : b # c => f[(s \ {b}) \ {c}] \in Int
      BY <1>1, <3>6
    <3>. HIDE DEF B
    <3>8. f[s] \in Int
      <4>1. f[s \ {a}] \in Int /\ size[a] \in Int
        BY <3>2, <3>5
      <4>. QED
        BY <3>3, <4>1
    <3>9. ASSUME NEW b \in s PROVE f[s] = size[b] + f[s \ {b}]
      <4>1. CASE b = a
        BY <3>3, <4>1
      <4>2. CASE b # a
        <5>1. PICK r : r = (s \ {a}) \ {b}
          OBVIOUS
        <5>2. r = (s \ {b}) \ {a}
          BY <5>1
        <5>3. f[s \ {a}] = size[b] + f[r]
          BY <3>2, <3>5, <4>2, <5>1
        <5>4. f[s \ {b}] = size[a] + f[r]
          BY <3>2, <3>5, <4>2, <5>2
        <5>5. f[r] \in Int /\ size[a] \in Int /\ size[b] \in Int
          BY <3>2, <3>5, <3>7, <4>2, <5>1
        <5>. QED
          BY <3>3, <5>3, <5>4, <5>5
      <4>. QED
        BY <4>1, <4>2
    <3>. QED
      BY <3>8, <3>9
  <2>. QED
    BY <2>1, <2>2
<1>2. SUBSET T \subseteq B
  <2>1. \A s \in SUBSET T : (\A t \in SUBSET s : t # s => t \in B) => s \in B
    BY <1>1
  <2>. HIDE DEF B
  <2>. QED
    BY <2>1, SubsetsByInduction
<1>. QED
  BY <1>2

LEMMA SumFacts ==
  ASSUME NEW T, IsFiniteSet(T), NEW size, Counted(size, T)
  PROVE  /\ SumOf(size, T) \in Int
         /\ T = {} => SumOf(size, T) = 0
         /\ \A b \in T : SumOf(size, T) = size[b] + SumOf(size, T \ {b})
         /\ \A other : (\A b \in T : other[b] = size[b]) => SumOf(other, T) = SumOf(size, T)
<1>1. PICK f : f = CHOOSE g : Adds(size, T, g)
  OBVIOUS
<1>2. Adds(size, T, f) /\ SumOf(size, T) = f[T]
  BY <1>1, FoldExists, SumIsFold
<1>3. /\ f[T] \in Int /\ \A b \in T : f[T] = size[b] + f[T \ {b}]
  BY <1>2, FoldTakesAny
<1>4. T = {} => f[T] = 0
  BY <1>2 DEF Adds
<1>5. ASSUME NEW b \in T PROVE SumOf(size, T \ {b}) = f[T \ {b}]
  <2>1. PICK r : r = T \ {b}
    OBVIOUS
  <2>2. IsFiniteSet(r) /\ r \subseteq T /\ r \in SUBSET r
    BY <2>1, FS_Subset
  <2>3. PICK g : g = CHOOSE h : Adds(size, r, h)
    OBVIOUS
  <2>4. Adds(size, r, g) /\ SumOf(size, r) = g[r]
    BY <2>2, <2>3, FoldExists, SumIsFold
  <2>5. \A s \in SUBSET r : g[s] = f[s]
    <3>1. Adds(size, T, f) /\ Adds(size, r, g) /\ IsFiniteSet(r) /\ r \subseteq T
      BY <1>2, <2>2, <2>4
    <3>. QED
      BY <3>1, FoldsAgree
  <2>. QED
    BY <2>1, <2>2, <2>4, <2>5
<1>6. ASSUME NEW other, \A b \in T : other[b] = size[b]
      PROVE  SumOf(other, T) = f[T]
  <2>1. PICK g : g = CHOOSE h : Adds(other, T, h)
    OBVIOUS
  <2>2. Adds(other, T, g) /\ SumOf(other, T) = g[T]
    BY <2>1, FoldExists, SumIsFold
  <2>3. T \in SUBSET T /\ T \subseteq T
    OBVIOUS
  <2>4. g[T] = f[T]
    BY <1>2, <1>6, <2>2, <2>3, FoldsAgree
  <2>. QED
    BY <2>2, <2>4
<1>. QED
  BY <1>2, <1>3, <1>4, <1>5, <1>6

-----------------------------------------------------------------------------
(* The bytes of the heap.  A sum is over a finite set, so the invariant     *)
(* behind the count says that the heap holds finitely many blocks.          *)
Counting == IsFiniteSet(all_ptrs) /\ BytesAccounted

Uncounted == IF phase = "destroy" THEN all_ptrs \ (marked \cup pending) ELSE {}

LEMMA BytesAreTheSum == BytesAccounted <=> n_allocated_bytes = SumOf(size_of, all_ptrs \ Uncounted)
BY DEF BytesAccounted, SumOf, Uncounted

LEMMA CountingInit == HeapInit => Counting
<1>1. SUFFICES ASSUME HeapInit PROVE Counting
  OBVIOUS
<1>2. all_ptrs \ Uncounted = {} /\ all_ptrs = {} /\ n_allocated_bytes = 0
  BY <1>1 DEF HeapInit, Uncounted
<1>3. IsFiniteSet({})
  BY FS_EmptySet
<1>4. Counted(size_of, {})
  BY DEF Counted
<1>5. SumOf(size_of, {}) = 0
  BY <1>3, <1>4, SumFacts
<1>. QED
  BY <1>2, <1>3, <1>5, BytesAreTheSum DEF Counting

LEMMA CountingNext == HeapIInv /\ Counting /\ [HeapNext]_heapVars => Counting'
<1>1. SUFFICES ASSUME HeapIInv, Counting, [HeapNext]_heapVars PROVE Counting'
  OBVIOUS
<1>2. /\ HeapTypeOK
      /\ phase = "destroy" => pending \cap marked = {}
      /\ IsFiniteSet(all_ptrs)
      /\ n_allocated_bytes = SumOf(size_of, all_ptrs \ Uncounted)
  BY <1>1, BytesAreTheSum DEF HeapIInv, Counting
<1>3. IsFiniteSet(all_ptrs \ Uncounted)
  BY <1>2, FS_Subset
<1>4. \A T \in SUBSET all_ptrs : Counted(size_of, T)
  <2>1. ASSUME NEW b \in all_ptrs PROVE size_of[b] \in Int
    <3>1. size_of[b] \in Sizes \cup {0}
      BY <1>2 DEF HeapTypeOK
    <3>2. \A n \in Sizes : n \in Nat
      BY HeapAssumption
    <3>. QED
      BY <3>1, <3>2
  <2>. QED
    BY <2>1 DEF Counted
<1>5. SUFFICES IsFiniteSet(all_ptrs') /\ n_allocated_bytes' = SumOf(size_of', (all_ptrs \ Uncounted)')
  <2>1. (BytesAccounted <=> n_allocated_bytes = SumOf(size_of, all_ptrs \ Uncounted))'
    BY BytesAreTheSum, PTL
  <2>. QED
    BY <2>1 DEF Counting
<1>6. ASSUME NEW b \in Block, NEW size \in Sizes, NEW rs \in Held, Make(b, size, rs)
      PROVE  IsFiniteSet(all_ptrs') /\ n_allocated_bytes' = SumOf(size_of', (all_ptrs \ Uncounted)')
  <2>1. /\ b \notin all_ptrs /\ all_ptrs' = all_ptrs \cup {b}
        /\ n_allocated_bytes' = n_allocated_bytes + size
        /\ size_of' = [size_of EXCEPT ![b] = size]
        /\ phase = "mutate" /\ phase' = "mutate"
    BY <1>6 DEF Make
  <2>2. all_ptrs \ Uncounted = all_ptrs /\ (all_ptrs \ Uncounted)' = all_ptrs \cup {b}
    BY <2>1 DEF Uncounted
  <2>3. IsFiniteSet(all_ptrs \cup {b})
    BY <1>2, FS_AddElement
  <2>4. size_of'[b] = size /\ (\A c \in all_ptrs : size_of'[c] = size_of[c]) /\ size \in Int
    BY <1>2, <2>1, HeapAssumption DEF HeapTypeOK
  <2>5. Counted(size_of, all_ptrs) /\ Counted(size_of', all_ptrs \cup {b})
    <3>1. Counted(size_of, all_ptrs)
      BY <1>4
    <3>. QED
      BY <2>4, <3>1 DEF Counted
  <2>6. (all_ptrs \cup {b}) \ {b} = all_ptrs
    BY <2>1
  <2>7. SumOf(size_of', all_ptrs \cup {b}) = size + SumOf(size_of', all_ptrs)
    <3>1. SumOf(size_of', all_ptrs \cup {b})
            = size_of'[b] + SumOf(size_of', (all_ptrs \cup {b}) \ {b})
      BY <2>3, <2>5, SumFacts
    <3>. QED
      BY <2>4, <2>6, <3>1
  <2>8. SumOf(size_of', all_ptrs) = SumOf(size_of, all_ptrs) /\ SumOf(size_of, all_ptrs) \in Int
    BY <1>2, <2>4, <2>5, SumFacts
  <2>9. n_allocated_bytes' = size + SumOf(size_of, all_ptrs)
    <3>1. n_allocated_bytes = SumOf(size_of, all_ptrs)
      BY <1>2, <2>2
    <3>. QED
      BY <2>1, <2>4, <2>8, <3>1
  <2>. QED
    BY <2>1, <2>2, <2>3, <2>7, <2>8, <2>9
<1>7. ASSUME NEW b \in pending, Destroy(b)
      PROVE  IsFiniteSet(all_ptrs') /\ n_allocated_bytes' = SumOf(size_of', (all_ptrs \ Uncounted)')
  <2>1. /\ phase = "destroy" /\ phase' = "destroy" /\ pending' = pending \ {b}
        /\ n_allocated_bytes' = n_allocated_bytes - size_of[b]
        /\ all_ptrs' = all_ptrs /\ marked' = marked /\ size_of' = size_of
    BY <1>7 DEF Destroy
  <2> DEFINE T == all_ptrs \ Uncounted
  <2>2. b \in T
    BY <1>2, <2>1 DEF HeapTypeOK, Uncounted
  <2>3. (all_ptrs \ Uncounted)' = T \ {b}
    BY <1>2, <2>1 DEF HeapTypeOK, Uncounted
  <2>4. Counted(size_of, T) /\ Counted(size_of, T \ {b}) /\ IsFiniteSet(T) /\ IsFiniteSet(T \ {b})
    BY <1>3, <1>4, FS_Subset
  <2>5. n_allocated_bytes = SumOf(size_of, T)
    BY <1>2
  <2>. HIDE DEF T
  <2>6. SumOf(size_of, T) = size_of[b] + SumOf(size_of, T \ {b})
    BY <2>2, <2>4, SumFacts
  <2>7. SumOf(size_of, T \ {b}) \in Int /\ size_of[b] \in Int
    BY <2>2, <2>4, SumFacts DEF Counted
  <2>8. n_allocated_bytes' = SumOf(size_of, T \ {b})
    BY <2>1, <2>5, <2>6, <2>7
  <2>. QED
    BY <1>2, <2>1, <2>3, <2>8
<1>8. CASE EndCollect
  <2>1. /\ phase = "destroy" /\ phase' = "mutate" /\ pending = {}
        /\ all_ptrs' = all_ptrs \cap marked
        /\ n_allocated_bytes' = n_allocated_bytes
    BY <1>8 DEF EndCollect
  <2>2. all_ptrs \ Uncounted = all_ptrs' /\ (all_ptrs \ Uncounted)' = all_ptrs'
    BY <2>1 DEF Uncounted
  <2>3. \A b \in all_ptrs' : size_of'[b] = size_of[b]
    BY <1>2, <1>8 DEF EndCollect, HeapTypeOK
  <2>4. IsFiniteSet(all_ptrs') /\ Counted(size_of, all_ptrs')
    BY <1>3, <1>4, <2>1, <2>2
  <2>5. SumOf(size_of', all_ptrs') = SumOf(size_of, all_ptrs')
    BY <2>3, <2>4, SumFacts
  <2>. QED
    BY <1>2, <2>1, <2>2, <2>4, <2>5
<1>9. CASE \/ \E b \in all_ptrs, rs \in Held : StoreRefs(b, rs)
           \/ \E rs \in SUBSET all_ptrs : SetRoots(rs)
           \/ \E b \in all_ptrs : MarkByHand(b)
           \/ BeginCollect
           \/ \E b \in pending : MarkPending(b)
           \/ TraceNext
           \/ BeginSweep
           \/ UNCHANGED heapVars
  <2>1. UNCHANGED <<all_ptrs, n_allocated_bytes, size_of>>
    BY <1>9 DEF StoreRefs, SetRoots, MarkByHand, BeginCollect, MarkPending, TraceNext,
                BeginSweep, heapVars
  <2>2. (all_ptrs \ Uncounted)' = all_ptrs \ Uncounted
    BY <1>9 DEF StoreRefs, SetRoots, MarkByHand, BeginCollect, MarkPending, TraceNext,
                BeginSweep, heapVars, Uncounted
  <2>. QED
    BY <1>2, <2>1, <2>2
<1>. QED
  BY <1>1, <1>6, <1>7, <1>8, <1>9 DEF HeapNext, Mutate, CollectStep

(* The counter that VM::run's growth test reads is, at every step of the    *)
(* program and of a collection, the sum of the sizes of the blocks that     *)
(* exist and have not been given back (GC_heap::make, memory.hpp:124-134,   *)
(* and collect_garbage, memory.cpp:39).                                     *)
THEOREM HeapBytesAccounted == HeapSpec => []BytesAccounted
<1>1. Counting => BytesAccounted
  BY DEF Counting
<1>. QED
  BY CountingInit, CountingNext, HeapInvariant, <1>1, PTL DEF HeapSpec
=============================================================================
