------------------------------- MODULE GcHeap -------------------------------
(***************************************************************************)
(* GC_heap of src/memory.hpp and src/memory.cpp: a precise mark-and-sweep  *)
(* collector.  `make' appends a control block, `mark' sets its flag and    *)
(* queues it, and `collect_garbage' runs the root callbacks, empties the   *)
(* gray worklist, runs the destroy callbacks, erases what is unmarked and  *)
(* clears the marks.                                                       *)
(*                                                                         *)
(* Addresses are reused: `make' may return the address of a block that an  *)
(* earlier collection erased.  A collection is split at every call it      *)
(* makes into code the heap does not own (a root callback's `mark', a      *)
(* `trace_refs', a destroy callback), because that is where the rest of    *)
(* the program sees its intermediate states.                               *)
(***************************************************************************)
EXTENDS Integers, Sequences, FiniteSets, FiniteSetsExt, Reachability

CONSTANTS
  Block,          \* addresses a control block can have
  Sizes,          \* values of control_block->size()
  MaxRefs         \* bound: pointers held by one value

ASSUME HeapAssumption == Sizes \subseteq Nat \ {0} /\ MaxRefs \in Nat

VARIABLES
  all_ptrs,           \* blocks owned by the heap
  marked,             \* blocks whose `marked' flag is set
  gray_worklist,      \* marked blocks whose references are not traced yet
  n_allocated_bytes,
  size_of,            \* size_of[b]: control_block->size() of the block at b
  refs,               \* refs[b]: the pointers trace_refs of b marks
  roots,              \* the pointers the on_mark_roots callbacks mark
  phase,              \* where collect_garbage is: see Phases
  pending,            \* what the running loop of collect_garbage has left
  pinned              \* history: blocks marked outside of a collection

heapVars == <<all_ptrs, marked, gray_worklist, n_allocated_bytes, size_of,
              refs, roots, phase, pending, pinned>>

(* "mutate": no collection runs.  "mark": the calls of mark that the        *)
(* current callback still has to make are in pending.  "destroy": the       *)
(* unmarked blocks whose destroy callbacks have not run are in pending.     *)
Phases == {"mutate", "mark", "destroy"}

Gray == {gray_worklist[i] : i \in 1..Len(gray_worklist)}

(* The type invariant.  The collector only ever handles blocks it still     *)
(* owns: a mark, a gray entry or a block under destruction is in all_ptrs_. *)
HeapTypeOK ==
  /\ all_ptrs \subseteq Block
  /\ marked \subseteq all_ptrs
  /\ gray_worklist \in Seq(all_ptrs)
  /\ n_allocated_bytes \in Int
  /\ size_of \in [Block -> Sizes \cup {0}]
  /\ refs \in [Block -> SUBSET Block]
  /\ roots \subseteq Block
  /\ phase \in Phases
  /\ pending \subseteq all_ptrs
  /\ pinned \subseteq all_ptrs

HeapInit ==
  /\ all_ptrs = {}
  /\ marked = {}
  /\ gray_worklist = <<>>
  /\ n_allocated_bytes = 0
  /\ size_of = [b \in Block |-> 0]
  /\ refs = [b \in Block |-> {}]
  /\ roots = {}
  /\ phase = "mutate"
  /\ pending = {}
  /\ pinned = {}

-----------------------------------------------------------------------------
(* What the owner of the heap does between two collections.  It can hold a  *)
(* pointer to any block that exists, rooted or not: the C++ locals of the   *)
(* virtual machine and the compiler do.                                     *)

Held == {rs \in SUBSET all_ptrs : Cardinality(rs) <= MaxRefs}

Make(b, size, rs) ==
  /\ phase = "mutate"
  /\ b \notin all_ptrs
  /\ all_ptrs' = all_ptrs \cup {b}
  /\ n_allocated_bytes' = n_allocated_bytes + size
  /\ size_of' = [size_of EXCEPT ![b] = size]
  /\ refs' = [refs EXCEPT ![b] = rs]
  /\ UNCHANGED <<marked, gray_worklist, roots, phase, pending, pinned>>

StoreRefs(b, rs) ==
  /\ phase = "mutate"
  /\ b \in all_ptrs
  /\ refs' = [refs EXCEPT ![b] = rs]
  /\ UNCHANGED <<all_ptrs, marked, gray_worklist, n_allocated_bytes, size_of,
                 roots, phase, pending, pinned>>

SetRoots(rs) ==
  /\ phase = "mutate"
  /\ roots' = rs
  /\ UNCHANGED <<all_ptrs, marked, gray_worklist, n_allocated_bytes, size_of,
                 refs, phase, pending, pinned>>

(* Mutant: the flag is not looked at. *)
MarkAlways(b) ==
  /\ marked' = marked \cup {b}
  /\ gray_worklist' = Append(gray_worklist, b)

(* GC_heap::mark: the flag keeps a block from being queued twice. *)
Mark(b) ==
  IF b \in marked
  THEN UNCHANGED <<marked, gray_worklist>>
  ELSE /\ marked' = marked \cup {b}
       /\ gray_worklist' = Append(gray_worklist, b)

(* `mark' is public, and may be called with no collection running. *)
MarkByHand(b) ==
  /\ phase = "mutate"
  /\ b \in all_ptrs
  /\ Mark(b)
  /\ pinned' = pinned \cup {b}
  /\ UNCHANGED <<all_ptrs, n_allocated_bytes, size_of, refs, roots, phase,
                 pending>>

-----------------------------------------------------------------------------
(* collect_garbage, one action per loop iteration. *)

(* Mutant: no root callback is called. *)
BeginCollectWithoutRoots ==
  /\ phase = "mutate"
  /\ phase' = "mark"
  /\ UNCHANGED <<all_ptrs, marked, gray_worklist, n_allocated_bytes, size_of,
                 refs, roots, pending, pinned>>

BeginCollect ==
  /\ phase = "mutate"
  /\ phase' = "mark"
  /\ pending' = roots
  /\ UNCHANGED <<all_ptrs, marked, gray_worklist, n_allocated_bytes, size_of,
                 refs, roots, pinned>>

(* One call of mark by the root callback or the trace_refs that runs. *)
MarkPending(b) ==
  /\ phase = "mark"
  /\ b \in pending
  /\ Mark(b)
  /\ pending' = pending \ {b}
  /\ UNCHANGED <<all_ptrs, n_allocated_bytes, size_of, refs, roots, phase,
                 pinned>>

(* Mutant: trace_refs is not called. *)
TraceNothing ==
  /\ phase = "mark"
  /\ pending = {}
  /\ gray_worklist # <<>>
  /\ gray_worklist' = SubSeq(gray_worklist, 1, Len(gray_worklist) - 1)
  /\ UNCHANGED <<all_ptrs, marked, n_allocated_bytes, size_of, refs, roots,
                 phase, pending, pinned>>

(* gray_worklist_.back(), pop_back, and the call of its trace_refs. *)
TraceNext ==
  /\ phase = "mark"
  /\ pending = {}
  /\ gray_worklist # <<>>
  /\ pending' = refs[gray_worklist[Len(gray_worklist)]]
  /\ gray_worklist' = SubSeq(gray_worklist, 1, Len(gray_worklist) - 1)
  /\ UNCHANGED <<all_ptrs, marked, n_allocated_bytes, size_of, refs, roots,
                 phase, pinned>>

(* Mutant: the sweep does not wait for the worklist. *)
BeginSweepEarly ==
  /\ phase = "mark"
  /\ pending = {}
  /\ phase' = "destroy"
  /\ pending' = all_ptrs \ marked
  /\ UNCHANGED <<all_ptrs, marked, gray_worklist, n_allocated_bytes, size_of,
                 refs, roots, pinned>>

(* The worklist is empty: partition off the unmarked blocks. *)
BeginSweep ==
  /\ phase = "mark"
  /\ pending = {}
  /\ gray_worklist = <<>>
  /\ phase' = "destroy"
  /\ pending' = all_ptrs \ marked
  /\ UNCHANGED <<all_ptrs, marked, gray_worklist, n_allocated_bytes, size_of,
                 refs, roots, pinned>>

(* Mutant: the bytes are not given back. *)
DestroyKeepingBytes(b) ==
  /\ phase = "destroy"
  /\ b \in pending
  /\ pending' = pending \ {b}
  /\ UNCHANGED <<all_ptrs, marked, gray_worklist, n_allocated_bytes, size_of,
                 refs, roots, phase, pinned>>

(* The destroy callbacks of one unmarked block, and its bytes given back. *)
Destroy(b) ==
  /\ phase = "destroy"
  /\ b \in pending
  /\ pending' = pending \ {b}
  /\ n_allocated_bytes' = n_allocated_bytes - size_of[b]
  /\ UNCHANGED <<all_ptrs, marked, gray_worklist, size_of, refs, roots, phase,
                 pinned>>

(* Mutant: the marks are not cleared. *)
EndCollectKeepingMarks ==
  /\ phase = "destroy"
  /\ pending = {}
  /\ all_ptrs' = all_ptrs \cap marked
  /\ refs' = [b \in Block |-> IF b \in all_ptrs' THEN refs[b] ELSE {}]
  /\ size_of' = [b \in Block |-> IF b \in all_ptrs' THEN size_of[b] ELSE 0]
  /\ pinned' = {}
  /\ phase' = "mutate"
  /\ UNCHANGED <<marked, gray_worklist, n_allocated_bytes, roots, pending>>

(* Erase the unmarked blocks, then clear the marks of the others. *)
EndCollect ==
  /\ phase = "destroy"
  /\ pending = {}
  /\ all_ptrs' = all_ptrs \cap marked
  /\ refs' = [b \in Block |-> IF b \in all_ptrs' THEN refs[b] ELSE {}]
  /\ size_of' = [b \in Block |-> IF b \in all_ptrs' THEN size_of[b] ELSE 0]
  /\ marked' = {}
  /\ pinned' = {}
  /\ phase' = "mutate"
  /\ UNCHANGED <<gray_worklist, n_allocated_bytes, roots, pending>>

Mutate ==
  \/ \E b \in Block, size \in Sizes, rs \in Held : Make(b, size, rs)
  \/ \E b \in all_ptrs, rs \in Held : StoreRefs(b, rs)
  \/ \E rs \in SUBSET all_ptrs : SetRoots(rs)
  \/ \E b \in all_ptrs : MarkByHand(b)

(* The steps of a collection that has begun. *)
CollectStep ==
  \/ \E b \in pending : MarkPending(b)
  \/ TraceNext
  \/ BeginSweep
  \/ \E b \in pending : Destroy(b)
  \/ EndCollect

HeapNext == Mutate \/ BeginCollect \/ CollectStep

HeapSpec == HeapInit /\ [][HeapNext]_heapVars

(* collect_garbage runs to its end on one thread, between two instructions. *)
FairHeapSpec == HeapSpec /\ WF_heapVars(CollectStep)

-----------------------------------------------------------------------------
(* The blocks a collection must keep. *)
Kept == ReachableFrom(all_ptrs, refs, roots \cup pinned)

(* No pointer that a root or a block of the heap holds outlives its target: *)
(* whatever order a collection ran in, the value of a block that survived   *)
(* points to blocks that survived (collect_garbage, memory.cpp:17-46).      *)
NoDangling ==
  /\ roots \subseteq all_ptrs
  /\ \A b \in all_ptrs : refs[b] \subseteq all_ptrs

(* While marking, a block that left the gray worklist has no pointer to an  *)
(* unmarked block other than those its running trace_refs still has to mark *)
(* (the invariant behind the worklist loop, memory.cpp:24-30), and nothing  *)
(* unreachable has been marked.                                             *)
TriColor ==
  phase = "mark" =>
    /\ roots \cup pinned \subseteq marked \cup pending
    /\ \A b \in marked \ Gray : refs[b] \subseteq marked \cup pending
    /\ marked \cup pending \subseteq Kept

(* When the sweep starts the marks are exact: everything reachable from the *)
(* roots or from a block marked by hand is marked, and nothing else is, so  *)
(* cyclic garbage does not survive either (memory.cpp:33-41).               *)
SweepExact == phase = "destroy" => gray_worklist = <<>> /\ marked = Kept

(* The worklist never holds a block twice, so its length is bounded by the  *)
(* number of blocks even on shared and cyclic structures (memory.cpp:9-14). *)
QueuedOnce ==
  \A i, j \in 1..Len(gray_worklist) :
    gray_worklist[i] = gray_worklist[j] => i = j

(* n_allocated_bytes_ is the sum of the sizes of the blocks that exist and  *)
(* have not been given back yet; the unsigned counter never wraps, so the   *)
(* growth test of VM::run compares what it means to (memory.cpp:39).        *)
BytesAccounted ==
  LET destroyed == IF phase = "destroy" THEN all_ptrs \ (marked \cup pending) ELSE {}
  IN n_allocated_bytes = MapThenSumSet(LAMBDA b : size_of[b], all_ptrs \ destroyed)

(* The inductive invariant behind the theorems of GcHeapProofs. *)
HeapIInv ==
  /\ HeapTypeOK
  /\ NoDangling
  /\ pinned \cup Gray \subseteq marked
  /\ phase = "mutate" => pending = {} /\ marked = Gray /\ pinned = Gray
  /\ TriColor
  /\ SweepExact
  /\ phase = "destroy" => pending \cap marked = {}
  /\ QueuedOnce

(* The heap implements its contract: allocation, stores and hand marks are  *)
(* the contract's, EndCollect is its atomic Collect, and the other steps of *)
(* a collection cannot be observed (GC_heap, memory.hpp:104-145).            *)
Contract == INSTANCE HeapContract
  WITH live <- all_ptrs, edges <- refs, anchors <- roots, pins <- pinned

ImplementsContract == Contract!ContractSpec

(* A collection that begins ends: the worklist empties on any graph, cyclic *)
(* or shared (the while loop of memory.cpp:24-30).                          *)
CollectionEnds == phase # "mutate" ~> phase = "mutate"
=============================================================================
