---------------------------- MODULE HeapContract ----------------------------
(***************************************************************************)
(* What GC_heap promises to the code that owns the pointers, with no marks *)
(* and no worklist: a block stays where it is until a collection, and one  *)
(* collection removes, in one step, every block that can be reached        *)
(* neither from the roots nor from a block its owner marked by hand.       *)
(***************************************************************************)
EXTENDS Reachability

CONSTANT Block       \* addresses a control block can have

VARIABLES
  live,              \* blocks that exist
  edges,             \* edges[b]: blocks the value of b points to
  anchors,           \* blocks the on_mark_roots callbacks mark
  pins               \* blocks marked by hand since the last collection

contractVars == <<live, edges, anchors, pins>>

ContractInit ==
  /\ live = {}
  /\ edges = [b \in Block |-> {}]
  /\ anchors = {}
  /\ pins = {}

(* A new block at an address nothing lives at, holding pointers to others. *)
Allocate(b, rs) ==
  /\ b \notin live
  /\ live' = live \cup {b}
  /\ edges' = [edges EXCEPT ![b] = rs]
  /\ UNCHANGED <<anchors, pins>>

(* The owner of a block stores pointers into its value. *)
Store(b, rs) ==
  /\ b \in live
  /\ edges' = [edges EXCEPT ![b] = rs]
  /\ UNCHANGED <<live, anchors, pins>>

Anchor(rs) ==
  /\ anchors' = rs
  /\ UNCHANGED <<live, edges, pins>>

Pin(b) ==
  /\ pins' = pins \cup {b}
  /\ UNCHANGED <<live, edges, anchors>>

Collect ==
  /\ live' = ReachableFrom(live, edges, anchors \cup pins)
  /\ edges' = [b \in Block |-> IF b \in live' THEN edges[b] ELSE {}]
  /\ pins' = {}
  /\ UNCHANGED anchors

ContractNext ==
  \/ \E b \in Block, rs \in SUBSET live : Allocate(b, rs) \/ Store(b, rs)
  \/ \E rs \in SUBSET live : Anchor(rs)
  \/ \E b \in live : Pin(b)
  \/ Collect

ContractSpec == ContractInit /\ [][ContractNext]_contractVars
=============================================================================
