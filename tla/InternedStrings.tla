--------------------------- MODULE InternedStrings ---------------------------
(***************************************************************************)
(* Interned_strings of src/interned_strings.cpp, composed with the heap it *)
(* allocates from.  The table is weak: it does not keep its strings alive, *)
(* and learns that one is about to be erased from the heap's destroy       *)
(* callback.  The rest of the program compares strings by address (the     *)
(* globals, the fields, the methods, string ==), and the keys of           *)
(* strings_by_chars_ are views into the strings themselves.                *)
(***************************************************************************)
EXTENDS GcHeap

CONSTANTS
  Chars,         \* contents a string can have
  NotAString,    \* "contents" of a block that is not a string
  Null           \* no entry

ASSUME StringsAssumption == NotAString \notin Chars /\ Null \notin Block

VARIABLES
  chars,              \* chars[b]: the contents of the string at b
  strings_by_chars,   \* the table get searches
  strings_by_ptr      \* the table the destroy callback searches

tableVars == <<chars, strings_by_chars, strings_by_ptr>>
stringsVars == <<heapVars, tableVars>>

StringsInit ==
  /\ HeapInit
  /\ chars = [b \in Block |-> NotAString]
  /\ strings_by_chars = [c \in Chars |-> Null]
  /\ strings_by_ptr = [b \in Block |-> Null]

(* get: a string with these contents that the table knows is returned as   *)
(* it is.                                                                  *)
GetKnown(c) ==
  /\ phase = "mutate"
  /\ strings_by_chars[c] # Null
  /\ UNCHANGED stringsVars

(* Mutant: the table is not searched. *)
GetNewUnsearched(c, b, size) ==
  /\ Make(b, size, {})
  /\ chars' = [chars EXCEPT ![b] = c]
  /\ strings_by_chars' = [strings_by_chars EXCEPT ![c] = b]
  /\ strings_by_ptr' = [strings_by_ptr EXCEPT ![b] = b]

(* get: otherwise one is made at b, and recorded in both tables.  A string *)
(* holds no pointer.                                                       *)
GetNew(c, b, size) ==
  /\ strings_by_chars[c] = Null
  /\ Make(b, size, {})
  /\ chars' = [chars EXCEPT ![b] = c]
  /\ strings_by_chars' = [strings_by_chars EXCEPT ![c] = b]
  /\ strings_by_ptr' = [strings_by_ptr EXCEPT ![b] = b]

(* Mutants: the callback does nothing; it leaves the address. *)
OnDestroyNothing(b) == UNCHANGED <<strings_by_chars, strings_by_ptr>>
OnDestroyKeepingAddress(b) ==
  /\ strings_by_chars' =
       IF strings_by_ptr[b] = Null THEN strings_by_chars
       ELSE [strings_by_chars EXCEPT ![chars[strings_by_ptr[b]]] = Null]
  /\ UNCHANGED strings_by_ptr

(* The destroy callback: forget the contents, then the address. *)
OnDestroy(b) ==
  /\ strings_by_chars' =
       IF strings_by_ptr[b] = Null THEN strings_by_chars
       ELSE [strings_by_chars EXCEPT ![chars[strings_by_ptr[b]]] = Null]
  /\ strings_by_ptr' = [strings_by_ptr EXCEPT ![b] = Null]

DestroyAndForget(b) ==
  /\ Destroy(b)
  /\ OnDestroy(b)
  /\ UNCHANGED chars

(* With the blocks, their contents go. *)
EndCollectStrings ==
  /\ EndCollect
  /\ chars' = [b \in Block |-> IF b \in all_ptrs' THEN chars[b] ELSE NotAString]
  /\ UNCHANGED <<strings_by_chars, strings_by_ptr>>

(* Objects that are not strings. *)
MakeObject(b, size, rs) ==
  /\ Make(b, size, rs)
  /\ UNCHANGED tableVars

StoreInObject(b, rs) ==
  /\ chars[b] = NotAString
  /\ StoreRefs(b, rs)
  /\ UNCHANGED tableVars

OtherHeapStep ==
  /\ \/ \E rs \in SUBSET all_ptrs : SetRoots(rs)
     \/ \E b \in all_ptrs : MarkByHand(b)
     \/ BeginCollect
     \/ \E b \in pending : MarkPending(b)
     \/ TraceNext
     \/ BeginSweep
  /\ UNCHANGED tableVars

StringsNext ==
  \/ \E c \in Chars : GetKnown(c)
  \/ \E c \in Chars, b \in Block, size \in Sizes : GetNew(c, b, size)
  \/ \E b \in Block, size \in Sizes, rs \in Held : MakeObject(b, size, rs)
  \/ \E b \in all_ptrs, rs \in Held : StoreInObject(b, rs)
  \/ \E b \in pending : DestroyAndForget(b)
  \/ EndCollectStrings
  \/ OtherHeapStep

StringsSpec == StringsInit /\ [][StringsNext]_stringsVars

-----------------------------------------------------------------------------
(* Blocks whose destroy callbacks have run and that are still allocated. *)
Destroyed == IF phase = "destroy" THEN all_ptrs \ (marked \cup pending) ELSE {}

Strings == {b \in all_ptrs \ Destroyed : chars[b] # NotAString}

(* The type invariant: the tables only name blocks the heap still owns, and *)
(* only those have contents.                                                *)
StringsTypeOK ==
  /\ chars \in [Block -> Chars \cup {NotAString}]
  /\ strings_by_chars \in [Chars -> all_ptrs \cup {Null}]
  /\ strings_by_ptr \in [Block -> all_ptrs \cup {Null}]
  /\ \A b \in Block \ all_ptrs : chars[b] = NotAString

(* The weak table never outlives its strings: both tables describe exactly *)
(* the strings that exist, at every point of a collection, so get never    *)
(* returns an erased string, no key of strings_by_chars_ is a view into    *)
(* freed memory, and an address reused by another type of object is not    *)
(* mistaken for the old string (interned_strings.cpp:8-14, 29-37).         *)
TableExact ==
  /\ \A c \in Chars : strings_by_chars[c] # Null =>
       strings_by_chars[c] \in Strings /\ chars[strings_by_chars[c]] = c
  /\ \A b \in Block : strings_by_ptr[b] = IF b \in Strings THEN b ELSE Null

(* Equal contents are the same address: comparing strings by pointer is    *)
(* comparing their characters, also for strings made before and after      *)
(* collections (value.cpp, vm.cpp:301 and every map keyed by GC_ptr).      *)
CanonicalPointer ==
  /\ \A s, t \in Strings : chars[s] = chars[t] => s = t
  /\ \A s \in Strings : strings_by_chars[chars[s]] = s

(* The inductive invariant behind the theorems of GcHeapProofs. *)
StringsIInv ==
  /\ HeapIInv
  /\ StringsTypeOK
  /\ TableExact
  /\ CanonicalPointer
=============================================================================
