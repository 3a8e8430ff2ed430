# cpplox, specified in TLA+

cpplox compiles Lox source to bytecode in one pass and runs it on a stack
machine, on one thread. There is no concurrency and nothing is persisted. What
is hard is the interplay of parts over long legal sequences of operations: a
collector that may run after any instruction, upvalues shared by closures whose
variables come and go, a compiler and a machine that must agree on where every
local is without ever telling each other, and a session in which a failed line
is followed by the next one.

## Inventory

| component | source (under `src/src/`) | state | operations | what makes it correct |
|---|---|---|---|---|
| garbage-collected heap | `memory.*` | blocks, marks, gray worklist, byte count | `make`, `mark`, `collect_garbage`, callbacks for roots and destruction | frees what is unreachable and nothing else; ends; counts bytes |
| interned strings | `interned_strings.*` | two weak tables over the heap | `get`, destroy callback | equal contents are one address; no entry outlives its string |
| closures and upvalues | `object.*`, `vm.cpp` | closures with captured and open upvalues | `closure`, `close_upvalue`, `return_`, get/set | closures share variables, values survive scopes |
| value stack and calls | `vm.*` | `stack_`, `call_frames_`, `globals_` | instructions, `call`, `return_` | operands address the right slots |
| compiler: names | `compiler.cpp` | tracked locals and upvalues per function, scope depth | declarations, uses, ends of scopes | lexical scoping |
| compiler: control flow | `compiler.cpp` | unpatched jumps | if, for, while, and, or | both ways through a branch leave the same stack |
| chunk | `chunk.*` | bytecode, constants, source tokens | `emit...`, `insert_constant`, jump patches | indexes and distances mean what they meant when emitted |
| classes | `object.*`, `vm.cpp` | methods, fields, bound methods | `class_`, `inherit`, `method`, property access, calls | lookup order, `this` in slot 0 |
| values | `value.*`, `vm.cpp` | none | arithmetic, comparison, printing | IEEE and Lox rules |
| scanner | `scanner.*` | position in the source | token iterator | maximal munch, line numbers |
| command line and prompt | `lox.*`, `main.cpp` | a heap, a table, a machine | `run_file`, `run_prompt` | an error ends a line, not the session |

How they interact: the machine and the string table register callbacks with the
heap (`on_mark_roots`, `on_destroy_ptr`), and the heap calls them in the middle
of a collection. The objects tell the heap what they point to by `trace_refs`.
An open upvalue reads and writes the machine's stack by index. The compiler
hands the machine slot numbers and upvalue indexes. Two scripts of a session
share the heap, the globals and the stack.

The chunk is where the compiler and the machine meet: the one patches jumps it
emitted long before, the other trusts every byte.

`PROJECT.json` lists the hazards at their lines. Most are sequences: a second
call of the same closure, a collection between a capture and a return, a name
declared twice, a line after a failed line, a jump patched after everything it
skips was compiled, a class that only its instances still hold.

## Modules

| module | models |
|---|---|
| `Reachability` | what tracing must keep, with no tracing order; used by the heap and by `Classes` |
| `HeapContract` | abstract heap: one atomic `Collect` |
| `GcHeap` | the collector, one action per loop iteration; implements `HeapContract` |
| `InternedStrings` | the string tables composed with `GcHeap` |
| `Closures` | stack, frames, upvalues, calls, collection between instructions, session |
| `LexicalScopes` | abstract scoping: a name means its innermost declaration |
| `CompilerScopes` | the compiler's name resolution; implements `LexicalScopes` |
| `Chunk` | bytecode, constant table, jump patches, narrowing: operators from a chunk to a chunk |
| `SyntaxNodes`, `StructuredFlow` | abstract control flow: the order of a text's operations, with no bytecode and no jump |
| `ControlFlow` | the compiler's expressions and statements over `Chunk`, and the machine's loop; implements `StructuredFlow` |
| `MethodResolution` | abstract classes: lookup along superclasses, with no tables and no stack |
| `Classes` | classes, instances, bound methods, calls, `super`, and the collector; implements `MethodResolution` |
| `ReachabilityProofs`, `GcHeapProofs` (also of `InternedStrings`), `ChunkProofs`, `ControlFlowProofs`, `RunningCodeProofs`, `ClassesProofs` (also of `MethodResolution`), `ClosuresProofs`, `CompilerScopesProofs` | theorems |
| `MCGcHeap`, `MCInternedStrings`, `MCClasses` | symmetry sets for TLC |
| `MCControlFlow` | the families of texts, and the properties of `ControlFlow` that need `StructuredFlow`, whose recursive operators the proofs may not reach |

**GcHeap.** `marked`, `gray_worklist`, `n_allocated_bytes` and `all_ptrs` are the
class's fields. A collection is cut where the heap calls foreign code: each
`mark` of a callback, each `trace_refs`, each destroy callback. `pending` is what
the running loop has left. The order in which a root callback marks and in which
blocks are destroyed is free. `pinned` is history: `mark` is public, and a block
marked outside a collection survives the next one.

**InternedStrings.** Every heap step happens together with the table's callback,
so a step of it is a step of `GcHeap`. Strings and other objects share addresses;
an address erased by one collection may be reused by anything.

**Closures.** The instructions come in any order that compiled code can issue
them: a frame remembers how many locals the compiler tracks and how many operands
it pushed (`locals`, `temps`), and an instruction is possible when the compiler
could have emitted it there. A branch is the choice of the next instruction. What
each upvalue and each closure *means* is history (`var`, `vars`): a variable in
scope is named by its slot, one out of scope by an upvalue that held it. A value
is a closure or "plain". `std::bad_variant_access` and `std::out_of_range` are
modelled as outcomes (`crashed`) wherever the code can raise them; a Lox runtime
error may happen at any instruction. The collector is allowed to run when one of
the two kinds of objects has no room left.

**CompilerScopes.** A step is a piece of source that declares or uses a name, or
opens or closes a construct; `nesting` is the recursive descent's call stack.
`emitted` holds the variable instructions of the last step; a `pop` carries the
local it is for. A variable's identity is its position among the names in scope,
so no declaration needs an artificial number, and the refinement mapping is:
`env` is all tracked names in order, `marks` where the open constructs began,
`used` the position the emitted instruction reaches by following the chain of
upvalues as the machine does.

**Chunk.** A chunk is a value and an emit function an operator on it. A byte is
below `ByteValues` (256 in the code) and keeps, beside its value, whether it was
emitted as an opcode or as an operand: the code does not, which is why it matters
that nothing ever reads one as the other (`CodeSound`). `gsl::narrow` throws; the
chunk is then unwound with the compiler, so `narrowing_error` is all that is kept.

**ControlFlow.** One unit of code: a script, a function or an initializer. Each
compile function is a step at its beginning and one wherever it goes on after a
compile function it called; `nesting` is the stack of the functions that wait,
with the jumps they still have to patch and the indexes they will loop to. The
text is chosen while it is read, so the run compiles every text of a family. Then
the machine runs the code; a value is its truth, which is all a jump looks at.
`StructuredFlow` takes the text apart at its loosest operator and its statements
by their nodes, and says which operation follows which; the refinement mapping
skips the instructions that only arrange the stack (`pop`, jumps). Each operation
carries the token it is reported at, so a wrong source map is caught too.
Left out: strings (like numbers), `this` and `super` (see `CompilerScopes`), and
the call of a call's result: both calls are reported at one token, so the abstract
order could not tell them apart.

**Classes.** The stack, the frames, the globals and the objects of the virtual
machine, with the instructions in any order that compiled code can issue them. The
superclasses and the methods as they are written are kept as history (`declared`),
and the function a closure was made of; the instructions read tables and slots
only. `std::get` on the wrong alternative is an outcome (`crashed`). The class of a
method's `super` is whatever its closure captured from the slot below the class.
The refinement mapping forgets tables and stack: a class is its declaration, an
activation is the object in slot 0 and the function of the frame's closure. Calls
keep of their arguments whether they are as many as the arity asks for; their
slots are the subject of `Closures`.

Definitions named *Mutant* change one operation the way a bug would. No
specification uses them; they show that each property can fail.

## Runs

| run | bounds | states | shows |
|---|---|---|---|
| `GcHeapSafety` | 3 blocks, 2 pointers each, 2 sizes, symmetry | 0.7 M | collector safe, exact, implements its contract |
| `GcHeapLiveness` | 3 blocks, 1 pointer | 81 k | a collection ends, on cycles too |
| `InternedStrings` | 3 addresses, 2 contents, symmetry | 26 k | tables exact, pointers canonical |
| `Closures` | 3 slots, 2 frames, functions of no or one parameter, 3 closures, 2 upvalues, 2 captures, 1 runtime error | 0.8 M | slots, sharing, sorted open lists, no crash, nothing freed in use, values kept |
| `ClosuresSession` | 2 scripts, a global, 4 slots, 4 frames, 3 closures | 0.3 M | sharing, nothing freed in use and values kept, from one script to the next and in recursive calls |
| `CompilerScopes` | 2 names, 3 functions, 2 locals each, 3 open constructs | 98 k | lexical scoping, one upvalue per variable, captured locals closed |
| `ControlFlow` | five families of texts of 4 to 13 tokens, up to 6 operators, 2 statements per list, bytes of 6 values, one name | 0.5 M | sound code, the stack the compiler counts on, operands that mean their source, the order of the text |
| `Classes` | 7 objects, 3 classes, 2 methods in all, names `init` and `m`, field `m`, 2 variables, 2 frames, 1 operand, symmetry | 0.2 M | method resolution, `this`, construction, complete tables, nothing freed in use, no crash |
| `ClosuresReentry` | closures may be called again | violation | finding 1 |
| `ClosuresAnonymous` | function expressions | violation | finding 2 |
| `ClosuresRepl` | a script after a runtime error | violation | finding 3 |
| `CompilerShadowing` | a name twice in one function | violation | finding 4 |

Why the bounds are enough. Three blocks give shared, cyclic, reachable and
unreachable garbage at once, and an erased address that is reused. Two frames and
three closures give a script, a function that captures and a closure made inside
it that captures again through it; three slots hold two captured locals, in either
order of capture, and the closure. A call takes a slot for the callee and one per
parameter, and a return one more for its result. The four frames of the session
are a script, a function, a closure made in it and that closure's recursive call;
the four slots are the three callees and the result of the last call. In the run
that call reads and assigns the variable of the function around it, both while
that function runs and, called from a later script, after it returned; it is
collected around, and returns. Functions with a parameter are in `Closures`,
without recursion. No passing run has a function that captures its own variables
and calls itself (the last sentence of finding 1). Three functions are what an
indirect capture needs. Deadlock is not checked: the bounds stop the machine, and
a session, a compilation and a mutator may stop.

In `ControlFlow` (`MCUnits`) the bounds are tokens, operators and list lengths of
each family: three nested operators, an `if` in a loop in a block, a `for` with and
without each of its parts. A byte of six values makes the limit of indexes real:
the last family has texts with more constants than that. No text of a run is long
enough for the limit of a jump's two bytes; the theorems about `Chunk` cover it, for
any `ByteValues`. `Names` has one name because names are only compared.

In `Classes`, three classes are what tells `super` from the class of the object;
two methods give an overridden, an inherited and an initializing one. `NObjects`
is enough for three classes, two methods, an instance and a bound method. Bounds
that shorten the run: `MaxGarbage`, the objects nothing reaches at the moment one
is made (0: garbage is collected before; otherwise a collection happens at any
instruction); `MaxFree`, the number of classes of a script up to which variables
are assigned and methods read them (with more, only the lookup is of interest);
what is assigned is nil; classes are declared at the top level before the first
instance; a property is set on `this` or on a variable. Other limits only cap
counters: `MaxClasses`, `MaxMethods`, `MaxFrames`, `MaxTemps`, `Fields`.

Two constants of the passing runs exclude known defects, and the violation runs
lift them one at a time: `ReenterCapturing = FALSE` (no call of a closure whose
open list is not empty, and no direct capture by a closure that another activation
below is running too), `ShadowInFunction = FALSE`. `AnonymousFunctions = FALSE`
keeps function expressions out of `Closures`. A runtime error ends the only script
of `Closures`, and `ClosuresSession` has none. Open upvalues that a failed line
leaves behind are in no run: they need the stack it leaves behind, finding 3.

Fairness. The only liveness property is `CollectionEnds`, under weak fairness of
`CollectStep`: `collect_garbage` runs to its end on the one thread there is.
Nothing is assumed of the steps before it.

## Findings

1. `return_` (vm.cpp:535) closes the open list and does not clear it. The next
   call of that closure finds closed upvalues in it, and asking one for its slot
   throws `std::bad_variant_access`, which `run_prompt` does not catch. The list
   (vm.cpp:71) also belongs to the closure and not to the activation, so the return
   of a recursive call closes upvalues of the outer one, which from then on has
   another copy of the variable than its closures: `SharedVariables` fails in
   `ClosuresReentry.cfg` with `MaxFrames = 3`.
2. A function expression (compiler.cpp:244) does not track the callee's slot; its
   parameters and locals are off by one.
3. After a runtime error (lox.cpp:48) the stack keeps the failed line's values;
   the next line's locals address those.
4. `track_upvalue` (compiler.cpp:170) finds the outermost of several locals with
   one name; direct accesses find the innermost.

## Proofs

`GcHeapProofs` proves, for any set of blocks, any sizes and any `MaxRefs`:
`HeapTypeOK`, `NoDangling`, `TriColor`, `SweepExact`, `QueuedOnce`, and that
`GcHeap` implements `HeapContract`, and `BytesAccounted`. None is inductive alone. `HeapIInv`, a theorem
of its own, adds to their conjunction that hand-marked and gray blocks are marked, that between
collections the marks are exactly the gray and the pinned blocks, and that no
block under destruction is marked. The core is tri-color: when the worklist and
`pending` are empty, `marked` contains the roots, is closed under references and
is contained in what is reachable, so it *is* what is reachable
(`ReachableUnique`). Refinement: `EndCollect` maps to `Collect`, every other
step of a collection to a stutter. The counter of bytes is compared with a sum over
the blocks, a fold. `SumFacts` says what a fold over a finite set does when one
element comes or goes; it follows by well-founded induction on the subsets of the
set (`SubsetsByInduction`, `FoldExists`, `FoldTakesAny`). The inductive invariant,
`Counting`, is that the blocks are finitely many and the counter is their sum, and
rests on `HeapIInv`: only a block that still counts is destroyed.

`GcHeapProofs` also shows that every step of `InternedStrings` is a step of the
heap (`StringsStepIsHeapStep`), so the heap's invariant holds of it, and proves
`StringsTypeOK`, `TableExact` and `CanonicalPointer` together: the destroy callback
of an unmarked string runs before its block is erased, and a new string is made
only when the table has none.

`ChunkProofs` proves what each emit function keeps, for any width of a byte and any
constants. `Good(c, P, S)` says that a chunk is sound but for the jumps in `P` that
are still to be patched, or that a narrowing was refused; `Extends` and `Later` say
what a waiting compile function may still rely on: its beginnings still begin
instructions, its jumps are still to be patched. `WriteDistanceExact` is the core:
two bytes written after a jump change the target of that jump and nothing else.
`PatchGood`, `EmitLoopGood`, `EmitConstantGood` and `EmitClosureGood` rest on it.

`ControlFlowProofs` proves `FlowTypeOK`, `CodeSound` and `PcAtInstruction` for every
text, any bounds and any `ByteValues`. None is inductive: that a patch finds its two
bytes depends on the functions that wait. `Compiles` is the strengthening: the chunk
is `Good` but for exactly the jumps of `nesting`, every waiting function relies on
what it holds, and each awaits what is being compiled above it. A step changes
`nesting` in one of four ways (`PushKeeps`, `PopKeeps`, `ReplaceKeeps`,
`CompleteKeeps`), and each action is one of them with a lemma on what it emits.

`RunningCodeProofs` proves, just as generally, what the machine finds when it runs
that code, and first `StackAsTracked` (`StackHoldsTheLocals`). While a text is
compiled there is a height of the stack for every index of the code that all
instructions agree on (`Fits`: each takes no more than there is, and what it leaves
is the height of whatever follows it or it jumps to), and for every waiting function
a place: the height below the value it waits for, and its locals (`Frames`). The
existence of both, `Tracked`, is kept by every step. A jump to patch carries the
height it left with (`Left`), so a patch must arrive at the same one: the two ways
through an `and`, an `if` or a loop leave the stack alike. The end of a scope pops
the locals of its depth because they are the last ones (`ScopeEnds`). When the unit
runs the heights do not change any more, and each instruction takes the stack from
the height of its index to that of the next (`RunTracked`). So nothing is ever taken
from below the stack of the unit either (`NothingTakenFromBelow`).

Its second part proves `OperandsMeanTheirSource` (`OperandsAreTheSource`). Every
instruction with a constant refers to what its token says (`Meant`); this holds of
each emit function (`OneMeans`, with `InsertConstant` and the lemmas of
`ChunkProofs`) and is kept by what is emitted later and by patches, which write no
operand of another instruction (`KeptMeans`, `PatchMeans`). Assignments and
variables emit a name long after its token was read, so the invariant (`Meanings`)
also says that the names a waiting function holds are those of the tokens it read
(`Spelled`).

`ClassesProofs` proves `ClassesTypeOK`, `ThisIsReceiver`, `NoBadVariantAccess`,
`NoObjectFreedInUse` and `ConstructionYieldsInstance` for any names, variables and
bounds. None is inductive: that slot 0 of a method is an instance that inherits the
method depends on bound methods, tables and captured superclasses. `ClassesIInv`
says of every object what its pointers lead to (a method table holds methods of its
class or of a superclass; a bound method has a receiver whose class has the method;
a closure captured the class that its declaration names), of every activation what
its slot 0 is, and where the slots of an activation begin. `Keeps(K)` is what most
steps have in common: objects in `K` point to `K` and keep their role, declarations
only get more methods, and a class gets a superclass before it has any. What a
collection keeps is such a `K` (`ReachableClosed`).

Its second part proves `TablesAreComplete` and that `Classes` implements
`MethodResolution`. A table is copied once, so `TablesInv` says when that is
enough: the table of every class holds the nearest method along its superclasses,
and no two classes have one declaration. A step keeps it because the only class
that changes is the one being declared, and none has inherited from it yet. What
the abstract specification computes by a search up the superclasses (`Definer`, a
recursive function) is shown to be that nearest method by taking the least class
for which it is not (`NatLessThanWellFounded`). The refinement is then step by
step: what the mapping sees of an object or an activation stays as it is
(`ViewsKept`, `StackUnseen`), or the step is one of the abstract actions.

`ClosuresProofs` has two parts. The first holds whatever the program does, with
function expressions, reentered closures and runtime errors too: `MachineIInv`, and
from it `TypeOK` and `NothingFreedInUse`. It says that the activations lie on the
stack end to end, each exactly as high as the compiler counted (`Above`), and that
everything named exists. The two hard steps are the closure instruction, whose loop
keeps `LoopOK` round by round and always finds an address (`CaptureRounds`: a local
captured directly is captured once, so the rounds that take an address are as few as
the guard counts), and the collection: `Reached` is a fixed point over all sets of
objects, shown to be the smallest set that holds the roots and is closed under
tracing (`ReachedIsReachable`).

The second part assumes `Exclusions`: no closure has two activations that capture,
no function is written as an expression, no script follows a runtime error. Each of
the three is needed, the violation runs lift them one at a time. Then
`SharingIInv` is inductive together with `MachineIInv`: an open upvalue
is the local at its slot, some activation marks that local as captured and has the
upvalue in its list (`Owned`); a closed one has left every scope; a closure's
upvalues are the variables its body means; lists are sorted, open and of their
activation; an activation starts where its body counts from; between scripts the
stack is empty. `SlotsLineUp`, `SharedVariables`, `OpenListSorted` and
`NeverCrashes` follow, and `OnlyAssignmentChanges` step by step. None of them is
inductive alone: that `close_upvalue` may look at the last entry only needs the list
sorted and complete (`ClosingLast`), that a `return_` closes exactly the callee's
variables needs every open upvalue to be in the list of the activation it belongs
to (`LeaveShares`), and that the search of the closure instruction finds a captured
variable, and never a closed entry, needs both (`RoundKeepsShares`).

`CompilerScopesProofs` proves, for any identifiers and bounds, `CompilerTypeOK`,
`OneUpvaluePerVariable` and `CapturedAreClosed`, and without shadowing inside one
function (`~ShadowInFunction`, finding 4, which `CompilerShadowing` shows is needed)
`UsesInnermost` and that `CompilerScopes` implements `LexicalScopes`. The inductive
invariant is `Places`: the chunks, the open scopes and the captured variables are
`Sound`. The compiler counts depths; the abstract specification cuts the
environment short. `LocalsPlaced` ties the two: the open scopes cut the names in
scope into consecutive pieces, and the locals of one depth are one piece.
`UpvaluesOK` says that every upvalue names a marked local or an upvalue of the
function around it, and that none is tracked twice; so every chain of upvalues ends
at a local, and different upvalues of a function end at different ones.
`CapturedMarked` says that a captured variable is in scope and its local marked. A use of a name of an outer function tracks an upvalue
in every function in between; that recursion is proved round by round (`Reaches`,
`OneTracked`), and what an upvalue means is a recursive function along the functions,
unfolded by `StepByStep`. The end of a construct takes the locals of its depth, and no
others, because they are the last piece (`ScopeEnds`), and what remains is sound
(`EndedSound`): no upvalue of a function that stays reaches what was taken. The refinement then goes by the kind of step:
a scope opens, a name is declared, a name is used, a scope closes, or nothing the
abstract specification sees.

Assumptions: `CompilerAssumption` (the bounds are numbers; `this`, `super` and the
empty name of a callee's slot are not identifiers), `ClosuresAssumption` (the bounds are numbers, there is room for one
activation, a function has at most one parameter), `ClassesAssumption` (the bounds are numbers, `init` is a name, fields
are names, no variable has the name of a stage of a declaration), `HeapAssumption` (sizes are positive, `MaxRefs` is a number),
`StringsAssumption` (the two special values are not ordinary ones),
`ChunkAssumption` (a byte has at least two values) and `FlowAssumption` (the
families of texts are made of what the language has).

Only model-checked: `CollectionEnds` (liveness) and `ImplementsStructuredFlow` (it
needs the meaning of a text, which is recursive).
`RECURSIVE` operators keep `StructuredFlow` and `MCControlFlow` out of the prover's
reach.

## Plan

Done: the heap and its proofs, the string table and its proofs, closures and
calls with their proofs, name resolution with its proofs, the chunk and control flow with their proofs,
classes with their proofs.

Left, in this order:

1. Classes declared in functions, so that `super` is captured through upvalues; native
   functions; the collector's growth trigger.

## Not modelled

The results of arithmetic, printing and number formats (data without control; TLC
has no floating point); the scanner (a function from text to tokens without state,
which unit tests cover case by case; the models begin at tokens); alignment of the
two-byte distances; reading files and standard input; debug output; the depth of the native
stack, which is what bounds Lox recursion; memory exhaustion. `Closures` leaves out
captures of a variable inside its own initializer, which the compiler accepts.
