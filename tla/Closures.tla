------------------------------ MODULE Closures ------------------------------
(***************************************************************************)
(* Closures and upvalues in the virtual machine of src/vm.cpp: the value   *)
(* stack, the call frames, the instructions that read, write, capture and  *)
(* close local variables, and the garbage collector between instructions.  *)
(*                                                                         *)
(* The instructions come in any order that compiled code can issue them:   *)
(* operands are pushed and popped in pairs, a block's locals leave in the  *)
(* reverse of the order they came, a statement leaves no operand behind.   *)
(* A branch is the choice of the next instruction.                         *)
(*                                                                         *)
(* What the compiler knows at this point of the program (the locals it     *)
(* tracks, the operands it pushed) and the variable of the program that    *)
(* each upvalue stands for are history: no instruction reads them.  A      *)
(* variable in scope is named by its slot; one that outlives its scope is  *)
(* renamed to Escaped(u), u an upvalue that held it.  Indexes count from 1.*)
(***************************************************************************)
EXTENDS Integers, Sequences, FiniteSets, FiniteSetsExt, SequencesExt, Reachability

CONSTANTS
  MaxStack,            \* bound: values on the stack
  MaxFrames,           \* bound: nested activations
  MaxTemps,            \* bound: operands of one activation
  MaxBlockLocals,      \* bound: block locals of one activation
  Globals,             \* the global variables
  Arities,             \* how many parameters a function can have: none, one
  MaxCaptures,         \* bound: variables one function captures
  NClosures,           \* closures that fit in memory
  NUpvalues,           \* upvalues that fit in memory
  MaxScripts,          \* bound: scripts in a session
  MaxErrors,           \* bound: runtime errors in a session
  ReenterCapturing,    \* may one closure have two activations that capture?
  AnonymousFunctions   \* may functions be written as expressions?

ASSUME ClosuresAssumption ==
  /\ {MaxStack, MaxFrames, MaxTemps, MaxBlockLocals, MaxCaptures,
      NClosures, NUpvalues, MaxScripts, MaxErrors} \subseteq Nat
  /\ MaxFrames > 0
  /\ Arities \subseteq 0..1
  /\ {ReenterCapturing, AnonymousFunctions} \subseteq BOOLEAN

VARIABLES
  stack_,          \* the values
  call_frames_,    \* the activations: see Frame
  globals_,        \* the values of the global variables
  closures,        \* the closures that exist: see Closure
  upvalues,        \* the upvalues that exist: see Upvalue
  crashed,         \* the exception that no handler catches, if there was one
  scripts,         \* scripts so far
  errors           \* runtime errors so far

vars == <<stack_, call_frames_, globals_, closures, upvalues, crashed, scripts, errors>>

(* A value is a closure or anything else: a number, a string, nil. *)
Plain == 0
Value == {Plain} \cup 1..NClosures

Escaped(u) == MaxStack + u
Lost == MaxStack + NUpvalues + 1
Var == 1..Lost

Exceptions == {"none", "bad_variant_access", "out_of_range"}

(* The upvalue at an address; `var' is history. *)
Upvalue == [open : BOOLEAN, stack_index : 0..MaxStack, value : Value, var : Var]

(* The closure at an address.  `arity' and `anonymous' are of its Function; *)
(* `vars', the variables its body means, is history.                        *)
Closure == [arity : 0..1, anonymous : BOOLEAN,
            upvalues : Seq(1..NUpvalues), open_upvalues : Seq(1..NUpvalues),
            vars : Seq(Var)]

(* An activation: the arguments of VM::run, and what the compiler knows:    *)
(* is_captured of its tracked locals, of which the first `fixed' stay until *)
(* the return, and how many operands it has pushed above them.  `base' is   *)
(* the slot the first tracked local really has.                             *)
Frame == [closure : 1..NClosures, begin : Nat, base : Nat, fixed : Nat,
          locals : Seq(BOOLEAN), temps : Nat]

Top == call_frames_[Len(call_frames_)]
WithTop(f) == [call_frames_ EXCEPT ![Len(call_frames_)] = f]
Running == call_frames_ # <<>> /\ crashed = "none"
AtStatement == Top.temps = 0

(* The slots that are variables of an activation, and of all of them. *)
Locals(f) == f.base .. f.base + Len(f.locals) - 1
InScope == UNION {Locals(f) : f \in ToSet(call_frames_)}

(* History: the variables at these slots leave their scope. *)
Leaving(slots, v) ==
  LET holders(i) == {u \in DOMAIN upvalues : upvalues[u].var = i}
  IN  IF v \notin slots THEN v
      ELSE IF holders(v) = {} THEN Lost ELSE Escaped(Min(holders(v)))
RenamedUpvalues(slots, us) == [u \in DOMAIN us |-> [us[u] EXCEPT !.var = Leaving(slots, @)]]
RenamedClosures(slots, cs) ==
  [c \in DOMAIN cs |->
     [cs[c] EXCEPT !.vars = [k \in DOMAIN @ |-> Leaving(slots, @[k])]]]

Crash(exception) ==
  /\ crashed' = exception
  /\ call_frames_' = <<>>
  /\ UNCHANGED <<stack_, globals_, closures, upvalues, scripts, errors>>

(* stack_.push_back, where the compiler pushes an operand. *)
Push(v) ==
  /\ Len(stack_) < MaxStack
  /\ Top.temps < MaxTemps
  /\ stack_' = Append(stack_, v)
Pushed == [Top EXCEPT !.temps = @ + 1]

NoObjectChanges == UNCHANGED <<globals_, closures, upvalues, crashed, scripts, errors>>

(* One more object, at the address a. *)
With(f, a, object) == [x \in DOMAIN f \cup {a} |-> IF x = a THEN object ELSE f[x]]

Init ==
  /\ stack_ = <<>>
  /\ call_frames_ = <<>>
  /\ globals_ = [g \in Globals |-> Plain]
  /\ closures = <<>>
  /\ upvalues = <<>>
  /\ crashed = "none"
  /\ scripts = 0
  /\ errors = 0

-----------------------------------------------------------------------------
(* Scripts: a file is one, every line typed at the prompt is one. *)

NewClosure == Min((1..NClosures) \ DOMAIN closures)

RunScript ==
  /\ call_frames_ = <<>>
  /\ crashed = "none"
  /\ scripts < MaxScripts
  /\ scripts' = scripts + 1
  /\ DOMAIN closures # 1..NClosures
  /\ closures' = With(closures, NewClosure,
       [arity |-> 0, anonymous |-> FALSE, upvalues |-> <<>>, open_upvalues |-> <<>>,
        vars |-> <<>>])
  /\ call_frames_' = <<[closure |-> NewClosure, begin |-> 1, base |-> Len(stack_) + 1,
                        fixed |-> 0, locals |-> <<>>, temps |-> 0]>>
  /\ UNCHANGED <<stack_, globals_, upvalues, crashed, errors>>

(* The bytecode ends: the loop of VM::run is left without a return_. *)
EndScript ==
  /\ Running
  /\ Len(call_frames_) = 1
  /\ AtStatement
  /\ Top.locals = <<>>
  /\ call_frames_' = <<>>
  /\ UNCHANGED <<stack_, globals_, closures, upvalues, crashed, scripts, errors>>

(* A std::runtime_error: every VM::run in progress is left, the finally     *)
(* blocks pop the frames, run_prompt reports the error and goes on.         *)
RuntimeError ==
  /\ Running
  /\ errors < MaxErrors
  /\ errors' = errors + 1
  /\ call_frames_' = <<>>
  /\ upvalues' = RenamedUpvalues(InScope, upvalues)
  /\ closures' = RenamedClosures(InScope, closures)
  /\ UNCHANGED <<stack_, globals_, crashed, scripts>>

-----------------------------------------------------------------------------
(* Instructions on operands, locals and globals *)

Constant ==
  /\ Running
  /\ Push(Plain)
  /\ call_frames_' = WithTop(Pushed)
  /\ NoObjectChanges

(* Mutant: a pop too many. *)
PopUnbalanced ==
  /\ Running
  /\ stack_' = Front(stack_)
  /\ call_frames_' = WithTop([Top EXCEPT !.temps = @ - 1])
  /\ NoObjectChanges

Pop ==
  /\ Running
  /\ Top.temps > 0
  /\ stack_' = Front(stack_)
  /\ call_frames_' = WithTop([Top EXCEPT !.temps = @ - 1])
  /\ NoObjectChanges

(* `var x = e;' in a block: no instruction, e's value becomes the local. *)
DeclareLocal ==
  /\ Running
  /\ Top.temps = 1
  /\ Len(Top.locals) < Top.fixed + MaxBlockLocals
  /\ call_frames_' = WithTop([Top EXCEPT !.locals = Append(@, FALSE), !.temps = 0])
  /\ UNCHANGED stack_
  /\ NoObjectChanges

SlotOf(i) == Top.begin + i - 1

GetLocal(i) ==
  /\ Running
  /\ i \in DOMAIN Top.locals
  /\ Push(stack_[SlotOf(i)])
  /\ call_frames_' = WithTop(Pushed)
  /\ NoObjectChanges

SetLocal(i) ==
  /\ Running
  /\ i \in DOMAIN Top.locals
  /\ Top.temps > 0
  /\ stack_' = [stack_ EXCEPT ![SlotOf(i)] = Last(stack_)]
  /\ UNCHANGED call_frames_
  /\ NoObjectChanges

GetGlobal(g) ==
  /\ Running
  /\ Push(globals_[g])
  /\ call_frames_' = WithTop(Pushed)
  /\ NoObjectChanges

(* set_global; define_global is this and a pop. *)
SetGlobal(g) ==
  /\ Running
  /\ Top.temps > 0
  /\ globals_' = [globals_ EXCEPT ![g] = Last(stack_)]
  /\ UNCHANGED <<stack_, call_frames_, closures, upvalues, crashed, scripts, errors>>

-----------------------------------------------------------------------------
(* Upvalues *)

(* Upvalue::value, by reference. *)
InRange(u) == upvalues[u].open => upvalues[u].stack_index <= Len(stack_)
ValueOf(u) == IF upvalues[u].open THEN stack_[upvalues[u].stack_index] ELSE upvalues[u].value

(* Mutant: the value is not taken along. *)
ClosingWithoutValue(us) ==
  [u \in DOMAIN upvalues |->
     IF u \in us
     THEN [upvalues[u] EXCEPT !.open = FALSE, !.stack_index = 0]
     ELSE upvalues[u]]

(* Upvalue::close. *)
Closing(us) ==
  [u \in DOMAIN upvalues |->
     IF u \in us
     THEN [upvalues[u] EXCEPT !.open = FALSE, !.stack_index = 0, !.value = ValueOf(u)]
     ELSE upvalues[u]]

Open == closures[Top.closure].open_upvalues

Captured == closures[Top.closure].upvalues

GetUpvalue(k) ==
  LET u == Captured[k]
  IN  /\ Running
      /\ k \in DOMAIN Captured
      /\ \/ ~InRange(u) /\ Crash("out_of_range")
         \/ /\ InRange(u)
            /\ Push(ValueOf(u))
            /\ call_frames_' = WithTop(Pushed)
            /\ NoObjectChanges

SetUpvalue(k) ==
  LET u == Captured[k]
  IN  /\ Running
      /\ k \in DOMAIN Captured
      /\ Top.temps > 0
      /\ \/ ~InRange(u) /\ Crash("out_of_range")
         \/ /\ InRange(u)
            /\ IF upvalues[u].open
               THEN /\ stack_' = [stack_ EXCEPT ![upvalues[u].stack_index] = Last(stack_)]
                    /\ UNCHANGED upvalues
               ELSE /\ upvalues' = [upvalues EXCEPT ![u].value = Last(stack_)]
                    /\ UNCHANGED stack_
            /\ UNCHANGED <<call_frames_, globals_, closures, crashed, scripts, errors>>

(* The end of a block pops each local; one that a function written so far   *)
(* captures, whether or not this run of the block did, with close_upvalue.  *)
EndLocal ==
  /\ Running
  /\ AtStatement
  /\ Len(Top.locals) > Top.fixed
  /\ stack_' = Front(stack_)
  /\ call_frames_' = WithTop([Top EXCEPT !.locals = Front(@)])
  /\ UNCHANGED <<globals_, crashed, scripts, errors>>

Ending == {Top.base + Len(Top.locals) - 1}

PopLocal ==
  /\ EndLocal
  /\ ~Last(Top.locals)
  /\ upvalues' = RenamedUpvalues(Ending, upvalues)
  /\ closures' = RenamedClosures(Ending, closures)

(* Mutant: open_upvalues.pop_back() is missing. *)
CloseUpvalueKeepingEntry ==
  /\ EndLocal
  /\ upvalues' = RenamedUpvalues(Ending,
       Closing({u \in ToSet(Open) : upvalues[u].stack_index = Len(stack_)}))
  /\ closures' = RenamedClosures(Ending, closures)

CloseUpvalue ==
  LET openToo == Open # <<>> => upvalues[Last(Open)].open
      closing == IF Open # <<>> /\ openToo /\ upvalues[Last(Open)].stack_index = Len(stack_)
                 THEN {Last(Open)} ELSE {}
  IN  /\ Running
      /\ AtStatement
      /\ Len(Top.locals) > Top.fixed
      /\ IF ~openToo
         THEN Crash("bad_variant_access")
         ELSE /\ EndLocal
              /\ upvalues' = RenamedUpvalues(Ending, Closing(closing))
              /\ closures' = RenamedClosures(Ending,
                   [closures EXCEPT ![Top.closure].open_upvalues =
                      IF closing = {} THEN @ ELSE Front(@)])

(* What a closure instruction can capture here: a tracked local of this     *)
(* function (a direct capture) or one of its own upvalues.                  *)
Captures ==
  {[is_direct |-> TRUE, index |-> i] : i \in DOMAIN Top.locals}
  \cup {[is_direct |-> FALSE, index |-> k] : k \in DOMAIN Captured}

CaptureLists ==
  IF Running THEN {ds \in BoundedSeq(Captures, MaxCaptures) : IsInjective(ds)} ELSE {}

(* Mutants: the open list is not searched; it is appended to. *)
CaptureAnew(made, d) ==
  LET new == Min((1..NUpvalues) \ DOMAIN made.upvalues)
  IN  IF ~d.is_direct
      THEN [made EXCEPT !.captured = Append(@, Captured[d.index])]
      ELSE [made EXCEPT
              !.captured = Append(@, new),
              !.upvalues = With(@, new, [open |-> TRUE, stack_index |-> SlotOf(d.index),
                                         value |-> Plain, var |-> Top.base + d.index - 1]),
              !.open = Append(@, new)]
CaptureUnsorted(made, d) ==
  LET hit == SelectInSeq(made.open,
               LAMBDA u : made.upvalues[u].stack_index = SlotOf(d.index))
  IN  IF d.is_direct /\ hit # 0
      THEN [made EXCEPT !.captured = Append(@, made.open[hit])]
      ELSE CaptureAnew(made, d)

(* One round of the loop of the closure instruction.  `made' holds what the *)
(* loop changes: the upvalues, the open list of the running closure, the    *)
(* upvalues of the new one; `failed' when the search of the open list asks  *)
(* a closed upvalue for its stack index.                                    *)
Capture(made, d) ==
  LET IndexOf(u) == made.upvalues[u].stack_index
      IsClosed(u) == ~made.upvalues[u].open
      slot == SlotOf(d.index)
      hit == SelectInSeq(made.open, LAMBDA u : IsClosed(u) \/ IndexOf(u) = slot)
      after == SelectInSeq(made.open, LAMBDA u : IndexOf(u) > slot)
      new == Min((1..NUpvalues) \ DOMAIN made.upvalues)
  IN  IF made.failed THEN made
      ELSE CASE ~d.is_direct ->
                  [made EXCEPT !.captured = Append(@, Captured[d.index])]
             [] d.is_direct /\ hit # 0 /\ IsClosed(made.open[hit]) ->
                  [made EXCEPT !.failed = TRUE]
             [] d.is_direct /\ hit # 0 /\ ~IsClosed(made.open[hit]) ->
                  [made EXCEPT !.captured = Append(@, made.open[hit])]
             [] d.is_direct /\ hit = 0 ->
                  [made EXCEPT
                     !.captured = Append(@, new),
                     !.upvalues = With(@, new, [open |-> TRUE, stack_index |-> slot, value |-> Plain,
                                                var |-> Top.base + d.index - 1]),
                     !.open = InsertAt(@, IF after = 0 THEN Len(@) + 1 ELSE after, new)]

(* The loop of the closure instruction. *)
CaptureAll(ds) ==
  LET made[n \in 0..Len(ds)] ==
        IF n = 0
        THEN [failed |-> FALSE, upvalues |-> upvalues, open |-> Open, captured |-> <<>>]
        ELSE Capture(made[n - 1], ds[n])
  IN  made[Len(ds)]

(* A second activation of a closure whose open list is not empty, or one that *)
(* fills the list a second time while the first still runs.                   *)
Nested == \E n \in 1..Len(call_frames_) - 1 : call_frames_[n].closure = Top.closure

(* The variable the program means by a capture. *)
Meant(d) ==
  IF d.is_direct THEN Top.base + d.index - 1 ELSE closures[Top.closure].vars[d.index]

MakeClosure(arity, anonymous, ds) ==
  LET direct == {d.index : d \in {e \in ToSet(ds) : e.is_direct}}
      made == CaptureAll(ds)
      c == NewClosure
  IN  /\ Running
      /\ DOMAIN closures # 1..NClosures
      /\ Cardinality(DOMAIN upvalues) + Cardinality(direct) <= NUpvalues
      /\ ReenterCapturing \/ direct = {} \/ ~Nested
      /\ \/ made.failed /\ Crash("bad_variant_access")
         \/ /\ ~made.failed
            /\ Push(c)
            /\ upvalues' = made.upvalues
            /\ closures' =
                 With([closures EXCEPT ![Top.closure].open_upvalues = made.open], c,
                      [arity |-> arity, anonymous |-> anonymous, upvalues |-> made.captured,
                       open_upvalues |-> <<>>, vars |-> [i \in DOMAIN ds |-> Meant(ds[i])]])
            /\ call_frames_' = WithTop([Pushed EXCEPT !.locals =
                 [i \in DOMAIN @ |-> @[i] \/ i \in direct]])
            /\ UNCHANGED <<globals_, crashed, scripts, errors>>

-----------------------------------------------------------------------------
(* Calls.  The callee and its arguments are operands of the caller, and the *)
(* first slots of the activation; the body's slot 0 is the callee, which    *)
(* the compiler tracks under the function's name, but not in a function     *)
(* written as an expression.                                                *)

Call(n) ==
  LET callee == Len(stack_) - n
      c == stack_[callee]
      tracked == IF closures[c].anonymous THEN n ELSE n + 1
  IN  /\ Running
      /\ Top.temps > n
      /\ c # Plain
      /\ closures[c].arity = n
      /\ Len(call_frames_) < MaxFrames
      /\ ReenterCapturing \/ closures[c].open_upvalues = <<>>
      /\ call_frames_' = Append(WithTop([Top EXCEPT !.temps = @ - (n + 1)]),
           [closure |-> c, begin |-> callee, base |-> Len(stack_) - tracked + 1,
            fixed |-> tracked, locals |-> [i \in 1..tracked |-> FALSE], temps |-> 0])
      /\ UNCHANGED stack_
      /\ NoObjectChanges

(* Leave the activation with its result on a stack cut to this height. *)
LeaveActivation(height, closed) ==
  LET caller == call_frames_[Len(call_frames_) - 1]
  IN  /\ Running
      /\ Len(call_frames_) > 1
      /\ Top.temps = 1
      /\ upvalues' = RenamedUpvalues(Locals(Top), Closing(closed))
      /\ closures' = RenamedClosures(Locals(Top), closures)
      /\ stack_' = Append(SubSeq(stack_, 1, height), Last(stack_))
      /\ call_frames_' = [Front(call_frames_) EXCEPT
           ![Len(call_frames_) - 1] = [caller EXCEPT !.temps = @ + 1]]
      /\ UNCHANGED <<globals_, crashed, scripts, errors>>

(* Mutants: the callee's slot stays; the upvalues stay open. *)
ReturnLeavingCallee == LeaveActivation(Top.begin, ToSet(Open))
ReturnClosingNothing == LeaveActivation(Top.begin - 1, {})

(* return_ closes whatever the closure's open list holds. *)
Return ==
  /\ Running
  /\ Len(call_frames_) > 1
  /\ Top.temps = 1
  /\ IF \E u \in ToSet(Open) : ~InRange(u)
     THEN Crash("out_of_range")
     ELSE LeaveActivation(Top.begin - 1, ToSet(Open))

-----------------------------------------------------------------------------
(* The collector runs after any instruction that made the heap grow enough. *)
(* An object is <<"closure", c>> or <<"upvalue", u>>.                       *)

ClosureRefs(vs) == {<<"closure", c>> : c \in vs \ {Plain}}
UpvalueRefs(us) == {<<"upvalue", u>> : u \in us}

Objects == ClosureRefs(DOMAIN closures) \cup UpvalueRefs(DOMAIN upvalues)

(* trace_refs_trait of a closure and of an upvalue. *)
Traced ==
  [o \in Objects |->
     IF o[1] = "closure"
     THEN UpvalueRefs(ToSet(closures[o[2]].upvalues) \cup ToSet(closures[o[2]].open_upvalues))
     ELSE ClosureRefs(IF InRange(o[2]) THEN {ValueOf(o[2])} ELSE {})]

(* Mutants: call_frames_, or globals_, is not marked. *)
RootsWithoutFrames == ClosureRefs(ToSet(stack_) \cup Range(globals_))
RootsWithoutGlobals ==
  ClosureRefs({call_frames_[i].closure : i \in DOMAIN call_frames_} \cup ToSet(stack_))

(* The on_mark_roots callback of the virtual machine. *)
Roots ==
  ClosureRefs({call_frames_[i].closure : i \in DOMAIN call_frames_}
              \cup ToSet(stack_) \cup Range(globals_))

(* What collect_garbage keeps: GcHeap.tla shows that it is this set. *)
Reached ==
  LET traced == Traced
      from[os \in SUBSET Objects] ==
        LET more == os \cup UNION {traced[o] : o \in os}
        IN  IF more = os THEN os ELSE from[more]
  IN  from[Roots]

(* The heap grew enough: some of its room is used up. *)
GrownEnough ==
  DOMAIN closures = 1..NClosures \/ Cardinality(DOMAIN upvalues) >= NUpvalues

CollectGarbage ==
  LET reached == Reached
      keptClosures == {c \in DOMAIN closures : <<"closure", c>> \in reached}
      keptUpvalues == {u \in DOMAIN upvalues : <<"upvalue", u>> \in reached}
  IN
  /\ Running
  /\ GrownEnough
  /\ \/ /\ \E u \in keptUpvalues : ~InRange(u)
        /\ Crash("out_of_range")
     \/ /\ \A u \in keptUpvalues : InRange(u)
        /\ closures' = Restrict(closures, keptClosures)
        /\ upvalues' = Restrict(upvalues, keptUpvalues)
        /\ UNCHANGED <<stack_, call_frames_, globals_, crashed, scripts, errors>>

Next ==
  \/ RunScript \/ EndScript \/ RuntimeError
  \/ Constant \/ Pop \/ DeclareLocal
  \/ \E i \in 1..MaxStack : GetLocal(i) \/ SetLocal(i)
  \/ \E g \in Globals : GetGlobal(g) \/ SetGlobal(g)
  \/ \E k \in 1..MaxCaptures : GetUpvalue(k) \/ SetUpvalue(k)
  \/ PopLocal \/ CloseUpvalue
  \/ \E arity \in Arities, anonymous \in {FALSE, AnonymousFunctions}, ds \in CaptureLists :
        MakeClosure(arity, anonymous, ds)
  \/ \E n \in Arities : Call(n)
  \/ Return
  \/ CollectGarbage

Spec == Init /\ [][Next]_vars

-----------------------------------------------------------------------------
(* Properties *)

LiveUpvalue(u) == u \in DOMAIN upvalues
LiveValue(v) == v = Plain \/ v \in DOMAIN closures

TypeOK ==
  /\ stack_ \in Seq(Value) /\ Len(stack_) <= MaxStack
  /\ call_frames_ \in Seq(Frame) /\ Len(call_frames_) <= MaxFrames
  /\ globals_ \in [Globals -> Value]
  /\ DOMAIN closures \subseteq 1..NClosures /\ Range(closures) \subseteq Closure
  /\ DOMAIN upvalues \subseteq 1..NUpvalues /\ Range(upvalues) \subseteq Upvalue
  /\ crashed \in Exceptions
  /\ scripts \in 0..MaxScripts
  /\ errors \in 0..MaxErrors

(* The slot an instruction addresses is where its variable is: the          *)
(* compiler's count of locals and the height of the stack agree in every    *)
(* activation, after any number of calls, returns and ends of blocks        *)
(* (compiler.cpp:821-824 "To make those slots line up", vm.cpp:313-318).    *)
SlotsLineUp ==
  /\ \A f \in ToSet(call_frames_) : f.locals # <<>> => f.base = f.begin
  /\ \A n \in DOMAIN call_frames_ :
       LET f == call_frames_[n]
           end == IF n = Len(call_frames_) THEN Len(stack_) ELSE call_frames_[n + 1].begin - 1
       IN  end = f.base - 1 + Len(f.locals) + f.temps

(* Closures share variables, not values: every closure reaches a variable   *)
(* it means through the one upvalue of that variable; while a program runs, *)
(* the upvalue is open and is the variable's slot as long as the variable   *)
(* is in scope, and is closed afterwards (vm.cpp:194-205, 218-243, 535-538; *)
(* object.hpp:38).                                                          *)
SharedVariables ==
  /\ \A c \in DOMAIN closures : \A k \in DOMAIN closures[c].vars :
       upvalues[closures[c].upvalues[k]].var = closures[c].vars[k]
  /\ \A u, w \in DOMAIN upvalues : upvalues[u].var = upvalues[w].var => u = w
  /\ Running => \A u \in DOMAIN upvalues :
       IF upvalues[u].open
       THEN upvalues[u].var = upvalues[u].stack_index /\ upvalues[u].var \in InScope
       ELSE upvalues[u].var \notin InScope

(* The open list of a running closure is what close_upvalue and the search  *)
(* of the closure instruction take it for: sorted by slot, open, and slots  *)
(* of that activation (vm.cpp:194-205, 221-239).                            *)
OpenListSorted ==
  \A f \in ToSet(call_frames_) :
    LET open == closures[f.closure].open_upvalues
    IN  /\ \A i \in DOMAIN open : upvalues[open[i]].open
        /\ \A i \in DOMAIN open : upvalues[open[i]].stack_index \in Locals(f)
        /\ \A i, j \in DOMAIN open :
             i < j => upvalues[open[i]].stack_index < upvalues[open[j]].stack_index

(* No exception that run_prompt does not catch (lox.cpp:48-51): a Lox       *)
(* program cannot make the machine ask a closed upvalue for a stack index   *)
(* or an open one for a slot that is gone.                                  *)
NeverCrashes == crashed = "none"

(* Whatever was collected, and whenever, everything the running program can *)
(* still name exists: the values on the stack, the closures being run, the  *)
(* upvalues of both (vm.cpp:27-40, object.cpp:33-42, 102-105).              *)
NothingFreedInUse ==
  /\ \A i \in DOMAIN stack_ : LiveValue(stack_[i])
  /\ \A g \in Globals : LiveValue(globals_[g])
  /\ \A f \in ToSet(call_frames_) : f.closure \in DOMAIN closures
  /\ \A c \in DOMAIN closures :
       \A u \in ToSet(closures[c].upvalues) \cup ToSet(closures[c].open_upvalues) : LiveUpvalue(u)
  /\ \A u \in DOMAIN upvalues : InRange(u) => LiveValue(ValueOf(u))

Assignment ==
  \/ \E i \in 1..MaxStack : SetLocal(i)
  \/ \E k \in 1..MaxCaptures : SetUpvalue(k)

(* A captured variable changes only when it is assigned: not when its       *)
(* block or its function ends, not in a call or a collection.               *)
OnlyAssignmentChanges ==
  [][\/ \A u \in DOMAIN upvalues \cap DOMAIN upvalues' :
          InRange(u) /\ InRange(u)' => ValueOf(u)' = ValueOf(u)
     \/ Assignment]_vars
=============================================================================
