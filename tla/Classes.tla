------------------------------ MODULE Classes ------------------------------
(***************************************************************************)
(* Classes, instances and bound methods in the virtual machine of          *)
(* src/vm.cpp: the method tables that inherit copies, the property         *)
(* instructions, calls of classes, of methods and of functions, and the    *)
(* collector between instructions.                                         *)
(*                                                                         *)
(* The instructions come in any order that compiled code can issue them;   *)
(* several that the compiler always emits in a row are one action.  A      *)
(* class is declared at the top level, so each declaration is carried out  *)
(* at most once and its number names it.  The superclasses and the methods *)
(* as they are written (`declared'), the function each closure was made    *)
(* of, and the instance a call makes are history: what the instructions    *)
(* read are the tables and the stack.  A value is an object or Nil, which  *)
(* stands for all that is no object.  A call is abstracted to whether it   *)
(* has as many arguments as the arity asks for; the slots of parameters    *)
(* and locals are the subject of Closures.  Indexes count from 1.          *)
(***************************************************************************)
EXTENDS Integers, Sequences, SequencesExt, FiniteSets, Functions, Reachability

CONSTANTS
  Names,        \* names of methods
  Fields,       \* bound: the names that are also names of fields
  Variables,    \* global variables
  NObjects,     \* bound: objects that fit in memory
  MaxGarbage,   \* bound: objects that nothing reaches when another is made
  MaxClasses,   \* bound: classes a script declares
  MaxMethods,   \* bound: methods they declare
  MaxFree,      \* bound: classes of a script that is free in its use of variables
  MaxFrames,    \* bound: nested activations, the script included
  MaxTemps      \* bound: operands of one activation

ASSUME ClassesAssumption ==
  /\ "init" \in Names
  /\ {"no", "class"} \cap Variables = {}
  /\ Fields \subseteq Names
  /\ {NObjects, MaxGarbage, MaxClasses, MaxMethods, MaxFree, MaxFrames, MaxTemps} \subseteq Nat

VARIABLES
  stack_,        \* the values
  call_frames_,  \* the activations: see Frame
  globals_,      \* the global variables that are defined, and their values
  objects,       \* the objects that exist
  declaring,     \* "no", or the class declaration being carried out: "class", or the
                 \* variable of its superclass
  declared,      \* the declarations: [superclass, own]
  status         \* "running", "over", "failed": a runtime error, or "crashed"

classesVars == <<stack_, call_frames_, globals_, objects, declaring, declared, status>>

Nil == 0
Value == 0 .. NObjects

(* The objects: what they point to, and what they are in the source. *)
Class(methods, declaration) ==
  [kind |-> "class", methods |-> methods, declaration |-> declaration]
Instance(klass) == [kind |-> "instance", klass |-> klass, fields |-> <<>>]
Bound_method(instance, method) ==
  [kind |-> "bound", instance |-> instance, method |-> method]
Closure(function, super) == [kind |-> "closure", function |-> function, super |-> super]
Function(class, name) == [class |-> class, name |-> name]

(* Where its slot 0 is, its operands, the instance it initializes. *)
Frame(closure, begin, made) ==
  [closure |-> closure, begin |-> begin, temps |-> 0, made |-> made]

IsA(v, kind) == v # Nil /\ objects[v].kind = kind
With(f, x, v) == [y \in DOMAIN f \cup {x} |-> IF y = x THEN v ELSE f[y]]

Held(vs) == vs \ {Nil}

(* Mutant: an instance does not trace its class. *)
TracedNoClass(o) ==
  Held(CASE o.kind = "class" -> Range(o.methods)
         [] o.kind = "instance" -> Range(o.fields)
         [] o.kind = "bound" -> {o.instance, o.method}
         [] o.kind = "closure" -> {o.super})

(* trace_refs_trait of each kind of object. *)
Traced(o) ==
  Held(CASE o.kind = "class" -> Range(o.methods)
         [] o.kind = "instance" -> {o.klass} \cup Range(o.fields)
         [] o.kind = "bound" -> {o.instance, o.method}
         [] o.kind = "closure" -> {o.super})

Roots ==
  Held(ToSet(stack_) \cup Range(globals_) \cup
       {call_frames_[i].closure : i \in DOMAIN call_frames_})

(* What collect_garbage keeps: GcHeap shows that it is this set. *)
Reached == ReachableFrom(DOMAIN objects, [i \in DOMAIN objects |-> Traced(objects[i])], Roots)

Top == Last(call_frames_)
InScript == Len(call_frames_) = 1
Running == status = "running"
Executing == Running /\ declaring = "no"   \* no class declaration is being carried out
HasRoom == /\ DOMAIN objects # 1..NObjects
           /\ Cardinality(DOMAIN objects \ Reached) <= MaxGarbage
New == CHOOSE i \in 1..NObjects : i \notin DOMAIN objects

Temps(n) == call_frames_' = [call_frames_ EXCEPT ![Len(call_frames_)].temps = n]

(* An instruction takes operands and leaves one value. *)
Leave(taken, v) ==
  /\ Executing
  /\ Top.temps >= taken /\ Top.temps - taken < MaxTemps
  /\ stack_' = Append(SubSeq(stack_, 1, Len(stack_) - taken), v)
  /\ Temps(Top.temps - taken + 1)

(* The program ends, and the machine with it. *)
Stop(how) ==
  /\ status' = how
  /\ stack_' = <<>> /\ call_frames_' = <<>> /\ globals_' = <<>> /\ objects' = <<>>
  /\ UNCHANGED <<declaring, declared>>
RuntimeError == Stop("failed")

ClassesInit ==
  /\ stack_ = <<>>
  /\ call_frames_ = <<Frame(Nil, 1, Nil)>>
  /\ globals_ = <<>>
  /\ objects = <<>>
  /\ declaring = "no"
  /\ declared = <<>>
  /\ status = "running"

-----------------------------------------------------------------------------
(* Values and variables *)

PushNil ==
  /\ Leave(0, Nil)
  /\ UNCHANGED <<globals_, objects, declaring, declared, status>>

Pop ==
  /\ Executing /\ Top.temps > 0
  /\ stack_' = Front(stack_)
  /\ Temps(Top.temps - 1)
  /\ UNCHANGED <<globals_, objects, declaring, declared, status>>

(* Bound: in a script of more classes nothing is assigned, and methods read *)
(* no variables.                                                            *)
FreeUse == Len(declared) <= MaxFree

(* `this' is slot 0 of a method: get_local. *)
GetThis ==
  /\ ~InScript
  /\ Leave(0, stack_[Top.begin])
  /\ UNCHANGED <<globals_, objects, declaring, declared, status>>

GetGlobal(x) ==
  /\ Executing
  /\ InScript \/ FreeUse
  /\ IF x \in DOMAIN globals_
     THEN /\ Leave(0, globals_[x])
          /\ UNCHANGED <<globals_, objects, declaring, declared, status>>
     ELSE RuntimeError

(* Bound: what is assigned is nil; the classes define the variables. *)
SetGlobal(x) ==
  /\ Executing /\ Top.temps > 0
  /\ Last(stack_) = Nil /\ FreeUse
  /\ IF x \in DOMAIN globals_
     THEN /\ globals_' = [globals_ EXCEPT ![x] = Last(stack_)]
          /\ UNCHANGED <<stack_, call_frames_, objects, declaring, declared, status>>
     ELSE RuntimeError

-----------------------------------------------------------------------------
(* The declaration of a class.  The new class is on the stack; under it is  *)
(* its superclass, the variable `super' of its methods, and under that the  *)
(* class again.                                                             *)

(* Bound: the classes come before the first instance. *)
BeginClass ==
  /\ Executing /\ InScript /\ Top.temps = 0
  /\ HasRoom /\ Len(declared) < MaxClasses
  /\ \A i \in DOMAIN objects : objects[i].kind \in {"class", "closure"}
  /\ objects' = With(objects, New, Class(<<>>, Len(declared) + 1))
  /\ stack_' = Append(stack_, New)
  /\ declaring' = "class"
  /\ declared' = Append(declared, [superclass |-> 0, own |-> {}])
  /\ UNCHANGED <<call_frames_, globals_, status>>

HasSuperclass == declaring \notin {"no", "class"}

(* get_global of the superclass, and inherit. *)
Inherit(x) ==
  /\ Running /\ declaring = "class" /\ Last(declared).own = {}
  /\ LET parent == globals_[x]
         child == Last(stack_)
     IN  IF x \in DOMAIN globals_ /\ IsA(parent, "class")
         THEN /\ objects' = [objects EXCEPT ![child].methods = objects[parent].methods]
              /\ stack_' = Append(Append(stack_, parent), child)
              /\ declaring' = x
              /\ declared' = [declared EXCEPT
                   ![Len(declared)].superclass = objects[parent].declaration]
              /\ UNCHANGED <<call_frames_, globals_, status>>
         ELSE RuntimeError

(* Mutant: map::insert, which keeps the inherited method. *)
PutIfAbsent(methods, name, closure) ==
  IF name \in DOMAIN methods THEN methods ELSE With(methods, name, closure)

(* klass->methods[method_name] = closure. *)
Put(methods, name, closure) == With(methods, name, closure)

(* closure, which captures `super' from the slot under the class (every     *)
(* method of a subclass is taken to mention it), and method.                *)
AddMethod(name) ==
  LET klass == Last(stack_)
      super == IF HasSuperclass THEN stack_[Len(stack_) - 1] ELSE Nil
      function == Function(Len(declared), name)
  IN  /\ Running /\ declaring # "no" /\ HasRoom
      /\ Cardinality(UNION {{n} \X declared[n].own : n \in DOMAIN declared}) < MaxMethods
      /\ IF IsA(klass, "class")
         THEN /\ objects' = [With(objects, New, Closure(function, super)) EXCEPT
                               ![klass].methods = Put(@, name, New)]
              /\ declared' = [declared EXCEPT ![Len(declared)].own = @ \cup {name}]
              /\ UNCHANGED <<stack_, call_frames_, globals_, declaring, status>>
         ELSE Stop("crashed")

(* Mutant: the variable `super' stays on the stack. *)
ExtraButSuper == IF HasSuperclass THEN 1 ELSE 0

(* pop, and close_upvalue of `super', after a superclass. *)
Extra == IF HasSuperclass THEN 2 ELSE 0

(* What is left is the class: define_global.  The compiler rejects a class  *)
(* that inherits from its own name.                                         *)
EndClass(x) ==
  LET height == Len(stack_) - Extra
  IN  /\ Running /\ declaring \notin {"no", x}
      /\ globals_' = With(globals_, x, stack_[height])
      /\ stack_' = SubSeq(stack_, 1, height - 1)
      /\ declaring' = "no"
      /\ UNCHANGED <<call_frames_, objects, declared, status>>

-----------------------------------------------------------------------------
(* Properties *)

Bind(taken, instance, method) ==
  /\ HasRoom
  /\ Leave(taken, New)
  /\ objects' = With(objects, New, Bound_method(instance, method))
  /\ UNCHANGED <<globals_, declaring, declared, status>>

(* A field hides a method. *)
GetProperty(name) ==
  LET instance == Last(stack_)
      methods == objects[objects[instance].klass].methods
  IN  /\ Executing /\ Top.temps > 0
      /\ IF ~IsA(instance, "instance") THEN RuntimeError
         ELSE IF name \in DOMAIN objects[instance].fields
         THEN /\ Leave(1, objects[instance].fields[name])
              /\ UNCHANGED <<globals_, objects, declaring, declared, status>>
         ELSE IF name \in DOMAIN methods
         THEN Bind(1, instance, methods[name])
         ELSE RuntimeError

(* The value stays; the object is `this', or a variable: get_local or       *)
(* get_global, and set_property.                                            *)
SetProperty(name) ==
  /\ Executing /\ Top.temps > 0
  /\ \E instance \in Range(globals_) \cup (IF InScript THEN {} ELSE {stack_[Top.begin]}) :
       IF IsA(instance, "instance")
       THEN /\ objects' = [objects EXCEPT ![instance].fields = With(@, name, Last(stack_))]
            /\ UNCHANGED <<stack_, call_frames_, globals_, declaring, declared, status>>
       ELSE RuntimeError

(* In a class without superclass `super' is a global variable, and no global *)
(* variable has this name.                                                  *)
NoSuper == declared[objects[Top.closure].function.class].superclass = 0

(* Mutant: the class of the object. *)
ClassOfThis == objects[stack_[Top.begin]].klass

(* get_upvalue of `super'. *)
Superclass == objects[Top.closure].super

(* `super.name' in a method: get_local of `this', get_upvalue of `super',   *)
(* get_super.                                                               *)
GetSuper(name) ==
  LET instance == stack_[Top.begin]
      superclass == Superclass
  IN  /\ Executing /\ ~InScript /\ Top.temps < MaxTemps
      /\ IF NoSuper THEN RuntimeError
         ELSE IF ~IsA(superclass, "class") \/ ~IsA(instance, "instance") THEN Stop("crashed")
         ELSE IF name \in DOMAIN objects[superclass].methods
         THEN Bind(0, instance, objects[superclass].methods[name])
         ELSE RuntimeError

-----------------------------------------------------------------------------
(* Calls *)

(* Run a closure whose slot 0 is on top of the stack. *)
Enter(closure, made) ==
  /\ Len(call_frames_) < MaxFrames
  /\ call_frames_' = Append([call_frames_ EXCEPT ![Len(call_frames_)].temps = @ - 1],
                            Frame(closure, Len(stack_), made))

(* Mutant: the bound method stays in slot 0. *)
Callee(bound) == bound

(* What slot 0 becomes when a bound method is called. *)
Receiver(bound) == objects[bound].instance

(* Functions that are no methods are the subject of Closures. *)
Call(arity_matches) ==
  LET callable == Last(stack_)
      methods == objects[callable].methods
  IN  /\ Executing /\ Top.temps > 0
      /\ IF ~arity_matches \/ ~(IsA(callable, "class") \/ IsA(callable, "bound"))
         THEN RuntimeError
         ELSE /\ \/ /\ IsA(callable, "class")
                    /\ HasRoom
                    /\ objects' = With(objects, New, Instance(callable))
                    /\ stack_' = Append(Front(stack_), New)
                    /\ IF "init" \in DOMAIN methods THEN Enter(methods["init"], New)
                       ELSE UNCHANGED call_frames_
                 \/ /\ IsA(callable, "bound")
                    /\ stack_' = Append(Front(stack_), Receiver(callable))
                    /\ Enter(objects[callable].method, Nil)
                    /\ UNCHANGED objects
              /\ UNCHANGED <<globals_, declaring, declared, status>>

Initializing == objects[Top.closure].function.name = "init"

(* Mutant: an initializer returns nil, as other methods do. *)
ResultOfMethod == IF Top.temps = 1 THEN Last(stack_) ELSE Nil

(* What the compiler puts before return_: `this' in an initializer,         *)
(* otherwise a value of the program, or nil.                                *)
Result ==
  IF Initializing THEN stack_[Top.begin] ELSE IF Top.temps = 1 THEN Last(stack_) ELSE Nil

Return ==
  /\ Executing /\ ~InScript /\ Top.temps <= 1
  /\ Initializing => Top.temps = 0
  /\ stack_' = Append(SubSeq(stack_, 1, Top.begin - 1), Result)
  /\ call_frames_' = [Front(call_frames_) EXCEPT ![Len(call_frames_) - 1].temps = @ + 1]
  /\ UNCHANGED <<globals_, objects, declaring, declared, status>>

EndScript ==
  /\ Executing /\ InScript /\ Top.temps = 0
  /\ Stop("over")

-----------------------------------------------------------------------------
(* The collector *)

CollectGarbage ==
  /\ Running /\ Reached # DOMAIN objects
  /\ objects' = Restrict(objects, Reached)
  /\ UNCHANGED <<stack_, call_frames_, globals_, declaring, declared, status>>

ClassesNext ==
  \/ PushNil \/ Pop \/ GetThis
  \/ \E x \in Variables : GetGlobal(x) \/ SetGlobal(x) \/ Inherit(x) \/ EndClass(x)
  \/ \E arity_matches \in BOOLEAN : Call(arity_matches)
  \/ BeginClass
  \/ \E name \in Names : AddMethod(name) \/ GetProperty(name) \/ GetSuper(name)
  \/ \E name \in Fields : SetProperty(name)
  \/ Return \/ EndScript
  \/ CollectGarbage

ClassesSpec == ClassesInit /\ [][ClassesNext]_classesVars

-----------------------------------------------------------------------------
(* Properties *)

Declarations == IF declaring = "no" THEN declared ELSE Front(declared)
Of(kind) == {i \in DOMAIN objects : objects[i].kind = kind}
FunctionOf(closure) == objects[closure].function

(* The objects and the activations, without tables and stack. *)
Instances ==
  [i \in Of("instance") |->
     [class |-> objects[objects[i].klass].declaration, fields |-> DOMAIN objects[i].fields]]
Bounds ==
  {[receiver |-> objects[b].instance, method |-> FunctionOf(objects[b].method)] :
     b \in Of("bound")}
Activations ==
  [i \in 1 .. Len(call_frames_) - 1 |->
     [receiver |-> stack_[call_frames_[i + 1].begin],
      method |-> FunctionOf(call_frames_[i + 1].closure)]]

Resolution ==
  INSTANCE MethodResolution WITH
    Object <- 1..NObjects,
    classes <- Declarations, instances <- Instances, bounds <- Bounds, activations <- Activations

(* The tables are copied and the objects are pointers, but the calls are    *)
(* those of lookup along the superclasses: a method belongs to the class    *)
(* of its object, also after the variables of the classes were assigned     *)
(* and the superclass was collected; `super' starts above the class whose   *)
(* method runs, whatever the class of its object; a field hides a method    *)
(* (vm.cpp:134-155, 320-368, 395-413).                                      *)
ImplementsMethodResolution == Resolution!ResolutionSpec

(* Every object points to objects of the kind the code takes them for, and  *)
(* every activation has its slots and its operands on the stack.            *)
ClassesTypeOK ==
  /\ stack_ \in Seq(Value)
  /\ DOMAIN globals_ \subseteq Variables /\ Range(globals_) \subseteq Value
  /\ DOMAIN objects \subseteq 1..NObjects
  /\ \A i \in DOMAIN objects :
       LET o == objects[i]
       IN  CASE o.kind = "class" ->
                  /\ DOMAIN o.methods \subseteq Names
                  /\ \A name \in DOMAIN o.methods : IsA(o.methods[name], "closure")
                  /\ o.declaration \in DOMAIN declared
             [] o.kind = "instance" ->
                  IsA(o.klass, "class") /\ DOMAIN o.fields \subseteq Names
             [] o.kind = "bound" -> IsA(o.instance, "instance") /\ IsA(o.method, "closure")
             [] o.kind = "closure" -> o.function.class \in DOMAIN declared
  /\ declaring \in {"no", "class"} \cup Variables
  /\ status \in {"running", "over", "failed", "crashed"}
  /\ Running => call_frames_ # <<>>
  /\ \A n \in DOMAIN call_frames_ :
       LET frame == call_frames_[n]
           last == n = Len(call_frames_)
           end == IF last THEN Len(stack_) ELSE call_frames_[n + 1].begin - 1
           this == IF n = 1 THEN 0 ELSE 1
           extra == IF ~last \/ declaring = "no" THEN 0 ELSE IF declaring = "class" THEN 1 ELSE 3
       IN  end = frame.begin - 1 + this + frame.temps + extra

(* A class and those it inherits from, among the declared ones. *)
Line(classes, class) ==
  ReachableFrom(DOMAIN classes,
                [n \in DOMAIN classes |-> {classes[n].superclass} \ {0}], {class})

(* A class has exactly the methods of its declaration and of those it       *)
(* inherits from, the nearest one of each name: a table that was copied     *)
(* never misses a method that its source got later (vm.cpp:406).            *)
TablesAreComplete ==
  \A c \in Of("class") :
    LET line == Line(declared, objects[c].declaration)
        Inherited(name) == {n \in line : name \in declared[n].own}
    IN  /\ \A name \in Names : name \in DOMAIN objects[c].methods <=> Inherited(name) # {}
        /\ \A name \in DOMAIN objects[c].methods :
             LET nearest == CHOOSE n \in Inherited(name) : \A m \in Inherited(name) : m <= n
             IN  FunctionOf(objects[c].methods[name]) = Function(nearest, name)

(* In a method, slot 0 is an instance whose class inherits the method's:    *)
(* neither an instance of something else nor the callee (vm.cpp:151-155,    *)
(* 167-170).                                                                *)
ThisIsReceiver ==
  \A n \in 2 .. Len(call_frames_) :
    LET frame == call_frames_[n]
        this == stack_[frame.begin]
    IN  /\ IsA(this, "instance")
        /\ FunctionOf(frame.closure).class \in
             Line(declared, objects[objects[this].klass].declaration)

(* No std::bad_variant_access, which no handler catches (vm.cpp:354-355,    *)
(* 405, 466-467).                                                           *)
NoBadVariantAccess == status # "crashed"

(* Nothing that a pointer of a live object, the stack, a global variable or *)
(* an activation leads to was ever collected (vm.cpp:27-40,                 *)
(* object.cpp:5-69).                                                        *)
NoObjectFreedInUse ==
  /\ Roots \subseteq DOMAIN objects
  /\ \A i \in DOMAIN objects :
       LET o == objects[i]
       IN  Held(CASE o.kind = "class" -> {o.methods[name] : name \in DOMAIN o.methods}
                  [] o.kind = "instance" ->
                       {o.klass} \cup {o.fields[name] : name \in DOMAIN o.fields}
                  [] o.kind = "bound" -> {o.instance, o.method}
                  [] o.kind = "closure" -> {o.super}) \subseteq DOMAIN objects

(* A call of a class leaves the instance it made, whatever the initializer  *)
(* did before it returned (vm.cpp:151-155, compiler.cpp:626-635, 746-760).  *)
ConstructionYieldsInstance ==
  [][ Len(call_frames_') = Len(call_frames_) - 1 /\ status' = "running" /\ Top.made # Nil =>
        /\ Last(stack_') = Top.made
        /\ Len(stack_') = Top.begin ]_classesVars
=============================================================================
