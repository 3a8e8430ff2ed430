--------------------------- MODULE ClassesProofs ---------------------------
(***************************************************************************)
(* Classes keeps its objects, its slots and the meaning of `this', for any *)
(* names, any variables and any bounds; its method tables are complete,    *)
(* and it implements MethodResolution, which has no tables.                *)
(*                                                                         *)
(* None of the properties is inductive: that slot 0 of a method holds an   *)
(* instance that inherits the method depends on what the bound methods,    *)
(* the method tables and the captured superclasses hold.  ClassesIInv says *)
(* it of all of them.  The lemmas first say what a step may do to the      *)
(* objects and the declarations without disturbing any of this (Grows),    *)
(* and then go through the ways it changes the objects.                    *)
(*                                                                         *)
(* Although inherit copies a table once, no class ever misses a method of  *)
(* a superclass nor keeps one that was overridden: only the class that is  *)
(* being declared changes, no other class has the same declaration, and no *)
(* class inherits from it before it is complete.  What a call or an access *)
(* to a property finds in a table is then what a search along the          *)
(* superclasses finds, and every step is a step of the abstract            *)
(* specification or leaves what it sees of the objects and of the          *)
(* activations as it is.                                                   *)
(***************************************************************************)
EXTENDS Classes, ReachabilityProofs, SequenceTheorems, WellFoundedInduction

Live(v) == v = Nil \/ v \in DOMAIN objects
Is(v, kind) == v \in DOMAIN objects /\ objects[v].kind = kind

(* The closure is a method of the class or of one it inherits from. *)
MethodOf(closure, class) ==
  /\ Is(closure, "closure")
  /\ FunctionOf(closure).class \in Line(declared, class)

ClassOf(instance) == objects[objects[instance].klass].declaration

ClassOK(o) ==
  /\ DOMAIN o = {"kind", "methods", "declaration"}
  /\ o.declaration \in DOMAIN declared
  /\ DOMAIN o.methods \subseteq Names
  /\ \A name \in DOMAIN o.methods :
       /\ MethodOf(o.methods[name], o.declaration)
       /\ FunctionOf(o.methods[name]).name = name

InstanceOK(o) ==
  /\ DOMAIN o = {"kind", "klass", "fields"}
  /\ Is(o.klass, "class")
  /\ DOMAIN o.fields \subseteq Names
  /\ \A name \in DOMAIN o.fields : Live(o.fields[name])

BoundOK(o) ==
  /\ DOMAIN o = {"kind", "instance", "method"}
  /\ Is(o.instance, "instance")
  /\ MethodOf(o.method, ClassOf(o.instance))

ClosureOK(o) ==
  /\ DOMAIN o = {"kind", "function", "super"}
  /\ o.function.class \in DOMAIN declared
  /\ o.function.name \in declared[o.function.class].own
  /\ LET superclass == declared[o.function.class].superclass
     IN  IF superclass = 0 THEN o.super = Nil
         ELSE Is(o.super, "class") /\ objects[o.super].declaration = superclass

ObjectOK(o) ==
  \/ o.kind = "class" /\ ClassOK(o)
  \/ o.kind = "instance" /\ InstanceOK(o)
  \/ o.kind = "bound" /\ BoundOK(o)
  \/ o.kind = "closure" /\ ClosureOK(o)

ObjectsOK ==
  /\ DOMAIN objects \subseteq 1..NObjects
  /\ \A i \in DOMAIN objects : ObjectOK(objects[i])

(* A class has a superclass that was declared before it. *)
Declarations_(ds) ==
  /\ ds \in Seq([superclass : Nat, own : SUBSET Names])
  /\ \A n \in DOMAIN ds : ds[n].superclass \in 0 .. n - 1

ValuesOK ==
  /\ stack_ \in Seq(Value)
  /\ \A i \in 1 .. Len(stack_) : Live(stack_[i])
  /\ DOMAIN globals_ \subseteq Variables
  /\ \A x \in DOMAIN globals_ : Live(globals_[x])

(* An activation and its slot 0. *)
ActivationOK(frame, this) ==
  /\ Is(this, "instance")
  /\ MethodOf(frame.closure, ClassOf(this))
  /\ frame.made # Nil => this = frame.made /\ FunctionOf(frame.closure).name = "init"

FrameType == [closure : Value, begin : Nat \ {0}, temps : Nat, made : Value]

ActivationsOK ==
  /\ call_frames_ \in Seq(FrameType)
  /\ Len(call_frames_) > 0 => call_frames_[1].begin = 1 /\ call_frames_[1].closure = Nil
  /\ \A n \in 2 .. Len(call_frames_) :
       /\ call_frames_[n].begin \in 1 .. Len(stack_)
       /\ ActivationOK(call_frames_[n], stack_[call_frames_[n].begin])
  /\ \A m, n \in 2 .. Len(call_frames_) : m < n => call_frames_[m].begin < call_frames_[n].begin

(* What is on the stack for the class declaration being carried out. *)
Extras == IF declaring = "no" THEN 0 ELSE IF declaring = "class" THEN 1 ELSE 3
This(n) == IF n = 1 THEN 0 ELSE 1

SlotsOK ==
  /\ \A n \in 1 .. Len(call_frames_) - 1 :
       call_frames_[n + 1].begin = call_frames_[n].begin + This(n) + call_frames_[n].temps
  /\ Len(call_frames_) > 0 =>
       Len(stack_) = Top.begin - 1 + This(Len(call_frames_)) + Top.temps + Extras

DeclaringOK ==
  declaring # "no" =>
    /\ InScript /\ Len(declared) > 0
    /\ LET n == Len(declared)
           klass == Last(stack_)
           superclass == declared[n].superclass
       IN  /\ Is(klass, "class") /\ objects[klass].declaration = n
           /\ declaring = "class" => superclass = 0
           /\ declaring # "class" =>
                /\ superclass # 0
                /\ Is(stack_[Len(stack_) - 1], "class")
                /\ objects[stack_[Len(stack_) - 1]].declaration = superclass
           /\ \A x \in DOMAIN globals_ :
                Is(globals_[x], "class") => objects[globals_[x]].declaration # n

StatusOK ==
  /\ status \in {"running", "over", "failed"}
  /\ declaring \in {"no", "class"} \cup Variables
  /\ Running => Len(call_frames_) > 0

ClassesIInv ==
  /\ StatusOK /\ Declarations_(declared) /\ ObjectsOK /\ ValuesOK /\ ActivationsOK /\ SlotsOK
  /\ Running => DeclaringOK
  /\ ~Running => stack_ = <<>> /\ call_frames_ = <<>> /\ globals_ = <<>> /\ objects = <<>>

-----------------------------------------------------------------------------
(* Superclasses *)

LEMMA LineFacts ==
  ASSUME NEW ds, Declarations_(ds), NEW d \in DOMAIN ds
  PROVE  /\ Line(ds, d) \subseteq DOMAIN ds
         /\ d \in Line(ds, d)
         /\ \A m \in Line(ds, d) : ds[m].superclass # 0 => ds[m].superclass \in Line(ds, d)
         /\ \A m \in Line(ds, d) : Line(ds, m) \subseteq Line(ds, d)
<1> DEFINE E == [n \in DOMAIN ds |-> {ds[n].superclass} \ {0}]
<1>1. DOMAIN ds = 1 .. Len(ds) /\ Len(ds) \in Nat
  BY DEF Declarations_
<1>2. \A n \in DOMAIN ds : E[n] \subseteq DOMAIN ds
  BY <1>1 DEF Declarations_
<1>3. Closed(DOMAIN ds, E)
  BY <1>2 DEF Closed
<1>4. \A n \in DOMAIN ds : Line(ds, n) = ReachableFrom(DOMAIN ds, E, {n})
  BY DEF Line
<1>5. \A n \in DOMAIN ds : ds[n].superclass # 0 => ds[n].superclass \in E[n]
  OBVIOUS
<1>. HIDE DEF E
<1>6. /\ Line(ds, d) \subseteq DOMAIN ds /\ {d} \subseteq Line(ds, d)
      /\ Closed(Line(ds, d), E)
  <2>1. {d} \subseteq DOMAIN ds
    OBVIOUS
  <2>2. /\ ReachableFrom(DOMAIN ds, E, {d}) \subseteq DOMAIN ds
        /\ {d} \subseteq ReachableFrom(DOMAIN ds, E, {d})
        /\ Closed(ReachableFrom(DOMAIN ds, E, {d}), E)
    BY <1>3, <2>1, ReachableClosed
  <2>. QED
    BY <1>4, <2>2
<1>7. ASSUME NEW m \in Line(ds, d)
      PROVE  Line(ds, m) \subseteq Line(ds, d)
  <2>1. Line(ds, d) \in SUBSET DOMAIN ds /\ {m} \subseteq Line(ds, d) /\ m \in DOMAIN ds
    BY <1>6
  <2>2. ReachableFrom(DOMAIN ds, E, {m}) \subseteq Line(ds, d)
    BY <1>6, <2>1, ReachableLeast
  <2>. QED
    BY <1>4, <2>1, <2>2
<1>. QED
  BY <1>5, <1>6, <1>7 DEF Closed

(* A class gets a superclass later, and its line gets longer. *)
LEMMA LineGrows ==
  ASSUME NEW ds, Declarations_(ds), NEW es, Declarations_(es), DOMAIN ds \subseteq DOMAIN es,
         \A n \in DOMAIN ds : ds[n].superclass # 0 => es[n].superclass = ds[n].superclass,
         NEW d \in DOMAIN ds
  PROVE  Line(ds, d) \subseteq Line(es, d)
<1> DEFINE E == [n \in DOMAIN ds |-> {ds[n].superclass} \ {0}]
           S == Line(es, d) \cap DOMAIN ds
<1>1. /\ d \in Line(es, d)
      /\ \A m \in Line(es, d) : es[m].superclass # 0 => es[m].superclass \in Line(es, d)
  BY LineFacts
<1>2. \A n \in DOMAIN ds : ds[n].superclass # 0 => ds[n].superclass \in DOMAIN ds
  <2>1. DOMAIN ds = 1 .. Len(ds) /\ Len(ds) \in Nat
    BY DEF Declarations_
  <2>2. \A n \in DOMAIN ds : ds[n].superclass \in 0 .. n - 1
    BY DEF Declarations_
  <2>. QED
    BY <2>1, <2>2
<1>3. Closed(S, E)
  BY <1>1, <1>2 DEF Closed
<1>4. S \in SUBSET DOMAIN ds /\ {d} \subseteq S
  BY <1>1
<1>. HIDE DEF S, E
<1>5. ReachableFrom(DOMAIN ds, E, {d}) \subseteq S
  BY <1>3, <1>4, ReachableLeast
<1>. USE DEF S, E
<1>. QED
  BY <1>5 DEF Line

-----------------------------------------------------------------------------
(* What a step leaves as it is *)

SameRole(o, p) ==
  /\ p.kind = o.kind
  /\ o.kind = "class" => p.declaration = o.declaration
  /\ o.kind = "instance" => p.klass = o.klass
  /\ o.kind = "closure" => p.function = o.function

DeclaredGrows ==
  /\ Declarations_(declared) /\ Declarations_(declared')
  /\ DOMAIN declared \subseteq DOMAIN declared'
  /\ \A n \in DOMAIN declared :
       /\ declared[n].own \subseteq declared'[n].own
       /\ \/ declared'[n].superclass = declared[n].superclass
          \/ declared[n].superclass = 0 /\ declared[n].own = {}

(* A step keeps the objects in K, which point to no others. *)
Keeps(K) ==
  /\ K \subseteq DOMAIN objects /\ K \subseteq DOMAIN objects'
  /\ \A i \in K : Traced(objects[i]) \subseteq K /\ SameRole(objects[i], objects'[i])
  /\ DeclaredGrows

LEMMA KindOK ==
  ASSUME NEW o, ObjectOK(o)
  PROVE  /\ o.kind = "class" => ClassOK(o)
         /\ o.kind = "instance" => InstanceOK(o)
         /\ o.kind = "bound" => BoundOK(o)
         /\ o.kind = "closure" => ClosureOK(o)
BY DEF ObjectOK

LEMMA TracedClass ==
  ASSUME NEW o, o.kind = "class"
  PROVE  \A name \in DOMAIN o.methods : o.methods[name] # Nil => o.methods[name] \in Traced(o)
BY DEF Traced, Held, Range

LEMMA TracedInstance ==
  ASSUME NEW o, o.kind = "instance"
  PROVE  /\ o.klass # Nil => o.klass \in Traced(o)
         /\ \A name \in DOMAIN o.fields : o.fields[name] # Nil => o.fields[name] \in Traced(o)
BY DEF Traced, Held, Range

LEMMA TracedBound ==
  ASSUME NEW o, o.kind = "bound"
  PROVE  /\ o.instance # Nil => o.instance \in Traced(o)
         /\ o.method # Nil => o.method \in Traced(o)
BY DEF Traced, Held

LEMMA TracedClosure ==
  ASSUME NEW o, o.kind = "closure"
  PROVE  o.super # Nil => o.super \in Traced(o)
BY DEF Traced, Held

LEMMA NilIsNothing ==
  ASSUME ObjectsOK
  PROVE  Nil \notin DOMAIN objects /\ DOMAIN objects \subseteq Value
  <1>1. NObjects \in Nat
    BY ClassesAssumption
  <1>. QED
    BY <1>1 DEF ObjectsOK, Nil, Value

(* No object points to one that was freed. *)
LEMMA NoDanglingPointer ==
  ASSUME ObjectsOK, NEW i \in DOMAIN objects
  PROVE  Traced(objects[i]) \subseteq DOMAIN objects
<1> DEFINE o == objects[i]
<1>1. SUFFICES ASSUME ObjectOK(o) PROVE Traced(o) \subseteq DOMAIN objects
  BY DEF ObjectsOK
<1>. HIDE DEF o
<1>2. CASE o.kind = "class"
  BY <1>1, <1>2, KindOK DEF ClassOK, MethodOf, Is, Traced, Held, Range
<1>3. CASE o.kind = "instance"
  BY <1>1, <1>3, KindOK DEF InstanceOK, Live, Is, Traced, Held, Range
<1>4. CASE o.kind = "bound"
  BY <1>1, <1>4, KindOK DEF BoundOK, MethodOf, Is, Traced, Held, Range
<1>5. CASE o.kind = "closure"
  BY <1>1, <1>5, KindOK DEF ClosureOK, Is, Traced, Held, Range
<1>. QED
  BY <1>1, <1>2, <1>3, <1>4, <1>5 DEF ObjectOK

LEMMA ClassOfType ==
  ASSUME ObjectsOK, NEW v, Is(v, "instance")
  PROVE  Is(objects[v].klass, "class") /\ ClassOf(v) \in DOMAIN declared
<1>1. InstanceOK(objects[v])
  BY KindOK DEF ObjectsOK, Is
<1>2. Is(objects[v].klass, "class")
  BY <1>1 DEF InstanceOK
<1>3. ClassOK(objects[objects[v].klass])
  BY <1>2, KindOK DEF ObjectsOK, Is
<1>. QED
  BY <1>2, <1>3 DEF ClassOK, ClassOf

LEMMA KeepsFacts ==
  ASSUME NEW K, Keeps(K), ObjectsOK
  PROVE  /\ \A v \in K \cup {Nil} : Live(v)'
         /\ \A v \in K : \A kind : Is(v, kind) => Is(v, kind)'
         /\ \A v \in K : Is(v, "class") => objects'[v].declaration = objects[v].declaration
         /\ \A v \in K : Is(v, "closure") => FunctionOf(v)' = FunctionOf(v)
         /\ \A v \in K : Is(v, "instance") => ClassOf(v)' = ClassOf(v)
         /\ \A v \in K : \A d \in DOMAIN declared : MethodOf(v, d) => MethodOf(v, d)'
<1>1. \A v \in K \cup {Nil} : Live(v)'
  BY DEF Keeps, Live
<1>2. \A v \in K : \A kind : Is(v, kind) => Is(v, kind)'
  BY DEF Keeps, Is, SameRole
<1>3. \A v \in K : Is(v, "class") => objects'[v].declaration = objects[v].declaration
  BY DEF Keeps, Is, SameRole
<1>4. \A v \in K : Is(v, "closure") => FunctionOf(v)' = FunctionOf(v)
  BY DEF Keeps, Is, SameRole, FunctionOf
<1>5. ASSUME NEW v \in K, Is(v, "instance")
      PROVE  ClassOf(v)' = ClassOf(v)
  <2>1. Is(objects[v].klass, "class") /\ objects[v].klass # Nil
    BY <1>5, ClassOfType, NilIsNothing DEF Is
  <2>2. objects[v].klass \in K
    BY <1>5, <2>1, TracedInstance DEF Keeps, Is
  <2>3. objects'[v].klass = objects[v].klass
    BY <1>5 DEF Keeps, SameRole, Is
  <2>. QED
    BY <1>3, <2>1, <2>2, <2>3 DEF ClassOf
<1>6. ASSUME NEW v \in K, NEW d \in DOMAIN declared, MethodOf(v, d)
      PROVE  MethodOf(v, d)'
  <2>1. Line(declared, d) \subseteq Line(declared', d)
    BY LineGrows DEF Keeps, DeclaredGrows
  <2>. QED
    BY <1>2, <1>4, <1>6, <2>1 DEF MethodOf
<1>. QED
  BY <1>1, <1>2, <1>3, <1>4, <1>5, <1>6

LEMMA KeepsObject ==
  ASSUME NEW K, Keeps(K), ObjectsOK, NEW o, ObjectOK(o), Traced(o) \subseteq K
  PROVE  ObjectOK(o)'
<1>. Nil \notin DOMAIN objects
  BY NilIsNothing
<1>1. DOMAIN declared \subseteq DOMAIN declared'
  BY DEF Keeps, DeclaredGrows
<1>2. CASE o.kind = "class"
  <2>1. ClassOK(o)
    BY <1>2, KindOK
  <2>2. ASSUME NEW name \in DOMAIN o.methods
        PROVE  /\ MethodOf(o.methods[name], o.declaration)'
               /\ FunctionOf(o.methods[name])' = FunctionOf(o.methods[name])
    <3>1. MethodOf(o.methods[name], o.declaration) /\ o.declaration \in DOMAIN declared
      BY <2>1 DEF ClassOK
    <3>2. Is(o.methods[name], "closure") /\ o.methods[name] # Nil
      BY <3>1 DEF MethodOf, Is
    <3>3. o.methods[name] \in K
      BY <1>2, <3>2, TracedClass
    <3>. QED
      BY <3>1, <3>2, <3>3, KeepsFacts
  <2>3. ClassOK(o)'
    BY <1>1, <2>1, <2>2 DEF ClassOK
  <2>. QED
    BY <1>2, <2>3 DEF ObjectOK
<1>3. CASE o.kind = "instance"
  <2>1. InstanceOK(o)
    BY <1>3, KindOK
  <2>2. o.klass \in K /\ Is(o.klass, "class")
    BY <1>3, <2>1, TracedInstance DEF InstanceOK, Is
  <2>3. Is(o.klass, "class")'
    BY <2>2, KeepsFacts
  <2>4. ASSUME NEW name \in DOMAIN o.fields
        PROVE  Live(o.fields[name])'
    <3>1. o.fields[name] \in K \cup {Nil}
      BY <1>3, TracedInstance
    <3>. QED
      BY <3>1, KeepsFacts
  <2>5. InstanceOK(o)'
    BY <2>1, <2>3, <2>4 DEF InstanceOK
  <2>. QED
    BY <1>3, <2>5 DEF ObjectOK
<1>4. CASE o.kind = "bound"
  <2>1. BoundOK(o)
    BY <1>4, KindOK
  <2>2. Is(o.instance, "instance") /\ MethodOf(o.method, ClassOf(o.instance))
    BY <2>1 DEF BoundOK
  <2>3. o.instance \in K /\ o.method \in K
    BY <1>4, <2>2, TracedBound DEF MethodOf, Is
  <2>4. Is(o.instance, "instance")' /\ ClassOf(o.instance)' = ClassOf(o.instance)
    BY <2>2, <2>3, KeepsFacts
  <2>5. MethodOf(o.method, ClassOf(o.instance))'
    <3> DEFINE d == ClassOf(o.instance)
    <3>1. d \in DOMAIN declared
      BY <2>2, ClassOfType
    <3>2. MethodOf(o.method, d)
      BY <2>2
    <3>. HIDE DEF d
    <3>3. \A e \in DOMAIN declared : MethodOf(o.method, e) => MethodOf(o.method, e)'
      BY <2>3, KeepsFacts
    <3>4. \A e \in DOMAIN declared : MethodOf(o.method, e) =>
            FunctionOf(o.method)'.class \in Line(declared', e) /\ Is(o.method, "closure")'
      BY <3>3 DEF MethodOf
    <3>5. FunctionOf(o.method)'.class \in Line(declared', d) /\ Is(o.method, "closure")'
      BY <3>1, <3>2, <3>4
    <3>6. ClassOf(o.instance)' = d
      BY <2>4 DEF d
    <3>. QED
      BY <3>5, <3>6 DEF MethodOf
  <2>6. BoundOK(o)'
    BY <2>1, <2>4, <2>5 DEF BoundOK
  <2>. QED
    BY <1>4, <2>6 DEF ObjectOK
<1>5. CASE o.kind = "closure"
  <2>1. ClosureOK(o)
    BY <1>5, KindOK
  <2> DEFINE c == o.function.class
             superclass == declared[c].superclass
  <2>2. c \in DOMAIN declared /\ o.function.name \in declared[c].own
    BY <2>1 DEF ClosureOK
  <2>3. declared'[c].superclass = superclass /\ o.function.name \in declared'[c].own
    BY <2>2 DEF Keeps, DeclaredGrows
  <2>4. CASE superclass = 0
    BY <1>1, <1>5, <2>1, <2>2, <2>3, <2>4 DEF ClosureOK, ObjectOK
  <2>5. CASE superclass # 0
    <3>1. Is(o.super, "class") /\ objects[o.super].declaration = superclass
      BY <2>1, <2>5 DEF ClosureOK
    <3>2. o.super \in K
      BY <1>5, <3>1, TracedClosure DEF Is
    <3>3. Is(o.super, "class")' /\ objects'[o.super].declaration = superclass
      BY <3>1, <3>2, KeepsFacts
    <3>4. ClosureOK(o)'
      BY <1>1, <2>1, <2>2, <2>3, <2>5, <3>3 DEF ClosureOK
    <3>. QED
      BY <1>5, <3>4 DEF ObjectOK
  <2>. QED
    BY <2>4, <2>5
<1>. QED
  BY <1>2, <1>3, <1>4, <1>5 DEF ObjectOK

LEMMA ObjectsKept ==
  ASSUME NEW K, Keeps(K), ObjectsOK, DOMAIN objects' \subseteq 1..NObjects,
         \A i \in DOMAIN objects' :
           (i \in K /\ objects'[i] = objects[i]) \/ ObjectOK(objects[i])'
  PROVE  ObjectsOK'
<1>1. ASSUME NEW i \in DOMAIN objects', i \in K, objects'[i] = objects[i]
      PROVE  ObjectOK(objects[i])'
  <2> DEFINE o == objects[i]
  <2>1. ObjectOK(o) /\ Traced(o) \subseteq K
    BY <1>1 DEF ObjectsOK, Keeps
  <2>2. \E p : p = o
    OBVIOUS
  <2>3. PICK p : p = o
    BY <2>2
  <2>. HIDE DEF o
  <2>4. ObjectOK(p)'
    BY <2>1, <2>3, KeepsObject
  <2>5. objects'[i] = p
    BY <1>1, <2>3 DEF o
  <2>. QED
    BY <2>4, <2>5 DEF ObjectOK, ClassOK, InstanceOK, BoundOK, ClosureOK
<1>. QED
  BY <1>1 DEF ObjectsOK

LEMMA ActivationKept ==
  ASSUME NEW K, Keeps(K), ObjectsOK, NEW frame, NEW this, ActivationOK(frame, this),
         this \in K, frame.closure \in K
  PROVE  ActivationOK(frame, this)'
<1> DEFINE d == ClassOf(this)
<1>1. /\ Is(this, "instance") /\ MethodOf(frame.closure, d) /\ Is(frame.closure, "closure")
      /\ frame.made # Nil => this = frame.made /\ FunctionOf(frame.closure).name = "init"
  BY DEF ActivationOK, MethodOf
<1>2. d \in DOMAIN declared
  BY <1>1, ClassOfType
<1>3. ClassOf(this)' = d
  BY <1>1, KeepsFacts
<1>. HIDE DEF d
<1>4. \A e \in DOMAIN declared : MethodOf(frame.closure, e) =>
        FunctionOf(frame.closure)'.class \in Line(declared', e) /\ Is(frame.closure, "closure")'
  BY KeepsFacts DEF MethodOf
<1>5. MethodOf(frame.closure, ClassOf(this))'
  BY <1>1, <1>2, <1>3, <1>4 DEF MethodOf
<1>. QED
  BY <1>1, <1>5, KeepsFacts DEF ActivationOK

-----------------------------------------------------------------------------
(* Activations *)

WithTemps(f, k, t) == [f EXCEPT ![k].temps = t]

(* The n-th frames differ in nothing but the operands. *)
SameFrame(f, g, n) ==
  g[n].begin = f[n].begin /\ g[n].closure = f[n].closure /\ g[n].made = f[n].made
HasTemps(f, n, t) == f[n].temps = t

LEMMA FrameChange ==
  ASSUME NEW f \in Seq(FrameType), NEW k \in 1 .. Len(f), NEW t \in Nat,
         NEW g, g = WithTemps(f, k, t)
  PROVE  /\ g \in Seq(FrameType) /\ Len(g) = Len(f) /\ HasTemps(g, k, t)
         /\ \A n \in 1 .. Len(f) :
              SameFrame(f, g, n) /\ (n # k => HasTemps(g, n, f[n].temps))
<1>1. g = [f EXCEPT ![k] = [f[k] EXCEPT !.temps = t]]
  BY DEF WithTemps
<1>2. f[k] \in FrameType
  OBVIOUS
<1>3. [f[k] EXCEPT !.temps = t] \in FrameType
  BY <1>2 DEF FrameType
<1>4. g \in Seq(FrameType) /\ Len(g) = Len(f)
  BY <1>1, <1>3
<1>5. ASSUME NEW n \in 1 .. Len(f)
      PROVE  /\ SameFrame(f, g, n)
             /\ n = k => HasTemps(g, n, t)
             /\ n # k => HasTemps(g, n, f[n].temps)
  <2>1. g[n] = IF n = k THEN [f[k] EXCEPT !.temps = t] ELSE f[n]
    BY <1>1
  <2>2. CASE n = k
    BY <1>2, <2>1, <2>2 DEF FrameType, SameFrame, HasTemps
  <2>. QED
    BY <2>1, <2>2 DEF SameFrame, HasTemps
<1>. QED
  BY <1>4, <1>5

(* Below the operands of the last activation the stack stays. *)
Base == Top.begin - 1 + This(Len(call_frames_))

LEMMA BaseFacts ==
  ASSUME ClassesIInv, Running
  PROVE  /\ Len(call_frames_) \in Nat \ {0} /\ Len(stack_) \in Nat
         /\ Top = call_frames_[Len(call_frames_)] /\ Top \in FrameType
         /\ Base \in Nat /\ Top.temps \in Nat /\ Extras \in Nat /\ Top.begin \in Nat \ {0}
         /\ Len(stack_) = Base + Top.temps + Extras
         /\ Len(call_frames_) >= 2 => Base = Top.begin
         /\ \A n \in 2 .. Len(call_frames_) : call_frames_[n].begin \in 1 .. Base
<1>1. /\ call_frames_ \in Seq(FrameType) /\ stack_ \in Seq(Value) /\ Len(call_frames_) > 0
  BY DEF ClassesIInv, ActivationsOK, StatusOK, ValuesOK
<1>2. /\ Len(call_frames_) \in Nat \ {0} /\ Len(stack_) \in Nat
      /\ Top = call_frames_[Len(call_frames_)] /\ Top \in FrameType
  BY <1>1 DEF Top, Last
<1>3. Top.temps \in Nat /\ Extras \in Nat /\ Top.begin \in Nat \ {0}
  BY <1>2 DEF FrameType, Extras
<1>4. Base \in Nat /\ (Len(call_frames_) >= 2 => Base = Top.begin)
  BY <1>2, <1>3 DEF Base, This
<1>5. Len(stack_) = Base + Top.temps + Extras
  BY <1>1 DEF ClassesIInv, SlotsOK, Base
<1>6. ASSUME NEW n \in 2 .. Len(call_frames_)
      PROVE  call_frames_[n].begin \in 1 .. Base
  <2>1. call_frames_[n].begin \in Nat \ {0}
    <3>1. call_frames_[n] \in FrameType
      BY <1>1, <1>6
    <3>. QED
      BY <3>1 DEF FrameType
  <2>2. Base = Top.begin
    BY <1>2, <1>4
  <2>3. CASE n = Len(call_frames_)
    BY <1>2, <1>4, <2>1, <2>2, <2>3
  <2>4. CASE n < Len(call_frames_)
    <3>1. Len(call_frames_) \in 2 .. Len(call_frames_)
      BY <1>2
    <3>2. call_frames_[n].begin < Top.begin
      BY <1>2, <2>4, <3>1 DEF ClassesIInv, ActivationsOK
    <3>. QED
      BY <1>3, <2>1, <2>2, <3>2
  <2>. QED
    BY <1>2, <2>3, <2>4
<1>. QED
  BY <1>2, <1>3, <1>4, <1>5, <1>6

LEMMA OneFrame ==
  ASSUME ClassesIInv, Running, NEW K, Keeps(K),
         \A n \in 2 .. Len(call_frames_) :
           stack_[call_frames_[n].begin] \in K /\ call_frames_[n].closure \in K,
         NEW t \in Nat,
         call_frames_' = [call_frames_ EXCEPT ![Len(call_frames_)].temps = t],
         stack_' \in Seq(Value), Len(stack_') = Base + t + Extras',
         \A i \in 1 .. Base : stack_'[i] = stack_[i]
  PROVE  ActivationsOK' /\ SlotsOK' /\ Len(call_frames_') = Len(call_frames_)
<1> DEFINE k == Len(call_frames_)
<1>1. call_frames_ \in Seq(FrameType) /\ k \in 1 .. k /\ k \in Nat \ {0}
  BY BaseFacts DEF ClassesIInv, ActivationsOK
<1>2. /\ call_frames_' \in Seq(FrameType) /\ Len(call_frames_') = k
      /\ call_frames_'[k].temps = t
      /\ \A n \in 1 .. k : /\ call_frames_'[n].begin = call_frames_[n].begin
                           /\ call_frames_'[n].closure = call_frames_[n].closure
                           /\ call_frames_'[n].made = call_frames_[n].made
                           /\ n # k => call_frames_'[n].temps = call_frames_[n].temps
  <2>1. PICK f, g, l : f = call_frames_ /\ g = call_frames_' /\ l = k
    OBVIOUS
  <2>2. g = WithTemps(f, l, t) /\ f \in Seq(FrameType) /\ l \in 1 .. Len(f)
    BY <1>1, <2>1 DEF WithTemps
  <2>3. /\ g \in Seq(FrameType) /\ Len(g) = Len(f) /\ HasTemps(g, l, t)
        /\ \A n \in 1 .. Len(f) :
             SameFrame(f, g, n) /\ (n # l => HasTemps(g, n, f[n].temps))
    BY <2>2, FrameChange
  <2>. QED
    BY <2>1, <2>3 DEF SameFrame, HasTemps
<1>3. call_frames_'[1].begin = 1 /\ call_frames_'[1].closure = Nil
  BY <1>1, <1>2 DEF ClassesIInv, ActivationsOK
<1>4. Extras' \in Nat
  BY DEF Extras
<1>. HIDE DEF k
<1>5. ASSUME NEW n \in 2 .. k
      PROVE  /\ call_frames_'[n].begin \in 1 .. Len(stack_')
             /\ ActivationOK(call_frames_[n], stack_[call_frames_[n].begin])'
  <2> DEFINE frame == call_frames_[n]
             this == stack_[frame.begin]
  <2>1. frame.begin \in 1 .. Base /\ Base \in Nat
    BY <1>5, BaseFacts DEF k
  <2>2. frame.begin \in 1 .. Len(stack_')
    BY <1>4, <2>1
  <2>3. ActivationOK(frame, this) /\ this \in K /\ frame.closure \in K
    BY <1>5 DEF k, ClassesIInv, ActivationsOK
  <2>4. stack_'[call_frames_'[n].begin] = this
    BY <1>2, <1>5, <2>1
  <2>5. PICK f, v : f = frame /\ v = this
    OBVIOUS
  <2>. HIDE DEF frame, this
  <2>6. ActivationOK(f, v)'
    BY <2>3, <2>5, ActivationKept DEF ClassesIInv
  <2>7. /\ call_frames_'[n].closure = f.closure /\ call_frames_'[n].made = f.made
        /\ call_frames_'[n].begin = f.begin
    BY <1>2, <1>5, <2>5 DEF frame
  <2>. QED
    BY <2>2, <2>4, <2>5, <2>6, <2>7 DEF ActivationOK
<1>6. \A m, n \in 2 .. k : m < n => call_frames_'[m].begin < call_frames_'[n].begin
  BY <1>1, <1>2 DEF k, ClassesIInv, ActivationsOK
<1>7. ActivationsOK'
  BY <1>2, <1>3, <1>5, <1>6 DEF ActivationsOK
<1>8. ASSUME NEW n \in 1 .. k - 1
      PROVE  call_frames_'[n + 1].begin = call_frames_'[n].begin + This(n) + call_frames_'[n].temps
  <2>1. n \in 1 .. k /\ n + 1 \in 1 .. k /\ n # k
    BY <1>1, <1>8
  <2>. QED
    BY <1>2, <1>8, <2>1 DEF k, ClassesIInv, SlotsOK
<1>9. Len(stack_') = Top'.begin - 1 + This(Len(call_frames_')) + Top'.temps + Extras'
  <2>1. Top' = call_frames_'[k]
    BY <1>2 DEF Top, Last
  <2>2. Top'.begin = Top.begin /\ Top'.temps = t
    BY <1>1, <1>2, <2>1, BaseFacts DEF k
  <2>. QED
    BY <1>2, <2>2 DEF Base, k
<1>. QED
  BY <1>2, <1>7, <1>8, <1>9 DEF SlotsOK, This, k

-----------------------------------------------------------------------------
(* Steps *)

LEMMA KeepsAll ==
  ASSUME ObjectsOK, DeclaredGrows, DOMAIN objects \subseteq DOMAIN objects',
         \A i \in DOMAIN objects : SameRole(objects[i], objects'[i])
  PROVE  Keeps(DOMAIN objects)
BY NoDanglingPointer DEF Keeps

LEMMA SameDeclared ==
  ASSUME ClassesIInv, declared' = declared
  PROVE  DeclaredGrows
BY DEF DeclaredGrows, ClassesIInv

LEMMA SameObjects ==
  ASSUME ClassesIInv, objects' = objects, declared' = declared
  PROVE  Keeps(DOMAIN objects) /\ ObjectsOK'
<1>1. Keeps(DOMAIN objects)
  BY KeepsAll, SameDeclared DEF ClassesIInv, SameRole
<1>. QED
  BY <1>1, ObjectsKept DEF ClassesIInv, ObjectsOK

LEMMA Allocated ==
  ASSUME ClassesIInv, HasRoom, DeclaredGrows, NEW o, objects' = With(objects, New, o)
  PROVE  /\ New \in 1..NObjects /\ New \in Value /\ New # Nil /\ New \notin DOMAIN objects
         /\ DOMAIN objects' = DOMAIN objects \cup {New} /\ objects'[New] = o
         /\ \A i \in DOMAIN objects : objects'[i] = objects[i]
         /\ Keeps(DOMAIN objects)
         /\ ObjectOK(o)' => ObjectsOK'
<1>1. DOMAIN objects \subseteq 1..NObjects /\ NObjects \in Nat
  BY ClassesAssumption DEF ClassesIInv, ObjectsOK
<1>2. \E i \in 1..NObjects : i \notin DOMAIN objects
  BY <1>1 DEF HasRoom
<1>3. New \in 1..NObjects /\ New \notin DOMAIN objects
  BY <1>2 DEF New
<1>4. New \in Value /\ New # Nil
  BY <1>1, <1>3 DEF Value, Nil
<1>5. /\ DOMAIN objects' = DOMAIN objects \cup {New} /\ objects'[New] = o
      /\ \A i \in DOMAIN objects : objects'[i] = objects[i]
  BY <1>3 DEF With
<1>6. Keeps(DOMAIN objects)
  BY <1>5, KeepsAll DEF ClassesIInv, SameRole
<1>7. ASSUME ObjectOK(o)'
      PROVE  ObjectsOK'
  <2>1. DOMAIN objects' \subseteq 1..NObjects
    BY <1>1, <1>3, <1>5
  <2>2. PICK new : new = New
    OBVIOUS
  <2>3. ObjectOK(objects[new])'
    BY <1>5, <1>7, <2>2 DEF ObjectOK, ClassOK, InstanceOK, BoundOK, ClosureOK
  <2>4. \A i \in DOMAIN objects' :
          (i \in DOMAIN objects /\ objects'[i] = objects[i]) \/ ObjectOK(objects[i])'
    BY <1>5, <2>2, <2>3
  <2>. QED
    BY <1>6, <2>1, <2>4, ObjectsKept DEF ClassesIInv
<1>. QED
  BY <1>3, <1>4, <1>5, <1>6, <1>7

(* What the activations hold is an object. *)
LEMMA Held_ ==
  ASSUME ClassesIInv
  PROVE  \A n \in 2 .. Len(call_frames_) :
           /\ stack_[call_frames_[n].begin] \in DOMAIN objects
           /\ call_frames_[n].closure \in DOMAIN objects
BY DEF ClassesIInv, ActivationsOK, ActivationOK, MethodOf, Is

(* One activation goes on, and the values on the stack exist. *)
LEMMA GoesOn ==
  ASSUME ClassesIInv, Running, Keeps(DOMAIN objects), ObjectsOK', status' = status,
         declaring' \in {"no", "class"} \cup Variables,
         NEW t \in Nat, call_frames_' = [call_frames_ EXCEPT ![Len(call_frames_)].temps = t],
         stack_' \in Seq(Value), Len(stack_') = Base + t + Extras',
         \A i \in 1 .. Base : stack_'[i] = stack_[i],
         \A i \in 1 .. Len(stack_') : stack_'[i] = Nil \/ stack_'[i] \in DOMAIN objects',
         DOMAIN globals_' \subseteq Variables,
         \A x \in DOMAIN globals_' : globals_'[x] = Nil \/ globals_'[x] \in DOMAIN objects',
         DeclaringOK'
  PROVE  ClassesIInv'
<1>1. ActivationsOK' /\ SlotsOK' /\ Len(call_frames_') = Len(call_frames_)
  BY OneFrame, Held_
<1>2. ValuesOK'
  BY DEF ValuesOK, Live
<1>3. StatusOK'
  BY <1>1 DEF StatusOK, ClassesIInv, Running
<1>4. Declarations_(declared')
  BY DEF Keeps, DeclaredGrows
<1>5. Running'
  BY DEF Running
<1>. QED
  BY <1>1, <1>2, <1>3, <1>4, <1>5 DEF ClassesIInv

LEMMA LeaveFacts ==
  ASSUME ClassesIInv, NEW taken \in {0, 1}, NEW v \in Value, Leave(taken, v)
  PROVE  /\ Running /\ declaring = "no" /\ Top.temps - taken + 1 \in Nat
         /\ Extras = 0 /\ Top.temps >= taken
         /\ stack_' \in Seq(Value)
         /\ Len(stack_') = Base + (Top.temps - taken + 1)
         /\ \A i \in 1 .. Base : stack_'[i] = stack_[i]
         /\ stack_'[Len(stack_')] = v
         /\ \A i \in 1 .. Len(stack_') - 1 : i \in 1 .. Len(stack_) /\ stack_'[i] = stack_[i]
         /\ call_frames_' = [call_frames_ EXCEPT ![Len(call_frames_)].temps = Top.temps - taken + 1]
<1>1. Running /\ declaring = "no" /\ Top.temps >= taken /\ Extras = 0
  BY DEF Leave, Executing, Extras
<1>2. /\ Len(stack_) \in Nat /\ Base \in Nat /\ Top.temps \in Nat
      /\ Len(stack_) = Base + Top.temps
  BY <1>1, BaseFacts
<1> DEFINE m == Len(stack_) - taken
           s == SubSeq(stack_, 1, m)
<1>3. m \in 0 .. Len(stack_) /\ m \in Nat /\ m = Base + Top.temps - taken
  BY <1>1, <1>2
<1>4. stack_ \in Seq(Value)
  BY DEF ClassesIInv, ValuesOK
<1>5. stack_' = Append(s, v)
  BY DEF Leave
<1>. HIDE DEF m
<1>6. s \in Seq(Value) /\ Len(s) = m /\ \A i \in 1 .. m : s[i] = stack_[i]
  BY <1>3, <1>4
<1>. HIDE DEF s
<1>7. /\ stack_' \in Seq(Value) /\ Len(stack_') = m + 1 /\ stack_'[m + 1] = v
      /\ \A i \in 1 .. m : stack_'[i] = stack_[i]
  BY <1>3, <1>5, <1>6
<1>8. call_frames_' = [call_frames_ EXCEPT ![Len(call_frames_)].temps = Top.temps - taken + 1]
  BY DEF Leave, Temps
<1>9. Top.temps - taken + 1 \in Nat /\ Len(stack_') = Base + (Top.temps - taken + 1)
  BY <1>1, <1>2, <1>3, <1>7, SMTT(40)
<1>10. \A i \in 1 .. Base : stack_'[i] = stack_[i]
  <2>1. \A i \in 1 .. Base : i \in 1 .. m
    BY <1>1, <1>2, <1>3
  <2>. QED
    BY <1>7, <2>1
<1>11. \A i \in 1 .. Len(stack_') - 1 : i \in 1 .. Len(stack_) /\ stack_'[i] = stack_[i]
  <2>1. \A i \in 1 .. Len(stack_') - 1 : i \in 1 .. m /\ i \in 1 .. Len(stack_)
    BY <1>2, <1>3, <1>7, SMTT(40)
  <2>. QED
    BY <1>7, <2>1
<1>. QED
  BY <1>1, <1>7, <1>8, <1>9, <1>10, <1>11

LEMMA LeaveKeeps ==
  ASSUME ClassesIInv, NEW taken \in {0, 1}, NEW v \in Value, Leave(taken, v),
         Keeps(DOMAIN objects), ObjectsOK', v = Nil \/ v \in DOMAIN objects',
         UNCHANGED <<globals_, declaring, status>>
  PROVE  ClassesIInv'
<1>1. DOMAIN objects \subseteq DOMAIN objects'
  BY DEF Keeps
<1>2. \A i \in 1 .. Len(stack_') : stack_'[i] = Nil \/ stack_'[i] \in DOMAIN objects'
  <2>1. \A i \in 1 .. Len(stack_) : stack_[i] = Nil \/ stack_[i] \in DOMAIN objects
    BY DEF ClassesIInv, ValuesOK, Live
  <2>2. Len(stack_') \in Nat
    BY LeaveFacts
  <2>3. \A i \in 1 .. Len(stack_') - 1 : i \in 1 .. Len(stack_) /\ stack_'[i] = stack_[i]
    BY LeaveFacts
  <2>4. stack_'[Len(stack_')] = v
    BY LeaveFacts
  <2>. QED
    BY <1>1, <2>1, <2>2, <2>3, <2>4
<1>3. /\ DOMAIN globals_' \subseteq Variables
      /\ \A x \in DOMAIN globals_' : globals_'[x] = Nil \/ globals_'[x] \in DOMAIN objects'
  BY <1>1 DEF ClassesIInv, ValuesOK, Live
<1>4. declaring' = "no" /\ Extras' = 0 /\ DeclaringOK'
  BY LeaveFacts DEF Extras, DeclaringOK
<1> DEFINE t == Top.temps - taken + 1
<1>5. /\ Running /\ t \in Nat /\ stack_' \in Seq(Value)
      /\ Len(stack_') = Base + t + Extras'
      /\ \A i \in 1 .. Base : stack_'[i] = stack_[i]
      /\ call_frames_' = [call_frames_ EXCEPT ![Len(call_frames_)].temps = t]
  <2>1. /\ Running /\ t \in Nat /\ stack_' \in Seq(Value) /\ Len(stack_') = Base + t
        /\ \A i \in 1 .. Base : stack_'[i] = stack_[i]
        /\ call_frames_' = [call_frames_ EXCEPT ![Len(call_frames_)].temps = t]
    BY LeaveFacts
  <2>. HIDE DEF t
  <2>2. Base \in Nat
    BY <2>1, BaseFacts
  <2>. QED
    BY <1>4, <2>1, <2>2
<1>. HIDE DEF t
<1>. QED
  BY <1>2, <1>3, <1>4, <1>5, GoesOn

LEMMA SameFrames ==
  ASSUME ClassesIInv, Running, call_frames_' = call_frames_
  PROVE  call_frames_' = [call_frames_ EXCEPT ![Len(call_frames_)].temps = Top.temps]
<1> DEFINE f == call_frames_
           k == Len(f)
<1>1. f \in Seq(FrameType) /\ k \in 1 .. Len(f) /\ Top = f[k]
  BY BaseFacts DEF ClassesIInv, ActivationsOK
<1>2. f[k] \in FrameType
  BY <1>1
<1>3. [f[k] EXCEPT !.temps = f[k].temps] = f[k]
  BY <1>2 DEF FrameType
<1>. HIDE DEF f, k
<1>4. [f EXCEPT ![k] = f[k]] = f
  BY <1>1
<1>5. [f EXCEPT ![k].temps = f[k].temps] = [f EXCEPT ![k] = [f[k] EXCEPT !.temps = f[k].temps]]
  OBVIOUS
<1>6. [f EXCEPT ![k].temps = f[k].temps] = f
  BY <1>3, <1>4, <1>5
<1>. QED
  BY <1>1, <1>6 DEF f, k

LEMMA StopKeeps ==
  ASSUME ClassesIInv, NEW how \in {"over", "failed"}, Stop(how)
  PROVE  ClassesIInv'
<1>1. /\ stack_' = <<>> /\ call_frames_' = <<>> /\ globals_' = <<>> /\ objects' = <<>>
      /\ status' = how /\ declaring' = declaring /\ declared' = declared
  BY DEF Stop
<1>2. /\ Len(call_frames_') = 0 /\ Len(stack_') = 0 /\ DOMAIN globals_' = {} /\ DOMAIN objects' = {}
      /\ stack_' \in Seq(Value) /\ call_frames_' \in Seq(FrameType)
  BY <1>1
<1>3. StatusOK' /\ Declarations_(declared') /\ ~Running'
  BY <1>1 DEF StatusOK, ClassesIInv, Running
<1>4. ObjectsOK' /\ ValuesOK'
  BY <1>2 DEF ObjectsOK, ValuesOK
<1>5. ActivationsOK' /\ SlotsOK'
  BY <1>2 DEF ActivationsOK, SlotsOK
<1>. QED
  BY <1>1, <1>3, <1>4, <1>5 DEF ClassesIInv

LEMMA PushNilKeeps ==
  ASSUME ClassesIInv, PushNil
  PROVE  ClassesIInv'
<1>1. Leave(0, Nil) /\ objects' = objects /\ declared' = declared
      /\ UNCHANGED <<globals_, declaring, status>>
  BY DEF PushNil
<1>2. Nil \in Value
  BY ClassesAssumption DEF Nil, Value
<1>. QED
  BY <1>1, <1>2, SameObjects, LeaveKeeps

LEMMA PopKeeps ==
  ASSUME ClassesIInv, Pop
  PROVE  ClassesIInv'
<1>1. /\ Running /\ declaring = "no" /\ Top.temps > 0 /\ stack_' = SubSeq(stack_, 1, Len(stack_) - 1)
      /\ call_frames_' = [call_frames_ EXCEPT ![Len(call_frames_)].temps = Top.temps - 1]
      /\ UNCHANGED <<globals_, objects, declaring, declared, status>>
  BY DEF Pop, Executing, Front, Temps
<1>2. Extras = 0 /\ Extras' = 0 /\ DeclaringOK'
  BY <1>1 DEF Extras, DeclaringOK
<1>3. /\ Base \in Nat /\ Top.temps \in Nat /\ Len(stack_) \in Nat
      /\ Len(stack_) = Base + Top.temps
  BY <1>1, <1>2, BaseFacts
<1> DEFINE t == Top.temps - 1
<1>4. t \in Nat /\ Len(stack_) - 1 = Base + t /\ Len(stack_) - 1 \in 0 .. Len(stack_)
  BY <1>1, <1>3
<1>5. stack_ \in Seq(Value) /\ \A i \in 1 .. Len(stack_) : stack_[i] = Nil \/ stack_[i] \in DOMAIN objects
  BY DEF ClassesIInv, ValuesOK, Live
<1>6. call_frames_' = [call_frames_ EXCEPT ![Len(call_frames_)].temps = t]
  BY <1>1
<1>. HIDE DEF t
<1>7. /\ stack_' \in Seq(Value) /\ Len(stack_') = Base + t
      /\ \A i \in 1 .. Base + t : stack_'[i] = stack_[i] /\ i \in 1 .. Len(stack_)
  BY <1>1, <1>3, <1>4, <1>5, SMTT(40)
<1>8. /\ \A i \in 1 .. Base : stack_'[i] = stack_[i]
      /\ \A i \in 1 .. Len(stack_') : stack_'[i] = Nil \/ stack_'[i] \in DOMAIN objects'
      /\ Len(stack_') = Base + t + Extras'
  <2>1. \A i \in 1 .. Base : i \in 1 .. Base + t
    BY <1>3, <1>4
  <2>2. \A i \in 1 .. Len(stack_') : stack_'[i] = stack_[i] /\ i \in 1 .. Len(stack_)
    BY <1>7
  <2>3. \A i \in 1 .. Len(stack_') : stack_'[i] = Nil \/ stack_'[i] \in DOMAIN objects'
    BY <1>1, <1>5, <2>2
  <2>4. Len(stack_') = Base + t + Extras'
    BY <1>2, <1>3, <1>4, <1>7
  <2>. QED
    BY <1>7, <2>1, <2>3, <2>4
<1>9. /\ DOMAIN globals_' \subseteq Variables
      /\ \A x \in DOMAIN globals_' : globals_'[x] = Nil \/ globals_'[x] \in DOMAIN objects'
  BY <1>1 DEF ClassesIInv, ValuesOK, Live
<1>. QED
  BY <1>1, <1>2, <1>4, <1>6, <1>7, <1>8, <1>9, SameObjects, GoesOn

(* Every value on the stack and every global variable is a value. *)
LEMMA ThisFacts ==
  ASSUME ClassesIInv, Running, ~InScript
  PROVE  /\ Len(call_frames_) \in 2 .. Len(call_frames_)
         /\ Top.begin \in 1 .. Len(stack_)
         /\ ActivationOK(Top, stack_[Top.begin])
<1>1. Len(call_frames_) \in Nat \ {0} /\ Top = call_frames_[Len(call_frames_)]
  BY BaseFacts
<1>2. Len(call_frames_) \in 2 .. Len(call_frames_)
  <2>1. Len(call_frames_) # 1
    BY DEF InScript
  <2>. QED
    BY <1>1, <2>1
<1>. QED
  BY <1>1, <1>2 DEF ClassesIInv, ActivationsOK

LEMMA GetThisKeeps ==
  ASSUME ClassesIInv, GetThis
  PROVE  ClassesIInv'
<1> DEFINE v == stack_[Top.begin]
<1>1. /\ Leave(0, v) /\ objects' = objects /\ declared' = declared
      /\ UNCHANGED <<globals_, declaring, status>> /\ ~InScript /\ Running
  BY DEF GetThis, Leave, Executing
<1>2. v \in DOMAIN objects
  BY <1>1, ThisFacts DEF ActivationOK, Is
<1>3. v \in Value
  BY <1>2, NilIsNothing DEF ClassesIInv
<1>. HIDE DEF v
<1>. QED
  BY <1>1, <1>2, <1>3, SameObjects, LeaveKeeps

LEMMA GetGlobalKeeps ==
  ASSUME ClassesIInv, NEW x, GetGlobal(x)
  PROVE  ClassesIInv'
<1>1. CASE x \in DOMAIN globals_
  <2> DEFINE v == globals_[x]
  <2>1. /\ Leave(0, v) /\ objects' = objects /\ declared' = declared
        /\ UNCHANGED <<globals_, declaring, status>>
    BY <1>1 DEF GetGlobal
  <2>2. v = Nil \/ v \in DOMAIN objects
    BY <1>1 DEF ClassesIInv, ValuesOK, Live
  <2>3. v \in Value
    BY <2>2, NilIsNothing, ClassesAssumption DEF ClassesIInv, Value, Nil
  <2>. HIDE DEF v
  <2>. QED
    BY <2>1, <2>2, <2>3, SameObjects, LeaveKeeps
<1>2. CASE x \notin DOMAIN globals_
  BY <1>2, StopKeeps DEF GetGlobal, RuntimeError
<1>. QED
  BY <1>1, <1>2

(* The stack and the activations stay. *)
LEMMA StaysPut ==
  ASSUME ClassesIInv, Running, Keeps(DOMAIN objects), ObjectsOK',
         UNCHANGED <<stack_, call_frames_, status, declaring>>,
         DOMAIN globals_' \subseteq Variables,
         \A x \in DOMAIN globals_' : globals_'[x] = Nil \/ globals_'[x] \in DOMAIN objects',
         DeclaringOK'
  PROVE  ClassesIInv'
<1>1. /\ Base \in Nat /\ Top.temps \in Nat /\ Len(stack_) = Base + Top.temps + Extras
      /\ Extras' = Extras
  BY BaseFacts DEF Extras
<1>2. DOMAIN objects \subseteq DOMAIN objects'
  BY DEF Keeps
<1>3. /\ stack_' \in Seq(Value)
      /\ \A i \in 1 .. Len(stack_') : stack_'[i] = Nil \/ stack_'[i] \in DOMAIN objects'
  BY <1>2 DEF ClassesIInv, ValuesOK, Live
<1>4. call_frames_' = [call_frames_ EXCEPT ![Len(call_frames_)].temps = Top.temps]
  BY SameFrames
<1>5. declaring' \in {"no", "class"} \cup Variables
  BY DEF ClassesIInv, StatusOK
<1> DEFINE t == Top.temps
<1>. HIDE DEF t
<1>6. /\ t \in Nat /\ Len(stack_') = Base + t + Extras'
      /\ call_frames_' = [call_frames_ EXCEPT ![Len(call_frames_)].temps = t]
      /\ \A i \in 1 .. Base : stack_'[i] = stack_[i]
  BY <1>1, <1>4 DEF t
<1>. QED
  BY <1>3, <1>5, <1>6, GoesOn

LEMMA SetGlobalKeeps ==
  ASSUME ClassesIInv, NEW x \in Variables, SetGlobal(x)
  PROVE  ClassesIInv'
<1>1. CASE x \in DOMAIN globals_
  <2>1. /\ globals_' = [globals_ EXCEPT ![x] = Nil] /\ Running /\ declaring = "no"
        /\ UNCHANGED <<stack_, call_frames_, objects, declaring, declared, status>>
    BY <1>1 DEF SetGlobal, Executing
  <2>2. DeclaringOK'
    BY <2>1 DEF DeclaringOK
  <2>3. /\ DOMAIN globals_' \subseteq Variables
        /\ \A y \in DOMAIN globals_' : globals_'[y] = Nil \/ globals_'[y] \in DOMAIN objects'
    BY <2>1 DEF ClassesIInv, ValuesOK, Live
  <2>. QED
    BY <2>1, <2>2, <2>3, SameObjects, StaysPut
<1>2. CASE x \notin DOMAIN globals_
  BY <1>2, StopKeeps DEF SetGlobal, RuntimeError
<1>. QED
  BY <1>1, <1>2

LEMMA IsAIs ==
  ASSUME NEW v, NEW kind, Live(v), IsA(v, kind)
  PROVE  Is(v, kind)
BY DEF Live, IsA, Is

(* The top of the stack exists. *)
LEMMA LastLive ==
  ASSUME ClassesIInv, Running, Top.temps > 0 \/ Extras > 0
  PROVE  Len(stack_) \in 1 .. Len(stack_) /\ Live(Last(stack_)) /\ Last(stack_) \in Value
<1>1. /\ Base \in Nat /\ Top.temps \in Nat /\ Extras \in Nat /\ Len(stack_) \in Nat
      /\ Len(stack_) = Base + Top.temps + Extras
  BY BaseFacts
<1>2. Len(stack_) \in 1 .. Len(stack_)
  BY <1>1
<1>. QED
  BY <1>2 DEF Last, ClassesIInv, ValuesOK

LEMMA BindKeeps ==
  ASSUME ClassesIInv, NEW taken \in {0, 1}, NEW instance, NEW method,
         Is(instance, "instance"), MethodOf(method, ClassOf(instance)),
         Bind(taken, instance, method)
  PROVE  ClassesIInv'
<1> DEFINE o == Bound_method(instance, method)
<1>1. /\ HasRoom /\ Leave(taken, New) /\ objects' = With(objects, New, o)
      /\ UNCHANGED <<globals_, declaring, declared, status>>
  BY DEF Bind
<1>2. ObjectOK(o)
  BY DEF Bound_method, ObjectOK, BoundOK
<1>3. Traced(o) \subseteq DOMAIN objects
  BY DEF Bound_method, Traced, Held, Is, MethodOf
<1>. HIDE DEF o
<1>4. DeclaredGrows /\ ObjectsOK
  BY <1>1, SameDeclared DEF ClassesIInv
<1>5. /\ New \in Value /\ DOMAIN objects' = DOMAIN objects \cup {New}
      /\ Keeps(DOMAIN objects) /\ (ObjectOK(o)' => ObjectsOK')
  BY <1>1, <1>4, Allocated
<1>6. ObjectsOK'
  BY <1>2, <1>3, <1>4, <1>5, KeepsObject
<1>. QED
  BY <1>1, <1>5, <1>6, LeaveKeeps

LEMMA GetPropertyKeeps ==
  ASSUME ClassesIInv, NEW name, GetProperty(name)
  PROVE  ClassesIInv'
<1> DEFINE instance == Last(stack_)
           methods == objects[objects[instance].klass].methods
<1>1. Running /\ Top.temps > 0
  BY DEF GetProperty, Executing
<1>2. CASE ~IsA(instance, "instance")
  BY <1>2, StopKeeps DEF GetProperty, RuntimeError
<1>3. CASE IsA(instance, "instance")
  <2>1. Is(instance, "instance")
    BY <1>1, <1>3, LastLive, IsAIs
  <2>2. InstanceOK(objects[instance])
    BY <2>1, KindOK DEF ClassesIInv, ObjectsOK, Is
  <2>3. CASE name \in DOMAIN objects[instance].fields
    <3> DEFINE v == objects[instance].fields[name]
    <3>1. /\ Leave(1, v) /\ objects' = objects /\ declared' = declared
          /\ UNCHANGED <<globals_, declaring, status>>
      BY <1>3, <2>3 DEF GetProperty
    <3>2. v = Nil \/ v \in DOMAIN objects
      BY <2>2, <2>3 DEF InstanceOK, Live
    <3>3. v \in Value
      BY <3>2, NilIsNothing, ClassesAssumption DEF ClassesIInv, Value, Nil
    <3>. HIDE DEF v
    <3>. QED
      BY <3>1, <3>2, <3>3, SameObjects, LeaveKeeps
  <2>4. CASE name \notin DOMAIN objects[instance].fields /\ name \in DOMAIN methods
    <3>1. Bind(1, instance, methods[name])
      BY <1>3, <2>4 DEF GetProperty
    <3>2. ClassOK(objects[objects[instance].klass])
      BY <2>2, KindOK DEF InstanceOK, ClassesIInv, ObjectsOK, Is
    <3>3. MethodOf(methods[name], ClassOf(instance))
      BY <2>4, <3>2 DEF ClassOK, ClassOf
    <3>. HIDE DEF instance, methods
    <3>. QED
      BY <2>1, <3>1, <3>3, BindKeeps
  <2>5. CASE name \notin DOMAIN objects[instance].fields /\ name \notin DOMAIN methods
    BY <1>3, <2>5, StopKeeps DEF GetProperty, RuntimeError
  <2>. QED
    BY <2>3, <2>4, <2>5
<1>. QED
  BY <1>2, <1>3

LEMMA MethodInherited ==
  ASSUME Declarations_(declared), NEW d \in DOMAIN declared, NEW e \in Line(declared, d),
         NEW m, MethodOf(m, e)
  PROVE  MethodOf(m, d)
BY LineFacts DEF MethodOf

(* The superclass that a method captured is that of the method's class. *)
LEMMA SuperFacts ==
  ASSUME ClassesIInv, Running, ~InScript, ~NoSuper
  PROVE  /\ Is(Superclass, "class") /\ Is(stack_[Top.begin], "instance")
         /\ \A name \in DOMAIN objects[Superclass].methods :
              MethodOf(objects[Superclass].methods[name], ClassOf(stack_[Top.begin]))
<1> DEFINE this == stack_[Top.begin]
           c == FunctionOf(Top.closure).class
           d == ClassOf(this)
<1>1. Is(this, "instance") /\ MethodOf(Top.closure, d)
  BY ThisFacts DEF ActivationOK
<1>2. c \in Line(declared, d) /\ ClosureOK(objects[Top.closure])
  BY <1>1, KindOK DEF MethodOf, ClassesIInv, ObjectsOK, Is
<1>3. d \in DOMAIN declared
  BY <1>1, ClassOfType DEF ClassesIInv
<1>4. declared[c].superclass # 0
  BY DEF NoSuper, FunctionOf
<1>5. Is(Superclass, "class") /\ objects[Superclass].declaration = declared[c].superclass
  BY <1>2, <1>4 DEF ClosureOK, Superclass, FunctionOf
<1>6. ClassOK(objects[Superclass])
  BY <1>5, KindOK DEF ClassesIInv, ObjectsOK, Is
<1>7. declared[c].superclass \in Line(declared, d)
  BY <1>2, <1>3, <1>4, LineFacts DEF ClassesIInv
<1>8. ASSUME NEW name \in DOMAIN objects[Superclass].methods
      PROVE  MethodOf(objects[Superclass].methods[name], d)
  <2>1. MethodOf(objects[Superclass].methods[name], declared[c].superclass)
    BY <1>5, <1>6 DEF ClassOK
  <2>. HIDE DEF c, d
  <2>. QED
    BY <1>3, <1>7, <2>1, MethodInherited DEF ClassesIInv
<1>. QED
  BY <1>1, <1>5, <1>8

LEMMA GetSuperKeeps ==
  ASSUME ClassesIInv, NEW name, GetSuper(name)
  PROVE  ClassesIInv'
<1>1. Running /\ ~InScript
  BY DEF GetSuper, Executing
<1>2. CASE NoSuper
  BY <1>2, StopKeeps DEF GetSuper, RuntimeError
<1>3. CASE ~NoSuper
  <2>1. /\ Is(Superclass, "class") /\ Is(stack_[Top.begin], "instance")
        /\ \A n \in DOMAIN objects[Superclass].methods :
             MethodOf(objects[Superclass].methods[n], ClassOf(stack_[Top.begin]))
    BY <1>1, <1>3, SuperFacts
  <2>2. IsA(Superclass, "class") /\ IsA(stack_[Top.begin], "instance")
    BY <2>1, NilIsNothing DEF Is, IsA, ClassesIInv
  <2>3. CASE name \in DOMAIN objects[Superclass].methods
    <3>1. Bind(0, stack_[Top.begin], objects[Superclass].methods[name])
      BY <1>3, <2>2, <2>3 DEF GetSuper
    <3>. QED
      BY <2>1, <2>3, <3>1, BindKeeps
  <2>4. CASE name \notin DOMAIN objects[Superclass].methods
    BY <1>3, <2>2, <2>4, StopKeeps DEF GetSuper, RuntimeError
  <2>. QED
    BY <2>3, <2>4
<1>. QED
  BY <1>2, <1>3

LEMMA Updated ==
  ASSUME ClassesIInv, DeclaredGrows, NEW i \in DOMAIN objects, NEW o,
         objects' = [objects EXCEPT ![i] = o], SameRole(objects[i], o)
  PROVE  /\ DOMAIN objects' = DOMAIN objects /\ objects'[i] = o
         /\ \A j \in DOMAIN objects \ {i} : objects'[j] = objects[j]
         /\ Keeps(DOMAIN objects)
         /\ ObjectOK(o)' => ObjectsOK'
<1>1. /\ DOMAIN objects' = DOMAIN objects /\ objects'[i] = o
      /\ \A j \in DOMAIN objects \ {i} : objects'[j] = objects[j]
  OBVIOUS
<1>2. Keeps(DOMAIN objects)
  BY <1>1, KeepsAll DEF ClassesIInv, SameRole
<1>3. ASSUME ObjectOK(o)'
      PROVE  ObjectsOK'
  <2>1. DOMAIN objects' \subseteq 1..NObjects
    BY <1>1 DEF ClassesIInv, ObjectsOK
  <2>2. ObjectOK(objects[i])'
    BY <1>1, <1>3 DEF ObjectOK, ClassOK, InstanceOK, BoundOK, ClosureOK
  <2>3. \A j \in DOMAIN objects' :
          (j \in DOMAIN objects /\ objects'[j] = objects[j]) \/ ObjectOK(objects[j])'
    BY <1>1, <2>2
  <2>. QED
    BY <1>2, <2>1, <2>3, ObjectsKept DEF ClassesIInv
<1>. QED
  BY <1>1, <1>2, <1>3

LEMMA SetPropertyKeeps ==
  ASSUME ClassesIInv, NEW name \in Fields, SetProperty(name)
  PROVE  ClassesIInv'
<1>1. Running /\ declaring = "no" /\ Top.temps > 0
  BY DEF SetProperty, Executing
<1>2. PICK i \in Range(globals_) \cup (IF InScript THEN {} ELSE {stack_[Top.begin]}) :
        IF IsA(i, "instance")
        THEN /\ objects' = [objects EXCEPT ![i].fields = With(@, name, Last(stack_))]
             /\ UNCHANGED <<stack_, call_frames_, globals_, declaring, declared, status>>
        ELSE RuntimeError
  BY DEF SetProperty
<1>3. CASE ~IsA(i, "instance")
  BY <1>2, <1>3, StopKeeps DEF RuntimeError
<1>4. CASE IsA(i, "instance")
  <2>1. Live(i)
    <3>1. \A v \in Range(globals_) : Live(v)
      BY DEF Range, ClassesIInv, ValuesOK
    <3>2. ~InScript => Live(stack_[Top.begin])
      BY <1>1, ThisFacts DEF ActivationOK, Is, Live
    <3>. QED
      BY <1>2, <3>1, <3>2
  <2>2. Is(i, "instance")
    BY <1>4, <2>1, IsAIs
  <2>3. PICK v, p : v = Last(stack_) /\ p = objects[i]
    OBVIOUS
  <2> DEFINE o == [p EXCEPT !.fields = With(p.fields, name, v)]
  <2>4. InstanceOK(p) /\ p.kind = "instance"
    BY <2>2, <2>3, KindOK DEF ClassesIInv, ObjectsOK, Is
  <2>5. /\ DOMAIN o = {"kind", "klass", "fields"} /\ o.kind = "instance" /\ o.klass = p.klass
        /\ o.fields = With(p.fields, name, v)
    BY <2>4 DEF InstanceOK
  <2>6. objects' = [objects EXCEPT ![i] = o]
    BY <1>2, <1>4, <2>3
  <2>. HIDE DEF o
  <2>7. /\ DOMAIN o.fields = DOMAIN p.fields \cup {name}
        /\ \A x \in DOMAIN o.fields : o.fields[x] = v \/ (x \in DOMAIN p.fields /\ o.fields[x] = p.fields[x])
    BY <2>5 DEF With
  <2>8. Live(v) /\ name \in Names
    BY <1>1, <2>3, LastLive, ClassesAssumption
  <2>9. ObjectOK(o) /\ InstanceOK(o)
    BY <2>4, <2>5, <2>7, <2>8 DEF InstanceOK, ObjectOK
  <2>10. Traced(o) \subseteq DOMAIN objects
    BY <2>5, <2>9 DEF Traced, Held, Range, InstanceOK, Is, Live
  <2>11. SameRole(objects[i], o) /\ DeclaredGrows /\ i \in DOMAIN objects
    BY <1>2, <1>4, <2>2, <2>3, <2>4, <2>5, SameDeclared DEF SameRole, Is
  <2>12. /\ DOMAIN objects' = DOMAIN objects /\ Keeps(DOMAIN objects)
         /\ (ObjectOK(o)' => ObjectsOK')
    BY <2>6, <2>11, Updated
  <2>13. ObjectsOK'
    BY <2>9, <2>10, <2>12, KeepsObject DEF ClassesIInv
  <2>14. /\ DOMAIN globals_' \subseteq Variables
         /\ \A x \in DOMAIN globals_' : globals_'[x] = Nil \/ globals_'[x] \in DOMAIN objects'
    BY <1>2, <1>4, <2>12 DEF ClassesIInv, ValuesOK, Live
  <2>15. DeclaringOK'
    BY <1>1, <1>2, <1>4 DEF DeclaringOK
  <2>. QED
    BY <1>1, <1>2, <1>4, <2>12, <2>13, <2>14, <2>15, StaysPut
<1>. QED
  BY <1>3, <1>4

LEMMA EndScriptKeeps ==
  ASSUME ClassesIInv, EndScript
  PROVE  ClassesIInv'
BY StopKeeps DEF EndScript

-----------------------------------------------------------------------------
(* The collector *)

LEMMA ReachedClosed ==
  ASSUME ClassesIInv
  PROVE  /\ Reached \subseteq DOMAIN objects /\ Roots \subseteq Reached
         /\ \A i \in Reached : Traced(objects[i]) \subseteq Reached
<1> DEFINE E == [i \in DOMAIN objects |-> Traced(objects[i])]
<1>1. Roots \subseteq DOMAIN objects
  <2>1. \A i \in DOMAIN stack_ : stack_[i] # Nil => stack_[i] \in DOMAIN objects
    BY DEF ClassesIInv, ValuesOK, Live
  <2>2. \A x \in DOMAIN globals_ : globals_[x] # Nil => globals_[x] \in DOMAIN objects
    BY DEF ClassesIInv, ValuesOK, Live
  <2>3. ASSUME NEW n \in DOMAIN call_frames_, call_frames_[n].closure # Nil
        PROVE  call_frames_[n].closure \in DOMAIN objects
    <3>1. call_frames_ \in Seq(FrameType)
      BY DEF ClassesIInv, ActivationsOK
    <3>2. n \in 1 .. Len(call_frames_) /\ Len(call_frames_) \in Nat
      BY <3>1
    <3>3. n # 1
      BY <2>3, <3>2 DEF ClassesIInv, ActivationsOK
    <3>4. n \in 2 .. Len(call_frames_)
      BY <3>2, <3>3
    <3>. QED
      BY <3>4, Held_
  <2>. QED
    BY <2>1, <2>2, <2>3 DEF Roots, Held, Range, ToSet
<1>2. \A i \in DOMAIN objects : E[i] \subseteq DOMAIN objects
  BY NoDanglingPointer DEF ClassesIInv
<1>3. Closed(DOMAIN objects, E)
  BY <1>2 DEF Closed
<1>4. Reached = ReachableFrom(DOMAIN objects, E, Roots)
  BY DEF Reached
<1>5. \A i \in DOMAIN objects : E[i] = Traced(objects[i])
  OBVIOUS
<1>. HIDE DEF E
<1>6. Reached \subseteq DOMAIN objects /\ Roots \subseteq Reached /\ Closed(Reached, E)
  BY <1>1, <1>3, <1>4, ReachableClosed
<1>. QED
  BY <1>5, <1>6 DEF Closed

LEMMA RootFacts ==
  ASSUME ClassesIInv
  PROVE  /\ \A i \in 1 .. Len(stack_) : stack_[i] # Nil => stack_[i] \in Roots
         /\ \A x \in DOMAIN globals_ : globals_[x] # Nil => globals_[x] \in Roots
         /\ \A n \in 1 .. Len(call_frames_) :
              call_frames_[n].closure # Nil => call_frames_[n].closure \in Roots
<1>1. DOMAIN stack_ = 1 .. Len(stack_) /\ DOMAIN call_frames_ = 1 .. Len(call_frames_)
  BY DEF ClassesIInv, ValuesOK, ActivationsOK
<1>. QED
  BY <1>1 DEF Roots, Held, Range, ToSet

LEMMA CollectGarbageKeeps ==
  ASSUME ClassesIInv, CollectGarbage
  PROVE  ClassesIInv'
<1>1. /\ Running /\ objects' = Restrict(objects, Reached)
      /\ UNCHANGED <<stack_, call_frames_, globals_, declaring, declared, status>>
  BY DEF CollectGarbage
<1>. Nil \notin DOMAIN objects
  BY NilIsNothing DEF ClassesIInv
<1>2. DOMAIN objects' = Reached /\ \A i \in Reached : objects'[i] = objects[i]
  BY <1>1 DEF Restrict
<1> DEFINE K == Reached
<1>3. /\ K \subseteq DOMAIN objects /\ Roots \subseteq K
      /\ \A i \in K : Traced(objects[i]) \subseteq K
  BY ReachedClosed
<1>4. DOMAIN objects' = K /\ \A i \in K : objects'[i] = objects[i]
  BY <1>2
<1>. HIDE DEF K
<1>5. Keeps(K)
  BY <1>1, <1>3, <1>4, SameDeclared DEF Keeps, SameRole
<1>6. ObjectsOK'
  BY <1>3, <1>4, <1>5, ObjectsKept DEF ClassesIInv, ObjectsOK
<1>7. ASSUME NEW n \in 2 .. Len(call_frames_)
      PROVE  stack_[call_frames_[n].begin] \in K /\ call_frames_[n].closure \in K
  <2>1. call_frames_[n].begin \in 1 .. Len(stack_) /\ n \in 1 .. Len(call_frames_)
    BY DEF ClassesIInv, ActivationsOK
  <2>2. stack_[call_frames_[n].begin] # Nil /\ call_frames_[n].closure # Nil
    BY Held_
  <2>. QED
    BY <1>3, <2>1, <2>2, RootFacts
<1>8. ActivationsOK' /\ SlotsOK'
  <2>1. /\ Base \in Nat /\ Top.temps \in Nat /\ Len(stack_) = Base + Top.temps + Extras
        /\ Extras' = Extras
    BY <1>1, BaseFacts DEF Extras
  <2>2. call_frames_' = [call_frames_ EXCEPT ![Len(call_frames_)].temps = Top.temps]
    BY <1>1, SameFrames
  <2>3. stack_' \in Seq(Value)
    BY <1>1 DEF ClassesIInv, ValuesOK
  <2> DEFINE t == Top.temps
  <2>. HIDE DEF t
  <2>4. /\ t \in Nat /\ Len(stack_') = Base + t + Extras'
        /\ call_frames_' = [call_frames_ EXCEPT ![Len(call_frames_)].temps = t]
        /\ \A i \in 1 .. Base : stack_'[i] = stack_[i]
    BY <1>1, <2>1, <2>2 DEF t
  <2>. QED
    BY <1>1, <1>5, <1>7, <2>3, <2>4, OneFrame
<1>9. ValuesOK'
  <2>1. \A i \in 1 .. Len(stack_) : stack_[i] = Nil \/ stack_[i] \in K
    BY <1>3, RootFacts
  <2>2. \A x \in DOMAIN globals_ : globals_[x] = Nil \/ globals_[x] \in K
    BY <1>3, RootFacts
  <2>. QED
    BY <1>1, <1>4, <2>1, <2>2 DEF ClassesIInv, ValuesOK, Live
<1>10. DeclaringOK'
  <2>1. SUFFICES ASSUME declaring # "no"
                 PROVE  DeclaringOK'
    BY <1>1 DEF DeclaringOK
  <2>2. /\ InScript /\ Len(declared) > 0
        /\ LET n == Len(declared)
               klass == Last(stack_)
               superclass == declared[n].superclass
           IN  /\ Is(klass, "class") /\ objects[klass].declaration = n
               /\ declaring = "class" => superclass = 0
               /\ declaring # "class" =>
                    /\ superclass # 0
                    /\ Is(stack_[Len(stack_) - 1], "class")
                    /\ objects[stack_[Len(stack_) - 1]].declaration = superclass
               /\ \A x \in DOMAIN globals_ :
                    Is(globals_[x], "class") => objects[globals_[x]].declaration # n
    BY <1>1, <2>1 DEF DeclaringOK, ClassesIInv
  <2>3. Extras \in {1, 3} /\ (declaring # "class" => Extras = 3)
    BY <2>1 DEF Extras
  <2>4. Len(stack_) \in 1 .. Len(stack_) /\ (declaring # "class" => Len(stack_) - 1 \in 1 .. Len(stack_))
    <3>1. /\ Base \in Nat /\ Top.temps \in Nat /\ Len(stack_) = Base + Top.temps + Extras
          /\ Len(stack_) \in Nat
      BY <1>1, BaseFacts
    <3>. QED
      BY <2>3, <3>1
  <2>5. Last(stack_) \in K
    BY <1>3, <2>2, <2>4, RootFacts DEF Last, Is
  <2>6. declaring # "class" => stack_[Len(stack_) - 1] \in K
    BY <1>3, <2>2, <2>4, RootFacts DEF Is
  <2>7. Last(stack_') = Last(stack_) /\ stack_'[Len(stack_') - 1] = stack_[Len(stack_) - 1]
    BY <1>1
  <2>8. \A v : Is(v, "class")' => Is(v, "class") /\ objects'[v].declaration = objects[v].declaration
    BY <1>3, <1>4 DEF Is
  <2>. QED
    BY <1>1, <1>4, <2>2, <2>5, <2>6, <2>7, <2>8 DEF DeclaringOK, Is, InScript
<1>11. StatusOK' /\ Running' /\ Declarations_(declared')
  BY <1>1 DEF ClassesIInv, StatusOK, Running
<1>. QED
  BY <1>6, <1>8, <1>9, <1>10, <1>11 DEF ClassesIInv

-----------------------------------------------------------------------------
(* Calls *)

LEMMA StillActive ==
  ASSUME ClassesIInv, Keeps(DOMAIN objects), NEW n \in 2 .. Len(call_frames_),
         SameFrame(call_frames_, call_frames_', n),
         stack_'[call_frames_[n].begin] = stack_[call_frames_[n].begin]
  PROVE  ActivationOK(call_frames_[n], stack_[call_frames_[n].begin])'
<1>1. PICK f, v : f = call_frames_[n] /\ v = stack_[call_frames_[n].begin]
  OBVIOUS
<1>2. ActivationOK(f, v) /\ v \in DOMAIN objects /\ f.closure \in DOMAIN objects
  BY <1>1, Held_ DEF ClassesIInv, ActivationsOK
<1>3. ActivationOK(f, v)'
  BY <1>2, ActivationKept DEF ClassesIInv
<1>4. /\ call_frames_'[n].closure = f.closure /\ call_frames_'[n].made = f.made
      /\ stack_'[call_frames_'[n].begin] = v
  BY <1>1 DEF SameFrame
<1>. QED
  BY <1>3, <1>4 DEF ActivationOK

(* A value takes the place of the callee. *)
LEMMA ReplaceTop ==
  ASSUME ClassesIInv, Running, Top.temps > 0 \/ Extras > 0, NEW v \in Value,
         stack_' = Append(Front(stack_), v)
  PROVE  /\ stack_' \in Seq(Value) /\ Len(stack_') = Len(stack_) /\ stack_'[Len(stack_)] = v
         /\ \A i \in 1 .. Len(stack_) - 1 : stack_'[i] = stack_[i]
<1>1. stack_ \in Seq(Value) /\ Len(stack_) \in 1 .. Len(stack_)
  BY LastLive DEF ClassesIInv, ValuesOK
<1> DEFINE m == Len(stack_) - 1
           s == SubSeq(stack_, 1, m)
<1>2. m \in 0 .. Len(stack_) /\ m \in Nat /\ Len(stack_) = m + 1
  BY <1>1
<1>. HIDE DEF m
<1>3. s \in Seq(Value) /\ Len(s) = m /\ \A i \in 1 .. m : s[i] = stack_[i]
  BY <1>1, <1>2
<1>4. stack_' = Append(s, v)
  BY DEF Front, m
<1>. HIDE DEF s
<1>5. /\ stack_' \in Seq(Value) /\ Len(stack_') = m + 1 /\ stack_'[m + 1] = v
      /\ \A i \in 1 .. m : stack_'[i] = stack_[i]
  BY <1>2, <1>3, <1>4
<1>6. Len(stack_) - 1 = m
  BY <1>2
<1>. QED
  BY <1>2, <1>5, <1>6

LEMMA EnterKeeps ==
  ASSUME ClassesIInv, Executing, Top.temps > 0, Keeps(DOMAIN objects), ObjectsOK',
         NEW closure \in Value, NEW made \in Value, NEW v \in Value, NEW b, b = Len(stack_),
         v = Nil \/ v \in DOMAIN objects',
         ActivationOK(Frame(closure, b, made), v)',
         stack_' = Append(Front(stack_), v), Enter(closure, made),
         UNCHANGED <<globals_, declaring, status>>
  PROVE  ClassesIInv'
<1> DEFINE k == Len(call_frames_)
           t == Top.temps - 1
           new == Frame(closure, b, made)
<1>0. Running /\ declaring = "no" /\ Extras = 0
  BY DEF Executing, Extras
<1>1. /\ call_frames_ \in Seq(FrameType) /\ k \in 1 .. Len(call_frames_) /\ k \in Nat \ {0}
      /\ Top = call_frames_[k]
  BY <1>0, BaseFacts DEF ClassesIInv, ActivationsOK
<1>2. /\ stack_' \in Seq(Value) /\ Len(stack_') = Len(stack_) /\ stack_'[Len(stack_)] = v
      /\ \A i \in 1 .. Len(stack_) - 1 : stack_'[i] = stack_[i]
  BY <1>0, ReplaceTop
<1>3. /\ Base \in Nat /\ t \in Nat /\ b = Base + t + 1 /\ b \in Nat \ {0}
      /\ Top.begin \in Nat \ {0}
  BY <1>0, BaseFacts
<1>4. PICK g : g = WithTemps(call_frames_, k, t)
  OBVIOUS
<1>5. call_frames_' = Append(g, new)
  BY <1>1, <1>4 DEF Enter, WithTemps
<1>6. new \in FrameType /\ new.closure = closure /\ new.begin = b /\ new.made = made /\ new.temps = 0
  BY <1>3 DEF Frame, FrameType
<1>7. /\ g \in Seq(FrameType) /\ Len(g) = k /\ g[k].temps = t
      /\ \A n \in 1 .. k : SameFrame(call_frames_, g, n)
      /\ \A n \in 1 .. k : n # k => g[n].temps = call_frames_[n].temps
  <2>. HIDE DEF t
  <2>1. PICK f, l : f = call_frames_ /\ l = k
    OBVIOUS
  <2>2. f \in Seq(FrameType) /\ l \in 1 .. Len(f) /\ g = WithTemps(f, l, t)
    BY <1>1, <1>4, <2>1
  <2>. HIDE DEF k
  <2>3. /\ g \in Seq(FrameType) /\ Len(g) = Len(f) /\ HasTemps(g, l, t)
        /\ \A n \in 1 .. Len(f) :
             SameFrame(f, g, n) /\ (n # l => HasTemps(g, n, f[n].temps))
    BY <1>3, <2>2, FrameChange
  <2>. QED
    BY <2>1, <2>3 DEF HasTemps, k
<1>. HIDE DEF k, t, new
<1>8. /\ call_frames_' \in Seq(FrameType) /\ Len(call_frames_') = k + 1
      /\ call_frames_'[k + 1] = new /\ \A n \in 1 .. k : call_frames_'[n] = g[n]
  BY <1>1, <1>5, <1>6, <1>7
<1>9. ASSUME NEW n \in 2 .. k
      PROVE  /\ call_frames_'[n].begin \in 1 .. Len(stack_') /\ call_frames_'[n].begin < b
             /\ ActivationOK(call_frames_[n], stack_[call_frames_[n].begin])'
  <2>1. SameFrame(call_frames_, call_frames_', n)
    BY <1>1, <1>7, <1>8, <1>9 DEF SameFrame
  <2>2. call_frames_[n].begin \in 1 .. Base
    BY <1>0, <1>9, BaseFacts DEF k
  <2>3. call_frames_[n].begin \in 1 .. Len(stack_) - 1
    BY <1>3, <2>2
  <2>4. n \in 2 .. Len(call_frames_)
    BY <1>9 DEF k
  <2>5. ActivationOK(call_frames_[n], stack_[call_frames_[n].begin])'
    BY <1>2, <2>1, <2>3, <2>4, StillActive
  <2>6. call_frames_'[n].begin = call_frames_[n].begin
    BY <2>1 DEF SameFrame
  <2>. QED
    BY <1>2, <1>3, <2>3, <2>5, <2>6
<1>10. ASSUME NEW n \in 2 .. k + 1, n = k + 1
       PROVE  /\ call_frames_'[n].begin \in 1 .. Len(stack_')
              /\ ActivationOK(call_frames_[n], stack_[call_frames_[n].begin])'
  <2>1. call_frames_'[n].begin = b /\ b \in 1 .. Len(stack_') /\ stack_'[b] = v
    BY <1>2, <1>3, <1>6, <1>8, <1>10
  <2>2. ActivationOK(new, v)'
    BY DEF new
  <2>3. call_frames_'[n] = new
    BY <1>8, <1>10
  <2>4. ActivationOK(call_frames_[n], stack_[call_frames_[n].begin])'
    BY <2>1, <2>2, <2>3 DEF ActivationOK, new
  <2>. QED
    BY <2>1, <2>4
<1>11. ActivationsOK'
  <2>1. \A n \in 2 .. k + 1 : n \in 2 .. k \/ n = k + 1
    BY <1>1
  <2>2. \A n \in 2 .. k + 1 :
          /\ call_frames_'[n].begin \in 1 .. Len(stack_')
          /\ ActivationOK(call_frames_[n], stack_[call_frames_[n].begin])'
    <3>1. ASSUME NEW n \in 2 .. k + 1
          PROVE  /\ call_frames_'[n].begin \in 1 .. Len(stack_')
                 /\ ActivationOK(call_frames_[n], stack_[call_frames_[n].begin])'
      BY <1>9, <1>10, <2>1
    <3>. QED
      BY <3>1
  <2>3. \A m, n \in 2 .. k : m < n => call_frames_'[m].begin < call_frames_'[n].begin
    BY <1>1, <1>7, <1>8, SMTT(40) DEF k, ClassesIInv, ActivationsOK, SameFrame
  <2>4. \A m, n \in 2 .. k + 1 : m < n => call_frames_'[m].begin < call_frames_'[n].begin
    <3>1. call_frames_'[k + 1].begin = b
      BY <1>6, <1>8
    <3>2. ASSUME NEW m \in 2 .. k + 1, NEW n \in 2 .. k + 1, m < n
          PROVE  m \in 2 .. k
      BY <1>1, <3>2
    <3>. QED
      BY <1>9, <2>1, <2>3, <3>1, <3>2
  <2>5. call_frames_'[1].begin = 1 /\ call_frames_'[1].closure = Nil
    BY <1>1, <1>7, <1>8 DEF k, ClassesIInv, ActivationsOK, SameFrame
  <2>. QED
    BY <1>8, <2>2, <2>4, <2>5 DEF ActivationsOK
<1>12. SlotsOK'
  <2>1. ASSUME NEW n \in 1 .. k
        PROVE  call_frames_'[n + 1].begin = call_frames_'[n].begin + This(n) + call_frames_'[n].temps
    <3>1. CASE n = k
      <4>1. /\ call_frames_'[n + 1].begin = b /\ call_frames_'[n].temps = t
            /\ call_frames_'[n].begin = Top.begin
        BY <1>1, <1>6, <1>7, <1>8, <3>1 DEF SameFrame
      <4>2. Base = Top.begin - 1 + This(n) /\ This(n) \in Nat
        BY <3>1 DEF Base, k, This
      <4>. QED
        BY <1>3, <4>1, <4>2, SMTT(40)
    <3>2. CASE n # k
      <4>1. n \in 1 .. k - 1 /\ n + 1 \in 1 .. k
        BY <1>1, <3>2
      <4>2. call_frames_[n + 1].begin = call_frames_[n].begin + This(n) + call_frames_[n].temps
        BY <4>1 DEF ClassesIInv, SlotsOK, k
      <4>. QED
        BY <1>1, <1>7, <1>8, <3>2, <4>1, <4>2 DEF SameFrame
    <3>. QED
      BY <3>1, <3>2
  <2>2. Len(stack_') = Top'.begin - 1 + This(Len(call_frames_')) + Top'.temps + Extras'
    <3>1. Top' = new
      BY <1>8 DEF Top, Last
    <3>2. Extras' = 0 /\ This(Len(call_frames_')) = 1
      BY <1>0, <1>1, <1>8 DEF Extras, This
    <3>. QED
      BY <1>2, <1>3, <1>6, <3>1, <3>2
  <2>3. Len(call_frames_') - 1 = k
    BY <1>1, <1>8
  <2>. QED
    BY <2>1, <2>2, <2>3 DEF SlotsOK, This
<1>13. ValuesOK'
  <2>1. DOMAIN objects \subseteq DOMAIN objects'
    BY DEF Keeps
  <2>2. \A i \in 1 .. Len(stack_') : stack_'[i] = Nil \/ stack_'[i] \in DOMAIN objects'
    <3>1. \A i \in 1 .. Len(stack_') : i = b \/ i \in 1 .. Len(stack_) - 1
      BY <1>2, <1>3
    <3>2. \A i \in 1 .. Len(stack_) - 1 : stack_[i] = Nil \/ stack_[i] \in DOMAIN objects
      BY <1>3 DEF ClassesIInv, ValuesOK, Live
    <3>. QED
      BY <1>2, <2>1, <3>1, <3>2
  <2>. QED
    BY <1>2, <2>1, <2>2 DEF ClassesIInv, ValuesOK, Live
<1>14. StatusOK' /\ Running' /\ Declarations_(declared') /\ DeclaringOK'
  <2>1. Declarations_(declared')
    BY DEF Keeps, DeclaredGrows
  <2>2. Len(call_frames_') > 0
    BY <1>1, <1>8
  <2>. QED
    BY <1>0, <2>1, <2>2 DEF ClassesIInv, StatusOK, Running, DeclaringOK
<1>. QED
  BY <1>11, <1>12, <1>13, <1>14 DEF ClassesIInv

LEMMA ConstructKeeps ==
  ASSUME ClassesIInv, Executing, Top.temps > 0, NEW c, c = Last(stack_), Is(c, "class"), HasRoom,
         objects' = With(objects, New, Instance(c)), stack_' = Append(Front(stack_), New),
         IF "init" \in DOMAIN objects[c].methods THEN Enter(objects[c].methods["init"], New)
         ELSE UNCHANGED call_frames_,
         UNCHANGED <<globals_, declaring, declared, status>>
  PROVE  ClassesIInv'
<1> DEFINE o == Instance(c)
<1>1. Running /\ declaring = "no" /\ Extras = 0 /\ Extras' = 0 /\ DeclaringOK'
  BY DEF Executing, Extras, DeclaringOK
<1>2. PICK new : new = New
  OBVIOUS
<1>3. ObjectOK(o) /\ o.kind = "instance" /\ o.klass = c
  BY DEF Instance, ObjectOK, InstanceOK
<1>4. Traced(o) \subseteq DOMAIN objects
  BY DEF Instance, Traced, Held, Range, Is
<1>. HIDE DEF o
<1>5. DeclaredGrows /\ ObjectsOK /\ objects' = With(objects, New, o)
  BY SameDeclared DEF ClassesIInv, o
<1>6. /\ new \in Value /\ new # Nil /\ DOMAIN objects' = DOMAIN objects \cup {new} /\ objects'[new] = o
      /\ Keeps(DOMAIN objects) /\ (ObjectOK(o)' => ObjectsOK')
  BY <1>2, <1>5, Allocated
<1>7. ObjectsOK'
  BY <1>3, <1>4, <1>5, <1>6, KeepsObject
<1>8. CASE "init" \in DOMAIN objects[c].methods
  <2> DEFINE d == objects[c].declaration
  <2>1. PICK m, b : m = objects[c].methods["init"] /\ b = Len(stack_)
    OBVIOUS
  <2>2. ClassOK(objects[c])
    BY <1>5, KindOK DEF ObjectsOK, Is
  <2>3. MethodOf(m, d) /\ d \in DOMAIN declared /\ FunctionOf(m).name = "init"
    BY <1>8, <2>1, <2>2 DEF ClassOK
  <2>4. m \in DOMAIN objects /\ Is(m, "closure") /\ m \in Value /\ c \in DOMAIN objects
    BY <1>5, <2>3, NilIsNothing DEF MethodOf, Is
  <2>5. ClassOf(new)' = d /\ Is(new, "instance")'
    <3>1. objects'[c].declaration = d
      BY <1>5, <1>6, <2>4, KeepsFacts
    <3>. QED
      BY <1>3, <1>6, <3>1 DEF ClassOf, Is
  <2>6. MethodOf(m, ClassOf(new))'
    <3>. HIDE DEF d
    <3>1. \A e \in DOMAIN declared : MethodOf(m, e) =>
            FunctionOf(m)'.class \in Line(declared', e) /\ Is(m, "closure")'
      BY <1>5, <1>6, <2>4, KeepsFacts DEF MethodOf
    <3>. QED
      BY <2>3, <2>5, <3>1 DEF MethodOf
  <2>7. FunctionOf(m)'.name = "init"
    BY <1>5, <1>6, <2>3, <2>4, KeepsFacts
  <2>8. ActivationOK(Frame(m, b, new), new)'
    BY <2>5, <2>6, <2>7 DEF ActivationOK, Frame
  <2>9. Enter(m, new) /\ stack_' = Append(Front(stack_), new) /\ new \in DOMAIN objects'
    BY <1>2, <1>6, <1>8, <2>1
  <2>. QED
    BY <1>6, <1>7, <2>1, <2>4, <2>8, <2>9, EnterKeeps
<1>9. CASE "init" \notin DOMAIN objects[c].methods
  <2>1. /\ stack_' \in Seq(Value) /\ Len(stack_') = Len(stack_) /\ stack_'[Len(stack_)] = new
        /\ \A i \in 1 .. Len(stack_) - 1 : stack_'[i] = stack_[i]
    BY <1>1, <1>2, <1>6, ReplaceTop
  <2>2. /\ Base \in Nat /\ Top.temps \in Nat /\ Len(stack_) = Base + Top.temps
        /\ Len(stack_) \in Nat
    BY <1>1, BaseFacts
  <2>3. \A i \in 1 .. Base : stack_'[i] = stack_[i]
    <3>1. \A i \in 1 .. Base : i \in 1 .. Len(stack_) - 1
      BY <2>2
    <3>. QED
      BY <2>1, <3>1
  <2>4. \A i \in 1 .. Len(stack_') : stack_'[i] = Nil \/ stack_'[i] \in DOMAIN objects'
    <3>1. \A i \in 1 .. Len(stack_') : i = Len(stack_) \/ i \in 1 .. Len(stack_) - 1
      BY <2>1, <2>2
    <3>2. \A i \in 1 .. Len(stack_) - 1 : stack_[i] = Nil \/ stack_[i] \in DOMAIN objects
      BY <2>2 DEF ClassesIInv, ValuesOK, Live
    <3>. QED
      BY <1>6, <2>1, <3>1, <3>2
  <2>5. /\ DOMAIN globals_' \subseteq Variables
        /\ \A x \in DOMAIN globals_' : globals_'[x] = Nil \/ globals_'[x] \in DOMAIN objects'
    BY <1>6 DEF ClassesIInv, ValuesOK, Live
  <2>6. call_frames_' = [call_frames_ EXCEPT ![Len(call_frames_)].temps = Top.temps]
    BY <1>1, <1>9, SameFrames
  <2> DEFINE t == Top.temps
  <2>. HIDE DEF t
  <2>7. /\ t \in Nat /\ Len(stack_') = Base + t + Extras'
        /\ call_frames_' = [call_frames_ EXCEPT ![Len(call_frames_)].temps = t]
    BY <1>1, <2>1, <2>2, <2>6 DEF t
  <2>. QED
    BY <1>1, <1>6, <1>7, <2>1, <2>3, <2>4, <2>5, <2>7, GoesOn
<1>. QED
  BY <1>8, <1>9

LEMMA CallBoundKeeps ==
  ASSUME ClassesIInv, Executing, Top.temps > 0, NEW c, c = Last(stack_), Is(c, "bound"),
         stack_' = Append(Front(stack_), Receiver(c)), Enter(objects[c].method, Nil),
         UNCHANGED <<objects, globals_, declaring, declared, status>>
  PROVE  ClassesIInv'
<1>1. PICK m, r, b : m = objects[c].method /\ r = Receiver(c) /\ b = Len(stack_)
  OBVIOUS
<1>2. BoundOK(objects[c])
  BY KindOK DEF ClassesIInv, ObjectsOK, Is
<1>3. Is(r, "instance") /\ MethodOf(m, ClassOf(r))
  BY <1>1, <1>2 DEF BoundOK, Receiver
<1>4. m \in DOMAIN objects /\ r \in DOMAIN objects /\ m \in Value /\ r \in Value /\ Nil \in Value
  BY <1>3, NilIsNothing, ClassesAssumption DEF MethodOf, Is, ClassesIInv, Nil, Value
<1> DEFINE frame == Frame(m, b, Nil)
<1>5. ActivationOK(frame, r) /\ frame.closure = m
  BY <1>3 DEF ActivationOK, Frame
<1>. HIDE DEF frame
<1>6. Keeps(DOMAIN objects) /\ ObjectsOK'
  BY SameObjects
<1>7. ActivationOK(frame, r)'
  BY <1>4, <1>5, <1>6, ActivationKept DEF ClassesIInv
<1>8. ActivationOK(Frame(m, b, Nil), r)'
  BY <1>7 DEF frame
<1>9. Enter(m, Nil) /\ stack_' = Append(Front(stack_), r) /\ r \in DOMAIN objects'
  BY <1>1, <1>4
<1>. QED
  BY <1>1, <1>4, <1>6, <1>8, <1>9, EnterKeeps

LEMMA CallKeeps ==
  ASSUME ClassesIInv, NEW arity_matches, Call(arity_matches)
  PROVE  ClassesIInv'
<1>1. PICK c : c = Last(stack_)
  OBVIOUS
<1>2. Executing /\ Running /\ Top.temps > 0
  BY DEF Call, Executing
<1>3. CASE ~arity_matches \/ ~(IsA(c, "class") \/ IsA(c, "bound"))
  BY <1>1, <1>3, StopKeeps DEF Call, RuntimeError
<1>4. CASE ~(~arity_matches \/ ~(IsA(c, "class") \/ IsA(c, "bound")))
  <2>1. /\ \/ /\ IsA(c, "class")
              /\ HasRoom
              /\ objects' = With(objects, New, Instance(c))
              /\ stack_' = Append(Front(stack_), New)
              /\ IF "init" \in DOMAIN objects[c].methods
                 THEN Enter(objects[c].methods["init"], New)
                 ELSE UNCHANGED call_frames_
           \/ /\ IsA(c, "bound")
              /\ stack_' = Append(Front(stack_), Receiver(c))
              /\ Enter(objects[c].method, Nil)
              /\ UNCHANGED objects
        /\ UNCHANGED <<globals_, declaring, declared, status>>
    BY <1>1, <1>4 DEF Call
  <2>2. Live(c)
    BY <1>1, <1>2, LastLive
  <2>3. (IsA(c, "class") => Is(c, "class")) /\ (IsA(c, "bound") => Is(c, "bound"))
    BY <2>2, IsAIs
  <2>4. CASE /\ IsA(c, "class") /\ HasRoom /\ objects' = With(objects, New, Instance(c))
             /\ stack_' = Append(Front(stack_), New)
             /\ IF "init" \in DOMAIN objects[c].methods
                THEN Enter(objects[c].methods["init"], New)
                ELSE UNCHANGED call_frames_
    BY <1>1, <1>2, <2>1, <2>3, <2>4, ConstructKeeps
  <2>5. CASE /\ IsA(c, "bound") /\ stack_' = Append(Front(stack_), Receiver(c))
             /\ Enter(objects[c].method, Nil) /\ UNCHANGED objects
    BY <1>1, <1>2, <2>1, <2>3, <2>5, CallBoundKeeps
  <2>. QED
    BY <2>1, <2>4, <2>5
<1>. QED
  BY <1>3, <1>4

(* What the activation that is over leaves. *)
LEMMA ReturnFacts ==
  ASSUME ClassesIInv, Return
  PROVE  /\ Running /\ declaring = "no" /\ ~InScript /\ Extras = 0
         /\ Top.begin \in 1 .. Len(stack_)
         /\ stack_' \in Seq(Value) /\ Len(stack_') = Top.begin /\ stack_'[Top.begin] = Result
         /\ \A i \in 1 .. Top.begin - 1 : stack_'[i] = stack_[i]
         /\ Live(Result)
<1>1. /\ Running /\ declaring = "no" /\ ~InScript /\ Extras = 0
      /\ stack_' = Append(SubSeq(stack_, 1, Top.begin - 1), Result)
  BY DEF Return, Executing, Extras
<1>2. Top.begin \in 1 .. Len(stack_) /\ Is(stack_[Top.begin], "instance")
  BY <1>1, ThisFacts DEF ActivationOK
<1>3. Live(Result) /\ Result \in Value
  <2>1. Live(stack_[Top.begin]) /\ Live(Nil)
    BY <1>2 DEF Live, Is
  <2>2. Top.temps = 1 => Live(Last(stack_))
    BY <1>1, LastLive
  <2>3. Live(Result)
    BY <2>1, <2>2 DEF Result
  <2>. QED
    BY <2>3, NilIsNothing, ClassesAssumption DEF ClassesIInv, Live, Nil, Value
<1>4. stack_ \in Seq(Value)
  BY DEF ClassesIInv, ValuesOK
<1> DEFINE m == Top.begin - 1
           s == SubSeq(stack_, 1, m)
<1>5. m \in 0 .. Len(stack_) /\ m \in Nat /\ Top.begin = m + 1
  BY <1>2, <1>4
<1>. HIDE DEF m
<1>6. s \in Seq(Value) /\ Len(s) = m /\ \A i \in 1 .. m : s[i] = stack_[i]
  BY <1>4, <1>5
<1>7. stack_' = Append(s, Result)
  BY <1>1 DEF m
<1>. HIDE DEF s
<1>8. /\ stack_' \in Seq(Value) /\ Len(stack_') = m + 1 /\ stack_'[m + 1] = Result
      /\ \A i \in 1 .. m : stack_'[i] = stack_[i]
  BY <1>3, <1>5, <1>6, <1>7
<1>9. Top.begin - 1 = m
  BY <1>5
<1>. QED
  BY <1>1, <1>2, <1>3, <1>5, <1>8, <1>9

LEMMA ReturnKeeps ==
  ASSUME ClassesIInv, Return
  PROVE  ClassesIInv'
<1> DEFINE k == Len(call_frames_)
           l == k - 1
           t == call_frames_[l].temps + 1
<1>1. /\ Running /\ declaring = "no" /\ ~InScript /\ Extras = 0
      /\ Top.begin \in 1 .. Len(stack_)
      /\ stack_' \in Seq(Value) /\ Len(stack_') = Top.begin /\ stack_'[Top.begin] = Result
      /\ \A i \in 1 .. Top.begin - 1 : stack_'[i] = stack_[i]
      /\ Live(Result)
  BY ReturnFacts
<1>2. /\ call_frames_' = [Front(call_frames_) EXCEPT ![l].temps = @ + 1]
      /\ UNCHANGED <<globals_, objects, declaring, declared, status>>
  BY DEF Return
<1>3. call_frames_ \in Seq(FrameType) /\ k \in 2 .. k /\ k \in Nat /\ Top = call_frames_[k]
  BY <1>1, BaseFacts, ThisFacts DEF ClassesIInv, ActivationsOK
<1>4. l \in 1 .. l /\ l \in Nat /\ k = l + 1 /\ l \in 0 .. k
  BY <1>3
<1>. HIDE DEF k
<1>5. call_frames_[l] \in FrameType /\ call_frames_[l].temps \in Nat
  <2>1. call_frames_[l] \in FrameType
    BY <1>3, <1>4 DEF k
  <2>. QED
    BY <2>1 DEF FrameType
<1>6. t \in Nat
  BY <1>5
<1>7. PICK f, e, g : f = Front(call_frames_) /\ e = l /\ g = call_frames_'
  OBVIOUS
<1>8. f \in Seq(FrameType) /\ Len(f) = l /\ \A n \in 1 .. l : f[n] = call_frames_[n]
  <2>. HIDE DEF l
  <2>1. f = SubSeq(call_frames_, 1, l)
    BY <1>7 DEF Front, k, l
  <2>. QED
    BY <1>3, <1>4, <2>1 DEF k
<1>9. g = WithTemps(f, e, t)
  BY <1>2, <1>4, <1>7, <1>8 DEF WithTemps
<1>10. e \in 1 .. Len(f)
  BY <1>4, <1>7, <1>8
<1>. HIDE DEF t
<1>11. /\ g \in Seq(FrameType) /\ Len(g) = Len(f) /\ HasTemps(g, e, t)
       /\ \A n \in 1 .. Len(f) : SameFrame(f, g, n) /\ (n # e => HasTemps(g, n, f[n].temps))
  BY <1>6, <1>8, <1>9, <1>10, FrameChange
<1>. HIDE DEF l
<1>12. /\ call_frames_' \in Seq(FrameType) /\ Len(call_frames_') = l /\ call_frames_'[l].temps = t
       /\ \A n \in 1 .. l : SameFrame(call_frames_, call_frames_', n)
       /\ \A n \in 1 .. l : n # l => call_frames_'[n].temps = call_frames_[n].temps
  BY <1>7, <1>8, <1>11 DEF HasTemps, SameFrame
<1>13. Keeps(DOMAIN objects) /\ ObjectsOK'
  BY <1>2, SameObjects
<1>14. ASSUME NEW n \in 2 .. l
       PROVE  /\ call_frames_'[n].begin \in 1 .. Len(stack_')
              /\ ActivationOK(call_frames_[n], stack_[call_frames_[n].begin])'
  <2>1. n \in 2 .. k /\ k \in 2 .. k /\ n < k /\ n \in 1 .. l
    BY <1>3, <1>4, <1>14
  <2>2. call_frames_[n].begin < Top.begin /\ call_frames_[n].begin \in 1 .. Len(stack_)
    BY <1>3, <2>1 DEF k, ClassesIInv, ActivationsOK
  <2>3. call_frames_[n].begin \in 1 .. Top.begin - 1
    BY <1>1, <2>2
  <2>4. ActivationOK(call_frames_[n], stack_[call_frames_[n].begin])'
    BY <1>1, <1>12, <1>13, <2>1, <2>3, StillActive DEF k
  <2>. QED
    BY <1>1, <1>12, <2>1, <2>3, <2>4, SMTT(40) DEF SameFrame
<1>15. ActivationsOK'
  <2>1. \A m, n \in 2 .. l : m < n => call_frames_'[m].begin < call_frames_'[n].begin
    <3>1. \A n \in 2 .. l : n \in 2 .. k /\ n \in 1 .. l
      BY <1>4
    <3>. QED
      BY <1>12, <3>1 DEF k, ClassesIInv, ActivationsOK, SameFrame
  <2>2. call_frames_'[1].begin = 1 /\ call_frames_'[1].closure = Nil
    BY <1>3, <1>4, <1>12 DEF k, ClassesIInv, ActivationsOK, SameFrame
  <2>. QED
    BY <1>12, <1>14, <2>1, <2>2 DEF ActivationsOK
<1>16. SlotsOK'
  <2>1. ASSUME NEW n \in 1 .. l - 1
        PROVE  call_frames_'[n + 1].begin = call_frames_'[n].begin + This(n) + call_frames_'[n].temps
    <3>1. n \in 1 .. k - 1 /\ n \in 1 .. l /\ n + 1 \in 1 .. l /\ n # l
      BY <1>4, <2>1
    <3>. QED
      BY <1>12, <3>1 DEF k, ClassesIInv, SlotsOK, SameFrame
  <2>2. Top.begin = call_frames_[l].begin + This(l) + call_frames_[l].temps
    BY <1>3, <1>4 DEF k, ClassesIInv, SlotsOK
  <2>3. Top' = call_frames_'[l] /\ Extras' = 0
    BY <1>1, <1>2, <1>12 DEF Top, Last, Extras
  <2>4. Len(stack_') = Top'.begin - 1 + This(Len(call_frames_')) + Top'.temps + Extras'
    <3>1. call_frames_[l].begin \in Nat /\ This(l) \in Nat
      BY <1>5 DEF FrameType, This
    <3>2. Top'.begin = call_frames_[l].begin /\ Top'.temps = call_frames_[l].temps + 1
      BY <1>4, <1>12, <2>3 DEF SameFrame, t
    <3>. QED
      BY <1>1, <1>5, <1>12, <2>2, <2>3, <3>1, <3>2, SMTT(40)
  <2>. QED
    BY <1>12, <2>1, <2>4 DEF SlotsOK, This
<1>17. ValuesOK'
  <2>1. \A i \in 1 .. Len(stack_') : i = Top.begin \/ (i \in 1 .. Top.begin - 1 /\ i \in 1 .. Len(stack_))
    BY <1>1
  <2>2. \A i \in 1 .. Len(stack_') : stack_'[i] = Nil \/ stack_'[i] \in DOMAIN objects'
    BY <1>1, <1>2, <2>1 DEF ClassesIInv, ValuesOK, Live
  <2>. QED
    BY <1>1, <1>2, <2>2 DEF ClassesIInv, ValuesOK, Live
<1>18. StatusOK' /\ Running' /\ Declarations_(declared') /\ DeclaringOK'
  <2>1. Len(call_frames_') > 0
    BY <1>4, <1>12
  <2>. QED
    BY <1>1, <1>2, <2>1 DEF ClassesIInv, StatusOK, Running, DeclaringOK
<1>. QED
  BY <1>13, <1>15, <1>16, <1>17, <1>18 DEF ClassesIInv

-----------------------------------------------------------------------------
(* Declarations *)

LEMMA DeclaringFacts ==
  ASSUME ClassesIInv, Running, declaring # "no"
  PROVE  /\ Len(declared) \in Nat \ {0} /\ Len(declared) \in DOMAIN declared
         /\ declared[Len(declared)] \in [superclass : Nat, own : SUBSET Names]
         /\ Is(Last(stack_), "class") /\ objects[Last(stack_)].declaration = Len(declared)
         /\ ClassOK(objects[Last(stack_)])
         /\ Len(stack_) \in Nat \ {0} /\ Last(stack_) = stack_[Len(stack_)]
<1>1. DeclaringOK
  BY DEF ClassesIInv
<1>2. Declarations_(declared)
  BY DEF ClassesIInv
<1>3. Len(declared) \in Nat \ {0} /\ Len(declared) \in DOMAIN declared
  BY <1>1, <1>2 DEF DeclaringOK, Declarations_
<1>4. declared[Len(declared)] \in [superclass : Nat, own : SUBSET Names]
  <2>1. declared \in Seq([superclass : Nat, own : SUBSET Names])
    BY <1>2 DEF Declarations_
  <2>2. Len(declared) \in 1 .. Len(declared)
    BY <1>3
  <2>. QED
    BY <2>1, <2>2, ElementOfSeq
<1>5. Is(Last(stack_), "class") /\ objects[Last(stack_)].declaration = Len(declared)
  BY <1>1 DEF DeclaringOK
<1>6. ClassOK(objects[Last(stack_)])
  BY <1>5, KindOK DEF ClassesIInv, ObjectsOK, Is
<1>7. Extras \in Nat \ {0}
  BY DEF Extras
<1>8. Len(stack_) \in Nat \ {0}
  <2>1. Len(stack_) \in 1 .. Len(stack_) /\ Len(stack_) \in Nat
    BY <1>7, LastLive, BaseFacts
  <2>. QED
    BY <2>1
<1>. QED
  BY <1>3, <1>4, <1>5, <1>6, <1>8 DEF Last

LEMMA BeginClassKeeps ==
  ASSUME ClassesIInv, BeginClass
  PROVE  ClassesIInv'
<1> DEFINE n == Len(declared) + 1
           record == [superclass |-> 0, own |-> {}]
           t == Top.temps
<1>1. /\ Running /\ declaring = "no" /\ InScript /\ HasRoom /\ Extras = 0
      /\ objects' = With(objects, New, Class(<<>>, n))
      /\ stack_' = Append(stack_, New)
      /\ declaring' = "class"
      /\ declared' = Append(declared, record)
      /\ UNCHANGED <<call_frames_, globals_, status>>
  BY DEF BeginClass, Executing, Extras
<1>2. PICK new, o : new = New /\ o = Class(<<>>, n)
  OBVIOUS
<1>3. Declarations_(declared) /\ Len(declared) \in Nat
  BY DEF ClassesIInv, Declarations_
<1>4. record \in [superclass : Nat, own : SUBSET Names] /\ record.superclass = 0
  OBVIOUS
<1>. HIDE DEF record
<1>5. /\ declared' \in Seq([superclass : Nat, own : SUBSET Names])
      /\ Len(declared') = n /\ n \in Nat /\ DOMAIN declared' = 1 .. n /\ declared'[n] = record
      /\ \A i \in 1 .. Len(declared) : declared'[i] = declared[i]
  BY <1>1, <1>3, <1>4 DEF Declarations_
<1>6. Declarations_(declared')
  <2>1. ASSUME NEW i \in 1 .. n
        PROVE  declared'[i].superclass \in 0 .. i - 1
    <3>1. CASE i = n
      BY <1>4, <1>5, <3>1
    <3>2. CASE i # n
      <4>1. i \in 1 .. Len(declared) /\ i \in DOMAIN declared
        BY <1>3, <3>2 DEF Declarations_
      <4>. QED
        BY <1>3, <1>5, <4>1 DEF Declarations_
    <3>. QED
      BY <3>1, <3>2
  <2>. QED
    BY <1>5, <2>1 DEF Declarations_
<1>7. DeclaredGrows
  <2>1. \A i \in DOMAIN declared : i \in 1 .. Len(declared) /\ i \in DOMAIN declared'
    BY <1>3, <1>5 DEF Declarations_
  <2>. QED
    BY <1>3, <1>5, <1>6, <2>1 DEF DeclaredGrows
<1>8. /\ new \in Value /\ DOMAIN objects' = DOMAIN objects \cup {new} /\ objects'[new] = o
      /\ new \notin DOMAIN objects /\ \A i \in DOMAIN objects : objects'[i] = objects[i]
      /\ Keeps(DOMAIN objects) /\ (ObjectOK(o)' => ObjectsOK')
  BY <1>1, <1>2, <1>7, Allocated
<1>9. o.kind = "class" /\ o.declaration = n /\ ClassOK(o)'
  <2>1. n \in DOMAIN declared'
    BY <1>3, <1>5
  <2>. HIDE DEF n
  <2>. QED
    BY <1>2, <2>1 DEF Class, ClassOK
<1>10. ObjectsOK'
  BY <1>8, <1>9 DEF ObjectOK
<1>11. /\ Base \in Nat /\ t \in Nat /\ Len(stack_) = Base + t /\ Len(stack_) \in Nat
       /\ stack_ \in Seq(Value)
  BY <1>1, BaseFacts DEF ClassesIInv, ValuesOK
<1>12. /\ stack_' \in Seq(Value) /\ Len(stack_') = Len(stack_) + 1 /\ stack_'[Len(stack_) + 1] = new
       /\ \A i \in 1 .. Len(stack_) : stack_'[i] = stack_[i]
  BY <1>1, <1>2, <1>8, <1>11
<1>13. Extras' = 1
  BY <1>1 DEF Extras
<1>14. \A i \in 1 .. Len(stack_') : stack_'[i] = Nil \/ stack_'[i] \in DOMAIN objects'
  <2>1. \A i \in 1 .. Len(stack_) : stack_[i] = Nil \/ stack_[i] \in DOMAIN objects
    BY DEF ClassesIInv, ValuesOK, Live
  <2>2. \A i \in 1 .. Len(stack_') : i \in 1 .. Len(stack_) \/ i = Len(stack_) + 1
    BY <1>11, <1>12
  <2>. QED
    BY <1>8, <1>12, <2>1, <2>2
<1>15. /\ DOMAIN globals_' \subseteq Variables
       /\ \A x \in DOMAIN globals_' : globals_'[x] = Nil \/ globals_'[x] \in DOMAIN objects'
  BY <1>1, <1>8 DEF ClassesIInv, ValuesOK, Live
<1>16. DeclaringOK'
  <2>1. Last(stack_') = new
    BY <1>12 DEF Last
  <2>2. declared'[Len(declared')].superclass = 0 /\ Len(declared') > 0
    BY <1>3, <1>4, <1>5
  <2>3. ASSUME NEW x \in DOMAIN globals_', Is(globals_[x], "class")'
        PROVE  objects'[globals_'[x]].declaration # n
    <3>1. globals_[x] = Nil \/ globals_[x] \in DOMAIN objects
      BY <1>1, <2>3 DEF ClassesIInv, ValuesOK, Live
    <3>2. Nil \notin DOMAIN objects'
      BY <1>10, NilIsNothing, ClassesAssumption DEF ObjectsOK, Nil
    <3>3. globals_[x] \in DOMAIN objects /\ objects'[globals_[x]] = objects[globals_[x]]
      BY <1>1, <1>8, <2>3, <3>1, <3>2 DEF Is
    <3>4. ClassOK(objects[globals_[x]])
      BY <1>1, <2>3, <3>3, KindOK DEF ClassesIInv, ObjectsOK, Is
    <3>5. objects[globals_[x]].declaration \in 1 .. Len(declared)
      BY <1>3, <3>4 DEF ClassOK, Declarations_
    <3>. QED
      BY <1>1, <1>3, <3>3, <3>5
  <2>4. Is(new, "class")' /\ objects'[new].declaration = n
    BY <1>8, <1>9 DEF Is
  <2>5. InScript'
    BY <1>1 DEF InScript
  <2>. HIDE DEF n
  <2>. QED
    BY <1>1, <1>5, <2>1, <2>2, <2>3, <2>4, <2>5 DEF DeclaringOK, Is
<1>17. call_frames_' = [call_frames_ EXCEPT ![Len(call_frames_)].temps = t]
  BY <1>1, SameFrames
<1>. HIDE DEF t
<1>18. /\ Len(stack_') = Base + t + Extras'
       /\ \A i \in 1 .. Base : stack_'[i] = stack_[i]
       /\ declaring' \in {"no", "class"} \cup Variables
  <2>1. \A i \in 1 .. Base : i \in 1 .. Len(stack_)
    BY <1>11
  <2>. QED
    BY <1>1, <1>11, <1>12, <1>13, <2>1
<1>. QED
  BY <1>1, <1>8, <1>10, <1>11, <1>12, <1>14, <1>15, <1>16, <1>17, <1>18, GoesOn

LEMMA EndClassKeeps ==
  ASSUME ClassesIInv, NEW x \in Variables, EndClass(x)
  PROVE  ClassesIInv'
<1> DEFINE height == Len(stack_) - Extra
           t == Top.temps
<1>1. /\ Running /\ declaring # "no" /\ declaring' = "no"
      /\ globals_' = With(globals_, x, stack_[height])
      /\ stack_' = SubSeq(stack_, 1, height - 1)
      /\ UNCHANGED <<call_frames_, objects, declared, status>>
  BY DEF EndClass
<1>2. Extras \in {1, 3} /\ Extra = Extras - 1 /\ Extras' = 0 /\ DeclaringOK'
  BY <1>1 DEF Extras, Extra, HasSuperclass, DeclaringOK
<1>3. /\ Base \in Nat /\ t \in Nat /\ Len(stack_) = Base + t + Extras /\ Len(stack_) \in Nat
      /\ stack_ \in Seq(Value)
  BY <1>1, BaseFacts DEF ClassesIInv, ValuesOK
<1>. HIDE DEF t
<1>4. /\ height - 1 = Base + t /\ height - 1 \in 0 .. Len(stack_) /\ height \in 1 .. Len(stack_)
  BY <1>2, <1>3
<1>. HIDE DEF height
<1>5. /\ stack_' \in Seq(Value) /\ Len(stack_') = Base + t
      /\ \A i \in 1 .. Base + t : stack_'[i] = stack_[i]
  BY <1>1, <1>3, <1>4
<1>6. \A i \in 1 .. Len(stack_) : stack_[i] = Nil \/ stack_[i] \in DOMAIN objects
  BY DEF ClassesIInv, ValuesOK, Live
<1>7. \A i \in 1 .. Len(stack_') : stack_'[i] = Nil \/ stack_'[i] \in DOMAIN objects'
  <2>1. \A i \in 1 .. Base + t : i \in 1 .. Len(stack_)
    BY <1>2, <1>3
  <2>. QED
    BY <1>1, <1>5, <1>6, <2>1
<1>8. /\ DOMAIN globals_' \subseteq Variables
      /\ \A y \in DOMAIN globals_' : globals_'[y] = Nil \/ globals_'[y] \in DOMAIN objects'
  BY <1>1, <1>4, <1>6 DEF With, ClassesIInv, ValuesOK, Live
<1>9. call_frames_' = [call_frames_ EXCEPT ![Len(call_frames_)].temps = t]
  BY <1>1, SameFrames DEF t
<1>10. Keeps(DOMAIN objects) /\ ObjectsOK'
  BY <1>1, SameObjects
<1>11. /\ Len(stack_') = Base + t + Extras'
       /\ \A i \in 1 .. Base : stack_'[i] = stack_[i]
       /\ declaring' \in {"no", "class"} \cup Variables
  <2>1. \A i \in 1 .. Base : i \in 1 .. Base + t
    BY <1>3
  <2>. QED
    BY <1>1, <1>2, <1>3, <1>5, <2>1
<1>. QED
  BY <1>1, <1>2, <1>3, <1>5, <1>7, <1>8, <1>9, <1>10, <1>11, GoesOn

LEMMA InheritKeeps ==
  ASSUME ClassesIInv, NEW x \in Variables, Inherit(x)
  PROVE  ClassesIInv'
<1> DEFINE n == Len(declared)
           t == Top.temps
<1>1. PICK parent, child : parent = globals_[x] /\ child = Last(stack_)
  OBVIOUS
<1>2. Running /\ declaring = "class" /\ declared[n].own = {}
  BY DEF Inherit, Last
<1>3. CASE ~(x \in DOMAIN globals_ /\ IsA(parent, "class"))
  BY <1>1, <1>3, StopKeeps DEF Inherit, RuntimeError
<1>4. CASE x \in DOMAIN globals_ /\ IsA(parent, "class")
  <2> DEFINE p == objects[parent].declaration
             o == [objects[child] EXCEPT !.methods = objects[parent].methods]
  <2>1. /\ objects' = [objects EXCEPT ![child] = o]
        /\ stack_' = Append(Append(stack_, parent), child)
        /\ declaring' = x
        /\ declared' = [declared EXCEPT ![n].superclass = p]
        /\ UNCHANGED <<call_frames_, globals_, status>>
    BY <1>1, <1>4 DEF Inherit
  <2>2. /\ n \in Nat \ {0} /\ n \in DOMAIN declared
        /\ declared[n] \in [superclass : Nat, own : SUBSET Names]
        /\ Is(child, "class") /\ objects[child].declaration = n /\ ClassOK(objects[child])
        /\ Len(stack_) \in Nat \ {0}
    BY <1>1, <1>2, DeclaringFacts
  <2>3. /\ InScript /\ declared[n].superclass = 0
        /\ \A y \in DOMAIN globals_ : Is(globals_[y], "class") => objects[globals_[y]].declaration # n
    BY <1>2 DEF ClassesIInv, DeclaringOK
  <2>4. Is(parent, "class") /\ p # n
    <3>1. Live(parent)
      BY <1>1, <1>4 DEF ClassesIInv, ValuesOK
    <3>. QED
      BY <1>1, <1>4, <2>3, <3>1, IsAIs
  <2>5. ClassOK(objects[parent])
    BY <2>4, KindOK DEF ClassesIInv, ObjectsOK, Is
  <2>6. /\ Declarations_(declared) /\ DOMAIN declared = 1 .. n
        /\ declared \in Seq([superclass : Nat, own : SUBSET Names])
    BY DEF ClassesIInv, Declarations_
  <2>7. p \in DOMAIN declared /\ p \in 1 .. n - 1 /\ p \in Nat \ {0}
    BY <2>2, <2>4, <2>5, <2>6 DEF ClassOK
  <2>8. PICK record : record = [declared[n] EXCEPT !.superclass = p]
    OBVIOUS
  <2>9. /\ record \in [superclass : Nat, own : SUBSET Names] /\ record.superclass = p
        /\ record.own = {}
    <3>. HIDE DEF p, n
    <3>. QED
      BY <1>2, <2>2, <2>7, <2>8
  <2>10. declared' = [declared EXCEPT ![n] = record]
    BY <2>1, <2>8
  <2>11. PICK q, k : q = p /\ k = n
    OBVIOUS
  <2>. HIDE DEF p, n
  <2>12. /\ declared' \in Seq([superclass : Nat, own : SUBSET Names])
         /\ Len(declared') = n /\ DOMAIN declared' = DOMAIN declared /\ declared'[n] = record
         /\ \A i \in DOMAIN declared \ {n} : declared'[i] = declared[i]
    BY <2>2, <2>6, <2>9, <2>10 DEF n
  <2>13. Declarations_(declared')
    <3>1. ASSUME NEW i \in DOMAIN declared'
          PROVE  declared'[i].superclass \in 0 .. i - 1
      <4>1. CASE i = n
        BY <2>2, <2>7, <2>9, <2>12, <4>1
      <4>2. CASE i # n
        <5>1. i \in DOMAIN declared \ {n} /\ declared[i].superclass \in 0 .. i - 1
          BY <2>6, <2>12, <4>2 DEF Declarations_
        <5>. QED
          BY <2>12, <5>1
      <4>. QED
        BY <4>1, <4>2
    <3>. QED
      BY <2>12, <3>1 DEF Declarations_
  <2>14. DeclaredGrows
    BY <1>2, <2>3, <2>6, <2>9, <2>12, <2>13 DEF DeclaredGrows
  <2>15. PICK c, m : c = o /\ m = objects[parent].methods
    OBVIOUS
  <2>16. c.kind = "class" /\ DOMAIN c = {"kind", "methods", "declaration"} /\ c.declaration = k
         /\ c.methods = m
    BY <2>2, <2>11, <2>15 DEF ClassOK, Is
  <2>. HIDE DEF o
  <2>17. /\ DOMAIN objects' = DOMAIN objects /\ objects'[child] = c
         /\ Keeps(DOMAIN objects) /\ (ObjectOK(c)' => ObjectsOK')
    <3>1. SameRole(objects[child], c)
      BY <2>2, <2>11, <2>16 DEF SameRole, Is
    <3>2. child \in DOMAIN objects /\ objects' = [objects EXCEPT ![child] = c]
      BY <2>1, <2>2, <2>15 DEF Is
    <3>. QED
      BY <2>14, <3>1, <3>2, Updated
  <2>18. ClassOK(c)'
    <3>1. Line(declared', q) \subseteq Line(declared', k)
      <4>1. n \in Line(declared', n) /\ \A i \in Line(declared', n) :
              declared'[i].superclass # 0 => declared'[i].superclass \in Line(declared', n)
        BY <2>2, <2>12, <2>13, LineFacts
      <4>2. p \in Line(declared', n)
        BY <2>7, <2>9, <2>12, <4>1
      <4>3. n \in DOMAIN declared'
        BY <2>2, <2>12
      <4>. QED
        BY <2>11, <2>13, <4>2, <4>3, LineFacts
    <3>2. ASSUME NEW name \in DOMAIN m
          PROVE  MethodOf(m[name], k)' /\ FunctionOf(m[name])'.name = name /\ name \in Names
      <4>1. MethodOf(m[name], q) /\ FunctionOf(m[name]).name = name /\ name \in Names
        BY <2>5, <2>11, <2>15 DEF ClassOK, p
      <4>2. m[name] \in DOMAIN objects /\ Is(m[name], "closure")
        BY <4>1 DEF MethodOf, Is
      <4>3. MethodOf(m[name], q)' /\ FunctionOf(m[name])' = FunctionOf(m[name])
        BY <2>7, <2>11, <2>17, <4>1, <4>2, KeepsFacts DEF ClassesIInv
      <4>4. MethodOf(m[name], k)'
        BY <3>1, <4>3 DEF MethodOf
      <4>. QED
        BY <4>1, <4>3, <4>4
    <3>3. k \in DOMAIN declared'
      BY <2>2, <2>11, <2>12
    <3>. QED
      BY <2>16, <3>2, <3>3 DEF ClassOK
  <2>19. ObjectsOK'
    BY <2>16, <2>17, <2>18 DEF ObjectOK
  <2>20. /\ Base \in Nat /\ t \in Nat /\ Len(stack_) = Base + t + 1 /\ stack_ \in Seq(Value)
         /\ Extras' = 3
    <3>1. Extras = 1 /\ Extras' = 3
      BY <1>2, <2>1, ClassesAssumption DEF Extras
    <3>. QED
      BY <1>2, <3>1, BaseFacts DEF ClassesIInv, ValuesOK
  <2>21. parent \in Value /\ child \in Value /\ parent \in DOMAIN objects /\ child \in DOMAIN objects
    BY <2>2, <2>4, NilIsNothing DEF Is, ClassesIInv
  <2>22. /\ stack_' \in Seq(Value) /\ Len(stack_') = Len(stack_) + 2
         /\ stack_'[Len(stack_) + 1] = parent /\ stack_'[Len(stack_) + 2] = child
         /\ \A i \in 1 .. Len(stack_) : stack_'[i] = stack_[i]
    <3>1. stack_ \in Seq(Value) /\ Len(stack_) \in Nat
      BY <2>2, <2>20
    <3>2. PICK e : e = Append(stack_, parent)
      OBVIOUS
    <3>3. /\ e \in Seq(Value) /\ Len(e) = Len(stack_) + 1 /\ e[Len(stack_) + 1] = parent
          /\ \A i \in 1 .. Len(stack_) : e[i] = stack_[i]
      BY <2>21, <3>1, <3>2
    <3>4. stack_' = Append(e, child)
      BY <2>1, <3>2
    <3>5. /\ stack_' \in Seq(Value) /\ Len(stack_') = Len(e) + 1 /\ stack_'[Len(e) + 1] = child
          /\ \A i \in 1 .. Len(e) : stack_'[i] = e[i]
      BY <2>21, <3>3, <3>4
    <3>6. /\ Len(e) + 1 = Len(stack_) + 2 /\ Len(stack_) + 1 \in 1 .. Len(e)
          /\ \A i \in 1 .. Len(stack_) : i \in 1 .. Len(e)
      BY <3>1, <3>3
    <3>. QED
      BY <3>3, <3>5, <3>6
  <2>23. \A i \in 1 .. Len(stack_') : stack_'[i] = Nil \/ stack_'[i] \in DOMAIN objects'
    <3>1. \A i \in 1 .. Len(stack_) : stack_[i] = Nil \/ stack_[i] \in DOMAIN objects
      BY DEF ClassesIInv, ValuesOK, Live
    <3>2. \A i \in 1 .. Len(stack_') :
            i \in 1 .. Len(stack_) \/ i = Len(stack_) + 1 \/ i = Len(stack_) + 2
      BY <2>2, <2>22
    <3>. QED
      BY <2>17, <2>21, <2>22, <3>1, <3>2
  <2>24. /\ DOMAIN globals_' \subseteq Variables
         /\ \A y \in DOMAIN globals_' : globals_'[y] = Nil \/ globals_'[y] \in DOMAIN objects'
    BY <2>1, <2>17 DEF ClassesIInv, ValuesOK, Live
  <2>25. DeclaringOK'
    <3>1. Last(stack_') = child /\ stack_'[Len(stack_') - 1] = parent
      <4>1. Len(stack_') = Len(stack_) + 2 /\ Len(stack_') - 1 = Len(stack_) + 1
        BY <2>2, <2>22
      <4>. QED
        BY <2>22, <4>1 DEF Last
    <3>2. \A v \in DOMAIN objects : Is(v, "class")' =>
            Is(v, "class") /\ objects'[v].declaration = objects[v].declaration
      BY <2>17 DEF Keeps, SameRole, Is
    <3>3. ASSUME NEW v, v \in DOMAIN objects, Is(v, "class")
          PROVE  Is(v, "class")' /\ objects'[v].declaration = objects[v].declaration
      BY <2>17, <3>3, KeepsFacts DEF ClassesIInv
    <3>4. /\ Is(child, "class")' /\ objects'[child].declaration = n
          /\ Is(parent, "class")' /\ objects'[parent].declaration = p
      BY <2>2, <2>4, <2>21, <3>3 DEF p
    <3>5. ASSUME NEW y \in DOMAIN globals_', Is(globals_[y], "class")'
          PROVE  objects'[globals_'[y]].declaration # n
      <4>1. globals_'[y] = globals_[y] /\ globals_[y] \in DOMAIN objects
        BY <2>1, <2>17, <3>5 DEF Is
      <4>2. PICK v : v = globals_[y]
        OBVIOUS
      <4>3. Is(v, "class")'
        BY <2>1, <3>5, <4>1, <4>2 DEF Is
      <4>. QED
        BY <2>1, <2>3, <3>2, <4>1, <4>2, <4>3
    <3>6. InScript' /\ declaring' # "class" /\ Len(declared') = n /\ n > 0
          /\ declared'[n].superclass = p /\ p # 0
      BY SMTT(40), <2>1, <2>2, <2>3, <2>7, <2>9, <2>12, ClassesAssumption DEF InScript
    <3>. QED
      BY <3>1, <3>4, <3>5, <3>6 DEF DeclaringOK, Is
  <2>26. call_frames_' = [call_frames_ EXCEPT ![Len(call_frames_)].temps = t]
    BY <1>2, <2>1, SameFrames
  <2>. HIDE DEF t
  <2>27. /\ Len(stack_') = Base + t + Extras'
         /\ \A i \in 1 .. Base : stack_'[i] = stack_[i]
         /\ declaring' \in {"no", "class"} \cup Variables
    <3>1. \A i \in 1 .. Base : i \in 1 .. Len(stack_)
      BY <2>20
    <3>2. Len(stack_') = Base + t + Extras'
      BY <2>20, <2>22
    <3>3. \A i \in 1 .. Base : stack_'[i] = stack_[i]
      BY <2>22, <3>1
    <3>. QED
      BY <2>1, <3>2, <3>3
  <2>. QED
    BY <1>2, <2>1, <2>17, <2>19, <2>20, <2>22, <2>23, <2>24, <2>25, <2>26, <2>27, GoesOn
<1>. QED
  BY <1>3, <1>4

LEMMA AddMethodKeeps ==
  ASSUME ClassesIInv, NEW name \in Names, AddMethod(name)
  PROVE  ClassesIInv'
<1> DEFINE n == Len(declared)
           superclass == declared[n].superclass
<1>1. PICK klass, super, new, k :
        /\ klass = Last(stack_) /\ new = New /\ k = n
        /\ super = IF HasSuperclass THEN stack_[Len(stack_) - 1] ELSE Nil
  OBVIOUS
<1>2. Running /\ declaring # "no" /\ HasRoom
  BY DEF AddMethod
<1>3. /\ n \in Nat \ {0} /\ n \in DOMAIN declared
      /\ declared[n] \in [superclass : Nat, own : SUBSET Names]
      /\ Is(klass, "class") /\ objects[klass].declaration = n /\ ClassOK(objects[klass])
  BY <1>1, <1>2, DeclaringFacts
<1>4. IsA(klass, "class") /\ klass \in DOMAIN objects
  BY <1>3, NilIsNothing DEF IsA, Is, ClassesIInv
<1> DEFINE o == Closure(Function(n, name), super)
           c == [objects[klass] EXCEPT !.methods = With(objects[klass].methods, name, new)]
<1>5. /\ objects' = [With(objects, new, o) EXCEPT ![klass].methods = With(@, name, new)]
      /\ declared' = [declared EXCEPT ![n].own = @ \cup {name}]
      /\ UNCHANGED <<stack_, call_frames_, globals_, declaring, status>>
  BY <1>1, <1>4 DEF AddMethod, Put
<1>6. /\ superclass \in Nat
      /\ superclass = 0 => super = Nil
      /\ superclass # 0 => Is(super, "class") /\ objects[super].declaration = superclass
  BY <1>1, <1>2, <1>3 DEF ClassesIInv, DeclaringOK, HasSuperclass
<1>7. new \in 1..NObjects /\ new \notin DOMAIN objects /\ DOMAIN objects \subseteq 1..NObjects
  <2>1. \E i \in 1..NObjects : i \notin DOMAIN objects
    BY <1>2 DEF HasRoom, ClassesIInv, ObjectsOK
  <2>. QED
    BY <1>1, <2>1 DEF New, ClassesIInv, ObjectsOK
<1>8. PICK q, p : q = o /\ p = c
  OBVIOUS
<1>9. /\ DOMAIN objects' = DOMAIN objects \cup {new}
      /\ objects'[new] = q /\ objects'[klass] = p
      /\ \A i \in DOMAIN objects \ {klass} : objects'[i] = objects[i]
  <2>1. PICK f : f = With(objects, new, o)
    OBVIOUS
  <2>2. /\ DOMAIN f = DOMAIN objects \cup {new} /\ f[new] = o
        /\ \A i \in DOMAIN objects : f[i] = objects[i]
    BY <1>7, <2>1 DEF With
  <2>3. objects' = [f EXCEPT ![klass] = c]
    BY <1>4, <1>5, <2>1, <2>2
  <2>. HIDE DEF o, c
  <2>. QED
    BY <1>4, <1>7, <1>8, <2>2, <2>3
<1>10. q.kind = "closure" /\ q.function = Function(k, name) /\ q.super = super
       /\ DOMAIN q = {"kind", "function", "super"}
  BY <1>1, <1>8 DEF Closure
<1>11. /\ p.kind = "class" /\ DOMAIN p = {"kind", "methods", "declaration"}
       /\ p.declaration = k /\ p.methods = With(objects[klass].methods, name, new)
  BY <1>1, <1>3, <1>8 DEF ClassOK, Is
<1>. HIDE DEF o, c
<1>12. PICK record : record = [declared[n] EXCEPT !.own = @ \cup {name}]
  OBVIOUS
<1>13. /\ record \in [superclass : Nat, own : SUBSET Names] /\ record.superclass = superclass
       /\ record.own = declared[n].own \cup {name}
  <2>. HIDE DEF n
  <2>. QED
    BY <1>3, <1>12
<1>14. /\ Declarations_(declared) /\ DOMAIN declared = 1 .. n
       /\ declared \in Seq([superclass : Nat, own : SUBSET Names])
  BY DEF ClassesIInv, Declarations_
<1>15. declared' = [declared EXCEPT ![n] = record]
  BY <1>5, <1>12
<1>. HIDE DEF superclass
<1>16. /\ declared' \in Seq([superclass : Nat, own : SUBSET Names])
       /\ Len(declared') = n /\ DOMAIN declared' = DOMAIN declared /\ declared'[n] = record
       /\ \A i \in DOMAIN declared \ {n} : declared'[i] = declared[i]
  <2>. HIDE DEF n
  <2>. QED
    BY <1>3, <1>13, <1>14, <1>15 DEF n
<1>17. \A i \in DOMAIN declared' : declared'[i].superclass = declared[i].superclass
  BY <1>13, <1>16 DEF superclass
<1>. HIDE DEF n
<1>18. Declarations_(declared')
  BY <1>14, <1>16, <1>17 DEF Declarations_
<1>19. DeclaredGrows
  BY <1>13, <1>14, <1>16, <1>17, <1>18 DEF DeclaredGrows
<1>20. Keeps(DOMAIN objects) /\ ObjectsOK
  <2>1. \A i \in DOMAIN objects : SameRole(objects[i], objects'[i])
    BY <1>1, <1>3, <1>9, <1>11 DEF SameRole, Is
  <2>. QED
    BY <1>9, <1>19, <2>1, KeepsAll DEF ClassesIInv
<1>21. ObjectOK(q)'
  <2>1. PICK s : s = superclass
    OBVIOUS
  <2>2. /\ k \in DOMAIN declared' /\ name \in declared'[k].own
        /\ declared'[k].superclass = s
    BY <1>1, <1>3, <1>13, <1>16, <2>1 DEF n
  <2>3. s # 0 => Is(super, "class")' /\ objects'[super].declaration = s
    <3>1. s # 0 => super \in DOMAIN objects /\ Is(super, "class") /\ objects[super].declaration = s
      BY <1>6, <2>1 DEF Is, superclass
    <3>. QED
      BY <1>20, <3>1, KeepsFacts
  <2>4. s = 0 => super = Nil
    BY <1>6, <2>1 DEF superclass
  <2>5. q.function.class = k /\ q.function.name = name
    BY <1>10 DEF Function
  <2>6. ClosureOK(q)'
    BY <1>10, <2>2, <2>3, <2>4, <2>5 DEF ClosureOK
  <2>. QED
    BY <1>10, <2>6 DEF ObjectOK
<1>22. ObjectOK(p)'
  <2>1. PICK ms : ms = objects[klass].methods
    OBVIOUS
  <2>2. DOMAIN p.methods = DOMAIN ms \cup {name} /\ p.methods[name] = new
        /\ \A x \in DOMAIN ms \ {name} : p.methods[x] = ms[x]
    BY <1>11, <2>1 DEF With
  <2>3. ASSUME NEW x \in DOMAIN ms
        PROVE  MethodOf(ms[x], k)' /\ FunctionOf(ms[x])'.name = x /\ x \in Names
    <3>1. MethodOf(ms[x], k) /\ FunctionOf(ms[x]).name = x /\ x \in Names /\ k \in DOMAIN declared
      BY <1>1, <1>3, <2>1 DEF ClassOK, n
    <3>2. ms[x] \in DOMAIN objects /\ Is(ms[x], "closure")
      BY <3>1 DEF MethodOf, Is
    <3>. QED
      BY <1>20, <3>1, <3>2, KeepsFacts
  <2>4. k \in DOMAIN declared' /\ k \in Line(declared', k)
    BY <1>1, <1>3, <1>16, <1>18, LineFacts DEF n
  <2>5. MethodOf(new, k)' /\ FunctionOf(new)'.name = name
    <3>1. new \in DOMAIN objects' /\ objects'[new].kind = "closure"
          /\ objects'[new].function.class = k /\ objects'[new].function.name = name
      BY <1>9, <1>10 DEF Function
    <3>. QED
      BY <2>4, <3>1 DEF MethodOf, Is, FunctionOf
  <2>6. ASSUME NEW x \in DOMAIN p.methods
        PROVE  MethodOf(p.methods[x], k)' /\ FunctionOf(p.methods[x])'.name = x /\ x \in Names
    <3>1. CASE x = name
      BY <2>2, <2>5, <3>1
    <3>2. CASE x # name
      BY <2>2, <2>3, <2>6, <3>2
    <3>. QED
      BY <3>1, <3>2
  <2>7. ClassOK(p)'
    BY <1>11, <2>4, <2>6 DEF ClassOK
  <2>. QED
    BY <1>11, <2>7 DEF ObjectOK
<1>23. ObjectsOK'
  <2>1. DOMAIN objects' \subseteq 1..NObjects
    BY <1>7, <1>9
  <2>2. ASSUME NEW i \in DOMAIN objects'
        PROVE  (i \in DOMAIN objects /\ objects'[i] = objects[i]) \/ ObjectOK(objects[i])'
    <3>1. CASE i = new
      BY <1>9, <1>21, <3>1 DEF ObjectOK, ClassOK, InstanceOK, BoundOK, ClosureOK
    <3>2. CASE i = klass
      BY <1>9, <1>22, <3>2 DEF ObjectOK, ClassOK, InstanceOK, BoundOK, ClosureOK
    <3>3. CASE i # new /\ i # klass
      BY <1>9, <2>2, <3>3
    <3>. QED
      BY <3>1, <3>2, <3>3
  <2>. QED
    BY <1>20, <2>1, <2>2, ObjectsKept
<1>24. /\ DOMAIN globals_' \subseteq Variables
       /\ \A y \in DOMAIN globals_' : globals_'[y] = Nil \/ globals_'[y] \in DOMAIN objects'
  BY <1>5, <1>9 DEF ClassesIInv, ValuesOK, Live
<1>25. DeclaringOK'
  <2>1. DeclaringOK
    BY <1>2 DEF ClassesIInv
  <2>2. ASSUME NEW v \in DOMAIN objects, Is(v, "class")
        PROVE  Is(v, "class")' /\ objects'[v].declaration = objects[v].declaration
    BY <1>20, <2>2, KeepsFacts
  <2>3. ASSUME NEW v \in DOMAIN objects, Is(v, "class")'
        PROVE  Is(v, "class") /\ objects'[v].declaration = objects[v].declaration
    BY <1>20, <2>3 DEF Keeps, SameRole, Is
  <2>4. /\ Is(Last(stack_), "class")' /\ objects'[Last(stack_')].declaration = n
        /\ InScript' /\ Len(declared') = n /\ n > 0
        /\ declared'[n].superclass = declared[n].superclass
    <3>1. Is(klass, "class")' /\ objects'[klass].declaration = n
      BY <1>3, <1>4, <2>2
    <3>2. Last(stack_') = klass
      BY <1>1, <1>5
    <3>. QED
      BY <1>2, <1>3, <1>5, <1>16, <1>17, <2>1, <3>1, <3>2 DEF DeclaringOK, InScript, Is
  <2>5. declaring' # "class" =>
          /\ declared[n].superclass # 0
          /\ Is(stack_[Len(stack_) - 1], "class")'
          /\ objects'[stack_'[Len(stack_') - 1]].declaration = declared[n].superclass
    <3>1. SUFFICES ASSUME declaring # "class"
                   PROVE  /\ declared[n].superclass # 0
                          /\ Is(stack_[Len(stack_) - 1], "class")'
                          /\ objects'[stack_'[Len(stack_') - 1]].declaration = declared[n].superclass
      BY <1>5
    <3>2. PICK v : v = stack_[Len(stack_) - 1]
      OBVIOUS
    <3>3. declared[n].superclass # 0 /\ Is(v, "class") /\ objects[v].declaration = declared[n].superclass
      BY <1>2, <2>1, <3>1, <3>2 DEF DeclaringOK, n
    <3>4. Is(v, "class")' /\ objects'[v].declaration = declared[n].superclass
      BY <2>2, <3>3 DEF Is
    <3>. QED
      BY <1>5, <3>2, <3>3, <3>4 DEF Is
  <2>6. ASSUME NEW y \in DOMAIN globals_', Is(globals_[y], "class")'
        PROVE  objects'[globals_'[y]].declaration # n
    <3>1. PICK v : v = globals_[y]
      OBVIOUS
    <3>2. globals_'[y] = v /\ Is(v, "class")' /\ Nil \notin DOMAIN objects'
      BY <1>5, <1>23, <2>6, <3>1, ClassesAssumption DEF Is, ObjectsOK, Nil
    <3>3. v \in DOMAIN objects
      BY <1>5, <3>1, <3>2 DEF ClassesIInv, ValuesOK, Live, Is
    <3>4. Is(v, "class") /\ objects'[v].declaration = objects[v].declaration
      BY <2>3, <3>2, <3>3
    <3>. QED
      BY <1>2, <1>5, <2>1, <3>1, <3>2, <3>4 DEF DeclaringOK, n
  <2>7. declaring' = "class" => declared[n].superclass = 0
    BY <1>2, <1>5, <2>1 DEF DeclaringOK, n
  <2>. QED
    BY <2>4, <2>5, <2>6, <2>7 DEF DeclaringOK
<1>. QED
  BY <1>2, <1>5, <1>20, <1>23, <1>24, <1>25, StaysPut

-----------------------------------------------------------------------------
(* The theorems *)

LEMMA InitKeeps ==
  ASSUME ClassesInit
  PROVE  ClassesIInv
<1>1. /\ stack_ = <<>> /\ call_frames_ = <<Frame(Nil, 1, Nil)>> /\ globals_ = <<>> /\ objects = <<>>
      /\ declaring = "no" /\ declared = <<>> /\ status = "running"
  BY DEF ClassesInit
<1>2. NObjects \in Nat
  BY ClassesAssumption
<1> DEFINE f == Frame(Nil, 1, Nil)
<1>3. f \in FrameType /\ f.begin = 1 /\ f.closure = Nil /\ f.temps = 0
  BY <1>2 DEF Frame, FrameType, Value, Nil
<1>. HIDE DEF f
<1>4. /\ call_frames_ \in Seq(FrameType) /\ Len(call_frames_) = 1 /\ call_frames_[1] = f
      /\ Top = f /\ InScript
  <2>1. call_frames_ = <<f>>
    BY <1>1 DEF f
  <2>2. call_frames_ \in Seq(FrameType) /\ Len(call_frames_) = 1 /\ call_frames_[1] = f
    BY <1>3, <2>1
  <2>. QED
    BY <2>2 DEF Top, Last, InScript
<1>5. Len(stack_) = 0 /\ stack_ \in Seq(Value) /\ DOMAIN globals_ = {} /\ DOMAIN objects = {}
      /\ DOMAIN declared = {} /\ declared \in Seq([superclass : Nat, own : SUBSET Names])
  BY <1>1
<1>6. StatusOK /\ Running
  BY <1>1, <1>4 DEF StatusOK, Running
<1>7. Declarations_(declared) /\ ObjectsOK /\ ValuesOK
  BY <1>5 DEF Declarations_, ObjectsOK, ValuesOK
<1>8. ActivationsOK
  BY <1>3, <1>4 DEF ActivationsOK
<1>9. SlotsOK
  BY <1>1, <1>3, <1>4, <1>5 DEF SlotsOK, This, Extras
<1>10. DeclaringOK
  BY <1>1 DEF DeclaringOK
<1>. QED
  BY <1>6, <1>7, <1>8, <1>9, <1>10 DEF ClassesIInv

LEMMA StutterKeeps ==
  ASSUME ClassesIInv, UNCHANGED classesVars
  PROVE  ClassesIInv'
<1>1. /\ stack_' = stack_ /\ call_frames_' = call_frames_ /\ globals_' = globals_
      /\ objects' = objects /\ declaring' = declaring /\ declared' = declared /\ status' = status
  BY DEF classesVars
<1>2. CASE Running
  <2>1. DeclaringOK'
    BY <1>1, <1>2 DEF ClassesIInv, DeclaringOK, InScript, Is
  <2>2. /\ DOMAIN globals_' \subseteq Variables
        /\ \A x \in DOMAIN globals_' : globals_'[x] = Nil \/ globals_'[x] \in DOMAIN objects'
    BY <1>1 DEF ClassesIInv, ValuesOK, Live
  <2>. QED
    BY <1>1, <1>2, <2>1, <2>2, SameObjects, StaysPut
<1>3. CASE ~Running
  <2>1. status \in {"over", "failed"}
    BY <1>3 DEF ClassesIInv, StatusOK, Running
  <2>2. Stop(status)
    BY <1>1, <1>3 DEF ClassesIInv, Stop
  <2>. QED
    BY <2>1, <2>2, StopKeeps
<1>. QED
  BY <1>2, <1>3

LEMMA StepKeeps ==
  ASSUME ClassesIInv, [ClassesNext]_classesVars
  PROVE  ClassesIInv'
<1>1. CASE PushNil \/ Pop \/ GetThis
  BY <1>1, PushNilKeeps, PopKeeps, GetThisKeeps
<1>2. ASSUME NEW x \in Variables, GetGlobal(x) \/ SetGlobal(x) \/ Inherit(x) \/ EndClass(x)
      PROVE  ClassesIInv'
  BY <1>2, GetGlobalKeeps, SetGlobalKeeps, InheritKeeps, EndClassKeeps
<1>3. ASSUME NEW arity_matches \in BOOLEAN, Call(arity_matches)
      PROVE  ClassesIInv'
  BY <1>3, CallKeeps
<1>4. CASE BeginClass
  BY <1>4, BeginClassKeeps
<1>5. ASSUME NEW name \in Names, AddMethod(name) \/ GetProperty(name) \/ GetSuper(name)
      PROVE  ClassesIInv'
  BY <1>5, AddMethodKeeps, GetPropertyKeeps, GetSuperKeeps
<1>6. ASSUME NEW name \in Fields, SetProperty(name)
      PROVE  ClassesIInv'
  BY <1>6, SetPropertyKeeps
<1>7. CASE Return \/ EndScript \/ CollectGarbage
  BY <1>7, ReturnKeeps, EndScriptKeeps, CollectGarbageKeeps
<1>8. CASE UNCHANGED classesVars
  BY <1>8, StutterKeeps
<1>. QED
  BY <1>1, <1>2, <1>3, <1>4, <1>5, <1>6, <1>7, <1>8 DEF ClassesNext

LEMMA ClassesInvariant == ClassesSpec => []ClassesIInv
<1>1. ClassesInit => ClassesIInv
  BY InitKeeps
<1>2. ClassesIInv /\ [ClassesNext]_classesVars => ClassesIInv'
  BY StepKeeps
<1>. QED
  BY <1>1, <1>2, PTL DEF ClassesSpec

LEMMA IsIsA ==
  ASSUME ClassesIInv, NEW v, NEW kind, Is(v, kind)
  PROVE  IsA(v, kind)
BY NilIsNothing DEF ClassesIInv, IsA, Is

(* std::get never meets another alternative (vm.cpp:354-355, 405, 466-467): *)
(* what inherit, method and get_super take for classes and instances are    *)
(* classes and instances.                                                   *)
THEOREM NoBadAccess == ClassesSpec => []NoBadVariantAccess
<1>1. ClassesIInv => NoBadVariantAccess
  BY DEF ClassesIInv, StatusOK, NoBadVariantAccess
<1>. QED
  BY <1>1, ClassesInvariant, PTL

(* In a method, `this' is an instance whose class has the method or         *)
(* inherits it, also in methods that `super' or a bound method called       *)
(* (vm.cpp:151-155, 167-170).                                               *)
THEOREM ThisIsAReceiver == ClassesSpec => []ThisIsReceiver
<1>1. ASSUME ClassesIInv, NEW n \in 2 .. Len(call_frames_)
      PROVE  /\ IsA(stack_[call_frames_[n].begin], "instance")
             /\ FunctionOf(call_frames_[n].closure).class \in
                  Line(declared, ClassOf(stack_[call_frames_[n].begin]))
  <2>1. ActivationOK(call_frames_[n], stack_[call_frames_[n].begin])
    BY <1>1 DEF ClassesIInv, ActivationsOK
  <2>. QED
    BY <1>1, <2>1, IsIsA DEF ActivationOK, MethodOf
<1>2. ClassesIInv => ThisIsReceiver
  BY <1>1 DEF ThisIsReceiver, ClassOf
<1>. QED
  BY <1>2, ClassesInvariant, PTL

(* The collector frees nothing that the stack, a global variable, an        *)
(* activation or an object that is left points to (vm.cpp:27-40,            *)
(* object.cpp:5-69).                                                        *)
THEOREM NothingFreed == ClassesSpec => []NoObjectFreedInUse
<1>1. ClassesIInv => Roots \subseteq DOMAIN objects
  BY ReachedClosed
<1>2. ASSUME ClassesIInv, NEW i \in DOMAIN objects
      PROVE  Held(CASE objects[i].kind = "class" ->
                         {objects[i].methods[name] : name \in DOMAIN objects[i].methods}
                    [] objects[i].kind = "instance" ->
                         {objects[i].klass} \cup
                         {objects[i].fields[name] : name \in DOMAIN objects[i].fields}
                    [] objects[i].kind = "bound" -> {objects[i].instance, objects[i].method}
                    [] objects[i].kind = "closure" -> {objects[i].super})
             \subseteq DOMAIN objects
  <2>1. PICK o : o = objects[i]
    OBVIOUS
  <2>2. ObjectOK(o) /\ Traced(o) \subseteq DOMAIN objects
    BY <1>2, <2>1, NoDanglingPointer DEF ClassesIInv, ObjectsOK
  <2>3. CASE o.kind = "class"
    <3>1. Held({o.methods[name] : name \in DOMAIN o.methods}) \subseteq DOMAIN objects
      BY <2>2, <2>3, TracedClass DEF Held
    <3>. QED
      BY <2>1, <2>3, <3>1
  <2>4. CASE o.kind = "instance"
    <3>1. Held({o.klass} \cup {o.fields[name] : name \in DOMAIN o.fields}) \subseteq DOMAIN objects
      BY <2>2, <2>4, TracedInstance DEF Held
    <3>. QED
      BY <2>1, <2>4, <3>1
  <2>5. CASE o.kind = "bound"
    <3>1. Held({o.instance, o.method}) \subseteq DOMAIN objects
      BY <2>2, <2>5, TracedBound DEF Held
    <3>. QED
      BY <2>1, <2>5, <3>1
  <2>6. CASE o.kind = "closure"
    <3>1. Held({o.super}) \subseteq DOMAIN objects
      BY <2>2, <2>6, TracedClosure DEF Held
    <3>. QED
      BY <2>1, <2>6, <3>1
  <2>. QED
    BY <2>2, <2>3, <2>4, <2>5, <2>6 DEF ObjectOK
<1>3. ClassesIInv => NoObjectFreedInUse
  BY <1>1, <1>2 DEF NoObjectFreedInUse
<1>. QED
  BY <1>3, ClassesInvariant, PTL

(* Every pointer leads to an object of the kind the code takes it for, and  *)
(* every activation has on the stack its slot 0, its operands and what its  *)
(* class declaration put there, and nothing else.                           *)
THEOREM ClassesTypeCorrect == ClassesSpec => []ClassesTypeOK
<1>1. ClassesIInv => /\ stack_ \in Seq(Value)
                     /\ DOMAIN globals_ \subseteq Variables /\ Range(globals_) \subseteq Value
                     /\ DOMAIN objects \subseteq 1..NObjects
                     /\ declaring \in {"no", "class"} \cup Variables
                     /\ status \in {"running", "over", "failed", "crashed"}
  <2>1. ClassesIInv => Range(globals_) \subseteq Value
    BY NilIsNothing, ClassesAssumption DEF ClassesIInv, ValuesOK, Live, Range, Nil, Value
  <2>. QED
    BY <2>1 DEF ClassesIInv, ValuesOK, StatusOK, ObjectsOK
<1>2. ClassesIInv => (Running => call_frames_ # <<>>)
  BY DEF ClassesIInv, StatusOK
<1>3. ASSUME ClassesIInv, NEW i \in DOMAIN objects
      PROVE  CASE objects[i].kind = "class" ->
                    /\ DOMAIN objects[i].methods \subseteq Names
                    /\ \A name \in DOMAIN objects[i].methods :
                         IsA(objects[i].methods[name], "closure")
                    /\ objects[i].declaration \in DOMAIN declared
               [] objects[i].kind = "instance" ->
                    IsA(objects[i].klass, "class") /\ DOMAIN objects[i].fields \subseteq Names
               [] objects[i].kind = "bound" ->
                    IsA(objects[i].instance, "instance") /\ IsA(objects[i].method, "closure")
               [] objects[i].kind = "closure" -> objects[i].function.class \in DOMAIN declared
  <2>1. PICK o : o = objects[i]
    OBVIOUS
  <2>2. ObjectOK(o)
    BY <1>3, <2>1 DEF ClassesIInv, ObjectsOK
  <2>3. CASE o.kind = "class"
    <3>1. /\ DOMAIN o.methods \subseteq Names /\ o.declaration \in DOMAIN declared
          /\ \A name \in DOMAIN o.methods : Is(o.methods[name], "closure")
      BY <2>2, <2>3, KindOK DEF ClassOK, MethodOf
    <3>2. \A name \in DOMAIN o.methods : IsA(o.methods[name], "closure")
      BY <1>3, <3>1, IsIsA
    <3>. QED
      BY <2>1, <2>3, <3>1, <3>2
  <2>4. CASE o.kind = "instance"
    <3>1. Is(o.klass, "class") /\ DOMAIN o.fields \subseteq Names
      BY <2>2, <2>4, KindOK DEF InstanceOK
    <3>. QED
      BY <1>3, <2>1, <2>4, <3>1, IsIsA
  <2>5. CASE o.kind = "bound"
    <3>1. Is(o.instance, "instance") /\ Is(o.method, "closure")
      BY <2>2, <2>5, KindOK DEF BoundOK, MethodOf
    <3>. QED
      BY <1>3, <2>1, <2>5, <3>1, IsIsA
  <2>6. CASE o.kind = "closure"
    <3>1. o.function.class \in DOMAIN declared
      BY <2>2, <2>6, KindOK DEF ClosureOK
    <3>. QED
      BY <2>1, <2>6, <3>1
  <2>. QED
    BY <2>2, <2>3, <2>4, <2>5, <2>6 DEF ObjectOK
<1>4. ASSUME ClassesIInv, NEW n \in DOMAIN call_frames_
      PROVE  (IF n = Len(call_frames_) THEN Len(stack_) ELSE call_frames_[n + 1].begin - 1) =
               call_frames_[n].begin - 1 + (IF n = 1 THEN 0 ELSE 1) + call_frames_[n].temps
                 + (IF n # Len(call_frames_) \/ declaring = "no" THEN 0
                    ELSE IF declaring = "class" THEN 1 ELSE 3)
  <2>1. /\ call_frames_ \in Seq(FrameType) /\ Len(call_frames_) \in Nat
        /\ n \in 1 .. Len(call_frames_) /\ call_frames_[n] \in FrameType
    BY <1>4 DEF ClassesIInv, ActivationsOK
  <2>2. call_frames_[n].begin \in Nat /\ call_frames_[n].temps \in Nat /\ This(n) \in Nat
    BY <2>1 DEF FrameType, This
  <2>3. CASE n = Len(call_frames_)
    <3>1. Len(stack_) = call_frames_[n].begin - 1 + This(n) + call_frames_[n].temps + Extras
      BY <1>4, <2>1, <2>3 DEF ClassesIInv, SlotsOK, Top, Last
    <3>. QED
      BY <2>3, <3>1 DEF This, Extras
  <2>4. CASE n # Len(call_frames_)
    <3>1. n \in 1 .. Len(call_frames_) - 1
      BY <2>1, <2>4
    <3>2. call_frames_[n + 1].begin = call_frames_[n].begin + This(n) + call_frames_[n].temps
      BY <1>4, <3>1 DEF ClassesIInv, SlotsOK
    <3>. QED
      BY <2>2, <2>4, <3>2 DEF This
  <2>. QED
    BY <2>3, <2>4
<1>5. ClassesIInv => ClassesTypeOK
  BY <1>1, <1>2, <1>3, <1>4 DEF ClassesTypeOK
<1>. QED
  BY <1>5, ClassesInvariant, PTL

LEMMA SameLength ==
  ASSUME ClassesIInv, Running, NEW t \in Nat,
         call_frames_' = [call_frames_ EXCEPT ![Len(call_frames_)].temps = t]
  PROVE  Len(call_frames_') = Len(call_frames_)
<1>1. call_frames_ \in Seq(FrameType) /\ Len(call_frames_) \in 1 .. Len(call_frames_)
  BY BaseFacts DEF ClassesIInv, ActivationsOK
<1>2. PICK g : g = call_frames_'
  OBVIOUS
<1>3. PICK k : k = Len(call_frames_)
  OBVIOUS
<1>4. g = WithTemps(call_frames_, k, t)
  BY <1>2, <1>3 DEF WithTemps
<1>. QED
  BY <1>1, <1>2, <1>3, <1>4, FrameChange

LEMMA LeaveLength ==
  ASSUME ClassesIInv, NEW taken \in {0, 1}, NEW v, Leave(taken, v)
  PROVE  Len(call_frames_') = Len(call_frames_)
<1>1. /\ Running /\ Top.temps >= taken
      /\ call_frames_' = [call_frames_ EXCEPT ![Len(call_frames_)].temps = Top.temps - taken + 1]
  BY DEF Leave, Executing, Temps
<1>2. Top.temps - taken + 1 \in Nat
  BY <1>1, BaseFacts
<1>. QED
  BY <1>1, <1>2, SameLength

LEMMA EnterLength ==
  ASSUME ClassesIInv, Running, Top.temps > 0, NEW closure, NEW made, Enter(closure, made)
  PROVE  Len(call_frames_') = Len(call_frames_) + 1
<1> DEFINE k == Len(call_frames_)
           t == Top.temps - 1
<1>1. call_frames_ \in Seq(FrameType) /\ k \in 1 .. k /\ t \in Nat /\ Top = call_frames_[k]
  BY BaseFacts DEF ClassesIInv, ActivationsOK
<1>2. PICK f, g : f = Frame(closure, Len(stack_), made)
                  /\ g = [call_frames_ EXCEPT ![k].temps = Top.temps - 1]
  OBVIOUS
<1>3. call_frames_' = Append(g, f)
  BY <1>1, <1>2 DEF Enter
<1>4. g = WithTemps(call_frames_, k, t)
  BY <1>2 DEF WithTemps
<1>. HIDE DEF t, k
<1>5. g \in Seq(FrameType) /\ Len(g) = Len(call_frames_)
  BY <1>1, <1>4, FrameChange DEF k
<1>6. Len(Append(g, f)) = Len(g) + 1
  BY <1>5
<1>. QED
  BY <1>3, <1>5, <1>6

(* Only a return leaves an activation. *)
LEMMA OnlyReturnLeaves ==
  ASSUME ClassesIInv, [ClassesNext]_classesVars, status' = "running", ~Return
  PROVE  Len(call_frames_') \in {Len(call_frames_), Len(call_frames_) + 1}
<1>1. CASE PushNil \/ Pop \/ GetThis
  <2>1. CASE PushNil \/ GetThis
    BY <2>1, LeaveLength DEF PushNil, GetThis
  <2>2. CASE Pop
    <3>1. /\ Running /\ Top.temps > 0
          /\ call_frames_' = [call_frames_ EXCEPT ![Len(call_frames_)].temps = Top.temps - 1]
      BY <2>2 DEF Pop, Executing, Temps
    <3>2. Top.temps - 1 \in Nat
      BY <3>1, BaseFacts
    <3>. QED
      BY <3>1, <3>2, SameLength
  <2>. QED
    BY <1>1, <2>1, <2>2
<1>2. ASSUME NEW x \in Variables, GetGlobal(x) \/ SetGlobal(x) \/ Inherit(x) \/ EndClass(x)
      PROVE  Len(call_frames_') = Len(call_frames_)
  <2>1. CASE GetGlobal(x)
    BY <2>1, LeaveLength DEF GetGlobal, RuntimeError, Stop
  <2>2. CASE SetGlobal(x) \/ Inherit(x) \/ EndClass(x)
    BY <2>2 DEF SetGlobal, Inherit, EndClass, RuntimeError, Stop
  <2>. QED
    BY <1>2, <2>1, <2>2
<1>3. ASSUME NEW arity_matches \in BOOLEAN, Call(arity_matches)
      PROVE  Len(call_frames_') \in {Len(call_frames_), Len(call_frames_) + 1}
  <2>1. Running /\ Top.temps > 0
    BY <1>3 DEF Call, Executing
  <2>2. \/ call_frames_' = call_frames_
        \/ \E closure, made : Enter(closure, made)
    BY <1>3 DEF Call, RuntimeError, Stop
  <2>. QED
    BY <2>1, <2>2, EnterLength
<1>4. CASE BeginClass
  BY <1>4 DEF BeginClass
<1>5. ASSUME NEW name \in Names, AddMethod(name) \/ GetProperty(name) \/ GetSuper(name)
      PROVE  Len(call_frames_') = Len(call_frames_)
  <2>1. \A taken \in {0, 1} : \A v : Leave(taken, v) => Len(call_frames_') = Len(call_frames_)
    BY LeaveLength
  <2>2. CASE AddMethod(name)
    BY <2>2 DEF AddMethod, Stop
  <2>3. CASE GetProperty(name)
    BY <2>1, <2>3 DEF GetProperty, Bind, RuntimeError, Stop
  <2>4. CASE GetSuper(name)
    BY <2>1, <2>4 DEF GetSuper, Bind, RuntimeError, Stop
  <2>. QED
    BY <1>5, <2>2, <2>3, <2>4
<1>6. ASSUME NEW name \in Fields, SetProperty(name)
      PROVE  Len(call_frames_') = Len(call_frames_)
  BY <1>6 DEF SetProperty, RuntimeError, Stop
<1>7. CASE EndScript \/ CollectGarbage
  BY <1>7 DEF EndScript, CollectGarbage, Stop
<1>8. CASE UNCHANGED classesVars
  BY <1>8 DEF classesVars
<1>. QED
  BY <1>1, <1>2, <1>3, <1>4, <1>5, <1>6, <1>7, <1>8 DEF ClassesNext

(* What a class call leaves is the instance it made, whatever its           *)
(* initializer did, in the place of the class (vm.cpp:151-155,              *)
(* compiler.cpp:626-635, 746-760).                                          *)
THEOREM ConstructionCorrect == ClassesSpec => ConstructionYieldsInstance
<1>1. ASSUME ClassesIInv, [ClassesNext]_classesVars,
             Len(call_frames_') = Len(call_frames_) - 1, status' = "running", Top.made # Nil
      PROVE  Last(stack_') = Top.made /\ Len(stack_') = Top.begin
  <2>1. Return
    <3>1. Len(call_frames_) \in Nat
      BY DEF ClassesIInv, ActivationsOK
    <3>. QED
      BY <1>1, <3>1, OnlyReturnLeaves
  <2>2. Running /\ ~InScript /\ Len(stack_') = Top.begin /\ stack_'[Top.begin] = Result
    BY <1>1, <2>1, ReturnFacts
  <2>3. ActivationOK(Top, stack_[Top.begin])
    BY <1>1, <2>2, ThisFacts
  <2>4. Initializing /\ stack_[Top.begin] = Top.made
    BY <1>1, <2>3 DEF ActivationOK, Initializing, FunctionOf
  <2>5. Result = Top.made
    BY <2>4 DEF Result
  <2>. QED
    BY <2>2, <2>5 DEF Last
<1>2. ClassesIInv /\ [ClassesNext]_classesVars =>
        [ Len(call_frames_') = Len(call_frames_) - 1 /\ status' = "running" /\ Top.made # Nil =>
            /\ Last(stack_') = Top.made
            /\ Len(stack_') = Top.begin ]_classesVars
  BY <1>1
<1>. QED
  BY <1>2, ClassesInvariant, PTL DEF ClassesSpec, ConstructionYieldsInstance

-----------------------------------------------------------------------------
(* The method tables *)

(* Of the class d and those it inherits from, n is the nearest one that     *)
(* declares the method.                                                     *)
Nearest(d, n, name) ==
  /\ n \in Line(declared, d) /\ name \in declared[n].own
  /\ \A m \in Line(declared, d) : name \in declared[m].own => m <= n

Undeclared(d, name) == \A n \in Line(declared, d) : name \notin declared[n].own

Complete(methods, d) ==
  \A name \in Names :
    \/ /\ name \in DOMAIN methods
       /\ \E n \in DOMAIN declared :
            Nearest(d, n, name) /\ FunctionOf(methods[name]) = Function(n, name)
    \/ name \notin DOMAIN methods /\ Undeclared(d, name)

IsClass(c) == Is(c, "class")

TablesInv ==
  /\ \A c \in DOMAIN objects : IsClass(c) => Complete(objects[c].methods, objects[c].declaration)
  /\ \A c, e \in DOMAIN objects :
       IsClass(c) /\ IsClass(e) /\ objects[c].declaration = objects[e].declaration => c = e

-----------------------------------------------------------------------------
(* Superclasses *)

LEMMA LineBelow ==
  ASSUME NEW ds, Declarations_(ds), NEW d \in DOMAIN ds
  PROVE  Line(ds, d) \subseteq 1 .. d
<1> DEFINE E == [n \in DOMAIN ds |-> {ds[n].superclass} \ {0}]
           S == 1 .. d
<1>1. /\ DOMAIN ds = 1 .. Len(ds) /\ Len(ds) \in Nat
      /\ \A n \in DOMAIN ds : ds[n].superclass \in 0 .. n - 1
  BY DEF Declarations_
<1>2. S \in SUBSET DOMAIN ds /\ {d} \subseteq S
  BY <1>1
<1>3. Closed(S, E)
  BY <1>1, <1>2 DEF Closed
<1>. HIDE DEF S, E
<1>4. ReachableFrom(DOMAIN ds, E, {d}) \subseteq S
  BY <1>2, <1>3, ReachableLeast
<1>. QED
  BY <1>4 DEF Line, S, E

(* The line of a class depends on the superclasses of no later class. *)
LEMMA LineAgrees ==
  ASSUME NEW ds, Declarations_(ds), NEW es, Declarations_(es),
         NEW d \in DOMAIN ds, d \in DOMAIN es,
         \A n \in 1 .. d : es[n].superclass = ds[n].superclass
  PROVE  Line(ds, d) \subseteq Line(es, d)
<1> DEFINE E == [n \in DOMAIN ds |-> {ds[n].superclass} \ {0}]
           S == Line(es, d)
<1>1. /\ DOMAIN ds = 1 .. Len(ds) /\ Len(ds) \in Nat
      /\ \A n \in DOMAIN ds : ds[n].superclass \in 0 .. n - 1
  BY DEF Declarations_
<1>2. /\ d \in S /\ S \subseteq 1 .. d
      /\ \A m \in S : es[m].superclass # 0 => es[m].superclass \in S
  BY LineFacts, LineBelow
<1>3. \A m \in S : m \in 1 .. d /\ m \in DOMAIN ds
  BY <1>1, <1>2
<1>. HIDE DEF S
<1>4. S \in SUBSET DOMAIN ds /\ {d} \subseteq S /\ Closed(S, E)
  BY <1>2, <1>3 DEF Closed
<1>. HIDE DEF E
<1>5. ReachableFrom(DOMAIN ds, E, {d}) \subseteq S
  BY <1>4, ReachableLeast
<1>. QED
  BY <1>5 DEF Line, S, E

(* A class and the line of its superclass. *)
LEMMA LineStep ==
  ASSUME NEW ds, Declarations_(ds), NEW d \in DOMAIN ds, NEW p, p = ds[d].superclass
  PROVE  /\ p = 0 => Line(ds, d) = {d}
         /\ p # 0 => p \in DOMAIN ds /\ p \in 1 .. d - 1 /\ Line(ds, d) = {d} \cup Line(ds, p)
<1> DEFINE E == [n \in DOMAIN ds |-> {ds[n].superclass} \ {0}]
           S == IF p = 0 THEN {d} ELSE {d} \cup Line(ds, p)
<1>1. /\ DOMAIN ds = 1 .. Len(ds) /\ Len(ds) \in Nat
      /\ \A n \in DOMAIN ds : ds[n].superclass \in 0 .. n - 1
  BY DEF Declarations_
<1>2. p # 0 => p \in DOMAIN ds /\ p \in 1 .. d - 1
  BY <1>1
<1>3. /\ d \in Line(ds, d)
      /\ \A m \in Line(ds, d) : ds[m].superclass # 0 => ds[m].superclass \in Line(ds, d)
      /\ \A m \in Line(ds, d) : Line(ds, m) \subseteq Line(ds, d)
  BY LineFacts
<1>4. S \subseteq Line(ds, d)
  BY <1>3
<1>5. p # 0 =>
        /\ Line(ds, p) \subseteq DOMAIN ds /\ p \in Line(ds, p)
        /\ \A m \in Line(ds, p) : ds[m].superclass # 0 => ds[m].superclass \in Line(ds, p)
  BY <1>2, LineFacts
<1>6. S \in SUBSET DOMAIN ds /\ {d} \subseteq S
  BY <1>5
<1>7. Closed(S, E)
  BY <1>5, <1>6 DEF Closed
<1>. HIDE DEF S, E
<1>8. ReachableFrom(DOMAIN ds, E, {d}) \subseteq S
  BY <1>6, <1>7, ReachableLeast
<1>9. Line(ds, d) = S
  BY <1>4, <1>8 DEF Line, E
<1>. QED
  BY <1>2, <1>9 DEF S

-----------------------------------------------------------------------------
(* Steps that leave classes and closures alone *)

TablesSame ==
  /\ declared' = declared
  /\ \A c \in DOMAIN objects' : objects'[c].kind \in {"class", "closure"} =>
       c \in DOMAIN objects /\ objects'[c] = objects[c]

LEMMA TablesKept ==
  ASSUME ClassesIInv', TablesInv, TablesSame
  PROVE  TablesInv'
<1>1. ASSUME NEW c \in DOMAIN objects', IsClass(c)'
      PROVE  c \in DOMAIN objects /\ objects'[c] = objects[c] /\ IsClass(c)
  BY <1>1 DEF TablesSame, IsClass, Is
<1>2. ASSUME NEW c \in DOMAIN objects', IsClass(c)'
      PROVE  Complete(objects[c].methods, objects[c].declaration)'
  <2>1. PICK ms, d : ms = objects[c].methods /\ d = objects[c].declaration
    OBVIOUS
  <2>2. objects'[c].methods = ms /\ objects'[c].declaration = d
    BY <1>1, <1>2, <2>1
  <2>3. Complete(ms, d)
    BY <1>1, <1>2, <2>1 DEF TablesInv
  <2>4. ASSUME NEW name \in DOMAIN ms
        PROVE  FunctionOf(ms[name])' = FunctionOf(ms[name])
    <3>1. ClassOK(objects[c])'
      BY <1>2, KindOK DEF IsClass, Is, ClassesIInv, ObjectsOK, ObjectOK
    <3>2. ms[name] \in DOMAIN objects' /\ objects'[ms[name]].kind = "closure"
      BY <2>2, <3>1 DEF ClassOK, MethodOf, Is
    <3>. QED
      BY <3>2 DEF TablesSame, FunctionOf
  <2>5. Complete(ms, d)'
    BY <2>3, <2>4 DEF Complete, Nearest, Undeclared, TablesSame
  <2>. QED
    BY <2>2, <2>5 DEF Complete, Nearest, Undeclared
<1>3. ASSUME NEW c \in DOMAIN objects', NEW e \in DOMAIN objects', IsClass(c)', IsClass(e)',
             objects'[c].declaration = objects'[e].declaration
      PROVE  c = e
  BY <1>1, <1>3 DEF TablesInv
<1>. QED
  BY <1>2, <1>3 DEF TablesInv

(* An object is added that is no class and no closure. *)
LEMMA AddedSame ==
  ASSUME ClassesIInv, HasRoom, NEW o, o.kind \notin {"class", "closure"},
         objects' = With(objects, New, o), declared' = declared
  PROVE  TablesSame
<1>1. /\ DOMAIN objects' = DOMAIN objects \cup {New} /\ objects'[New] = o
      /\ \A i \in DOMAIN objects : objects'[i] = objects[i]
  BY SameDeclared, Allocated
<1>. QED
  BY <1>1 DEF TablesSame

LEMMA ObjectsSame ==
  ASSUME UNCHANGED <<objects, declared>>
  PROVE  TablesSame
BY DEF TablesSame

LEMMA StopSame ==
  ASSUME NEW how, Stop(how)
  PROVE  TablesSame
BY DEF Stop, TablesSame

LEMMA BindSame ==
  ASSUME ClassesIInv, NEW taken, NEW instance, NEW method, Bind(taken, instance, method)
  PROVE  TablesSame
<1>1. PICK o : o = Bound_method(instance, method)
  OBVIOUS
<1>2. o.kind = "bound"
  BY <1>1 DEF Bound_method
<1>3. HasRoom /\ objects' = With(objects, New, o) /\ declared' = declared
  BY <1>1 DEF Bind
<1>. QED
  BY <1>2, <1>3, AddedSame

LEMMA CallSame ==
  ASSUME ClassesIInv, NEW arity_matches, Call(arity_matches)
  PROVE  TablesSame
<1>1. CASE RuntimeError
  BY <1>1, StopSame DEF RuntimeError
<1>2. CASE objects' = objects /\ declared' = declared
  BY <1>2, ObjectsSame
<1>3. ASSUME HasRoom, objects' = With(objects, New, Instance(Last(stack_))), declared' = declared
      PROVE  TablesSame
  <2>1. PICK o : o = Instance(Last(stack_))
    OBVIOUS
  <2>2. o.kind = "instance"
    BY <2>1 DEF Instance
  <2>. QED
    BY <1>3, <2>1, <2>2, AddedSame
<1>. QED
  BY <1>1, <1>2, <1>3 DEF Call

LEMMA SetPropertySame ==
  ASSUME ClassesIInv, NEW name, SetProperty(name)
  PROVE  TablesSame
<1>1. CASE RuntimeError
  BY <1>1, StopSame DEF RuntimeError
<1>2. ASSUME NEW instance, IsA(instance, "instance"), declared' = declared,
             objects' = [objects EXCEPT ![instance].fields = With(@, name, Last(stack_))]
      PROVE  TablesSame
  <2> DEFINE o == [objects[instance] EXCEPT !.fields = With(@, name, Last(stack_))]
  <2>1. objects' = [objects EXCEPT ![instance] = o]
    BY <1>2
  <2>2. instance \in DOMAIN objects => o.kind = "instance"
    <3>1. instance \in DOMAIN objects => InstanceOK(objects[instance])
      BY <1>2, KindOK DEF IsA, ClassesIInv, ObjectsOK
    <3>. QED
      BY <1>2, <3>1 DEF InstanceOK, IsA
  <2>. HIDE DEF o
  <2>. QED
    BY <1>2, <2>1, <2>2 DEF TablesSame
<1>. QED
  BY <1>1, <1>2 DEF SetProperty

LEMMA CollectGarbageSame ==
  ASSUME ClassesIInv, CollectGarbage
  PROVE  TablesSame
<1>1. Reached \subseteq DOMAIN objects
  BY ReachedClosed
<1>. QED
  BY <1>1 DEF CollectGarbage, Restrict, TablesSame

-----------------------------------------------------------------------------
(* A class is declared *)

(* Later declarations do not matter for a complete table. *)
LEMMA EarlierComplete ==
  ASSUME Declarations_(declared), Declarations_(declared'), DOMAIN declared \subseteq DOMAIN declared',
         NEW d \in DOMAIN declared, \A i \in 1 .. d : declared'[i] = declared[i],
         NEW ms, Complete(ms, d),
         \A name \in DOMAIN ms : FunctionOf(ms[name])' = FunctionOf(ms[name])
  PROVE  Complete(ms, d)' /\ Line(declared', d) = Line(declared, d)
<1>1. Line(declared', d) = Line(declared, d) /\ Line(declared, d) \subseteq 1 .. d
  <2>1. d \in DOMAIN declared' /\ \A i \in 1 .. d : declared'[i].superclass = declared[i].superclass
    OBVIOUS
  <2>2. Line(declared, d) \subseteq Line(declared', d)
    BY <2>1, LineAgrees
  <2>3. Line(declared', d) \subseteq Line(declared, d)
    BY <2>1, LineAgrees
  <2>. QED
    BY <2>2, <2>3, LineBelow
<1>2. \A name \in Names : Undeclared(d, name) => Undeclared(d, name)'
  BY <1>1 DEF Undeclared
<1>3. \A name \in Names, i \in DOMAIN declared : Nearest(d, i, name) => Nearest(d, i, name)'
  BY <1>1 DEF Nearest
<1>. QED
  BY <1>1, <1>2, <1>3 DEF Complete

(* The classes that a step which declares something does not concern. *)
LEMMA OtherTables ==
  ASSUME ClassesIInv, ClassesIInv', TablesInv, NEW n, NEW k,
         DOMAIN declared \subseteq DOMAIN declared', DOMAIN objects \subseteq DOMAIN objects',
         \A i \in DOMAIN declared \ {n} : declared'[i] = declared[i],
         \A i \in DOMAIN objects : objects[i].kind = "closure" => objects'[i] = objects[i],
         \A i \in DOMAIN objects' : i = k \/ objects'[i].kind # "class" \/
             (i \in DOMAIN objects /\ objects'[i] = objects[i] /\ objects[i].declaration < n),
         n \in Nat, IsClass(k)', objects'[k].declaration = n,
         Complete(objects[k].methods, n)'
  PROVE  TablesInv'
<1>1. /\ Declarations_(declared) /\ Declarations_(declared')
      /\ DOMAIN declared = 1 .. Len(declared) /\ Len(declared) \in Nat
  BY DEF ClassesIInv, Declarations_
<1>2. ASSUME NEW c \in DOMAIN objects', IsClass(c)', c # k
      PROVE  /\ Complete(objects[c].methods, objects[c].declaration)'
             /\ c \in DOMAIN objects /\ objects'[c] = objects[c] /\ IsClass(c)
             /\ objects[c].declaration < n
  <2>1. PICK ms, d : ms = objects[c].methods /\ d = objects[c].declaration
    OBVIOUS
  <2>2. /\ c \in DOMAIN objects /\ objects'[c] = objects[c] /\ IsClass(c) /\ d < n
    BY <1>2, <2>1 DEF IsClass, Is
  <2>3. ClassOK(objects[c]) /\ Complete(ms, d)
    BY <2>1, <2>2, KindOK DEF IsClass, Is, ClassesIInv, ObjectsOK, TablesInv
  <2>4. d \in DOMAIN declared /\ d \in 1 .. Len(declared)
    BY <1>1, <2>1, <2>3 DEF ClassOK
  <2>5. \A i \in 1 .. d : i \in DOMAIN declared \ {n}
    BY <1>1, <2>2, <2>4
  <2>6. \A name \in DOMAIN ms : FunctionOf(ms[name])' = FunctionOf(ms[name])
    BY <2>1, <2>3 DEF ClassOK, MethodOf, Is, FunctionOf
  <2>7. Complete(ms, d)'
    BY <1>1, <2>3, <2>4, <2>5, <2>6, EarlierComplete
  <2>8. objects'[c].methods = ms /\ objects'[c].declaration = d
    BY <2>1, <2>2
  <2>9. Complete(objects[c].methods, objects[c].declaration)'
    BY <2>7, <2>8 DEF Complete, Nearest, Undeclared
  <2>. QED
    BY <2>1, <2>2, <2>9
<1>3. ASSUME NEW c \in DOMAIN objects', IsClass(c)'
      PROVE  Complete(objects[c].methods, objects[c].declaration)'
  <2>1. CASE c = k
    BY <2>1 DEF Complete, Nearest, Undeclared
  <2>. QED
    BY <1>2, <1>3, <2>1
<1>4. ASSUME NEW c \in DOMAIN objects', NEW e \in DOMAIN objects', IsClass(c)', IsClass(e)',
             objects'[c].declaration = objects'[e].declaration
      PROVE  c = e
  <2>1. CASE c = k \/ e = k
    BY <1>2, <1>4, <2>1
  <2>2. CASE c # k /\ e # k
    BY <1>2, <1>4, <2>2 DEF TablesInv
  <2>. QED
    BY <2>1, <2>2
<1>. QED
  BY <1>3, <1>4 DEF TablesInv

LEMMA BeginClassTables ==
  ASSUME ClassesIInv, ClassesIInv', TablesInv, BeginClass
  PROVE  TablesInv'
<1>0. PICK n : n = Len(declared) + 1
  OBVIOUS
<1> DEFINE record == [superclass |-> 0, own |-> {}]
<1>1. /\ HasRoom /\ objects' = With(objects, New, Class(<<>>, n))
      /\ declared' = Append(declared, record)
  BY <1>0 DEF BeginClass
<1>2. PICK new, o : new = New /\ o = Class(<<>>, n)
  OBVIOUS
<1>3. /\ Declarations_(declared) /\ Declarations_(declared')
      /\ declared \in Seq([superclass : Nat, own : SUBSET Names]) /\ Len(declared) \in Nat
  BY DEF ClassesIInv, Declarations_
<1>4. record \in [superclass : Nat, own : SUBSET Names] /\ record.superclass = 0 /\ record.own = {}
  OBVIOUS
<1>. HIDE DEF record
<1>5. /\ n \in Nat \ {0} /\ DOMAIN declared' = 1 .. n /\ DOMAIN declared = 1 .. n - 1
      /\ declared'[n] = record /\ \A i \in 1 .. n - 1 : declared'[i] = declared[i]
  BY <1>0, <1>1, <1>3, <1>4
<1>6. DeclaredGrows
  BY <1>3, <1>5 DEF DeclaredGrows
<1>7. /\ DOMAIN objects' = DOMAIN objects \cup {new} /\ objects'[new] = o
      /\ new \notin DOMAIN objects /\ \A i \in DOMAIN objects : objects'[i] = objects[i]
  BY <1>1, <1>2, <1>6, Allocated
<1>8. o.kind = "class" /\ o.declaration = n /\ o.methods = <<>>
  BY <1>2 DEF Class
<1>9. \A i \in DOMAIN objects : objects[i].kind = "class" => objects[i].declaration < n
  <2>1. ASSUME NEW i \in DOMAIN objects, objects[i].kind = "class"
        PROVE  objects[i].declaration \in 1 .. n - 1
    BY <1>5, <2>1, KindOK DEF ClassesIInv, ObjectsOK, ClassOK
  <2>. QED
    BY <1>5, <2>1
<1>10. Complete(objects[new].methods, n)'
  <2>1. Line(declared', n) = {n}
    BY <1>3, <1>4, <1>5, LineStep
  <2>2. \A name \in Names : Undeclared(n, name)'
    BY <1>4, <1>5, <2>1 DEF Undeclared
  <2>. QED
    BY <1>7, <1>8, <2>2 DEF Complete
<1>11. IsClass(new)' /\ objects'[new].declaration = n
  BY <1>7, <1>8 DEF IsClass, Is
<1>. QED
  BY <1>5, <1>7, <1>9, <1>10, <1>11, OtherTables

(* Until its declaration ends, a class is the only one of it. *)
LEMMA OnlyDeclared ==
  ASSUME ClassesIInv, TablesInv, Running, declaring # "no"
  PROVE  \A i \in DOMAIN objects : objects[i].kind = "class" /\ i # Last(stack_) =>
           objects[i].declaration < Len(declared)
<1>1. /\ Is(Last(stack_), "class") /\ objects[Last(stack_)].declaration = Len(declared)
      /\ Len(declared) \in Nat \ {0}
  BY DeclaringFacts
<1>2. ASSUME NEW i \in DOMAIN objects, objects[i].kind = "class", i # Last(stack_)
      PROVE  objects[i].declaration < Len(declared)
  <2>1. objects[i].declaration \in 1 .. Len(declared)
    BY <1>2, KindOK DEF ClassesIInv, ObjectsOK, ClassOK, Declarations_
  <2>2. objects[i].declaration # Len(declared)
    BY <1>1, <1>2 DEF TablesInv, IsClass, Is
  <2>. QED
    BY <1>1, <2>1, <2>2
<1>. QED
  BY <1>2

LEMMA InheritTables ==
  ASSUME ClassesIInv, ClassesIInv', TablesInv, NEW x \in Variables, Inherit(x)
  PROVE  TablesInv'
<1>1. PICK parent, child, n : parent = globals_[x] /\ child = Last(stack_) /\ n = Len(declared)
  OBVIOUS
<1>2. Running /\ declaring = "class" /\ declared[n].own = {}
  BY <1>1 DEF Inherit, Last
<1>3. CASE ~(x \in DOMAIN globals_ /\ IsA(parent, "class"))
  BY <1>1, <1>3, StopSame, TablesKept DEF Inherit, RuntimeError
<1>4. CASE x \in DOMAIN globals_ /\ IsA(parent, "class")
  <2>1. PICK p, o, ms : /\ p = objects[parent].declaration /\ ms = objects[parent].methods
                        /\ o = [objects[child] EXCEPT !.methods = ms]
    OBVIOUS
  <2>2. /\ objects' = [objects EXCEPT ![child] = o]
        /\ declared' = [declared EXCEPT ![n].superclass = p]
    BY <1>1, <1>4, <2>1 DEF Inherit
  <2>3. /\ n \in Nat \ {0} /\ n \in DOMAIN declared
        /\ declared[n] \in [superclass : Nat, own : SUBSET Names]
        /\ Is(child, "class") /\ objects[child].declaration = n /\ ClassOK(objects[child])
    BY <1>1, <1>2, DeclaringFacts
  <2>4. \A y \in DOMAIN globals_ : Is(globals_[y], "class") => objects[globals_[y]].declaration # n
    BY <1>1, <1>2 DEF ClassesIInv, DeclaringOK
  <2>5. Is(parent, "class") /\ parent # child /\ parent \in DOMAIN objects /\ child \in DOMAIN objects
    <3>1. Live(parent)
      BY <1>1, <1>4 DEF ClassesIInv, ValuesOK
    <3>2. Is(parent, "class")
      BY <1>4, <3>1, IsAIs
    <3>. QED
      BY <1>1, <1>4, <2>3, <2>4, <3>2 DEF Is
  <2>6. p < n /\ p \in DOMAIN declared
    <3>1. p < n
      BY <1>1, <1>2, <2>1, <2>5, OnlyDeclared DEF Is
    <3>. QED
      BY <2>1, <2>5, <3>1, KindOK DEF Is, ClassesIInv, ObjectsOK, ClassOK
  <2>7. o.kind = "class" /\ o.declaration = n /\ o.methods = ms
    BY <2>1, <2>3 DEF ClassOK, Is
  <2>8. /\ DOMAIN objects' = DOMAIN objects /\ objects'[child] = o
        /\ \A i \in DOMAIN objects \ {child} : objects'[i] = objects[i]
    BY <2>2, <2>5
  <2>9. /\ DOMAIN declared' = DOMAIN declared
        /\ \A i \in DOMAIN declared \ {n} : declared'[i] = declared[i]
        /\ declared'[n].superclass = p /\ declared'[n].own = {}
    BY <1>2, <2>2, <2>3
  <2>10. /\ Declarations_(declared) /\ Declarations_(declared') /\ p \in Nat \ {0}
         /\ DOMAIN declared = 1 .. n
    BY <1>1, <2>6 DEF ClassesIInv, Declarations_
  <2>11. \A i \in DOMAIN objects : objects[i].kind = "closure" => objects'[i] = objects[i]
    BY <2>3, <2>8 DEF Is
  <2>12. Complete(ms, p) /\ ClassOK(objects[parent])
    BY <2>1, <2>5, KindOK DEF TablesInv, IsClass, Is, ClassesIInv, ObjectsOK
  <2>13. Complete(ms, p)' /\ Line(declared', p) = Line(declared, p)
    <3>1. \A name \in DOMAIN ms : FunctionOf(ms[name])' = FunctionOf(ms[name])
      BY <2>1, <2>11, <2>12 DEF ClassOK, MethodOf, Is, FunctionOf
    <3>2. \A i \in 1 .. p : declared'[i] = declared[i]
      <4>1. \A i \in 1 .. p : i \in 1 .. n /\ i # n
        BY <2>3, <2>6, <2>10
      <4>. QED
        BY <2>9, <2>10, <4>1
    <3>. QED
      BY <2>6, <2>9, <2>10, <2>12, <3>1, <3>2, EarlierComplete
  <2>14. Line(declared', n) = {n} \cup Line(declared', p)
    BY <2>3, <2>9, <2>10, LineStep
  <2>15. Complete(ms, n)'
    <3>1. \A name \in Names : Undeclared(p, name)' => Undeclared(n, name)'
      BY <2>9, <2>14 DEF Undeclared
    <3>2. \A name \in Names : \A i \in DOMAIN declared' :
            Nearest(p, i, name)' => Nearest(n, i, name)'
      BY <2>9, <2>14 DEF Nearest
    <3>. QED
      BY <2>13, <3>1, <3>2 DEF Complete
  <2>16. Complete(objects[child].methods, n)' /\ IsClass(child)' /\ objects'[child].declaration = n
    <3>1. objects'[child].methods = ms
      BY <2>7, <2>8
    <3>. QED
      BY <2>5, <2>7, <2>8, <2>15, <3>1 DEF Complete, Nearest, Undeclared, IsClass, Is
  <2>17. \A i \in DOMAIN objects' : i = child \/ objects'[i].kind # "class" \/
           (i \in DOMAIN objects /\ objects'[i] = objects[i] /\ objects[i].declaration < n)
    BY <1>1, <1>2, <2>8, OnlyDeclared
  <2>. QED
    BY <2>3, <2>8, <2>9, <2>11, <2>16, <2>17, OtherTables
<1>. QED
  BY <1>3, <1>4

LEMMA AddMethodTables ==
  ASSUME ClassesIInv, ClassesIInv', TablesInv, NEW name \in Names, AddMethod(name)
  PROVE  TablesInv'
<1>1. PICK klass, super, new, n :
        /\ klass = Last(stack_) /\ new = New /\ n = Len(declared)
        /\ super = IF HasSuperclass THEN stack_[Len(stack_) - 1] ELSE Nil
  OBVIOUS
<1>2. Running /\ declaring # "no" /\ HasRoom
  BY DEF AddMethod
<1>3. /\ n \in Nat \ {0} /\ n \in DOMAIN declared
      /\ declared[n] \in [superclass : Nat, own : SUBSET Names]
      /\ Is(klass, "class") /\ objects[klass].declaration = n /\ ClassOK(objects[klass])
  BY <1>1, <1>2, DeclaringFacts
<1>4. IsA(klass, "class") /\ klass \in DOMAIN objects
  BY <1>3, NilIsNothing DEF IsA, Is, ClassesIInv
<1>5. PICK q, p, ms : /\ q = Closure(Function(n, name), super) /\ ms = objects[klass].methods
                      /\ p = [objects[klass] EXCEPT !.methods = With(ms, name, new)]
  OBVIOUS
<1>6. /\ objects' = [With(objects, new, q) EXCEPT ![klass].methods = With(@, name, new)]
      /\ declared' = [declared EXCEPT ![n].own = @ \cup {name}]
  BY <1>1, <1>4, <1>5 DEF AddMethod, Put
<1>7. new \notin DOMAIN objects
  <2>1. \E i \in 1..NObjects : i \notin DOMAIN objects
    BY <1>2 DEF HasRoom, ClassesIInv, ObjectsOK
  <2>. QED
    BY <1>1, <2>1 DEF New, ClassesIInv, ObjectsOK
<1>8. /\ DOMAIN objects' = DOMAIN objects \cup {new}
      /\ objects'[new] = q /\ objects'[klass] = p
      /\ \A i \in DOMAIN objects \ {klass} : objects'[i] = objects[i]
  <2>1. PICK f : f = With(objects, new, q)
    OBVIOUS
  <2>2. /\ DOMAIN f = DOMAIN objects \cup {new} /\ f[new] = q
        /\ \A i \in DOMAIN objects : f[i] = objects[i]
    BY <1>7, <2>1 DEF With
  <2>3. objects' = [f EXCEPT ![klass] = p]
    BY <1>4, <1>5, <1>6, <2>1, <2>2
  <2>. QED
    BY <1>4, <1>7, <2>2, <2>3
<1>9. q.kind = "closure" /\ q.function = Function(n, name)
  BY <1>5 DEF Closure
<1>10. /\ p.kind = "class" /\ p.declaration = n /\ p.methods = With(ms, name, new)
  BY <1>3, <1>5 DEF ClassOK, Is
<1>11. /\ Declarations_(declared) /\ Declarations_(declared')
       /\ DOMAIN declared = 1 .. n
  BY <1>1 DEF ClassesIInv, Declarations_
<1>12. /\ DOMAIN declared' = DOMAIN declared
       /\ \A i \in DOMAIN declared \ {n} : declared'[i] = declared[i]
       /\ declared'[n].superclass = declared[n].superclass
       /\ declared'[n].own = declared[n].own \cup {name}
  BY <1>3, <1>6
<1>13. /\ Line(declared', n) = Line(declared, n) /\ n \in Line(declared, n)
       /\ Line(declared, n) \subseteq 1 .. n
  <2>1. \A i \in 1 .. n : declared'[i].superclass = declared[i].superclass
    BY <1>11, <1>12
  <2>2. Line(declared, n) \subseteq Line(declared', n)
    BY <1>3, <1>11, <1>12, <2>1, LineAgrees
  <2>3. Line(declared', n) \subseteq Line(declared, n)
    BY <1>3, <1>11, <1>12, <2>1, LineAgrees
  <2>. QED
    BY <1>3, <1>11, <2>2, <2>3, LineFacts, LineBelow
<1>14. Complete(ms, n)
  BY <1>3, <1>4, <1>5 DEF TablesInv, IsClass
<1>15. /\ DOMAIN p.methods = DOMAIN ms \cup {name} /\ p.methods[name] = new
       /\ \A x \in DOMAIN ms \ {name} : p.methods[x] = ms[x]
  BY <1>10 DEF With
<1>16. \A i \in DOMAIN objects : objects[i].kind = "closure" => objects'[i] = objects[i]
  BY <1>3, <1>8 DEF Is
<1>17. \A x \in DOMAIN ms : FunctionOf(ms[x])' = FunctionOf(ms[x])
  BY <1>3, <1>5, <1>16 DEF ClassOK, MethodOf, Is, FunctionOf
<1>18. FunctionOf(new)' = Function(n, name)
  BY <1>8, <1>9 DEF FunctionOf
<1>19. Nearest(n, n, name)'
  BY <1>12, <1>13 DEF Nearest
<1>20. ASSUME NEW x \in Names, x # name
       PROVE  /\ Undeclared(n, x) => Undeclared(n, x)'
              /\ \A i \in DOMAIN declared : Nearest(n, i, x) => Nearest(n, i, x)'
  <2>1. \A i \in 1 .. n : x \in declared'[i].own <=> x \in declared[i].own
    BY <1>11, <1>12, <1>20
  <2>. QED
    BY <1>13, <2>1 DEF Undeclared, Nearest
<1>21. Complete(objects[klass].methods, n)'
  <2>1. ASSUME NEW x \in Names
        PROVE  \/ /\ x \in DOMAIN p.methods
                  /\ \E i \in DOMAIN declared' :
                       Nearest(n, i, x)' /\ FunctionOf(p.methods[x])' = Function(i, x)
               \/ x \notin DOMAIN p.methods /\ Undeclared(n, x)'
    <3>1. CASE x = name
      BY <1>3, <1>12, <1>15, <1>18, <1>19, <3>1
    <3>2. CASE x # name
      BY <1>12, <1>14, <1>15, <1>17, <1>20, <3>2 DEF Complete
    <3>. QED
      BY <3>1, <3>2
  <2>2. objects'[klass].methods = p.methods
    BY <1>8
  <2>. QED
    BY <2>1, <2>2 DEF Complete
<1>22. IsClass(klass)' /\ objects'[klass].declaration = n
  BY <1>4, <1>8, <1>10 DEF IsClass, Is
<1>23. \A i \in DOMAIN objects' : i = klass \/ objects'[i].kind # "class" \/
         (i \in DOMAIN objects /\ objects'[i] = objects[i] /\ objects[i].declaration < n)
  BY <1>1, <1>2, <1>8, <1>9, OnlyDeclared
<1>. QED
  BY <1>3, <1>8, <1>12, <1>16, <1>21, <1>22, <1>23, OtherTables

-----------------------------------------------------------------------------
(* The theorem *)

(* A step that declares nothing leaves classes and closures alone. *)
LEMMA StepSame ==
  ASSUME ClassesIInv, [ClassesNext]_classesVars,
         ~BeginClass, \A x \in Variables : ~Inherit(x), \A name \in Names : ~AddMethod(name)
  PROVE  TablesSame
<1>1. CASE PushNil \/ Pop \/ GetThis \/ Return
  BY <1>1, ObjectsSame DEF PushNil, Pop, GetThis, Return
<1>2. ASSUME NEW x \in Variables, GetGlobal(x) \/ SetGlobal(x) \/ EndClass(x)
      PROVE  TablesSame
  BY <1>2, ObjectsSame, StopSame DEF GetGlobal, SetGlobal, EndClass, RuntimeError
<1>3. ASSUME NEW arity_matches \in BOOLEAN, Call(arity_matches)
      PROVE  TablesSame
  BY <1>3, CallSame
<1>4. ASSUME NEW name \in Names, GetProperty(name) \/ GetSuper(name)
      PROVE  TablesSame
  <2>1. CASE GetProperty(name)
    BY <2>1, ObjectsSame, StopSame, BindSame DEF GetProperty, RuntimeError
  <2>2. CASE GetSuper(name)
    BY <2>2, StopSame, BindSame DEF GetSuper, RuntimeError
  <2>. QED
    BY <1>4, <2>1, <2>2
<1>5. ASSUME NEW name \in Fields, SetProperty(name)
      PROVE  TablesSame
  BY <1>5, SetPropertySame
<1>6. CASE EndScript \/ CollectGarbage
  BY <1>6, StopSame, CollectGarbageSame DEF EndScript
<1>7. CASE UNCHANGED classesVars
  BY <1>7, ObjectsSame DEF classesVars
<1>. QED
  BY <1>1, <1>2, <1>3, <1>4, <1>5, <1>6, <1>7 DEF ClassesNext

LEMMA TablesStep ==
  ASSUME ClassesIInv, TablesInv, [ClassesNext]_classesVars
  PROVE  TablesInv'
<1>1. ClassesIInv'
  BY StepKeeps
<1>2. CASE BeginClass
  BY <1>1, <1>2, BeginClassTables
<1>3. ASSUME NEW x \in Variables, Inherit(x)
      PROVE  TablesInv'
  BY <1>1, <1>3, InheritTables
<1>4. ASSUME NEW name \in Names, AddMethod(name)
      PROVE  TablesInv'
  BY <1>1, <1>4, AddMethodTables
<1>. QED
  BY <1>1, <1>2, <1>3, <1>4, StepSame, TablesKept

LEMMA TablesInvariant == ClassesSpec => [](ClassesIInv /\ TablesInv)
<1>1. ClassesInit => ClassesIInv /\ TablesInv
  BY InitKeeps DEF ClassesInit, TablesInv
<1>2. ClassesIInv /\ TablesInv /\ [ClassesNext]_classesVars => (ClassesIInv /\ TablesInv)'
  BY StepKeeps, TablesStep
<1>. QED
  BY <1>1, <1>2, PTL DEF ClassesSpec

(* At every moment, also while it is being declared, a class has exactly    *)
(* the methods of its own and of all its superclasses, the nearest one of   *)
(* each name: the copy that inherit makes never goes stale (vm.cpp:406).    *)
THEOREM TablesComplete == ClassesSpec => []TablesAreComplete
<1>1. ASSUME ClassesIInv, TablesInv, NEW c \in Of("class")
      PROVE  LET line == Line(declared, objects[c].declaration)
                 Inherited(name) == {n \in line : name \in declared[n].own}
             IN  /\ \A name \in Names : name \in DOMAIN objects[c].methods <=> Inherited(name) # {}
                 /\ \A name \in DOMAIN objects[c].methods :
                      LET nearest == CHOOSE n \in Inherited(name) : \A m \in Inherited(name) : m <= n
                      IN  FunctionOf(objects[c].methods[name]) = Function(nearest, name)
  <2>1. PICK ms, d : ms = objects[c].methods /\ d = objects[c].declaration
    OBVIOUS
  <2> DEFINE Inherited(name) == {n \in Line(declared, d) : name \in declared[n].own}
  <2>2. c \in DOMAIN objects /\ Is(c, "class")
    BY DEF Of, Is
  <2>3. Complete(ms, d) /\ DOMAIN ms \subseteq Names /\ d \in DOMAIN declared
    BY <1>1, <2>1, <2>2, KindOK DEF TablesInv, IsClass, Is, ClassesIInv, ObjectsOK, ClassOK
  <2>4. Line(declared, d) \subseteq Nat
    <3>1. Declarations_(declared)
      BY <1>1 DEF ClassesIInv
    <3>2. Line(declared, d) \subseteq 1 .. d
      BY <2>3, <3>1, LineBelow
    <3>. QED
      BY <3>2
  <2>5. \A name \in Names : name \in DOMAIN ms <=> Inherited(name) # {}
    BY <2>3 DEF Complete, Nearest, Undeclared
  <2>6. ASSUME NEW name \in DOMAIN ms
        PROVE  FunctionOf(ms[name]) =
                 Function(CHOOSE n \in Inherited(name) : \A m \in Inherited(name) : m <= n, name)
    <3>1. PICK n \in DOMAIN declared :
            Nearest(d, n, name) /\ FunctionOf(ms[name]) = Function(n, name)
      BY <2>3 DEF Complete
    <3>2. n \in Inherited(name) /\ \A m \in Inherited(name) : m <= n
      BY <3>1 DEF Nearest
    <3>3. \A m \in Inherited(name) : m \in Nat
      BY <2>4
    <3>. HIDE DEF Inherited
    <3>4. PICK S : S = Inherited(name)
      OBVIOUS
    <3>5. (CHOOSE k \in S : \A m \in S : m <= k) = n
      <4>1. n \in S /\ \A m \in S : m <= n /\ m \in Nat
        BY <3>2, <3>3, <3>4
      <4>2. PICK k : k = CHOOSE least \in S : \A m \in S : m <= least
        OBVIOUS
      <4>3. k \in S /\ \A m \in S : m <= k
        BY <4>1, <4>2
      <4>4. k <= n /\ n <= k /\ k \in Nat /\ n \in Nat
        BY <4>1, <4>3
      <4>. QED
        BY <4>2, <4>4
    <3>. QED
      BY <3>1, <3>4, <3>5
  <2>. QED
    BY <2>1, <2>5, <2>6
<1>2. ClassesIInv /\ TablesInv => TablesAreComplete
  BY <1>1 DEF TablesAreComplete
<1>. QED
  BY <1>2, TablesInvariant, PTL

-----------------------------------------------------------------------------
(* Lookup.  Definer is a recursive function: that it exists and what it     *)
(* returns is shown by the least class for which it would not hold.         *)

LEMMA LeastElement ==
  ASSUME NEW B \in SUBSET Nat, B # {}
  PROVE  \E m \in B : \A n \in B : m <= n
<1> DEFINE R == {ss \in Nat \X Nat : ss[1] < ss[2]}
<1>1. IsWellFoundedOn(R, Nat)
  BY NatLessThanWellFounded DEF OpToRel
<1>2. \A m, n \in Nat : n < m => <<n, m>> \in R
  OBVIOUS
<1>. HIDE DEF R
<1>3. \E m \in B : \A n \in B : ~ (<<n, m>> \in R)
  BY <1>1, WFMin
<1>4. PICK m \in B : \A n \in B : ~ (<<n, m>> \in R)
  BY <1>3
<1>5. ASSUME NEW n \in B
      PROVE  m <= n
  <2>1. m \in Nat /\ n \in Nat /\ ~ (<<n, m>> \in R)
    BY <1>4, <1>5
  <2>2. ~ (n < m)
    BY <1>2, <2>1
  <2>. QED
    BY <2>1, <2>2
<1>. QED
  BY <1>5

(* n is where a lookup from d ends: at the nearest class that declares the  *)
(* method, or at none.                                                      *)
Ends(d, name, n) ==
  \/ d = 0 /\ n = 0
  \/ d # 0 /\ n = 0 /\ Undeclared(d, name)
  \/ d # 0 /\ n # 0 /\ Nearest(d, n, name)

LEMMA EndsStep ==
  ASSUME Declarations_(declared), NEW d \in 0 .. Len(declared), NEW name
  PROVE  /\ Ends(0, name, 0)
         /\ d # 0 /\ name \in declared[d].own => Ends(d, name, d)
         /\ d # 0 /\ name \notin declared[d].own =>
              /\ declared[d].superclass \in 0 .. d - 1
              /\ \A n : Ends(declared[d].superclass, name, n) => Ends(d, name, n)
<1>1. DOMAIN declared = 1 .. Len(declared) /\ Len(declared) \in Nat
  BY DEF Declarations_
<1>2. ASSUME d # 0
      PROVE  d \in DOMAIN declared /\ d \in Nat \ {0}
  BY <1>1, <1>2
<1>3. ASSUME d # 0, name \in declared[d].own
      PROVE  Ends(d, name, d)
  <2>1. d \in Line(declared, d) /\ Line(declared, d) \subseteq 1 .. d
    BY <1>2, <1>3, LineFacts, LineBelow
  <2>. QED
    BY <1>2, <1>3, <2>1 DEF Ends, Nearest
<1>4. ASSUME d # 0, name \notin declared[d].own
      PROVE  /\ declared[d].superclass \in 0 .. d - 1
             /\ \A n : Ends(declared[d].superclass, name, n) => Ends(d, name, n)
  <2>1. PICK p : p = declared[d].superclass
    OBVIOUS
  <2>2. p \in 0 .. d - 1
    BY <1>2, <1>4, <2>1 DEF Declarations_
  <2>3. /\ p = 0 => Line(declared, d) = {d}
        /\ p # 0 => Line(declared, d) = {d} \cup Line(declared, p)
    BY <1>2, <1>4, <2>1, LineStep
  <2>4. ASSUME NEW n, Ends(p, name, n)
        PROVE  Ends(d, name, n)
    <3>1. CASE p = 0
      <4>1. n = 0 /\ Undeclared(d, name)
        BY <1>4, <2>3, <2>4, <3>1 DEF Ends, Undeclared
      <4>. QED
        BY <1>4, <4>1 DEF Ends
    <3>2. CASE p # 0 /\ n = 0
      <4>1. Undeclared(d, name)
        BY <1>4, <2>3, <2>4, <3>2 DEF Ends, Undeclared
      <4>. QED
        BY <1>4, <3>2, <4>1 DEF Ends
    <3>3. CASE p # 0 /\ n # 0
      <4>1. Nearest(d, n, name)
        BY <1>4, <2>3, <2>4, <3>3 DEF Ends, Nearest
      <4>. QED
        BY <1>4, <3>3, <4>1 DEF Ends
    <3>. QED
      BY <3>1, <3>2, <3>3
  <2>. QED
    BY <2>1, <2>2, <2>4
<1>. QED
  BY <1>3, <1>4 DEF Ends

LEMMA EndsUnique ==
  ASSUME Declarations_(declared), NEW d \in 0 .. Len(declared), NEW name,
         NEW n, Ends(d, name, n), NEW m, Ends(d, name, m)
  PROVE  m = n
<1>1. d # 0 => d \in DOMAIN declared /\ Line(declared, d) \subseteq 1 .. d
  <2>1. DOMAIN declared = 1 .. Len(declared) /\ Len(declared) \in Nat
    BY DEF Declarations_
  <2>. QED
    BY <2>1, LineBelow
<1>2. ASSUME d # 0, Nearest(d, n, name), Nearest(d, m, name)
      PROVE  m = n
  <2>1. m <= n /\ n <= m /\ m \in 1 .. d /\ n \in 1 .. d
    BY <1>1, <1>2 DEF Nearest
  <2>. QED
    BY <2>1
<1>3. ASSUME d # 0, NEW k, Nearest(d, k, name)
      PROVE  ~Undeclared(d, name)
  BY <1>3 DEF Nearest, Undeclared
<1>. QED
  BY <1>2, <1>3 DEF Ends

LEMMA EndsSomewhere ==
  ASSUME Declarations_(declared), NEW name
  PROVE  \A d \in 0 .. Len(declared) : \E n \in 0 .. Len(declared) : Ends(d, name, n)
<1> DEFINE B == {d \in 0 .. Len(declared) : ~ \E n \in 0 .. Len(declared) : Ends(d, name, n)}
<1>1. SUFFICES ASSUME B # {} PROVE FALSE
  OBVIOUS
<1>2. Len(declared) \in Nat
  BY DEF Declarations_
<1>3. PICK d \in B : \A n \in B : d <= n
  <2>1. B \in SUBSET Nat
    BY <1>2
  <2>. HIDE DEF B
  <2>. QED
    BY <1>1, <2>1, LeastElement
<1>4. d \in 0 .. Len(declared) /\ ~ \E n \in 0 .. Len(declared) : Ends(d, name, n)
  OBVIOUS
<1>5. d # 0 /\ name \notin declared[d].own
  BY <1>2, <1>4, EndsStep
<1>6. PICK p : p = declared[d].superclass
  OBVIOUS
<1>7. p \in 0 .. d - 1 /\ \A n : Ends(p, name, n) => Ends(d, name, n)
  BY <1>4, <1>5, <1>6, EndsStep
<1>8. p \in 0 .. Len(declared) /\ p < d /\ p \in Nat
  BY <1>2, <1>4, <1>7
<1>9. p \in B
  BY <1>4, <1>7, <1>8
<1>. HIDE DEF B
<1>10. d <= p
  BY <1>3, <1>9
<1>. QED
  BY <1>4, <1>8, <1>10

(* The equation of Definer has a solution. *)
Ascent(f, name) ==
  f = [d \in 0 .. Len(declared) |->
         IF d = 0 \/ name \in declared[d].own THEN d ELSE f[declared[d].superclass]]

LEMMA AscentExists ==
  ASSUME Declarations_(declared), NEW name
  PROVE  \E f : Ascent(f, name)
<1>1. PICK f : f = [d \in 0 .. Len(declared) |-> CHOOSE n \in 0 .. Len(declared) : Ends(d, name, n)]
  OBVIOUS
<1>2. \A d \in 0 .. Len(declared) : Ends(d, name, f[d])
  BY <1>1, EndsSomewhere
<1>3. ASSUME NEW d \in 0 .. Len(declared)
      PROVE  f[d] = IF d = 0 \/ name \in declared[d].own THEN d ELSE f[declared[d].superclass]
  <2>1. CASE d = 0
    BY <1>2, <1>3, <2>1, EndsStep, EndsUnique
  <2>2. CASE d # 0 /\ name \in declared[d].own
    BY <1>2, <1>3, <2>2, EndsStep, EndsUnique
  <2>3. CASE d # 0 /\ name \notin declared[d].own
    <3>1. PICK p : p = declared[d].superclass
      OBVIOUS
    <3>2. p \in 0 .. d - 1 /\ \A n : Ends(p, name, n) => Ends(d, name, n)
      BY <2>3, <3>1, EndsStep
    <3>3. p \in 0 .. Len(declared)
      BY <3>2 DEF Declarations_
    <3>4. Ends(d, name, f[p])
      BY <1>2, <3>2, <3>3
    <3>5. f[d] = f[p]
      BY <1>2, <3>4, EndsUnique
    <3>. QED
      BY <2>3, <3>1, <3>5
  <2>. QED
    BY <2>1, <2>2, <2>3
<1>4. Ascent(f, name)
  BY <1>1, <1>3 DEF Ascent
<1>. QED
  BY <1>4

LEMMA AscentEnds ==
  ASSUME Declarations_(declared), NEW name, NEW f, Ascent(f, name)
  PROVE  \A d \in 0 .. Len(declared) : Ends(d, name, f[d])
<1> DEFINE B == {d \in 0 .. Len(declared) : ~ Ends(d, name, f[d])}
<1>1. SUFFICES ASSUME B # {} PROVE FALSE
  OBVIOUS
<1>2. Len(declared) \in Nat
  BY DEF Declarations_
<1>3. PICK d \in B : \A n \in B : d <= n
  <2>1. B \in SUBSET Nat
    BY <1>2
  <2>. HIDE DEF B
  <2>. QED
    BY <1>1, <2>1, LeastElement
<1>4. d \in 0 .. Len(declared) /\ ~ Ends(d, name, f[d])
  OBVIOUS
<1>5. f[d] = IF d = 0 \/ name \in declared[d].own THEN d ELSE f[declared[d].superclass]
  BY <1>4 DEF Ascent
<1>6. d # 0 /\ name \notin declared[d].own
  BY <1>4, <1>5, EndsStep
<1>7. PICK p : p = declared[d].superclass
  OBVIOUS
<1>8. p \in 0 .. d - 1 /\ \A n : Ends(p, name, n) => Ends(d, name, n)
  BY <1>4, <1>6, <1>7, EndsStep
<1>9. p \in 0 .. Len(declared) /\ p < d /\ p \in Nat
  BY <1>2, <1>4, <1>8
<1>10. f[d] = f[p]
  BY <1>5, <1>6, <1>7
<1>11. p \in B
  BY <1>4, <1>8, <1>9, <1>10
<1>. HIDE DEF B
<1>12. d <= p
  BY <1>3, <1>11
<1>. QED
  BY <1>4, <1>9, <1>12

LEMMA DefinerEnds ==
  ASSUME Declarations_(declared), declaring = "no", NEW name, NEW d \in 0 .. Len(declared)
  PROVE  Ends(d, name, Resolution!Definer(d, name))
<1>1. PICK f : f = CHOOSE g : Ascent(g, name)
  OBVIOUS
<1>2. Ascent(f, name)
  BY <1>1, AscentExists
<1>3. Declarations = declared
  BY DEF Declarations
<1>4. Resolution!Definer(d, name) = f[d]
  BY <1>1, <1>3 DEF Resolution!Definer, Ascent, Resolution!NoClass
<1>. QED
  BY <1>2, <1>4, AscentEnds

(* What the instructions find in a table is what lookup finds. *)
LEMMA LookupFacts ==
  ASSUME ClassesIInv, TablesInv, declaring = "no", NEW c, Is(c, "class"), NEW name \in Names
  PROVE  /\ objects[c].declaration \in DOMAIN declared
         /\ name \in DOMAIN objects[c].methods <=>
              Resolution!Understands(objects[c].declaration, name)
         /\ name \in DOMAIN objects[c].methods =>
              FunctionOf(objects[c].methods[name]) =
                Resolution!Lookup(objects[c].declaration, name)
<1>1. PICK ms, d : ms = objects[c].methods /\ d = objects[c].declaration
  OBVIOUS
<1>2. Complete(ms, d) /\ ClassOK(objects[c])
  BY <1>1, KindOK DEF TablesInv, IsClass, Is, ClassesIInv, ObjectsOK
<1>3. Declarations_(declared) /\ DOMAIN declared = 1 .. Len(declared) /\ Len(declared) \in Nat
  BY DEF ClassesIInv, Declarations_
<1>4. d \in DOMAIN declared /\ d \in 0 .. Len(declared) /\ d # 0
  BY <1>1, <1>2, <1>3 DEF ClassOK
<1>5. PICK e : e = Resolution!Definer(d, name)
  OBVIOUS
<1>6. Ends(d, name, e)
  BY <1>3, <1>4, <1>5, DefinerEnds
<1>7. CASE name \in DOMAIN ms
  <2>1. PICK n \in DOMAIN declared :
          Nearest(d, n, name) /\ FunctionOf(ms[name]) = Function(n, name)
    BY <1>2, <1>7 DEF Complete
  <2>2. n # 0 /\ Ends(d, name, n)
    BY <1>3, <1>4, <2>1 DEF Ends
  <2>3. e = n
    BY <1>3, <1>4, <1>6, <2>2, EndsUnique
  <2>. QED
    BY <1>1, <1>4, <1>5, <1>7, <2>1, <2>2, <2>3
    DEF Function, Resolution!Lookup, Resolution!Method, Resolution!Understands, Resolution!NoClass
<1>8. CASE name \notin DOMAIN ms
  <2>1. Undeclared(d, name)
    BY <1>2, <1>8 DEF Complete
  <2>2. e = 0
    BY <1>3, <1>4, <1>6, <2>1, EndsUnique DEF Ends
  <2>. QED
    BY <1>1, <1>4, <1>5, <1>8, <2>2 DEF Resolution!Understands, Resolution!NoClass
<1>. QED
  BY <1>7, <1>8

-----------------------------------------------------------------------------
(* The objects and the activations, seen without tables and stack *)

InstanceView(i) == [class |-> ClassOf(i), fields |-> DOMAIN objects[i].fields]
BoundView(b) ==
  [receiver |-> objects[b].instance, method |-> FunctionOf(objects[b].method)]
ActivationView(n) ==
  [receiver |-> stack_[call_frames_[n].begin], method |-> FunctionOf(call_frames_[n].closure)]

LEMMA Views ==
  /\ DOMAIN Instances = Of("instance")
  /\ \A i \in Of("instance") : Instances[i] = InstanceView(i)
  /\ Instances = [i \in Of("instance") |-> InstanceView(i)]
  /\ Bounds = {BoundView(b) : b \in Of("bound")}
  /\ DOMAIN Activations = 1 .. Len(call_frames_) - 1
  /\ \A i \in 1 .. Len(call_frames_) - 1 : Activations[i] = ActivationView(i + 1)
  /\ Activations = [i \in 1 .. Len(call_frames_) - 1 |-> ActivationView(i + 1)]
BY DEF Instances, Bounds, Activations, InstanceView, BoundView, ActivationView, ClassOf

LEMMA ViewsPrimed ==
  /\ DOMAIN Instances' = Of("instance")'
  /\ \A i \in Of("instance")' : Instances'[i] = InstanceView(i)'
  /\ Instances' = [i \in Of("instance")' |-> InstanceView(i)']
  /\ Bounds' = {BoundView(b)' : b \in Of("bound")'}
  /\ DOMAIN Activations' = 1 .. Len(call_frames_') - 1
  /\ \A i \in 1 .. Len(call_frames_') - 1 : Activations'[i] = ActivationView(i + 1)'
  /\ Activations' = [i \in 1 .. Len(call_frames_') - 1 |-> ActivationView(i + 1)']
BY DEF Instances, Bounds, Activations, InstanceView, BoundView, ActivationView, ClassOf

(* A step that keeps the objects in K changes no view of them. *)
LEMMA InstanceKept ==
  ASSUME ClassesIInv, NEW K, Keeps(K), NEW i \in K, Is(i, "instance"),
         objects'[i].fields = objects[i].fields
  PROVE  InstanceView(i)' = InstanceView(i)
BY KeepsFacts DEF ClassesIInv, InstanceView

LEMMA BoundKept ==
  ASSUME ClassesIInv, NEW K, Keeps(K), NEW b \in K, Is(b, "bound"), objects'[b] = objects[b]
  PROVE  BoundView(b)' = BoundView(b)
<1>1. BoundOK(objects[b])
  BY KindOK DEF Is, ClassesIInv, ObjectsOK
<1>2. PICK m : m = objects[b].method
  OBVIOUS
<1>3. Is(m, "closure") /\ m # Nil
  BY <1>1, <1>2, NilIsNothing DEF BoundOK, MethodOf, Is, ClassesIInv
<1>4. m \in K
  BY <1>2, <1>3, TracedBound DEF Keeps, Is
<1>5. FunctionOf(m)' = FunctionOf(m)
  BY <1>3, <1>4, KeepsFacts DEF ClassesIInv
<1>. QED
  BY <1>2, <1>5 DEF BoundView, FunctionOf

LEMMA ActivationKept_ ==
  ASSUME ClassesIInv, NEW K, Keeps(K), NEW n \in 2 .. Len(call_frames_),
         call_frames_[n].closure \in K, SameFrame(call_frames_, call_frames_', n),
         stack_'[call_frames_[n].begin] = stack_[call_frames_[n].begin]
  PROVE  ActivationView(n)' = ActivationView(n)
<1>1. PICK f : f = call_frames_[n].closure
  OBVIOUS
<1>2. Is(f, "closure") /\ f \in K
  BY <1>1 DEF ClassesIInv, ActivationsOK, ActivationOK, MethodOf
<1>3. FunctionOf(f)' = FunctionOf(f)
  BY <1>2, KeepsFacts DEF ClassesIInv
<1>4. call_frames_'[n].closure = f /\ call_frames_'[n].begin = call_frames_[n].begin
  BY <1>1 DEF SameFrame
<1>. QED
  BY <1>1, <1>3, <1>4 DEF ActivationView, FunctionOf

(* An activation goes on. *)
LEMMA SameActivations ==
  ASSUME ClassesIInv, Running, NEW K, Keeps(K),
         \A n \in 2 .. Len(call_frames_) : call_frames_[n].closure \in K,
         NEW t \in Nat, call_frames_' = [call_frames_ EXCEPT ![Len(call_frames_)].temps = t],
         \A i \in 1 .. Base : stack_'[i] = stack_[i]
  PROVE  Activations' = Activations
<1>1. call_frames_ \in Seq(FrameType) /\ Len(call_frames_) \in 1 .. Len(call_frames_)
      /\ Len(call_frames_) \in Nat \ {0}
  BY BaseFacts DEF ClassesIInv, ActivationsOK
<1>2. PICK f, g, k : f = call_frames_ /\ g = call_frames_' /\ k = Len(call_frames_)
  OBVIOUS
<1>3. g = WithTemps(f, k, t) /\ f \in Seq(FrameType) /\ k \in 1 .. Len(f) /\ k \in Nat \ {0}
  BY <1>1, <1>2 DEF WithTemps
<1>4. Len(g) = Len(f) /\ \A n \in 1 .. Len(f) : SameFrame(f, g, n)
  BY <1>3, FrameChange
<1>5. ASSUME NEW i \in 1 .. k - 1
      PROVE  ActivationView(i + 1)' = ActivationView(i + 1)
  <2>1. PICK n : n = i + 1
    OBVIOUS
  <2>2. n \in 2 .. k /\ n \in 1 .. k
    BY <1>3, <2>1
  <2>3. call_frames_[n].begin \in 1 .. Base
    BY <1>2, <2>2, BaseFacts
  <2>4. SameFrame(call_frames_, call_frames_', n) /\ call_frames_[n].closure \in K
    BY <1>2, <1>4, <2>2
  <2>5. stack_'[call_frames_[n].begin] = stack_[call_frames_[n].begin]
    BY <2>3
  <2>6. ActivationView(n)' = ActivationView(n)
    BY <1>2, <2>2, <2>4, <2>5, ActivationKept_
  <2>. QED
    BY <2>1, <2>6
<1>. QED
  BY <1>2, <1>4, <1>5, Views, ViewsPrimed

(* A step that the abstract specification does not see. *)
Unseen ==
  /\ Declarations' = Declarations /\ Instances' = Instances
  /\ Bounds' = Bounds /\ Activations' = Activations

LEMMA StopEnds ==
  ASSUME NEW how, Stop(how)
  PROVE  Resolution!End
<1>1. /\ call_frames_' = <<>> /\ objects' = <<>> /\ declaring' = declaring /\ declared' = declared
  BY DEF Stop
<1>2. Declarations' = Declarations
  BY <1>1 DEF Declarations
<1>3. Of("instance")' = {} /\ Of("bound")' = {}
  BY <1>1 DEF Of
<1>4. Instances' = <<>> /\ Bounds' = {}
  BY <1>3, ViewsPrimed
<1>5. Activations' = <<>>
  <2>1. PICK S : S = 1 .. Len(call_frames_') - 1
    OBVIOUS
  <2>2. S = {}
    BY <1>1, <2>1
  <2>3. Activations' = [i \in S |-> ActivationView(i + 1)']
    BY <2>1, ViewsPrimed
  <2>. QED
    BY <2>2, <2>3
<1>. QED
  BY <1>2, <1>4, <1>5 DEF Resolution!End

LEMMA ViewsKept ==
  ASSUME ClassesIInv, Keeps(DOMAIN objects),
         \A i \in DOMAIN objects' : objects'[i].kind \in {"instance", "bound"} =>
           i \in DOMAIN objects /\ objects'[i] = objects[i],
         \A i \in DOMAIN objects : objects[i].kind \in {"instance", "bound"} =>
           objects'[i] = objects[i]
  PROVE  Instances' = Instances /\ Bounds' = Bounds
<1>1. DOMAIN objects \subseteq DOMAIN objects'
  BY DEF Keeps
<1>2. Of("instance")' = Of("instance") /\ Of("bound")' = Of("bound")
  BY <1>1 DEF Of
<1>3. \A i \in Of("instance") : InstanceView(i)' = InstanceView(i)
  BY InstanceKept DEF Of, Is
<1>4. \A b \in Of("bound") : BoundView(b)' = BoundView(b)
  BY BoundKept DEF Of, Is
<1>. QED
  BY <1>2, <1>3, <1>4, Views, ViewsPrimed

(* Nothing changes but what is on the stack above the activations. *)
LEMMA StackUnseen ==
  ASSUME ClassesIInv, Running, UNCHANGED <<objects, declaring, declared>>,
         NEW t \in Nat, call_frames_' = [call_frames_ EXCEPT ![Len(call_frames_)].temps = t],
         \A i \in 1 .. Base : stack_'[i] = stack_[i]
  PROVE  Unseen
<1>1. Keeps(DOMAIN objects)
  BY SameObjects
<1>2. Instances' = Instances /\ Bounds' = Bounds
  BY <1>1, ViewsKept
<1>3. Activations' = Activations
  BY <1>1, Held_, SameActivations
<1>. QED
  BY <1>2, <1>3 DEF Unseen, Declarations

LEMMA LeaveUnseen ==
  ASSUME ClassesIInv, NEW taken \in {0, 1}, NEW v \in Value, Leave(taken, v),
         UNCHANGED <<objects, declaring, declared>>
  PROVE  Unseen
<1> DEFINE t == Top.temps - taken + 1
<1>1. /\ Running /\ t \in Nat /\ \A i \in 1 .. Base : stack_'[i] = stack_[i]
      /\ call_frames_' = [call_frames_ EXCEPT ![Len(call_frames_)].temps = t]
  BY LeaveFacts
<1>. HIDE DEF t
<1>. QED
  BY <1>1, StackUnseen

LEMMA FramesUnseen ==
  ASSUME ClassesIInv, Running, UNCHANGED <<objects, declaring, declared, call_frames_, stack_>>
  PROVE  Unseen
<1> DEFINE t == Top.temps
<1>1. /\ t \in Nat
      /\ call_frames_' = [call_frames_ EXCEPT ![Len(call_frames_)].temps = t]
  BY BaseFacts, SameFrames
<1>. HIDE DEF t
<1>. QED
  BY <1>1, StackUnseen

LEMMA PopUnseen ==
  ASSUME ClassesIInv, Pop
  PROVE  Unseen
<1> DEFINE t == Top.temps - 1
<1>1. /\ Running /\ Top.temps > 0 /\ declaring = "no" /\ stack_' = SubSeq(stack_, 1, Len(stack_) - 1)
      /\ call_frames_' = [call_frames_ EXCEPT ![Len(call_frames_)].temps = t]
      /\ UNCHANGED <<objects, declaring, declared>>
  BY DEF Pop, Executing, Temps, Front
<1>2. /\ t \in Nat /\ Base \in Nat /\ Len(stack_) = Base + t + 1 /\ stack_ \in Seq(Value)
  <2>1. /\ Base \in Nat /\ Top.temps \in Nat /\ Len(stack_) = Base + Top.temps + Extras
    BY <1>1, BaseFacts
  <2>2. Extras = 0
    BY <1>1 DEF Extras
  <2>3. stack_ \in Seq(Value)
    BY DEF ClassesIInv, ValuesOK
  <2>. QED
    BY <1>1, <2>1, <2>2, <2>3
<1>3. \A i \in 1 .. Base : stack_'[i] = stack_[i]
  <2>1. Len(stack_) - 1 \in 0 .. Len(stack_) /\ \A i \in 1 .. Base : i \in 1 .. Len(stack_) - 1
    BY <1>2
  <2>2. PICK m : m = Len(stack_) - 1
    OBVIOUS
  <2>3. stack_' = SubSeq(stack_, 1, m) /\ m \in 0 .. Len(stack_)
    BY <1>1, <2>1, <2>2
  <2>4. \A i \in 1 .. m : stack_'[i] = stack_[i]
    BY <1>2, <2>3
  <2>. QED
    BY <2>1, <2>2, <2>4
<1>. HIDE DEF t
<1>. QED
  BY <1>1, <1>2, <1>3, StackUnseen

LEMMA ReadUnseen ==
  ASSUME ClassesIInv, PushNil \/ GetThis
  PROVE  Unseen
<1>1. Nil \in Value
  BY ClassesAssumption DEF Nil, Value
<1>2. CASE PushNil
  BY <1>1, <1>2, LeaveUnseen DEF PushNil
<1>3. CASE GetThis
  <2>1. /\ Leave(0, stack_[Top.begin]) /\ ~InScript /\ Running
        /\ UNCHANGED <<objects, declaring, declared>>
    BY <1>3 DEF GetThis, Leave, Executing
  <2>2. stack_[Top.begin] \in Value
    BY <2>1, ThisFacts DEF ClassesIInv, ValuesOK
  <2>. QED
    BY <2>1, <2>2, LeaveUnseen
<1>. QED
  BY <1>2, <1>3

LEMMA LiveValue ==
  ASSUME ClassesIInv, NEW v, Live(v)
  PROVE  v \in Value
BY NilIsNothing, ClassesAssumption DEF ClassesIInv, Live, Value, Nil

LEMMA GlobalUnseen ==
  ASSUME ClassesIInv, NEW x \in Variables, GetGlobal(x) \/ SetGlobal(x)
  PROVE  Unseen \/ Resolution!End
<1>1. CASE RuntimeError
  BY <1>1, StopEnds DEF RuntimeError
<1>2. CASE GetGlobal(x) /\ x \in DOMAIN globals_
  <2>1. Leave(0, globals_[x]) /\ UNCHANGED <<objects, declaring, declared>>
    BY <1>2 DEF GetGlobal
  <2>2. globals_[x] \in Value
    BY <1>2, LiveValue DEF ClassesIInv, ValuesOK
  <2>. QED
    BY <2>1, <2>2, LeaveUnseen
<1>3. CASE SetGlobal(x) /\ x \in DOMAIN globals_
  BY <1>3, FramesUnseen DEF SetGlobal, Executing
<1>. QED
  BY <1>1, <1>2, <1>3 DEF GetGlobal, SetGlobal

LEMMA StutterUnseen ==
  ASSUME UNCHANGED classesVars
  PROVE  Unseen
BY Views, ViewsPrimed DEF classesVars, Unseen, Declarations, Instances, Bounds, Activations, Of, FunctionOf

-----------------------------------------------------------------------------
(* Declarations *)

(* Until it ends, a declaration does not show. *)
LEMMA DeclaringUnseen ==
  ASSUME ClassesIInv, Running, declaring' # "no", Declarations' = Declarations,
         Keeps(DOMAIN objects), call_frames_' = call_frames_,
         \A i \in 1 .. Len(stack_) : stack_'[i] = stack_[i],
         \A i \in DOMAIN objects' : objects'[i].kind \in {"instance", "bound"} =>
           i \in DOMAIN objects /\ objects'[i] = objects[i],
         \A i \in DOMAIN objects : objects[i].kind \in {"instance", "bound"} =>
           objects'[i] = objects[i]
  PROVE  Unseen
<1> DEFINE t == Top.temps
<1>1. /\ t \in Nat
      /\ call_frames_' = [call_frames_ EXCEPT ![Len(call_frames_)].temps = t]
  BY BaseFacts, SameFrames
<1>2. \A i \in 1 .. Base : stack_'[i] = stack_[i]
  <2>1. \A i \in 1 .. Base : i \in 1 .. Len(stack_)
    BY BaseFacts
  <2>. QED
    BY <2>1
<1>. HIDE DEF t
<1>3. Activations' = Activations
  BY <1>1, <1>2, Held_, SameActivations
<1>. QED
  BY <1>3, ViewsKept DEF Unseen

LEMMA BeginClassUnseen ==
  ASSUME ClassesIInv, BeginClass
  PROVE  Unseen
<1>1. /\ Running /\ declaring = "no" /\ HasRoom
      /\ objects' = With(objects, New, Class(<<>>, Len(declared) + 1))
      /\ stack_' = Append(stack_, New) /\ declaring' = "class"
      /\ declared' = Append(declared, [superclass |-> 0, own |-> {}])
      /\ UNCHANGED call_frames_
  BY DEF BeginClass, Executing
<1>2. PICK o, r, new : /\ o = Class(<<>>, Len(declared) + 1) /\ new = New
                       /\ r = [superclass |-> 0, own |-> {}]
  OBVIOUS
<1>3. o.kind = "class"
  BY <1>2 DEF Class
<1>4. /\ Declarations_(declared) /\ declared \in Seq([superclass : Nat, own : SUBSET Names])
      /\ Len(declared) \in Nat /\ r \in [superclass : Nat, own : SUBSET Names]
  BY <1>2 DEF ClassesIInv, Declarations_
<1>5. declared' = Append(declared, r) /\ objects' = With(objects, New, o)
  BY <1>1, <1>2
<1>6. Declarations_(declared')
  BY <1>1, BeginClassKeeps DEF ClassesIInv
<1>7. /\ DOMAIN declared' = 1 .. Len(declared) + 1 /\ Len(declared') = Len(declared) + 1
      /\ \A i \in 1 .. Len(declared) : declared'[i] = declared[i]
      /\ DOMAIN declared = 1 .. Len(declared)
  BY <1>4, <1>5
<1>8. DeclaredGrows
  BY <1>4, <1>6, <1>7 DEF DeclaredGrows
<1>9. /\ new \in Value /\ DOMAIN objects' = DOMAIN objects \cup {new} /\ objects'[new] = o
      /\ \A i \in DOMAIN objects : objects'[i] = objects[i]
      /\ Keeps(DOMAIN objects)
  BY <1>1, <1>2, <1>5, <1>8, Allocated
<1>10. Declarations' = Declarations
  <2>1. Declarations = declared /\ Declarations' = Front(declared')
    BY <1>1 DEF Declarations
  <2>2. Front(declared') = declared
    BY <1>4, <1>5 DEF Front
  <2>. QED
    BY <2>1, <2>2
<1>11. \A i \in 1 .. Len(stack_) : stack_'[i] = stack_[i]
  BY <1>1 DEF ClassesIInv, ValuesOK
<1>12. \A i \in DOMAIN objects' : objects'[i].kind \in {"instance", "bound"} =>
         i \in DOMAIN objects /\ objects'[i] = objects[i]
  BY <1>3, <1>9
<1>. QED
  BY <1>1, <1>9, <1>10, <1>11, <1>12, DeclaringUnseen

LEMMA Prefix ==
  ASSUME NEW ds, Declarations_(ds), NEW m \in 0 .. Len(ds), NEW z, z = SubSeq(ds, 1, m)
  PROVE  /\ z \in Seq([superclass : Nat, own : SUBSET Names]) /\ Len(z) = m
         /\ \A i \in 1 .. m : z[i] = ds[i]
<1> DEFINE T == [superclass : Nat, own : SUBSET Names]
<1>1. ds \in Seq(T)
  BY DEF Declarations_
<1>. HIDE DEF T
<1>2. z \in Seq(T) /\ Len(z) = m /\ \A i \in 1 .. m : z[i] = ds[i]
  BY <1>1
<1>. QED
  BY <1>2 DEF T

LEMMA SameFront ==
  ASSUME NEW ds, Declarations_(ds), NEW es, Declarations_(es), NEW m \in Nat,
         Len(ds) = m + 1, Len(es) = m + 1, \A i \in 1 .. m : ds[i] = es[i]
  PROVE  Front(ds) = Front(es)
<1>1. PICK s, z : s = SubSeq(ds, 1, m) /\ z = SubSeq(es, 1, m)
  OBVIOUS
<1>2. m \in 0 .. Len(ds) /\ m \in 0 .. Len(es)
  OBVIOUS
<1>3. s \in Seq([superclass : Nat, own : SUBSET Names]) /\ Len(s) = m /\ \A i \in 1 .. m : s[i] = ds[i]
  BY <1>1, <1>2, Prefix, Zenon
<1>4. z \in Seq([superclass : Nat, own : SUBSET Names]) /\ Len(z) = m /\ \A i \in 1 .. m : z[i] = es[i]
  BY <1>1, <1>2, Prefix, Zenon
<1>5. \A i \in 1 .. Len(s) : s[i] = z[i]
  BY <1>3, <1>4
<1>6. s = z
  BY <1>3, <1>4, <1>5, SeqEqual
<1>7. Len(ds) - 1 = m /\ Len(es) - 1 = m
  OBVIOUS
<1>. QED
  BY <1>1, <1>6, <1>7 DEF Front

(* The declaration being carried out is the last one. *)
LEMMA LastChanges ==
  ASSUME ClassesIInv, Running, declaring # "no", declaring' # "no", Declarations_(declared'),
         NEW r, declared' = [declared EXCEPT ![Len(declared)] = r],
         declared[Len(declared)].own \subseteq r.own,
         \/ r.superclass = declared[Len(declared)].superclass
         \/ declared[Len(declared)].superclass = 0 /\ declared[Len(declared)].own = {}
  PROVE  DeclaredGrows /\ Declarations' = Declarations
<1>1. PICK n : n = Len(declared)
  OBVIOUS
<1>2. /\ n \in Nat \ {0} /\ Declarations_(declared) /\ DOMAIN declared = 1 .. n
      /\ declared \in Seq([superclass : Nat, own : SUBSET Names])
      /\ declared' \in Seq([superclass : Nat, own : SUBSET Names])
  BY <1>1, DeclaringFacts DEF ClassesIInv, Declarations_
<1>3. declared' = [declared EXCEPT ![n] = r]
  BY <1>1
<1>4. /\ DOMAIN declared' = DOMAIN declared /\ declared'[n] = r
      /\ \A i \in 1 .. n : i # n => declared'[i] = declared[i]
  BY <1>2, <1>3
<1>5. DeclaredGrows
  BY <1>1, <1>2, <1>4 DEF DeclaredGrows
<1>6. Declarations' = Declarations
  <2>1. PICK m : m = n - 1
    OBVIOUS
  <2>2. m \in Nat /\ Len(declared) = m + 1 /\ Len(declared') = m + 1
    BY <1>1, <1>2, <1>4, <2>1
  <2>3. \A i \in 1 .. m : declared[i] = declared'[i]
    BY <1>1, <1>2, <1>4, <2>1
  <2>4. PICK ds, es : ds = declared /\ es = declared'
    OBVIOUS
  <2>5. /\ Declarations_(ds) /\ Declarations_(es) /\ Len(ds) = m + 1 /\ Len(es) = m + 1
        /\ \A i \in 1 .. m : ds[i] = es[i]
    BY <1>2, <2>2, <2>3, <2>4, Zenon
  <2>6. Front(ds) = Front(es)
    BY <2>2, <2>5, SameFront
  <2>. QED
    BY <2>4, <2>6 DEF Declarations
<1>. QED
  BY <1>5, <1>6

LEMMA InheritUnseen ==
  ASSUME ClassesIInv, NEW x \in Variables, Inherit(x)
  PROVE  Unseen \/ Resolution!End
<1>1. PICK parent, child, n : parent = globals_[x] /\ child = Last(stack_) /\ n = Len(declared)
  OBVIOUS
<1>2. Running /\ declaring = "class" /\ declared[n].own = {}
  BY <1>1 DEF Inherit, Last
<1>3. CASE RuntimeError
  BY <1>3, StopEnds DEF RuntimeError
<1>4. CASE x \in DOMAIN globals_ /\ IsA(parent, "class")
  <2>1. PICK p, o, r : /\ p = objects[parent].declaration
                       /\ o = [objects[child] EXCEPT !.methods = objects[parent].methods]
                       /\ r = [declared[n] EXCEPT !.superclass = p]
    OBVIOUS
  <2>2. /\ objects' = [objects EXCEPT ![child] = o]
        /\ declared' = [declared EXCEPT ![n] = r]
        /\ stack_' = Append(Append(stack_, parent), child)
        /\ declaring' = x /\ call_frames_' = call_frames_
    BY <1>1, <1>4, <2>1 DEF Inherit
  <2>3. /\ n \in Nat \ {0} /\ n \in DOMAIN declared
        /\ declared[n] \in [superclass : Nat, own : SUBSET Names]
        /\ Is(child, "class") /\ ClassOK(objects[child]) /\ declared[n].superclass = 0
    BY <1>1, <1>2, DeclaringFacts DEF ClassesIInv, DeclaringOK
  <2>4. r.own = declared[n].own
    BY <2>1, <2>3
  <2>5. DeclaredGrows /\ Declarations' = Declarations /\ declaring' # "no"
    <3>1. declaring' # "no"
      BY <2>2, ClassesAssumption
    <3>2. Declarations_(declared')
      BY InheritKeeps DEF ClassesIInv
    <3>. QED
      BY <1>1, <1>2, <2>2, <2>3, <2>4, <3>1, <3>2, LastChanges
  <2>6. /\ DOMAIN objects' = DOMAIN objects /\ objects'[child] = o
        /\ \A i \in DOMAIN objects \ {child} : objects'[i] = objects[i]
        /\ o.kind = "class" /\ o.declaration = objects[child].declaration
        /\ objects[child].kind = "class"
    BY <2>1, <2>2, <2>3 DEF ClassOK, Is
  <2>7. Keeps(DOMAIN objects)
    <3>1. \A i \in DOMAIN objects : SameRole(objects[i], objects'[i])
      BY <2>6 DEF SameRole
    <3>. QED
      BY <2>5, <2>6, <3>1, KeepsAll DEF ClassesIInv
  <2>8. \A i \in 1 .. Len(stack_) : stack_'[i] = stack_[i]
    <3>1. PICK e : e = Append(stack_, parent)
      OBVIOUS
    <3>2. stack_ \in Seq(Value) /\ Len(stack_) \in Nat /\ parent \in Value /\ child \in Value
      BY <1>1, <1>4, <2>3, NilIsNothing, LiveValue DEF ClassesIInv, ValuesOK, Is
    <3>3. e \in Seq(Value) /\ Len(e) = Len(stack_) + 1 /\ \A i \in 1 .. Len(stack_) : e[i] = stack_[i]
      BY <3>1, <3>2
    <3>4. stack_' = Append(e, child)
      BY <2>2, <3>1
    <3>5. \A i \in 1 .. Len(e) : stack_'[i] = e[i]
      BY <3>2, <3>3, <3>4
    <3>6. \A i \in 1 .. Len(stack_) : i \in 1 .. Len(e)
      BY <3>2, <3>3
    <3>. QED
      BY <3>3, <3>5, <3>6
  <2>9. /\ \A i \in DOMAIN objects' : objects'[i].kind \in {"instance", "bound"} =>
             i \in DOMAIN objects /\ objects'[i] = objects[i]
        /\ \A i \in DOMAIN objects : objects[i].kind \in {"instance", "bound"} =>
             objects'[i] = objects[i]
    BY <2>6
  <2>. QED
    BY <1>2, <2>2, <2>5, <2>7, <2>8, <2>9, DeclaringUnseen
<1>. QED
  BY <1>1, <1>3, <1>4 DEF Inherit

LEMMA AddMethodUnseen ==
  ASSUME ClassesIInv, NEW name \in Names, AddMethod(name)
  PROVE  Unseen
<1>1. PICK klass, super, new, n :
        /\ klass = Last(stack_) /\ new = New /\ n = Len(declared)
        /\ super = IF HasSuperclass THEN stack_[Len(stack_) - 1] ELSE Nil
  OBVIOUS
<1>2. Running /\ declaring # "no" /\ HasRoom
  BY DEF AddMethod
<1>3. /\ n \in Nat \ {0} /\ n \in DOMAIN declared
      /\ declared[n] \in [superclass : Nat, own : SUBSET Names]
      /\ Is(klass, "class") /\ ClassOK(objects[klass])
  BY <1>1, <1>2, DeclaringFacts
<1>4. IsA(klass, "class") /\ klass \in DOMAIN objects /\ objects[klass].kind = "class"
  BY <1>3, NilIsNothing DEF IsA, Is, ClassesIInv
<1>5. PICK q, p, r : /\ q = Closure(Function(n, name), super)
                     /\ p = [objects[klass] EXCEPT !.methods = With(objects[klass].methods, name, new)]
                     /\ r = [declared[n] EXCEPT !.own = @ \cup {name}]
  OBVIOUS
<1>6. /\ objects' = [With(objects, new, q) EXCEPT ![klass].methods = With(@, name, new)]
      /\ declared' = [declared EXCEPT ![n] = r]
      /\ UNCHANGED <<stack_, call_frames_, declaring>>
  BY <1>1, <1>4, <1>5 DEF AddMethod, Put
<1>7. new \notin DOMAIN objects
  <2>1. \E i \in 1..NObjects : i \notin DOMAIN objects
    BY <1>2 DEF HasRoom, ClassesIInv, ObjectsOK
  <2>. QED
    BY <1>1, <2>1 DEF New, ClassesIInv, ObjectsOK
<1>8. /\ DOMAIN objects' = DOMAIN objects \cup {new}
      /\ objects'[new] = q /\ objects'[klass] = p
      /\ \A i \in DOMAIN objects \ {klass} : objects'[i] = objects[i]
  <2>1. PICK f : f = With(objects, new, q)
    OBVIOUS
  <2>2. /\ DOMAIN f = DOMAIN objects \cup {new} /\ f[new] = q
        /\ \A i \in DOMAIN objects : f[i] = objects[i]
    BY <1>7, <2>1 DEF With
  <2>3. objects' = [f EXCEPT ![klass] = p]
    BY <1>4, <1>5, <1>6, <2>1, <2>2
  <2>. QED
    BY <1>4, <1>7, <2>2, <2>3
<1>9. q.kind = "closure"
  BY <1>5 DEF Closure
<1>10. p.kind = "class" /\ p.declaration = objects[klass].declaration
  BY <1>3, <1>5 DEF ClassOK, Is
<1>11. DeclaredGrows /\ Declarations' = Declarations
  <2>1. r.own = declared[n].own \cup {name} /\ r.superclass = declared[n].superclass
    BY <1>3, <1>5
  <2>2. Declarations_(declared')
    BY AddMethodKeeps DEF ClassesIInv
  <2>. QED
    BY <1>1, <1>2, <1>6, <2>1, <2>2, LastChanges
<1>12. Keeps(DOMAIN objects)
  <2>1. \A i \in DOMAIN objects : SameRole(objects[i], objects'[i])
    BY <1>4, <1>8, <1>10 DEF SameRole
  <2>. QED
    BY <1>8, <1>11, <2>1, KeepsAll DEF ClassesIInv
<1>13. /\ \A i \in DOMAIN objects' : objects'[i].kind \in {"instance", "bound"} =>
            i \in DOMAIN objects /\ objects'[i] = objects[i]
       /\ \A i \in DOMAIN objects : objects[i].kind \in {"instance", "bound"} =>
            objects'[i] = objects[i]
  BY <1>4, <1>8, <1>9, <1>10
<1>. QED
  BY <1>2, <1>6, <1>11, <1>12, <1>13, DeclaringUnseen

(* A class shows when its declaration is over. *)
LEMMA EndClassDeclares ==
  ASSUME ClassesIInv, NEW x \in Variables, EndClass(x)
  PROVE  Resolution!Declare
<1>1. /\ Running /\ declaring # "no" /\ declaring' = "no"
      /\ UNCHANGED <<call_frames_, objects, declared>>
      /\ stack_' = SubSeq(stack_, 1, Len(stack_) - Extra - 1)
  BY DEF EndClass
<1>2. PICK n : n = Len(declared)
  OBVIOUS
<1>3. /\ n \in Nat \ {0} /\ Declarations_(declared) /\ DOMAIN declared = 1 .. n
      /\ declared \in Seq([superclass : Nat, own : SUBSET Names])
      /\ declared[n] \in [superclass : Nat, own : SUBSET Names]
      /\ declared[n].superclass \in 0 .. n - 1
  BY <1>1, <1>2, DeclaringFacts DEF ClassesIInv, Declarations_
<1>4. PICK s, r, m : s = Front(declared) /\ r = declared[n] /\ m = n - 1
  OBVIOUS
<1>5. m \in Nat /\ m \in 0 .. n /\ n = m + 1
  BY <1>3, <1>4
<1>6. /\ s \in Seq([superclass : Nat, own : SUBSET Names]) /\ Len(s) = m
      /\ \A i \in 1 .. m : s[i] = declared[i]
  <2>1. s = SubSeq(declared, 1, m)
    BY <1>2, <1>4 DEF Front
  <2>2. Declarations_(declared) /\ m \in 0 .. Len(declared)
    BY <1>2, <1>3, <1>5
  <2>. QED
    BY <2>1, <2>2, Prefix, Zenon
<1>7. declared = Append(s, r)
  <2>1. PICK z : z = Append(s, r)
    OBVIOUS
  <2>2. /\ z \in Seq([superclass : Nat, own : SUBSET Names]) /\ Len(z) = m + 1
        /\ z[m + 1] = r /\ \A i \in 1 .. m : z[i] = s[i]
    BY <1>3, <1>4, <1>6, <2>1
  <2>3. \A i \in 1 .. n : z[i] = declared[i]
    <3>1. \A i \in 1 .. n : i = m + 1 \/ i \in 1 .. m
      BY <1>5
    <3>. QED
      BY <1>4, <1>5, <1>6, <2>2, <3>1
  <2>. QED
    BY <1>2, <1>3, <1>5, <2>1, <2>2, <2>3, SeqEqual
<1>8. r = [superclass |-> r.superclass, own |-> r.own] /\ r.own \in SUBSET Names
      /\ r.superclass \in 0 .. Len(s)
  BY <1>3, <1>4, <1>6
<1>9. Declarations = s /\ Declarations' = Append(s, r)
  BY <1>1, <1>4, <1>7 DEF Declarations
<1>10. Keeps(DOMAIN objects)
  BY <1>1, SameObjects
<1>11. Instances' = Instances /\ Bounds' = Bounds
  BY <1>1, <1>10, ViewsKept
<1>12. Activations' = Activations
  <2>1. InScript
    BY <1>1 DEF ClassesIInv, DeclaringOK
  <2>2. 1 .. Len(call_frames_) - 1 = {} /\ 1 .. Len(call_frames_') - 1 = {}
    BY <1>1, <2>1 DEF InScript
  <2>3. PICK S : S = 1 .. Len(call_frames_) - 1
    OBVIOUS
  <2>4. S = {} /\ 1 .. Len(call_frames_') - 1 = S
    BY <2>2, <2>3
  <2>5. Activations = [i \in S |-> ActivationView(i + 1)]
    BY <2>3, Views
  <2>6. Activations' = [i \in S |-> ActivationView(i + 1)']
    BY <2>4, ViewsPrimed
  <2>. QED
    BY <2>4, <2>5, <2>6
<1>. QED
  BY <1>8, <1>9, <1>11, <1>12 DEF Resolution!Declare

-----------------------------------------------------------------------------
(* Calls *)

OfLength(f, m) == f = [i \in 1 .. m |-> f[i]]

LEMMA AsSequence ==
  ASSUME NEW m \in Nat, NEW f, OfLength(f, m), NEW S, \A i \in 1 .. m : f[i] \in S
  PROVE  f \in Seq(S) /\ Len(f) = m
BY DEF OfLength

LEMMA Appended ==
  ASSUME NEW m \in Nat, NEW f, OfLength(f, m),
         NEW g, OfLength(g, m + 1), \A i \in 1 .. m : g[i] = f[i]
  PROVE  g = Append(f, g[m + 1])
<1> DEFINE S == {g[i] : i \in 1 .. m + 1}
<1>1. PICK n, a, h : n = m + 1 /\ a = g[n] /\ h = Append(f, a)
  OBVIOUS
<1>2. n \in Nat /\ \A i \in 1 .. n : i \in 1 .. m \/ i = n
  BY <1>1
<1>3. (\A i \in 1 .. n : g[i] \in S) /\ (\A i \in 1 .. m : f[i] \in S) /\ a \in S
  <2>1. \A i \in 1 .. n : g[i] \in S
    BY <1>1
  <2>. HIDE DEF S
  <2>2. ASSUME NEW i \in 1 .. m
        PROVE  f[i] \in S
    <3>1. i \in 1 .. n /\ f[i] = g[i]
      BY <1>1
    <3>. QED
      BY <2>1, <3>1
  <2>3. n \in 1 .. n
    BY <1>1, <1>2
  <2>. QED
    BY <1>1, <2>1, <2>2, <2>3
<1>4. OfLength(g, n)
  BY <1>1
<1>. HIDE DEF S
<1>5. f \in Seq(S) /\ Len(f) = m /\ g \in Seq(S) /\ Len(g) = n
  BY <1>2, <1>3, <1>4, AsSequence
<1>6. h \in Seq(S) /\ Len(h) = m + 1 /\ h[m + 1] = a /\ \A i \in 1 .. m : h[i] = f[i]
  BY <1>1, <1>3, <1>5
<1>7. \A i \in 1 .. n : h[i] = g[i]
  BY <1>1, <1>2, <1>6
<1>8. h = g
  BY <1>1, <1>5, <1>6, <1>7, SeqEqual
<1>. QED
  BY <1>1, <1>8

LEMMA Initial ==
  ASSUME NEW S, NEW s \in Seq(S), NEW m \in 0 .. Len(s)
  PROVE  /\ SubSeq(s, 1, m) \in Seq(S) /\ Len(SubSeq(s, 1, m)) = m
         /\ \A i \in 1 .. m : SubSeq(s, 1, m)[i] = s[i]
OBVIOUS

LEMMA WithoutLast ==
  ASSUME NEW m \in Nat, NEW f, OfLength(f, m + 1),
         NEW g, OfLength(g, m), \A i \in 1 .. m : g[i] = f[i]
  PROVE  f # <<>> /\ g = Front(f) /\ Last(f) = f[m + 1]
<1> DEFINE S == {f[i] : i \in 1 .. m + 1}
<1>1. PICK n, h : n = m + 1 /\ h = SubSeq(f, 1, m)
  OBVIOUS
<1>2. n \in Nat /\ \A i \in 1 .. m : i \in 1 .. n
  BY <1>1
<1>3. \A i \in 1 .. n : f[i] \in S
  BY <1>1
<1>4. OfLength(f, n) /\ \A i \in 1 .. m : g[i] \in S
  BY <1>1, <1>2
<1>. HIDE DEF S
<1>5. f \in Seq(S) /\ Len(f) = n /\ g \in Seq(S) /\ Len(g) = m
  BY <1>2, <1>3, <1>4, AsSequence
<1>6. m \in 0 .. Len(f) /\ Len(f) - 1 = m
  BY <1>1, <1>5
<1>7. h \in Seq(S) /\ Len(h) = m /\ \A i \in 1 .. m : h[i] = f[i]
  BY <1>1, <1>5, <1>6, Initial, Zenon
<1>8. h = g
  BY <1>5, <1>7, SeqEqual
<1>9. f # <<>>
  BY <1>1, <1>5
<1>. QED
  BY <1>1, <1>5, <1>6, <1>8, <1>9 DEF Front, Last

(* An object is made, and the others look as before. *)
LEMMA ObjectAdded ==
  ASSUME ClassesIInv, HasRoom, declared' = declared, NEW o, NEW new, new = New,
         objects' = With(objects, New, o)
  PROVE  /\ new \in 1..NObjects /\ new \in Value /\ new # Nil /\ new \notin DOMAIN objects
         /\ Keeps(DOMAIN objects) /\ objects'[new] = o
         /\ \A i \in DOMAIN objects : objects'[i] = objects[i]
         /\ \A kind : Of(kind)' = Of(kind) \cup (IF o.kind = kind THEN {new} ELSE {})
         /\ \A i \in Of("instance") : InstanceView(i)' = InstanceView(i)
         /\ \A b \in Of("bound") : BoundView(b)' = BoundView(b)
<1>1. DeclaredGrows
  BY SameDeclared
<1>2. /\ new \in 1..NObjects /\ new \in Value /\ new # Nil /\ new \notin DOMAIN objects
      /\ DOMAIN objects' = DOMAIN objects \cup {new} /\ objects'[new] = o
      /\ \A i \in DOMAIN objects : objects'[i] = objects[i]
      /\ Keeps(DOMAIN objects)
  BY <1>1, Allocated
<1>3. ASSUME NEW kind
      PROVE  Of(kind)' = Of(kind) \cup (IF o.kind = kind THEN {new} ELSE {})
  BY <1>2 DEF Of
<1>4. \A i \in Of("instance") : InstanceView(i)' = InstanceView(i)
  BY <1>2, InstanceKept DEF Of, Is
<1>5. \A b \in Of("bound") : BoundView(b)' = BoundView(b)
  BY <1>2, BoundKept DEF Of, Is
<1>. QED
  BY <1>2, <1>3, <1>4, <1>5

(* The activation that begins, and those that it interrupts. *)
LEMMA EnterFacts ==
  ASSUME ClassesIInv, Executing, Top.temps > 0,
         NEW closure, closure \in Value, NEW made, made \in Value, NEW v, v \in Value,
         stack_' = Append(Front(stack_), v), Enter(closure, made)
  PROVE  /\ Len(call_frames_) \in Nat \ {0} /\ Len(call_frames_') = Len(call_frames_) + 1
         /\ call_frames_'[Len(call_frames_) + 1].closure = closure
         /\ stack_'[call_frames_'[Len(call_frames_) + 1].begin] = v
         /\ \A n \in 2 .. Len(call_frames_) :
              /\ SameFrame(call_frames_, call_frames_', n)
              /\ stack_'[call_frames_[n].begin] = stack_[call_frames_[n].begin]
<1>a. PICK k : k = Len(call_frames_)
  OBVIOUS
<1> DEFINE t == Top.temps - 1
           b == Len(stack_)
           new == Frame(closure, b, made)
<1>0. Running /\ declaring = "no" /\ Extras = 0
  BY DEF Executing, Extras
<1>1. /\ call_frames_ \in Seq(FrameType) /\ k \in 1 .. Len(call_frames_) /\ k \in Nat \ {0}
      /\ Top = call_frames_[k]
  BY <1>a, <1>0, BaseFacts DEF ClassesIInv, ActivationsOK
<1>2. /\ stack_'[Len(stack_)] = v /\ \A i \in 1 .. Len(stack_) - 1 : stack_'[i] = stack_[i]
  BY <1>a, <1>0, ReplaceTop
<1>3. Base \in Nat /\ t \in Nat /\ b = Base + t + 1 /\ b \in Nat \ {0}
  BY <1>a, <1>0, BaseFacts
<1>4. PICK g : g = WithTemps(call_frames_, k, t)
  OBVIOUS
<1>5. call_frames_' = Append(g, new)
  BY <1>a, <1>1, <1>4 DEF Enter, WithTemps
<1>6. new \in FrameType /\ new.closure = closure /\ new.begin = b
  BY <1>3 DEF Frame, FrameType
<1>. HIDE DEF t, new
<1>7. /\ g \in Seq(FrameType) /\ Len(g) = k
      /\ \A n \in 1 .. k : SameFrame(call_frames_, g, n)
  <2>1. PICK f : f = call_frames_
    OBVIOUS
  <2>2. f \in Seq(FrameType) /\ k \in 1 .. Len(f) /\ g = WithTemps(f, k, t)
    BY <1>a, <1>1, <1>4, <2>1
  <2>3. /\ g \in Seq(FrameType) /\ Len(g) = Len(f)
        /\ \A n \in 1 .. Len(f) : SameFrame(f, g, n)
    BY <1>3, <2>2, FrameChange
  <2>. QED
    BY <1>a, <2>1, <2>3
<1>8. /\ Len(call_frames_') = k + 1
      /\ call_frames_'[k + 1] = new /\ \A n \in 1 .. k : call_frames_'[n] = g[n]
  BY <1>a, <1>1, <1>5, <1>6, <1>7
<1>9. ASSUME NEW n \in 2 .. k
      PROVE  /\ SameFrame(call_frames_, call_frames_', n)
             /\ stack_'[call_frames_[n].begin] = stack_[call_frames_[n].begin]
  <2>1. SameFrame(call_frames_, call_frames_', n)
    BY <1>1, <1>7, <1>8, <1>9 DEF SameFrame
  <2>2. call_frames_[n].begin \in 1 .. Base
    BY <1>a, <1>0, <1>9, BaseFacts
  <2>3. call_frames_[n].begin \in 1 .. Len(stack_) - 1
    BY <1>3, <2>2
  <2>. QED
    BY <1>2, <2>1, <2>3
<1>. QED
  BY <1>a, <1>1, <1>2, <1>6, <1>8, <1>9

LEMMA EnterAppends ==
  ASSUME ClassesIInv, Executing, Top.temps > 0, Keeps(DOMAIN objects),
         NEW closure, closure \in Value, Is(closure, "closure"),
         NEW made, made \in Value, NEW v, v \in Value,
         stack_' = Append(Front(stack_), v), Enter(closure, made)
  PROVE  Activations' =
           Append(Activations, [receiver |-> v, method |-> FunctionOf(closure)])
<1>1. PICK k : k = Len(call_frames_)
  OBVIOUS
<1>2. /\ k \in Nat \ {0} /\ Len(call_frames_') = k + 1
      /\ call_frames_'[k + 1].closure = closure
      /\ stack_'[call_frames_'[k + 1].begin] = v
      /\ \A n \in 2 .. k :
           /\ SameFrame(call_frames_, call_frames_', n)
           /\ stack_'[call_frames_[n].begin] = stack_[call_frames_[n].begin]
  BY <1>1, EnterFacts, Zenon
<1>3. ASSUME NEW i \in 1 .. k - 1
      PROVE  ActivationView(i + 1)' = ActivationView(i + 1)
  <2>1. PICK n : n = i + 1
    OBVIOUS
  <2>2. n \in 2 .. k
    BY <1>2, <2>1
  <2>3. ActivationView(n)' = ActivationView(n)
    BY <1>1, <1>2, <2>2, Held_, ActivationKept_
  <2>. QED
    BY <2>1, <2>3
<1>4. ActivationView(k + 1)' = [receiver |-> v, method |-> FunctionOf(closure)]
  <2>1. FunctionOf(closure)' = FunctionOf(closure)
    BY KeepsFacts DEF ClassesIInv, Is
  <2>. QED
    BY <1>2, <2>1 DEF ActivationView, FunctionOf
<1>5. PICK m, f, g : m = k - 1 /\ f = Activations /\ g = Activations'
  OBVIOUS
<1>6. m \in Nat /\ k = m + 1 /\ k + 1 - 1 = m + 1
  BY <1>2, <1>5
<1>7. f = [i \in 1 .. m |-> ActivationView(i + 1)]
  BY <1>1, <1>5, Views
<1>8. g = [i \in 1 .. m + 1 |-> ActivationView(i + 1)']
  <2>1. Len(call_frames_') - 1 = m + 1
    BY <1>2, <1>6
  <2>. QED
    BY <1>5, <2>1, ViewsPrimed
<1>9. /\ OfLength(f, m) /\ OfLength(g, m + 1)
      /\ g[m + 1] = [receiver |-> v, method |-> FunctionOf(closure)]
  <2>1. g[m + 1] = ActivationView(m + 1 + 1)'
    BY <1>6, <1>8
  <2>. QED
    BY <1>4, <1>6, <1>7, <1>8, <2>1 DEF OfLength
<1>10. \A i \in 1 .. m : g[i] = f[i]
  <2>1. \A i \in 1 .. m : i \in 1 .. m + 1 /\ i \in 1 .. k - 1
    BY <1>6
  <2>. QED
    BY <1>3, <1>7, <1>8, <2>1
<1>11. g = Append(f, g[m + 1])
  <2>1. m \in Nat
    BY <1>6
  <2>2. OfLength(f, m) /\ OfLength(g, m + 1)
    BY <1>9
  <2>. QED
    BY <1>10, <2>1, <2>2, Appended
<1>. QED
  BY <1>5, <1>9, <1>11

LEMMA ConstructResolved ==
  ASSUME ClassesIInv, TablesInv, Executing, Top.temps > 0, NEW c, Is(c, "class"), HasRoom,
         objects' = With(objects, New, Instance(c)), stack_' = Append(Front(stack_), New),
         IF "init" \in DOMAIN objects[c].methods THEN Enter(objects[c].methods["init"], New)
         ELSE UNCHANGED call_frames_,
         UNCHANGED <<declaring, declared>>
  PROVE  Resolution!Construct
<1>1. PICK o, new, d : o = Instance(c) /\ new = New /\ d = objects[c].declaration
  OBVIOUS
<1>2. o.kind = "instance" /\ o.klass = c /\ o.fields = <<>>
  BY <1>1 DEF Instance
<1>3. /\ new \in 1..NObjects /\ new \in Value /\ new # Nil /\ new \notin DOMAIN objects
      /\ Keeps(DOMAIN objects) /\ objects'[new] = o
      /\ \A i \in DOMAIN objects : objects'[i] = objects[i]
      /\ \A kind : Of(kind)' = Of(kind) \cup (IF o.kind = kind THEN {new} ELSE {})
      /\ \A i \in Of("instance") : InstanceView(i)' = InstanceView(i)
      /\ \A b \in Of("bound") : BoundView(b)' = BoundView(b)
  BY <1>1, ObjectAdded
<1>4. Running /\ declaring = "no" /\ Extras = 0 /\ Declarations' = Declarations /\ Declarations = declared
  BY DEF Executing, Extras, Declarations
<1>5. "init" \in Names
  BY ClassesAssumption
<1>6. /\ d \in DOMAIN declared
      /\ "init" \in DOMAIN objects[c].methods <=> Resolution!Understands(d, "init")
      /\ "init" \in DOMAIN objects[c].methods =>
           FunctionOf(objects[c].methods["init"]) = Resolution!Lookup(d, "init")
  BY <1>1, <1>4, <1>5, LookupFacts
<1>7. InstanceView(new)' = [class |-> d, fields |-> {}]
  <2>1. objects'[c].declaration = d
    BY <1>1, <1>3 DEF Is
  <2>2. ClassOf(new)' = d /\ DOMAIN objects'[new].fields = {}
    BY <1>2, <1>3, <2>1 DEF ClassOf
  <2>. QED
    BY <2>2 DEF InstanceView
<1>8. /\ DOMAIN Instances = Of("instance") /\ new \notin Of("instance")
      /\ Instances' = [i \in Of("instance") \cup {new} |->
                         IF i = new THEN [class |-> d, fields |-> {}] ELSE Instances[i]]
  <2>1. Of("instance")' = Of("instance") \cup {new} /\ new \notin Of("instance")
    BY <1>2, <1>3 DEF Of
  <2>2. Instances' = [i \in Of("instance") \cup {new} |-> InstanceView(i)']
    BY <2>1, ViewsPrimed
  <2>3. \A i \in Of("instance") \cup {new} :
          InstanceView(i)' = IF i = new THEN [class |-> d, fields |-> {}] ELSE Instances[i]
    BY <1>3, <1>7, <2>1, Views
  <2>. QED
    BY <2>1, <2>2, <2>3, Views
<1>9. Bounds' = Bounds
  <2>1. Of("bound")' = Of("bound")
    BY <1>2, <1>3
  <2>. QED
    BY <1>3, <2>1, Views, ViewsPrimed
<1>10. CASE "init" \in DOMAIN objects[c].methods
  <2>1. PICK f : f = objects[c].methods["init"]
    OBVIOUS
  <2>2. Is(f, "closure") /\ f \in Value
    <3>1. Is(f, "closure")
      BY <1>10, <2>1, KindOK DEF ClassesIInv, ObjectsOK, Is, ClassOK, MethodOf
    <3>. QED
      BY <3>1, NilIsNothing DEF ClassesIInv, Is
  <2>3. Enter(f, new) /\ stack_' = Append(Front(stack_), new)
    BY <1>1, <1>10, <2>1
  <2>4. Activations' = Append(Activations, [receiver |-> new, method |-> FunctionOf(f)])
    BY <1>3, <2>2, <2>3, EnterAppends
  <2>. QED
    BY <1>3, <1>4, <1>6, <1>8, <1>9, <1>10, <2>1, <2>4
    DEF Resolution!Construct, Resolution!Running
<1>11. CASE "init" \notin DOMAIN objects[c].methods
  <2>1. stack_' = Append(Front(stack_), new) /\ call_frames_' = call_frames_
    BY <1>1, <1>11
  <2>2. \A i \in 1 .. Len(stack_) - 1 : stack_'[i] = stack_[i]
    BY <1>3, <1>4, <2>1, ReplaceTop
  <2>3. Activations' = Activations
    <3> DEFINE t == Top.temps
    <3>1. t \in Nat /\ call_frames_' = [call_frames_ EXCEPT ![Len(call_frames_)].temps = t]
      BY <1>4, <2>1, BaseFacts, SameFrames
    <3>2. \A i \in 1 .. Base : stack_'[i] = stack_[i]
      <4>1. Base \in Nat /\ Len(stack_) = Base + t /\ t \in Nat
        BY <1>4, BaseFacts
      <4>2. \A i \in 1 .. Base : i \in 1 .. Len(stack_) - 1
        BY <4>1
      <4>. QED
        BY <2>2, <4>2
    <3>. HIDE DEF t
    <3>. QED
      BY <1>3, <1>4, <3>1, <3>2, Held_, SameActivations
  <2>. QED
    BY <1>3, <1>4, <1>6, <1>8, <1>9, <1>11, <2>3 DEF Resolution!Construct
<1>. QED
  BY <1>10, <1>11

LEMMA InvokeResolved ==
  ASSUME ClassesIInv, Executing, Top.temps > 0, NEW c, Is(c, "bound"),
         stack_' = Append(Front(stack_), Receiver(c)), Enter(objects[c].method, Nil),
         UNCHANGED <<objects, declaring, declared>>
  PROVE  Resolution!Invoke
<1>1. PICK m, r : m = objects[c].method /\ r = Receiver(c)
  OBVIOUS
<1>2. BoundOK(objects[c])
  BY KindOK DEF ClassesIInv, ObjectsOK, Is
<1>3. Is(r, "instance") /\ Is(m, "closure")
  BY <1>1, <1>2 DEF BoundOK, Receiver, MethodOf
<1>4. m \in Value /\ r \in Value /\ Nil \in Value
  BY <1>3, NilIsNothing, ClassesAssumption DEF Is, ClassesIInv, Nil, Value
<1>5. Keeps(DOMAIN objects)
  BY SameObjects
<1>6. Enter(m, Nil) /\ stack_' = Append(Front(stack_), r)
  BY <1>1
<1>7. Activations' = Append(Activations, [receiver |-> r, method |-> FunctionOf(m)])
  BY <1>3, <1>4, <1>5, <1>6, EnterAppends
<1>8. [receiver |-> r, method |-> FunctionOf(m)] \in Bounds
  <2>1. BoundView(c) = [receiver |-> r, method |-> FunctionOf(m)] /\ c \in Of("bound")
    BY <1>1 DEF BoundView, Receiver, Of, Is
  <2>. QED
    BY <2>1, Views
<1>9. Instances' = Instances /\ Bounds' = Bounds
  BY <1>5, ViewsKept
<1>10. Declarations' = Declarations
  BY DEF Declarations
<1>. QED
  BY <1>7, <1>8, <1>9, <1>10 DEF Resolution!Invoke

LEMMA CallResolved ==
  ASSUME ClassesIInv, TablesInv, NEW arity_matches, Call(arity_matches)
  PROVE  Resolution!Construct \/ Resolution!Invoke \/ Resolution!End
<1>1. PICK c : c = Last(stack_)
  OBVIOUS
<1>2. Executing /\ Running /\ Top.temps > 0
  BY DEF Call, Executing
<1>3. CASE RuntimeError
  BY <1>3, StopEnds DEF RuntimeError
<1>4. CASE ~(~arity_matches \/ ~(IsA(c, "class") \/ IsA(c, "bound")))
  <2>1. /\ \/ /\ IsA(c, "class")
              /\ HasRoom
              /\ objects' = With(objects, New, Instance(c))
              /\ stack_' = Append(Front(stack_), New)
              /\ IF "init" \in DOMAIN objects[c].methods
                 THEN Enter(objects[c].methods["init"], New)
                 ELSE UNCHANGED call_frames_
           \/ /\ IsA(c, "bound")
              /\ stack_' = Append(Front(stack_), Receiver(c))
              /\ Enter(objects[c].method, Nil)
              /\ UNCHANGED objects
        /\ UNCHANGED <<declaring, declared>>
    BY <1>1, <1>4 DEF Call
  <2>2. Live(c)
    BY <1>1, <1>2, LastLive
  <2>3. (IsA(c, "class") => Is(c, "class")) /\ (IsA(c, "bound") => Is(c, "bound"))
    BY <2>2, IsAIs
  <2>4. CASE /\ IsA(c, "class") /\ HasRoom /\ objects' = With(objects, New, Instance(c))
             /\ stack_' = Append(Front(stack_), New)
             /\ IF "init" \in DOMAIN objects[c].methods
                THEN Enter(objects[c].methods["init"], New)
                ELSE UNCHANGED call_frames_
    BY <1>2, <2>1, <2>3, <2>4, ConstructResolved
  <2>5. CASE /\ IsA(c, "bound") /\ stack_' = Append(Front(stack_), Receiver(c))
             /\ Enter(objects[c].method, Nil) /\ UNCHANGED objects
    BY <1>2, <2>1, <2>3, <2>5, InvokeResolved
  <2>. QED
    BY <2>1, <2>4, <2>5
<1>. QED
  BY <1>1, <1>3, <1>4 DEF Call

-----------------------------------------------------------------------------
(* Properties *)

LEMMA BindAdds ==
  ASSUME ClassesIInv, NEW taken, taken \in {0, 1}, NEW instance, NEW method,
         Is(instance, "instance"), Is(method, "closure"), Bind(taken, instance, method)
  PROVE  /\ Declarations' = Declarations /\ Instances' = Instances /\ Activations' = Activations
         /\ Bounds' = Bounds \cup {[receiver |-> instance, method |-> FunctionOf(method)]}
<1>1. PICK o, new : o = Bound_method(instance, method) /\ new = New
  OBVIOUS
<1>2. o.kind = "bound" /\ o.instance = instance /\ o.method = method
  BY <1>1 DEF Bound_method
<1>3. HasRoom /\ Leave(taken, new) /\ objects' = With(objects, New, o)
      /\ declaring' = declaring /\ declared' = declared
  BY <1>1 DEF Bind
<1>4. /\ new \in Value /\ new \notin DOMAIN objects /\ Keeps(DOMAIN objects) /\ objects'[new] = o
      /\ \A kind : Of(kind)' = Of(kind) \cup (IF o.kind = kind THEN {new} ELSE {})
      /\ \A i \in Of("instance") : InstanceView(i)' = InstanceView(i)
      /\ \A b \in Of("bound") : BoundView(b)' = BoundView(b)
  BY <1>1, <1>3, ObjectAdded
<1>5. Declarations' = Declarations
  BY <1>3 DEF Declarations
<1>6. Instances' = Instances
  <2>1. Of("instance")' = Of("instance")
    BY <1>2, <1>4
  <2>. QED
    BY <1>4, <2>1, Views, ViewsPrimed
<1>7. BoundView(new)' = [receiver |-> instance, method |-> FunctionOf(method)]
  <2>1. FunctionOf(method)' = FunctionOf(method)
    BY <1>4, KeepsFacts DEF ClassesIInv, Is
  <2>. QED
    BY <1>2, <1>4, <2>1 DEF BoundView, FunctionOf
<1>8. Bounds' = Bounds \cup {[receiver |-> instance, method |-> FunctionOf(method)]}
  <2>1. Of("bound")' = Of("bound") \cup {new}
    BY <1>2, <1>4
  <2>2. Bounds' = {BoundView(b)' : b \in Of("bound") \cup {new}}
    BY <2>1, ViewsPrimed
  <2>3. Bounds = {BoundView(b) : b \in Of("bound")}
    BY Views
  <2>4. \A b \in Of("bound") : BoundView(b)' = BoundView(b)
    BY <1>4
  <2>. QED
    BY <1>7, <2>2, <2>3, <2>4
<1>9. Activations' = Activations
  <2> DEFINE t == Top.temps - taken + 1
  <2>1. /\ Running /\ t \in Nat /\ \A i \in 1 .. Base : stack_'[i] = stack_[i]
        /\ call_frames_' = [call_frames_ EXCEPT ![Len(call_frames_)].temps = t]
    BY <1>3, <1>4, LeaveFacts
  <2>. HIDE DEF t
  <2>. QED
    BY <1>4, <2>1, Held_, SameActivations
<1>. QED
  BY <1>5, <1>6, <1>8, <1>9

LEMMA GetPropertyResolved ==
  ASSUME ClassesIInv, TablesInv, NEW name \in Names, GetProperty(name)
  PROVE  Unseen \/ Resolution!Fetch \/ Resolution!End
<1>1. PICK i, c : i = Last(stack_) /\ c = objects[i].klass
  OBVIOUS
<1>2. Running /\ declaring = "no" /\ Top.temps > 0
  BY DEF GetProperty, Executing
<1>3. CASE RuntimeError
  BY <1>3, StopEnds DEF RuntimeError
<1>4. CASE IsA(i, "instance") /\ name \in DOMAIN objects[i].fields
  <2>1. Is(i, "instance")
    BY <1>1, <1>2, <1>4, LastLive, IsAIs
  <2>2. PICK v : v = objects[i].fields[name]
    OBVIOUS
  <2>3. v \in Value
    <3>1. InstanceOK(objects[i])
      BY <2>1, KindOK DEF ClassesIInv, ObjectsOK, Is
    <3>2. Live(v)
      BY <1>4, <2>2, <3>1 DEF InstanceOK
    <3>. QED
      BY <3>2, LiveValue
  <2>4. Leave(1, v) /\ UNCHANGED <<objects, declaring, declared>>
    BY <1>1, <1>4, <2>2 DEF GetProperty
  <2>. QED
    BY <2>3, <2>4, LeaveUnseen
<1>5. CASE /\ IsA(i, "instance") /\ name \notin DOMAIN objects[i].fields
           /\ name \in DOMAIN objects[c].methods
  <2>1. Is(i, "instance")
    BY <1>1, <1>2, <1>5, LastLive, IsAIs
  <2>2. PICK m, d : m = objects[c].methods[name] /\ d = objects[c].declaration
    OBVIOUS
  <2>3. Is(c, "class")
    BY <1>1, <2>1, ClassOfType DEF ClassesIInv
  <2>4. Is(m, "closure")
    BY <1>5, <2>2, <2>3, KindOK DEF ClassesIInv, ObjectsOK, Is, ClassOK, MethodOf
  <2>5. Bind(1, i, m)
    BY <1>1, <1>5, <2>2 DEF GetProperty
  <2>6. /\ Declarations' = Declarations /\ Instances' = Instances /\ Activations' = Activations
        /\ Bounds' = Bounds \cup {[receiver |-> i, method |-> FunctionOf(m)]}
    BY <2>1, <2>4, <2>5, BindAdds
  <2>7. Resolution!Understands(d, name) /\ FunctionOf(m) = Resolution!Lookup(d, name)
    BY <1>2, <1>5, <2>2, <2>3, LookupFacts
  <2>8. /\ i \in DOMAIN Instances /\ Instances[i].class = d
        /\ name \notin Instances[i].fields
    <3>1. i \in Of("instance")
      BY <2>1 DEF Is, Of
    <3>2. Instances[i] = InstanceView(i) /\ i \in DOMAIN Instances
      BY <3>1, Views
    <3>. QED
      BY <1>1, <1>5, <2>2, <3>2 DEF InstanceView, ClassOf
  <2>9. Bounds' = Bounds \cup {Resolution!Running(i, Resolution!Lookup(Instances[i].class, name))}
    BY <2>6, <2>7, <2>8 DEF Resolution!Running
  <2>. QED
    BY <2>6, <2>7, <2>8, <2>9 DEF Resolution!Fetch
<1>. QED
  BY <1>1, <1>3, <1>4, <1>5 DEF GetProperty

(* The activation that is running, seen without the stack. *)
LEMMA LastActivation ==
  ASSUME ClassesIInv, Running, ~InScript
  PROVE  /\ Activations # <<>>
         /\ Last(Activations) =
              [receiver |-> stack_[Top.begin], method |-> FunctionOf(Top.closure)]
<1>1. PICK k, m : k = Len(call_frames_) /\ m = k - 2
  OBVIOUS
<1>2. k \in 2 .. k /\ k \in Nat /\ Top = call_frames_[k]
  BY <1>1, BaseFacts, ThisFacts
<1>3. m \in Nat /\ k - 1 = m + 1 /\ m + 1 + 1 = k
  BY <1>1, <1>2
<1>4. PICK f, g : f = Activations /\ g = [i \in 1 .. m |-> f[i]]
  OBVIOUS
<1>5. f = [i \in 1 .. m + 1 |-> ActivationView(i + 1)]
  <2>1. Len(call_frames_) - 1 = m + 1
    BY <1>1, <1>3
  <2>. QED
    BY <1>4, <2>1, Views
<1>6. OfLength(f, m + 1) /\ OfLength(g, m) /\ \A i \in 1 .. m : g[i] = f[i]
  BY <1>4, <1>5 DEF OfLength
<1>7. f # <<>> /\ Last(f) = f[m + 1]
  BY <1>3, <1>6, WithoutLast
<1>8. f[m + 1] = ActivationView(k)
  <2>1. f[m + 1] = ActivationView(m + 1 + 1)
    BY <1>3, <1>5
  <2>. QED
    BY <1>3, <2>1
<1>. QED
  BY <1>2, <1>4, <1>7, <1>8 DEF ActivationView

LEMMA GetSuperResolved ==
  ASSUME ClassesIInv, TablesInv, NEW name \in Names, GetSuper(name)
  PROVE  Resolution!FetchSuper \/ Resolution!End
<1>1. PICK i, c : i = stack_[Top.begin] /\ c = Superclass
  OBVIOUS
<1>2. Running /\ declaring = "no" /\ ~InScript
  BY DEF GetSuper, Executing
<1>3. CASE RuntimeError
  BY <1>3, StopEnds DEF RuntimeError
<1>4. CASE Stop("crashed")
  BY <1>4, StopEnds
<1>5. CASE ~NoSuper /\ name \in DOMAIN objects[c].methods /\ Bind(0, i, objects[c].methods[name])
  <2>1. PICK m, f, d : m = objects[c].methods[name] /\ f = Top.closure /\ d = objects[c].declaration
    OBVIOUS
  <2>2. Is(c, "class") /\ Is(i, "instance") /\ Is(m, "closure")
    BY <1>1, <1>2, <1>5, <2>1, SuperFacts DEF MethodOf
  <2>3. d = declared[FunctionOf(f).class].superclass
    <3>1. Is(f, "closure")
      BY <1>2, <2>1, ThisFacts DEF ActivationOK, MethodOf
    <3>2. ClosureOK(objects[f])
      BY <3>1, KindOK DEF Is, ClassesIInv, ObjectsOK
    <3>. QED
      BY <1>1, <1>5, <2>1, <3>2 DEF ClosureOK, NoSuper, Superclass, FunctionOf
  <2>4. Bind(0, i, m)
    BY <1>5, <2>1
  <2>5. /\ Declarations' = Declarations /\ Instances' = Instances /\ Activations' = Activations
        /\ Bounds' = Bounds \cup {[receiver |-> i, method |-> FunctionOf(m)]}
    BY <2>2, <2>4, BindAdds
  <2>6. Resolution!Understands(d, name) /\ FunctionOf(m) = Resolution!Lookup(d, name)
    BY <1>2, <1>5, <2>1, <2>2, LookupFacts
  <2>7. Activations # <<>> /\ Last(Activations) = [receiver |-> i, method |-> FunctionOf(f)]
    BY <1>1, <1>2, <2>1, LastActivation
  <2>8. Declarations = declared
    BY <1>2 DEF Declarations
  <2>9. PICK a : a = Last(Activations) /\ a = Resolution!Last(Activations)
    BY DEF Last, Resolution!Last
  <2>10. a.receiver = i /\ Declarations[a.method.class].superclass = d
    BY <2>3, <2>7, <2>8, <2>9
  <2>11. Bounds' = Bounds \cup {Resolution!Running(a.receiver, Resolution!Lookup(d, name))}
    BY <2>5, <2>6, <2>10 DEF Resolution!Running
  <2>. QED
    BY <2>5, <2>6, <2>7, <2>9, <2>10, <2>11 DEF Resolution!FetchSuper
<1>6. \/ RuntimeError \/ Stop("crashed")
      \/ /\ ~NoSuper /\ name \in DOMAIN objects[Superclass].methods
         /\ Bind(0, stack_[Top.begin], objects[Superclass].methods[name])
  BY Zenon DEF GetSuper
<1>. QED
  BY <1>1, <1>3, <1>4, <1>5, <1>6

LEMMA SetPropertyResolved ==
  ASSUME ClassesIInv, NEW name \in Fields, SetProperty(name)
  PROVE  Resolution!SetField \/ Resolution!End
<1>1. Running /\ declaring = "no" /\ Top.temps > 0
  BY DEF SetProperty, Executing
<1>2. PICK i \in Range(globals_) \cup (IF InScript THEN {} ELSE {stack_[Top.begin]}) :
        IF IsA(i, "instance")
        THEN /\ objects' = [objects EXCEPT ![i].fields = With(@, name, Last(stack_))]
             /\ UNCHANGED <<stack_, call_frames_, globals_, declaring, declared, status>>
        ELSE RuntimeError
  BY DEF SetProperty
<1>3. CASE ~IsA(i, "instance")
  BY <1>2, <1>3, StopEnds DEF RuntimeError
<1>4. CASE IsA(i, "instance")
  <2>1. Is(i, "instance")
    <3>1. CASE i \in Range(globals_)
      <4>1. Live(i)
        BY <3>1 DEF Range, ClassesIInv, ValuesOK
      <4>. QED
        BY <1>4, <4>1, IsAIs
    <3>2. CASE ~InScript /\ i = stack_[Top.begin]
      BY <1>1, <3>2, ThisFacts DEF ActivationOK
    <3>. QED
      BY <1>2, <3>1, <3>2
  <2>2. InstanceOK(objects[i]) /\ i \in DOMAIN objects /\ objects[i].kind = "instance"
    BY <2>1, KindOK DEF ClassesIInv, ObjectsOK, Is
  <2>3. PICK o : o = [objects[i] EXCEPT !.fields = With(@, name, Last(stack_))]
    OBVIOUS
  <2>4. /\ o.kind = "instance" /\ o.klass = objects[i].klass
        /\ DOMAIN o.fields = DOMAIN objects[i].fields \cup {name}
    BY <2>2, <2>3 DEF InstanceOK, With
  <2>5. /\ objects' = [objects EXCEPT ![i] = o]
        /\ UNCHANGED <<stack_, call_frames_, declaring, declared>>
    BY <1>2, <1>4, <2>3
  <2>6. SameRole(objects[i], o)
    BY <2>2, <2>4 DEF SameRole
  <2>7. /\ DOMAIN objects' = DOMAIN objects /\ objects'[i] = o
        /\ \A j \in DOMAIN objects \ {i} : objects'[j] = objects[j]
        /\ Keeps(DOMAIN objects)
    BY <2>2, <2>5, <2>6, SameDeclared, Updated
  <2>8. \A kind : Of(kind)' = Of(kind)
    BY <2>2, <2>4, <2>7 DEF Of
  <2>9. \A j \in Of("instance") : j # i => InstanceView(j)' = InstanceView(j)
    BY <2>7, InstanceKept DEF Of, Is
  <2>10. InstanceView(i)' = [InstanceView(i) EXCEPT !.fields = @ \cup {name}]
    <3>1. ClassOf(i)' = ClassOf(i)
      BY <2>1, <2>2, <2>7, KeepsFacts DEF ClassesIInv
    <3>2. objects'[i].fields = o.fields
      BY <2>7
    <3>. QED
      BY <2>4, <3>1, <3>2 DEF InstanceView
  <2>11. i \in DOMAIN Instances /\ Instances' = [Instances EXCEPT ![i].fields = @ \cup {name}]
    <3>1. i \in Of("instance")
      BY <2>2 DEF Of
    <3>2. Instances = [j \in Of("instance") |-> InstanceView(j)]
      BY Views
    <3>3. Instances' = [j \in Of("instance") |-> InstanceView(j)']
      BY <2>8, ViewsPrimed
    <3>4. \A j \in Of("instance") :
            InstanceView(j)' = IF j = i THEN [InstanceView(i) EXCEPT !.fields = @ \cup {name}]
                               ELSE InstanceView(j)
      BY <2>9, <2>10
    <3>5. Instances' = [Instances EXCEPT ![i] = [InstanceView(i) EXCEPT !.fields = @ \cup {name}]]
      BY <3>1, <3>2, <3>3, <3>4
    <3>. QED
      BY <3>1, <3>2, <3>5
  <2>12. Bounds' = Bounds
    <3>1. ASSUME NEW b \in Of("bound")
          PROVE  BoundView(b)' = BoundView(b)
      <4>1. Is(b, "bound") /\ b # i
        BY <2>2 DEF Of, Is
      <4>2. objects'[b] = objects[b] /\ b \in DOMAIN objects
        BY <2>7, <4>1 DEF Is
      <4>. QED
        BY <2>7, <4>1, <4>2, BoundKept
    <3>. QED
      BY <2>8, <3>1, Views, ViewsPrimed
  <2>13. Activations' = Activations
    <3> DEFINE t == Top.temps
    <3>1. /\ t \in Nat /\ \A j \in 1 .. Base : stack_'[j] = stack_[j]
          /\ call_frames_' = [call_frames_ EXCEPT ![Len(call_frames_)].temps = t]
      BY <1>1, <2>5, BaseFacts, SameFrames
    <3>. HIDE DEF t
    <3>. QED
      BY <1>1, <2>7, <3>1, Held_, SameActivations
  <2>14. Declarations' = Declarations /\ name \in Names
    BY <2>5, ClassesAssumption DEF Declarations
  <2>. QED
    BY <2>11, <2>12, <2>13, <2>14 DEF Resolution!SetField
<1>. QED
  BY <1>3, <1>4

-----------------------------------------------------------------------------
(* Ends *)

LEMMA ReturnResolved ==
  ASSUME ClassesIInv, Return
  PROVE  Resolution!Return
<1> DEFINE k == Len(call_frames_)
           l == k - 1
           t == call_frames_[l].temps + 1
<1>1. /\ Running /\ declaring = "no" /\ ~InScript
      /\ Top.begin \in 1 .. Len(stack_)
      /\ \A i \in 1 .. Top.begin - 1 : stack_'[i] = stack_[i]
  BY ReturnFacts
<1>2. /\ call_frames_' = [Front(call_frames_) EXCEPT ![l].temps = @ + 1]
      /\ UNCHANGED <<objects, declaring, declared>>
  BY DEF Return
<1>3. call_frames_ \in Seq(FrameType) /\ k \in 2 .. k /\ k \in Nat /\ Top = call_frames_[k]
  BY <1>1, BaseFacts, ThisFacts DEF ClassesIInv, ActivationsOK
<1>4. l \in 1 .. l /\ l \in Nat /\ k = l + 1 /\ l \in 0 .. k
  BY <1>3
<1>. HIDE DEF k
<1>5. call_frames_[l].temps \in Nat
  <2>1. call_frames_[l] \in FrameType
    BY <1>3, <1>4 DEF k
  <2>. QED
    BY <2>1 DEF FrameType
<1>6. t \in Nat
  BY <1>5
<1>7. PICK f, e, g : f = Front(call_frames_) /\ e = l /\ g = call_frames_'
  OBVIOUS
<1>8. f \in Seq(FrameType) /\ Len(f) = l /\ \A n \in 1 .. l : f[n] = call_frames_[n]
  <2>. HIDE DEF l
  <2>1. f = SubSeq(call_frames_, 1, l)
    BY <1>7 DEF Front, k, l
  <2>. QED
    BY <1>3, <1>4, <2>1 DEF k
<1>9. g = WithTemps(f, e, t)
  BY <1>2, <1>4, <1>7, <1>8 DEF WithTemps
<1>10. e \in 1 .. Len(f)
  BY <1>4, <1>7, <1>8
<1>. HIDE DEF t
<1>11. Len(g) = Len(f) /\ \A n \in 1 .. Len(f) : SameFrame(f, g, n)
  BY <1>6, <1>8, <1>9, <1>10, FrameChange
<1>. HIDE DEF l
<1>12. /\ Len(call_frames_') = l
       /\ \A n \in 1 .. l : SameFrame(call_frames_, call_frames_', n)
  BY <1>7, <1>8, <1>11 DEF SameFrame
<1>13. Keeps(DOMAIN objects)
  BY <1>2, SameObjects
<1>14. ASSUME NEW i \in 1 .. l - 1
       PROVE  ActivationView(i + 1)' = ActivationView(i + 1)
  <2>1. PICK n : n = i + 1
    OBVIOUS
  <2>2. n \in 2 .. k /\ k \in 2 .. k /\ n < k /\ n \in 1 .. l
    BY <1>3, <1>4, <2>1
  <2>3. call_frames_[n].begin < Top.begin /\ call_frames_[n].begin \in 1 .. Len(stack_)
    BY <1>3, <2>2 DEF k, ClassesIInv, ActivationsOK
  <2>4. call_frames_[n].begin \in 1 .. Top.begin - 1
    BY <1>1, <2>3
  <2>5. call_frames_[n].closure \in DOMAIN objects /\ n \in 2 .. Len(call_frames_)
    BY <2>2, Held_ DEF k
  <2>6. stack_'[call_frames_[n].begin] = stack_[call_frames_[n].begin]
    BY <1>1, <2>4
  <2>7. ActivationView(n)' = ActivationView(n)
    BY <1>12, <1>13, <2>2, <2>5, <2>6, ActivationKept_
  <2>. QED
    BY <2>1, <2>7
<1>15. PICK m, a, b : m = l - 1 /\ a = Activations /\ b = Activations'
  OBVIOUS
<1>16. m \in Nat /\ Len(call_frames_) - 1 = m + 1 /\ Len(call_frames_') - 1 = m
  BY <1>4, <1>12, <1>15 DEF k
<1>17. a = [i \in 1 .. m + 1 |-> ActivationView(i + 1)]
  BY <1>15, <1>16, Views
<1>18. b = [i \in 1 .. m |-> ActivationView(i + 1)']
  BY <1>15, <1>16, ViewsPrimed
<1>19. OfLength(a, m + 1) /\ OfLength(b, m)
  BY <1>17, <1>18 DEF OfLength
<1>20. \A i \in 1 .. m : b[i] = a[i]
  <2>1. \A i \in 1 .. m : i \in 1 .. m + 1 /\ i \in 1 .. l - 1
    BY <1>15, <1>16
  <2>. QED
    BY <1>14, <1>17, <1>18, <2>1
<1>21. a # <<>> /\ b = Front(a)
  BY <1>16, <1>19, <1>20, WithoutLast
<1>22. Declarations' = Declarations /\ Instances' = Instances /\ Bounds' = Bounds
  BY <1>2, <1>13, ViewsKept DEF Declarations
<1>. QED
  BY <1>15, <1>21, <1>22 DEF Resolution!Return, Resolution!Front, Front

(* What the collector frees is no receiver of what it keeps. *)
LEMMA CollectGarbageForgets ==
  ASSUME ClassesIInv, CollectGarbage
  PROVE  Resolution!Forget
<1> DEFINE K == Reached
           kept == Of("instance") \cap K
           heldBounds == Of("bound") \cap K
           held == {BoundView(b) : b \in heldBounds}
<1>1. /\ Running /\ objects' = Restrict(objects, Reached)
      /\ UNCHANGED <<stack_, call_frames_, declaring, declared>>
  BY DEF CollectGarbage
<1>2. /\ K \subseteq DOMAIN objects /\ Roots \subseteq K
      /\ \A i \in K : Traced(objects[i]) \subseteq K
  BY ReachedClosed
<1>3. DOMAIN objects' = K /\ \A i \in K : objects'[i] = objects[i]
  BY <1>1, <1>2 DEF Restrict
<1>. HIDE DEF K
<1>4. Keeps(K)
  BY <1>1, <1>2, <1>3, SameDeclared DEF Keeps, SameRole
<1>5. ASSUME NEW n \in 2 .. Len(call_frames_)
      PROVE  stack_[call_frames_[n].begin] \in K /\ call_frames_[n].closure \in K
  <2>1. call_frames_[n].begin \in 1 .. Len(stack_) /\ n \in 1 .. Len(call_frames_)
    BY DEF ClassesIInv, ActivationsOK
  <2>2. stack_[call_frames_[n].begin] # Nil /\ call_frames_[n].closure # Nil
    BY Held_, NilIsNothing DEF ClassesIInv
  <2>. QED
    BY <1>2, <2>1, <2>2, RootFacts
<1>6. Of("instance")' = kept /\ Of("bound")' = heldBounds
  BY <1>2, <1>3 DEF Of
<1>7. kept \in SUBSET DOMAIN Instances /\ held \in SUBSET Bounds
  BY Views
<1>8. Instances' = [i \in kept |-> Instances[i]]
  <2>1. ASSUME NEW i \in kept
        PROVE  InstanceView(i)' = Instances[i]
    <3>1. i \in K /\ Is(i, "instance") /\ objects'[i].fields = objects[i].fields
      BY <1>3 DEF Of, Is
    <3>2. InstanceView(i)' = InstanceView(i)
      BY <1>4, <3>1, InstanceKept
    <3>. QED
      BY <3>2, Views
  <2>2. Instances' = [i \in kept |-> InstanceView(i)']
    BY <1>6, ViewsPrimed
  <2>. QED
    BY <2>1, <2>2
<1>9. Bounds' = held
  <2>1. ASSUME NEW b \in heldBounds
        PROVE  BoundView(b)' = BoundView(b)
    <3>1. b \in K /\ Is(b, "bound") /\ objects'[b] = objects[b]
      BY <1>3 DEF Of, Is
    <3>. QED
      BY <1>4, <3>1, BoundKept
  <2>2. Bounds' = {BoundView(b)' : b \in heldBounds}
    BY <1>6, ViewsPrimed
  <2>. QED
    BY <2>1, <2>2
<1>10. Activations' = Activations
  <2> DEFINE t == Top.temps
  <2>1. /\ t \in Nat /\ \A i \in 1 .. Base : stack_'[i] = stack_[i]
        /\ call_frames_' = [call_frames_ EXCEPT ![Len(call_frames_)].temps = t]
    BY <1>1, BaseFacts, SameFrames
  <2>. HIDE DEF t
  <2>. QED
    BY <1>1, <1>4, <1>5, <2>1, SameActivations
<1>11. \A b \in held : b.receiver \in kept
  <2>1. SUFFICES ASSUME NEW b \in heldBounds PROVE BoundView(b).receiver \in kept
    OBVIOUS
  <2>2. b \in K /\ Is(b, "bound") /\ BoundOK(objects[b])
    BY KindOK DEF Of, Is, ClassesIInv, ObjectsOK
  <2>3. PICK i : i = objects[b].instance
    OBVIOUS
  <2>4. Is(i, "instance") /\ i # Nil
    BY <2>2, <2>3, NilIsNothing DEF BoundOK, Is, ClassesIInv
  <2>5. i \in K
    BY <1>2, <2>2, <2>3, <2>4, TracedBound DEF Is
  <2>. QED
    BY <2>3, <2>4, <2>5 DEF BoundView, Of, Is
<1>12. \A a \in ToSet(Activations) : a.receiver \in kept
  <2>1. ASSUME NEW i \in 1 .. Len(call_frames_) - 1
        PROVE  Activations[i].receiver \in kept
    <3>1. PICK n : n = i + 1
      OBVIOUS
    <3>2. Len(call_frames_) \in Nat /\ n \in 2 .. Len(call_frames_)
      BY <1>1, <3>1, BaseFacts
    <3>3. Activations[i] = ActivationView(n)
      BY <3>1, Views
    <3>4. stack_[call_frames_[n].begin] \in K /\ Is(stack_[call_frames_[n].begin], "instance")
      BY <1>5, <3>2 DEF ClassesIInv, ActivationsOK, ActivationOK
    <3>. QED
      BY <3>3, <3>4 DEF ActivationView, Of, Is
  <2>. QED
    BY <2>1, Views DEF ToSet
<1>13. \A b \in held \cup Resolution!ToSet(Activations) : b.receiver \in kept
  BY <1>11, <1>12 DEF ToSet, Resolution!ToSet
<1>14. Declarations' = Declarations
  BY <1>1 DEF Declarations
<1>. HIDE DEF kept, held
<1>. QED
  BY <1>7, <1>8, <1>9, <1>10, <1>13, <1>14 DEF Resolution!Forget

-----------------------------------------------------------------------------
(* The theorem *)

LEMMA InitResolved ==
  ASSUME ClassesInit
  PROVE  Resolution!ResolutionInit
<1>1. objects = <<>> /\ declaring = "no" /\ declared = <<>> /\ call_frames_ = <<Frame(Nil, 1, Nil)>>
  BY DEF ClassesInit
<1>2. Declarations = <<>>
  BY <1>1 DEF Declarations
<1>3. Of("instance") = {} /\ Of("bound") = {}
  BY <1>1 DEF Of
<1>4. Instances = <<>> /\ Bounds = {}
  BY <1>3, Views
<1>5. Activations = <<>>
  <2>1. PICK S : S = 1 .. Len(call_frames_) - 1
    OBVIOUS
  <2>2. S = {}
    BY <1>1, <2>1
  <2>3. Activations = [i \in S |-> ActivationView(i + 1)]
    BY <2>1, Views
  <2>. QED
    BY <2>2, <2>3
<1>. QED
  BY <1>2, <1>4, <1>5 DEF Resolution!ResolutionInit

LEMMA StepResolved ==
  ASSUME ClassesIInv, TablesInv, [ClassesNext]_classesVars
  PROVE  Unseen \/ Resolution!ResolutionNext
<1>1. CASE PushNil \/ Pop \/ GetThis
  BY <1>1, ReadUnseen, PopUnseen
<1>2. ASSUME NEW x \in Variables, GetGlobal(x) \/ SetGlobal(x) \/ Inherit(x) \/ EndClass(x)
      PROVE  Unseen \/ Resolution!Declare \/ Resolution!End
  BY <1>2, GlobalUnseen, InheritUnseen, EndClassDeclares
<1>3. ASSUME NEW arity_matches \in BOOLEAN, Call(arity_matches)
      PROVE  Resolution!Construct \/ Resolution!Invoke \/ Resolution!End
  BY <1>3, CallResolved
<1>4. CASE BeginClass
  BY <1>4, BeginClassUnseen
<1>5. ASSUME NEW name \in Names, AddMethod(name) \/ GetProperty(name) \/ GetSuper(name)
      PROVE  Unseen \/ Resolution!Fetch \/ Resolution!FetchSuper \/ Resolution!End
  BY <1>5, AddMethodUnseen, GetPropertyResolved, GetSuperResolved
<1>6. ASSUME NEW name \in Fields, SetProperty(name)
      PROVE  Resolution!SetField \/ Resolution!End
  BY <1>6, SetPropertyResolved
<1>7. ASSUME Return
      PROVE  Resolution!Return
  BY <1>7, ReturnResolved
<1>8. ASSUME EndScript
      PROVE  Resolution!End
  BY <1>8, StopEnds DEF EndScript
<1>9. ASSUME CollectGarbage
      PROVE  Resolution!Forget
  BY <1>9, CollectGarbageForgets
<1>10. CASE UNCHANGED classesVars
  BY <1>10, StutterUnseen
<1>. QED
  BY <1>1, <1>2, <1>3, <1>4, <1>5, <1>6, <1>7, <1>8, <1>9, <1>10
  DEF ClassesNext, Resolution!ResolutionNext

(* Tables that are copied, slots and pointers do what lookup along the      *)
(* superclasses promises: which method a call reaches, what `this' is in    *)
(* it, where `super' starts, and that a field hides a method (vm.cpp:134-   *)
(* 155, 320-368, 395-413).                                                  *)
THEOREM ClassesImplementResolution == ClassesSpec => ImplementsMethodResolution
<1>1. ClassesInit => Resolution!ResolutionInit
  BY InitResolved
<1>2. ClassesIInv /\ TablesInv /\ [ClassesNext]_classesVars =>
        [Resolution!ResolutionNext]_(Resolution!resolutionVars)
  <2>1. Unseen => UNCHANGED Resolution!resolutionVars
    BY DEF Unseen, Resolution!resolutionVars
  <2>. QED
    BY <2>1, StepResolved
<1>. QED
  BY <1>1, <1>2, TablesInvariant, PTL
  DEF ClassesSpec, ImplementsMethodResolution, Resolution!ResolutionSpec
=============================================================================
