-------------------------- MODULE MethodResolution --------------------------
(***************************************************************************)
(* What classes promise, with no tables: a class has a superclass and      *)
(* methods of its own, a method is looked up along the superclasses, a     *)
(* method called on an object is the one of the object's class, a method   *)
(* called on `super' is the one of the superclass of the class whose       *)
(* method is running, and a field of an object hides a method of the name. *)
(***************************************************************************)
EXTENDS Integers, Sequences, SequencesExt

CONSTANTS Object, Names

VARIABLES
  classes,       \* in the order they were declared: [superclass, own]
  instances,     \* objects that exist: [class, fields], fields the names that are set
  bounds,        \* methods taken off an object: [receiver, method]
  activations    \* calls that run: [receiver, method]

resolutionVars == <<classes, instances, bounds, activations>>

NoClass == 0
Method(class, name) == [class |-> class, name |-> name]

(* The nearest class that declares the method, upwards from c. *)
Definer(c, name) ==
  LET definer[d \in 0 .. Len(classes)] ==
        IF d = NoClass \/ name \in classes[d].own THEN d
        ELSE definer[classes[d].superclass]
  IN  definer[c]
Understands(c, name) == Definer(c, name) # NoClass
Lookup(c, name) == Method(Definer(c, name), name)

Running(receiver, method) == [receiver |-> receiver, method |-> method]

ResolutionInit ==
  /\ classes = <<>>
  /\ instances = <<>>
  /\ bounds = {}
  /\ activations = <<>>

Declare ==
  /\ \E superclass \in 0 .. Len(classes), own \in SUBSET Names :
       classes' = Append(classes, [superclass |-> superclass, own |-> own])
  /\ UNCHANGED <<instances, bounds, activations>>

Construct ==
  /\ \E c \in DOMAIN classes, r \in Object \ DOMAIN instances :
       /\ instances' = [i \in DOMAIN instances \cup {r} |->
                          IF i = r THEN [class |-> c, fields |-> {}] ELSE instances[i]]
       /\ activations' = IF Understands(c, "init")
                         THEN Append(activations, Running(r, Lookup(c, "init")))
                         ELSE activations
  /\ UNCHANGED <<classes, bounds>>

SetField ==
  /\ \E r \in DOMAIN instances, name \in Names :
       instances' = [instances EXCEPT ![r].fields = @ \cup {name}]
  /\ UNCHANGED <<classes, bounds, activations>>

Fetch ==
  /\ \E r \in DOMAIN instances, name \in Names :
       /\ name \notin instances[r].fields
       /\ Understands(instances[r].class, name)
       /\ bounds' = bounds \cup {Running(r, Lookup(instances[r].class, name))}
  /\ UNCHANGED <<classes, instances, activations>>

FetchSuper ==
  /\ activations # <<>>
  /\ LET running == Last(activations)
         superclass == classes[running.method.class].superclass
     IN  \E name \in Names :
           /\ Understands(superclass, name)
           /\ bounds' = bounds \cup {Running(running.receiver, Lookup(superclass, name))}
  /\ UNCHANGED <<classes, instances, activations>>

Invoke ==
  /\ \E b \in bounds : activations' = Append(activations, b)
  /\ UNCHANGED <<classes, instances, bounds>>

Return ==
  /\ activations # <<>>
  /\ activations' = Front(activations)
  /\ UNCHANGED <<classes, instances, bounds>>

(* Objects and methods that nothing holds any more. *)
Forget ==
  /\ \E kept \in SUBSET DOMAIN instances, held \in SUBSET bounds :
       /\ \A b \in held \cup ToSet(activations) : b.receiver \in kept
       /\ instances' = [i \in kept |-> instances[i]]
       /\ bounds' = held
  /\ UNCHANGED <<classes, activations>>

(* The program ends, after a runtime error or not. *)
End ==
  /\ activations' = <<>> /\ instances' = <<>> /\ bounds' = {}
  /\ UNCHANGED classes

ResolutionNext ==
  \/ Declare \/ Construct \/ SetField \/ Fetch \/ FetchSuper \/ Invoke \/ Return \/ Forget \/ End
ResolutionSpec == ResolutionInit /\ [][ResolutionNext]_resolutionVars
=============================================================================
