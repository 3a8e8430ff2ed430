---------------------------- MODULE LexicalScopes ----------------------------
(***************************************************************************)
(* Lexical scoping with no functions, slots or upvalues: a variable is a   *)
(* declaration, a name means the innermost declaration of it in force, and *)
(* a scope that ends takes its own declarations with it and no others.     *)
(* This is what the compiler promises by emitting its instruction          *)
(* "depending on where identifier was declared" (compiler.cpp:116).        *)
(***************************************************************************)
EXTENDS Naturals, Sequences, FiniteSets, FiniteSetsExt

CONSTANT Name

VARIABLES
  env,      \* the names declared and still in force, outermost first
  marks,    \* Len(env) at the start of every scope that is open
  used      \* the declaration that the last step accesses, 0 when it is a
            \* global variable or the step accesses nothing

lexicalVars == <<env, marks, used>>

LexicalInit ==
  /\ env = <<>>
  /\ marks = <<>>
  /\ used = 0

Innermost(n) == Max({p \in DOMAIN env : env[p] = n} \cup {0})

Scope == IF marks = <<>> THEN {} ELSE marks[Len(marks)] + 1 .. Len(env)

Declare(n) ==
  /\ marks # <<>>
  /\ \A p \in Scope : env[p] # n
  /\ env' = Append(env, n)
  /\ used' = 0
  /\ UNCHANGED marks

Use(n) ==
  /\ used' = Innermost(n)
  /\ UNCHANGED <<env, marks>>

(* A scope begins with the declarations it makes by itself; the superclass *)
(* of a class is used outside of the scope of `super'.                     *)
Open(ns) ==
  /\ marks' = Append(marks, Len(env))
  /\ env' = env \o ns
  /\ used' = 0

OpenUsing(n, ns) ==
  /\ marks' = Append(marks, Len(env))
  /\ env' = env \o ns
  /\ used' = Innermost(n)

(* A function's scope ends, and the function may be a declaration itself. *)
Close(ns) ==
  /\ marks # <<>>
  /\ marks' = SubSeq(marks, 1, Len(marks) - 1)
  /\ env' = SubSeq(env, 1, marks[Len(marks)]) \o ns
  /\ used' = 0
  /\ ns # <<>> => marks' # <<>> /\ \A p \in marks'[Len(marks')] + 1 .. Len(env) :
                    p <= marks[Len(marks)] => env[p] # ns[1]

Rest ==
  /\ used' = 0
  /\ UNCHANGED <<env, marks>>

Names == UNION {[1..k -> Name] : k \in 0..2}

LexicalNext ==
  \/ \E n \in Name : Declare(n) \/ Use(n)
  \/ \E ns \in Names : Open(ns)
  \/ \E n \in Name, ns \in Names : OpenUsing(n, ns)
  \/ \E ns \in {<<>>} \cup [1..1 -> Name] : Close(ns)
  \/ Rest

LexicalSpec == LexicalInit /\ [][LexicalNext]_lexicalVars
=============================================================================
