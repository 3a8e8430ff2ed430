--------------------------- MODULE CompilerScopes ---------------------------
(***************************************************************************)
(* Name resolution in src/compiler.cpp: the tracked locals and tracked     *)
(* upvalues of the functions being compiled, and the instruction chosen    *)
(* for every use of a name.  The compiler is one pass of recursive         *)
(* descent; a step here is a piece of source that declares or uses a name, *)
(* or opens or closes a construct, and `nesting' is the descent's own call *)
(* stack.  What is not about names (operators, jumps, constants) is left   *)
(* out.  Indexes count from 1.                                             *)
(***************************************************************************)
EXTENDS Integers, Sequences, FiniteSets, FiniteSetsExt, SequencesExt

CONSTANTS
  Identifier,           \* names a program can use
  MaxFunctions,         \* bound: nested functions, the script included
  MaxLocals,            \* bound: tracked locals of one function
  MaxNesting,           \* bound: constructs open at a time
  ShadowInFunction      \* may a name be declared twice in one function, in
                        \* nested scopes?

ASSUME CompilerAssumption ==
  /\ {MaxFunctions, MaxLocals, MaxNesting} \subseteq Nat
  /\ ShadowInFunction \in BOOLEAN
  /\ {"this", "super", ""} \cap Identifier = {}

VARIABLES
  function_chunks,   \* tracked_locals and tracked_upvalues of each function
  scope_depth,
  nesting,           \* the constructs being compiled
  emitted,           \* the instructions on variables that the last step emitted
  status,            \* "error" after a std::runtime_error
  captured           \* history: captured variables, by position in Env

compilerVars == <<function_chunks, scope_depth, nesting, emitted, status, captured>>

Name == Identifier \cup {"this", "super", ""}

TrackedLocal ==
  [name : Name, depth : Nat, initialized : BOOLEAN, is_captured : BOOLEAN]

(* A variant: Upvalue_index (direct) of the enclosing function's locals, or *)
(* UpUpvalue_index of its upvalues.                                         *)
TrackedUpvalue == [direct : BOOLEAN, index : Nat]

(* `name' is what the construct declares when it ends; `from' is history:   *)
(* how many variables were in scope when it began.                          *)
Construct ==
  [kind : {"block", "var", "fun", "anonymous", "class", "subclass", "method"},
   name : Name, from : Nat]

(* Operations on a variable; `index' is the operand, or the local removed.  *)
Instruction ==
  [op : {"local", "upvalue", "global", "pop", "close_upvalue"}, index : Nat]

Back == function_chunks[Len(function_chunks)]

NewChunk == [tracked_locals |-> <<>>, tracked_upvalues |-> <<>>]

CompilerInit ==
  /\ function_chunks = <<NewChunk>>
  /\ scope_depth = 0
  /\ nesting = <<>>
  /\ emitted = <<>>
  /\ status = "compiling"
  /\ captured = {}

-----------------------------------------------------------------------------
(* The variables in scope, outermost first, and where a local is in it. *)

NamesOf(chunk) == [i \in DOMAIN chunk.tracked_locals |-> chunk.tracked_locals[i].name]
EnvOf(chunks) == FlattenSeq([k \in DOMAIN chunks |-> NamesOf(chunks[k])])
Env == EnvOf(function_chunks)

Position(chunks, k, i) == Len(EnvOf(SubSeq(chunks, 1, k - 1))) + i

-----------------------------------------------------------------------------
(* The helpers of Compiler *)

Local(n, depth, initialized) ==
  [name |-> n, depth |-> depth, initialized |-> initialized, is_captured |-> FALSE]

Redeclared(locals, n, depth) ==
  \E i \in DOMAIN locals : locals[i].name = n /\ locals[i].depth = depth

WithBack(chunks, chunk) == [chunks EXCEPT ![Len(chunks)] = chunk]

Track(chunks, local) ==
  [chunks EXCEPT ![Len(chunks)].tracked_locals = Append(@, local)]

(* Where the last function looks its own locals up: the latest first. *)
OwnLocal(n) == SelectLastInSeq(Back.tracked_locals, LAMBDA l : l.name = n)

(* Mutant: outermost function first. *)
EnclosingOutermost(n) ==
  SelectInSeq(SubSeq(function_chunks, 1, Len(function_chunks) - 1),
    LAMBDA chunk : \E i \in DOMAIN chunk.tracked_locals : chunk.tracked_locals[i].name = n)

(* Where it looks those of the functions around it up: innermost function   *)
(* first, and in it the earliest local first.                               *)
Enclosing(n) ==
  SelectLastInSeq(SubSeq(function_chunks, 1, Len(function_chunks) - 1),
    LAMBDA chunk : \E i \in DOMAIN chunk.tracked_locals : chunk.tracked_locals[i].name = n)
EnclosingLocal(n) ==
  SelectInSeq(function_chunks[Enclosing(n)].tracked_locals, LAMBDA l : l.name = n)

(* Mutants: an index one too low; the tracked upvalues are not searched. *)
TrackOneUpvalueOffByOne(found, k) ==
  LET upvalue == [direct |-> found.direct, index |-> found.index]
      known == found.chunks[k].tracked_upvalues
  IN  [direct |-> FALSE, index |-> Len(known),
       chunks |-> [found.chunks EXCEPT ![k].tracked_upvalues = Append(@, upvalue)]]
TrackOneUpvalueAnew(found, k) ==
  LET upvalue == [direct |-> found.direct, index |-> found.index]
      known == found.chunks[k].tracked_upvalues
  IN  [direct |-> FALSE, index |-> Len(known) + 1,
       chunks |-> [found.chunks EXCEPT ![k].tracked_upvalues = Append(@, upvalue)]]

(* Find an upvalue in the k-th function's tracked upvalues, or add it. *)
TrackOneUpvalue(found, k) ==
  LET upvalue == [direct |-> found.direct, index |-> found.index]
      known == found.chunks[k].tracked_upvalues
  IN  IF Contains(known, upvalue)
      THEN [found EXCEPT !.direct = FALSE, !.index = Min({j \in DOMAIN known : known[j] = upvalue})]
      ELSE [direct |-> FALSE, index |-> Len(known) + 1,
            chunks |-> [found.chunks EXCEPT ![k].tracked_upvalues = Append(@, upvalue)]]

(* Mutant: is_captured is not set. *)
TrackUpvalueUnmarked(n) ==
  LET e == Enclosing(n)
      tracked[k \in e .. Len(function_chunks)] ==
        IF k = e THEN [direct |-> TRUE, index |-> EnclosingLocal(n), chunks |-> function_chunks]
        ELSE TrackOneUpvalue(tracked[k - 1], k)
  IN  tracked[Len(function_chunks)]

(* track_upvalue of a name that an enclosing function declares: from that   *)
(* function in, one upvalue in each.                                        *)
TrackUpvalue(n) ==
  LET e == Enclosing(n)
      i == EnclosingLocal(n)
      tracked[k \in e .. Len(function_chunks)] ==
        IF k = e
        THEN [direct |-> TRUE, index |-> i,
              chunks |-> [function_chunks EXCEPT ![e].tracked_locals[i].is_captured = TRUE]]
        ELSE TrackOneUpvalue(tracked[k - 1], k)
  IN  tracked[Len(function_chunks)]

(* emit_getter_setter; the error is of a local read in its own initializer. *)
Access(n) ==
  IF OwnLocal(n) # 0
  THEN [chunks |-> function_chunks, op |-> "local", index |-> OwnLocal(n),
        failed |-> ~Back.tracked_locals[OwnLocal(n)].initialized]
  ELSE IF Enclosing(n) # 0
  THEN [chunks |-> TrackUpvalue(n).chunks, op |-> "upvalue",
        index |-> TrackUpvalue(n).index, failed |-> FALSE]
  ELSE [chunks |-> function_chunks, op |-> "global", index |-> 0, failed |-> FALSE]

Instructions(access) == <<[op |-> access.op, index |-> access.index]>>

(* pop_top_scope_depth: the locals it leaves, and what it emits. *)
Staying(locals) ==
  LET last == SelectLastInSeq(locals, LAMBDA l : l.depth # scope_depth)
  IN  SubSeq(locals, 1, last)
Popping(locals) ==
  [j \in 1 .. Len(locals) - Len(Staying(locals)) |->
     LET i == Len(locals) - j + 1
     IN  [op |-> IF locals[i].is_captured THEN "close_upvalue" ELSE "pop", index |-> i]]

-----------------------------------------------------------------------------
(* Where the descent is, and how it goes down and up. *)

Compiling == status = "compiling"
Inside == IF nesting = <<>> THEN "script" ELSE nesting[Len(nesting)].kind
AtStatement == Compiling /\ Inside \notin {"var", "class", "subclass"}
AtExpression == Compiling /\ Inside \notin {"class", "subclass"}

Enter(kind, n) ==
  /\ Len(nesting) < MaxNesting
  /\ nesting' = Append(nesting, [kind |-> kind, name |-> n, from |-> Len(Env)])
LeaveConstruct == nesting' = Front(nesting)

Throw ==
  /\ status' = "error"
  /\ emitted' = <<>>
  /\ UNCHANGED <<function_chunks, scope_depth, nesting, captured>>

Room(ns) ==
  /\ Len(Back.tracked_locals) + Len(ns) <= MaxLocals
  /\ ShadowInFunction \/ \A n \in ToSet(ns) : ~Contains(NamesOf(Back), n)

-----------------------------------------------------------------------------
(* Statements and expressions *)

(* A use of a name, read or assigned. *)
UseName(n) ==
  LET access == Access(n)
  IN  /\ AtExpression
      /\ IF access.failed THEN Throw
         ELSE /\ function_chunks' = access.chunks
              /\ emitted' = Instructions(access)
              /\ UNCHANGED <<scope_depth, nesting, status, captured>>

(* A block, and the scope of a for statement. *)
BeginBlock ==
  /\ AtStatement
  /\ Enter("block", "")
  /\ scope_depth' = scope_depth + 1
  /\ emitted' = <<>>
  /\ UNCHANGED <<function_chunks, status, captured>>

EndBlock ==
  /\ Compiling
  /\ Inside = "block"
  /\ LeaveConstruct
  /\ function_chunks' =
       WithBack(function_chunks, [Back EXCEPT !.tracked_locals = Staying(@)])
  /\ emitted' = Popping(Back.tracked_locals)
  /\ scope_depth' = scope_depth - 1
  /\ captured' = captured \cap 1 .. Len(EnvOf(function_chunks'))
  /\ UNCHANGED status

(* `var n = e;': n is tracked before e is compiled, uninitialized. *)
BeginVar(n) ==
  /\ AtStatement
  /\ IF scope_depth > 0 /\ Redeclared(Back.tracked_locals, n, scope_depth) THEN Throw
     ELSE /\ Enter("var", n)
          /\ scope_depth > 0 => Room(<<n>>)
          /\ function_chunks' =
               IF scope_depth > 0 THEN Track(function_chunks, Local(n, scope_depth, FALSE))
               ELSE function_chunks
          /\ emitted' = <<>>
          /\ UNCHANGED <<scope_depth, status, captured>>

EndVar ==
  /\ Compiling
  /\ Inside = "var"
  /\ LeaveConstruct
  /\ function_chunks' =
       IF scope_depth = 0 THEN function_chunks
       ELSE [function_chunks EXCEPT
               ![Len(function_chunks)].tracked_locals[Len(Back.tracked_locals)].initialized = TRUE]
  /\ emitted' = <<>>
  /\ UNCHANGED <<scope_depth, status, captured>>

-----------------------------------------------------------------------------
(* Functions: a chunk of their own, one scope for slot 0, parameters, body. *)

BeginFunction(kind, n, slot0, params) ==
  LET names == slot0 \o params
  IN  IF ~IsInjective(names) THEN Throw
      ELSE /\ Enter(kind, n)
           /\ Len(function_chunks) < MaxFunctions
           /\ Len(names) <= MaxLocals
           /\ function_chunks' = Append(function_chunks,
                [NewChunk EXCEPT !.tracked_locals =
                   [i \in DOMAIN names |-> Local(names[i], scope_depth + 1, TRUE)]])
           /\ scope_depth' = scope_depth + 1
           /\ emitted' = <<>>
           /\ UNCHANGED <<status, captured>>

(* The enclosing chunk gets the closure instruction; the finished function  *)
(* captures what its direct upvalues name.                                  *)
CapturedByBack ==
  {Position(function_chunks, Len(function_chunks) - 1, u.index) :
     u \in {v \in ToSet(Back.tracked_upvalues) : v.direct}}

EndFunction(kind, declared) ==
  LET enclosing == Front(function_chunks)
      locals == Last(enclosing).tracked_locals
      depth == scope_depth - 1
      tracked == IF depth = 0 THEN <<>> ELSE declared
  IN  /\ Compiling
      /\ Inside = kind
      /\ IF tracked # <<>> /\ Redeclared(locals, tracked[1], depth) THEN Throw
         ELSE /\ Len(locals) + Len(tracked) <= MaxLocals
              /\ ShadowInFunction \/ \A n \in ToSet(tracked) : ~Contains(NamesOf(Last(enclosing)), n)
              /\ LeaveConstruct
              /\ function_chunks' =
                   IF tracked = <<>> THEN enclosing
                   ELSE Track(enclosing, Local(tracked[1], depth, TRUE))
              /\ scope_depth' = depth
              /\ captured' = (captured \cup CapturedByBack) \cap 1 .. Len(EnvOf(enclosing))
              /\ emitted' = <<>>
              /\ UNCHANGED status

BeginNamed(n, params) == AtStatement /\ BeginFunction("fun", n, <<n>>, params)
EndNamed == EndFunction("fun", <<nesting[Len(nesting)].name>>)

BeginAnonymous(params) == AtExpression /\ BeginFunction("anonymous", "", <<>>, params)
EndAnonymous == EndFunction("anonymous", <<>>)

-----------------------------------------------------------------------------
(* Classes *)

BeginClass(n) ==
  /\ AtStatement
  /\ IF scope_depth > 0 /\ Redeclared(Back.tracked_locals, n, scope_depth) THEN Throw
     ELSE /\ Enter("class", n)
          /\ scope_depth > 0 => Room(<<n>>)
          /\ function_chunks' =
               IF scope_depth > 0 THEN Track(function_chunks, Local(n, scope_depth, TRUE))
               ELSE function_chunks
          /\ emitted' = <<>>
          /\ UNCHANGED <<scope_depth, status, captured>>

(* `< n': a placeholder for the class where it is not a local, then `super' *)
(* in a scope of its own.                                                   *)
Superclass(n) ==
  LET placeholder == IF scope_depth = 0 THEN <<Local("", 0, TRUE)>> ELSE <<>>
      access == Access(n)
      added == placeholder \o <<Local("super", scope_depth + 1, TRUE)>>
  IN  /\ Compiling
      /\ Inside = "class"
      /\ IF n = nesting[Len(nesting)].name \/ access.failed THEN Throw
         ELSE /\ Room(NamesOf([tracked_locals |-> added]))
              /\ nesting' = [nesting EXCEPT ![Len(nesting)] =
                   [@ EXCEPT !.kind = "subclass", !.from = Len(Env)]]
              /\ function_chunks' = [access.chunks EXCEPT
                   ![Len(function_chunks)].tracked_locals = @ \o added]
              /\ scope_depth' = scope_depth + 1
              /\ emitted' = Instructions(access)
              /\ UNCHANGED <<status, captured>>

BeginMethod(params) ==
  /\ Compiling
  /\ Inside \in {"class", "subclass"}
  /\ BeginFunction("method", "", <<"this">>, params)
EndMethod == EndFunction("method", <<>>)

EndClass ==
  /\ Compiling
  /\ Inside = "class"
  /\ LeaveConstruct
  /\ emitted' = <<>>
  /\ UNCHANGED <<function_chunks, scope_depth, status, captured>>

EndSubclass ==
  LET staying == Staying(Back.tracked_locals)
  IN  /\ Compiling
      /\ Inside = "subclass"
      /\ LeaveConstruct
      /\ function_chunks' = WithBack(function_chunks,
           [Back EXCEPT !.tracked_locals = IF scope_depth = 1 THEN Front(staying) ELSE staying])
      /\ emitted' = Popping(Back.tracked_locals)
      /\ scope_depth' = scope_depth - 1
      /\ captured' = captured \cap 1 .. Len(EnvOf(function_chunks'))
      /\ UNCHANGED status

Params == {<<>>} \cup [1..1 -> Identifier]

CompilerNext ==
  \/ \E n \in Name \ {""} : UseName(n)
  \/ BeginBlock \/ EndBlock
  \/ \E n \in Identifier : BeginVar(n)
  \/ EndVar
  \/ \E n \in Identifier, params \in Params : BeginNamed(n, params)
  \/ EndNamed
  \/ \E params \in Params : BeginAnonymous(params)
  \/ EndAnonymous
  \/ \E n \in Identifier : BeginClass(n)
  \/ \E n \in Identifier : Superclass(n)
  \/ \E params \in Params : BeginMethod(params)
  \/ EndMethod \/ EndClass \/ EndSubclass

CompilerSpec == CompilerInit /\ [][CompilerNext]_compilerVars

-----------------------------------------------------------------------------
(* What an instruction reaches at run time: the locals are slots, and an    *)
(* upvalue of a function is a local or an upvalue of the function around it. *)

Functions == DOMAIN function_chunks

MeaningOf(chunks) ==
  LET means[k \in DOMAIN chunks] ==
        [j \in DOMAIN chunks[k].tracked_upvalues |->
           LET u == chunks[k].tracked_upvalues[j]
           IN  IF u.direct THEN Position(chunks, k - 1, u.index) ELSE means[k - 1][u.index]]
  IN  means
UpvalueMeans == MeaningOf(function_chunks)

Accessed ==
  LET top == Len(function_chunks)
      reach(i) == CASE i.op = "local" -> Position(function_chunks, top, i.index)
                    [] i.op = "upvalue" -> UpvalueMeans[top][i.index]
                    [] OTHER -> 0
  IN  IF emitted = <<>> THEN 0 ELSE reach(emitted[1])

(* The type invariant.  Every tracked upvalue names an entry that exists in *)
(* the function around it, and only the functions have upvalues.            *)
CompilerTypeOK ==
  /\ \A k \in Functions :
       /\ function_chunks[k].tracked_locals \in Seq(TrackedLocal)
       /\ function_chunks[k].tracked_upvalues \in Seq(TrackedUpvalue)
       /\ \A u \in ToSet(function_chunks[k].tracked_upvalues) :
            /\ k > 1
            /\ u.index \in IF u.direct THEN DOMAIN function_chunks[k - 1].tracked_locals
                           ELSE DOMAIN function_chunks[k - 1].tracked_upvalues
  /\ scope_depth \in Nat
  /\ nesting \in Seq(Construct)
  /\ emitted \in Seq(Instruction)
  /\ status \in {"compiling", "error"}
  /\ captured \subseteq DOMAIN Env

(* The compiler implements lexical scoping: every instruction it emits for  *)
(* a name reaches, through the chain of upvalues, the innermost variable of *)
(* that name, and a scope that ends removes its own locals and no others    *)
(* (compiler.cpp:85-128, 146-228).                                          *)
ScopesOf(constructs) ==
  FlattenSeq([i \in DOMAIN constructs |->
    IF constructs[i].kind \in {"var", "class"} THEN <<>> ELSE <<constructs[i]>>])
OpenScopes == ScopesOf(nesting)

Scoping == INSTANCE LexicalScopes
  WITH env <- Env, marks <- [i \in DOMAIN OpenScopes |-> OpenScopes[i].from],
       used <- Accessed

ImplementsLexicalScopes == Scoping!LexicalSpec

(* The same claim for one instruction: it reaches the variable that the     *)
(* name was declared as, "depending on where identifier was declared"       *)
(* (compiler.cpp:116), also when a function declares the name twice.        *)
UsesInnermost ==
  [][\A n \in Name \ {""} :
       UseName(n) /\ status' = "compiling" => Accessed' = Scoping!Innermost(n)]_compilerVars

(* A function has one upvalue for a variable, however it is reached, so two *)
(* uses of the variable in it cannot part (compiler.cpp:183-199, 204-220).  *)
OneUpvaluePerVariable ==
  \A k \in Functions : IsInjective(UpvalueMeans[k])

(* A local that some function captured does not leave its scope with a pop: *)
(* the block that declared it ends with close_upvalue, whichever function   *)
(* captured it and however many others did (compiler.cpp:128-139, 178).     *)
CapturedAreClosed ==
  [][\A k \in Functions \cap DOMAIN function_chunks' :
       \A i \in DOMAIN function_chunks[k].tracked_locals :
         Position(function_chunks, k, i) \in captured
           /\ i \notin DOMAIN function_chunks'[k].tracked_locals
         => [op |-> "close_upvalue", index |-> i] \in ToSet(emitted')]_compilerVars
=============================================================================
