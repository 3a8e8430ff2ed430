---------------------------- MODULE ControlFlow ----------------------------
(***************************************************************************)
(* The single pass from text to bytecode of src/compiler.cpp, for the      *)
(* operators and the statements of one unit of code (a script, a function  *)
(* or an initializer), and the loop of src/vm.cpp that runs the bytecode.  *)
(*                                                                         *)
(* Each compile function is a step at its beginning and a step wherever it *)
(* goes on after a compile function it called; `nesting' is the stack of   *)
(* the functions that are waiting.  The text is chosen as it is read: only *)
(* the tokens a position admits are offered, CompileError stands for any   *)
(* other one.  `source' keeps the tokens that mean something; semicolons,  *)
(* braces and parentheses of statements are not kept.                      *)
(*                                                                         *)
(* Names are globals and locals are never read: which variable a name      *)
(* stands for is the subject of CompilerScopes.  A value is its truth.     *)
(***************************************************************************)
EXTENDS Chunk, FiniteSets, SyntaxNodes

CONSTANTS
  Units,   \* the units to compile, and bounds on their text, see FlowAssumption
  Names    \* the identifiers of the text

(* kind: a script, a function or an initializer.  The bounds are: tokens,   *)
(* the kinds of tokens and statements; operators, the binary operators;     *)
(* max_tokens; max_operators, the tokens that are no operands and no        *)
(* statements; max_list, the statements of a block or of the unit;          *)
(* max_fields, the fields of an assignment's target.                        *)
ASSUME FlowAssumption ==
  /\ "none" \notin Names
  /\ \A u \in Units :
       /\ u.kind \in {"script", "function", "init"}
       /\ u.operators \subseteq
            {"or", "and", "equal_equal", "bang_equal", "less", "less_equal", "greater",
             "greater_equal", "plus", "minus", "star", "slash"}
       /\ {u.max_tokens, u.max_operators, u.max_list} \subseteq Nat
       /\ u.max_fields \in 1..2

VARIABLES
  unit,            \* what is compiled, one of Units
  chunk,           \* its code
  tracked_locals,  \* the scope depth of each tracked local
  scope_depth,
  nesting,         \* the compile functions that are waiting, the innermost last
  expects,         \* what comes next: see Expect
  status,          \* "compiling", "running", "over" or "failed"
  source,          \* the tokens read
  heights,         \* a record: <<size of the bytecode, tracked locals>> at statements
  pc, stack_       \* bytecode_iter, and the stack from stack_begin_index on

scopes == <<tracked_locals, scope_depth>>
machine == <<pc, stack_>>
flowVars ==
  <<unit, chunk, scopes, nesting, expects, status, source, heights, machine>>

-----------------------------------------------------------------------------
(* Tokens and operators *)

Token(kind, lexeme) == [kind |-> kind, lexeme |-> lexeme]
Here == Len(source) + 1
OperatorKind == {"unary", "left_paren", "set", "put", "binary", "property", "call", "comma"}
Operators(tokens) == Cardinality({i \in DOMAIN tokens : tokens[i].kind \in OperatorKind})
Read(tokens) ==
  /\ source' = source \o tokens
  /\ \A i \in DOMAIN tokens : tokens[i].kind \in unit.tokens
  /\ Len(source') <= unit.max_tokens /\ Operators(source') <= unit.max_operators

OperandTokens ==
  [kind : {"identifier"}, lexeme : Names] \cup
  [kind : {"number", "fun", "nil", "true", "false"}, lexeme : {"none"}]

(* A constant: a number, a string (a name is one), a new function. *)
Number == [type |-> "number", text |-> "none", token |-> 0]
Name(name) == [type |-> "string", text |-> name, token |-> 0]
NewFunction(token) == [type |-> "function", text |-> "none", token |-> token]

AssignmentLevel == 0
UnaryLevel == 7
CallLevel == 8
Level ==
  [or |-> 1, and |-> 2, equal_equal |-> 3, bang_equal |-> 3,
   less |-> 4, less_equal |-> 4, greater |-> 4, greater_equal |-> 4,
   plus |-> 5, minus |-> 5, star |-> 6, slash |-> 6]

Instructions ==
  [equal_equal |-> <<"equal">>, bang_equal |-> <<"equal", "not_">>,
   less |-> <<"less">>, less_equal |-> <<"greater", "not_">>,
   greater |-> <<"greater">>, greater_equal |-> <<"less", "not_">>,
   plus |-> <<"add">>, minus |-> <<"subtract">>, star |-> <<"multiply">>, slash |-> <<"divide">>]

EmitOperand(c, t, token) ==
  CASE t.kind = "number" -> EmitConstant(c, "constant", Number, token)
    [] t.kind = "identifier" -> EmitConstant(c, "get_global", Name(t.lexeme), token)
    [] t.kind = "fun" -> EmitClosure(c, NewFunction(token), <<>>, token)
    [] t.kind = "nil" -> EmitPlain(c, "nil", token)
    [] t.kind = "true" -> EmitPlain(c, "true_", token)
    [] t.kind = "false" -> EmitPlain(c, "false_", token)

(* emit_setter; or emit_getter, the properties on the way and set_property. *)
EmitAssignment(c, names, token) ==
  LET getter == EmitConstant(c, "get_global", Name(names[1]), token)
      middle == IF Len(names) = 2 THEN getter
                ELSE EmitConstant(getter, "get_property", Name(names[2]), token + 1)
  IN  IF Len(names) = 1 THEN EmitConstant(c, "set_global", Name(names[1]), token)
      ELSE EmitConstant(middle, "set_property", Name(names[Len(names)]), token + Len(names) - 1)

(* What is emitted after the right operand of a pending operator. *)
EmitOperator(c, k) ==
  CASE k.kind = "unary" -> EmitPlain(c, IF k.names[1] = "minus" THEN "negate" ELSE "not_", k.token)
    [] k.kind = "logical" -> ToNextOpcode(c, k.jumps[1])
    [] k.kind = "binary" ->
         LET opcodes == Instructions[k.names[1]]
         IN  Emit(c, [i \in DOMAIN opcodes |-> Op(opcodes[i])], k.token)
    [] k.kind = "assignment" -> EmitAssignment(c, k.names, k.token)

(* A default return value: `this' in an initializer. *)
EmitNothing(c, token) ==
  IF unit.kind = "init" THEN EmitIndex(c, "get_local", 0, token) ELSE EmitPlain(c, "nil", token)
Nothing == IF unit.kind = "init" THEN "get_local" ELSE "nil"

-----------------------------------------------------------------------------
(* Steps of the compiler *)

(* A waiting function: what it compiles, its level when it is an operator,  *)
(* its token, the first token of the part it waits for, the parts it has,   *)
(* the lexemes it read (an operator, a name, fields), its jumps to patch,   *)
(* the beginnings to loop to, its arguments so far.                         *)
Waiting(kind, level, token, from) ==
  [kind |-> kind, level |-> level, token |-> token, from |-> from, parts |-> <<>>,
   names |-> <<>>, jumps |-> <<>>, begins |-> <<>>, count |-> 0]
WaitingOperator(kind, level, names) ==
  [Waiting(kind, level, Here, Here) EXCEPT !.names = names]

Top == nesting[Len(nesting)]
Below == SubSeq(nesting, 1, Len(nesting) - 1)
Push(k) == nesting' = Append(nesting, k)
Replace(k) == nesting' = Append(Below, k)
Phase == Len(Top.parts) + 1

(* "statement", "operand", "operator", or "done" when a statement returns   *)
(* to the if or the loop it is part of.  After an operand, `reach' is the   *)
(* level of the tightest operator that may follow it, and `callee' the      *)
(* token a call of it is reported at: 0 when it is itself the result of a   *)
(* call, which is not called in this model (the two calls have one token).  *)
Expect(what) == expects' = [what |-> what, reach |-> 0, callee |-> 0]
ExpectOperator(reach, callee) ==
  expects' = [what |-> "operator", reach |-> reach, callee |-> callee]

Compiling(what) == status = "compiling" /\ expects.what = what

(* Nothing was narrowed in vain: otherwise the compiler unwinds, see        *)
(* CompileError.                                                            *)
Emitted(c) == ~c.narrowing_error /\ chunk' = c /\ UNCHANGED status

KeepsCode == UNCHANGED <<chunk, status>>

(* compile_primary_expression, but for groups, `this' and `super'. *)
Operand ==
  /\ Compiling("operand")
  /\ \E t \in OperandTokens : Read(<<t>>) /\ Emitted(EmitOperand(chunk, t, Here))
  /\ ExpectOperator(CallLevel, Here)
  /\ UNCHANGED <<unit, nesting, scopes, heights, machine>>

Prefix ==
  /\ Compiling("operand")
  /\ \/ \E lexeme \in {"minus", "bang"} :
          /\ Read(<<Token("unary", lexeme)>>)
          /\ Push(WaitingOperator("unary", UnaryLevel, <<lexeme>>))
     \/ Read(<<Token("left_paren", "none")>>) /\ Push(Waiting("group", -1, Here, Here))
  /\ UNCHANGED <<unit, chunk, scopes, expects, status, heights, machine>>

(* compile_assignment_precedence_expression, when its peek finds a target. *)
Assignment ==
  /\ Compiling("operand") /\ Top.level <= AssignmentLevel
  /\ \/ \E name \in Names :
          /\ Read(<<Token("set", name)>>)
          /\ Push(WaitingOperator("assignment", AssignmentLevel, <<name>>))
     \/ \E fields \in 1..unit.max_fields, name, field \in Names :
          /\ Read(<<Token("put", name)>> \o [i \in 1..fields |-> Token("field", field)])
          /\ Push(WaitingOperator("assignment", AssignmentLevel,
                                  <<name>> \o [i \in 1..fields |-> field]))
  /\ UNCHANGED <<unit, chunk, scopes, expects, status, heights, machine>>

(* A loop of one of the binary precedence functions goes round.             *)
BinaryOperator ==
  /\ Compiling("operator")
  /\ \E lexeme \in unit.operators :
       LET level == Level[lexeme]
           tested == EmitJump(chunk, "jump_if_false", Here)
           skipped == EmitJump(tested, "jump", Here)
           operator(kind) == WaitingOperator(kind, level, <<lexeme>>)
       IN  /\ Top.level < level /\ level <= expects.reach
           /\ Read(<<Token("binary", lexeme)>>)
           /\ CASE lexeme = "and" ->
                     /\ Emitted(EmitPlain(tested, "pop", Here))
                     /\ Push([operator("logical") EXCEPT !.jumps = <<Size(tested)>>])
                [] lexeme = "or" ->
                     /\ Emitted(EmitPlain(ToNextOpcode(skipped, Size(tested)), "pop", Here))
                     /\ Push([operator("logical") EXCEPT !.jumps = <<Size(skipped)>>])
                [] lexeme \notin {"and", "or"} -> KeepsCode /\ Push(operator("binary"))
  /\ Expect("operand")
  /\ UNCHANGED <<unit, scopes, heights, machine>>

(* The right operand returns to the operator, which is then an operand of a *)
(* function of a lower level: no tighter operator can follow.               *)
FinishOperator ==
  /\ Compiling("operator") /\ Top.level >= 0
  /\ Emitted(EmitOperator(chunk, Top))
  /\ nesting' = Below
  /\ ExpectOperator(Top.level, expects.callee)
  /\ UNCHANGED <<unit, scopes, source, heights, machine>>

(* compile_call_precedence_expression. *)
AccessProperty ==
  /\ Compiling("operator") /\ expects.reach = CallLevel
  /\ \E name \in Names :
       /\ Read(<<Token("property", name)>>)
       /\ Emitted(EmitConstant(chunk, "get_property", Name(name), Here))
  /\ ExpectOperator(CallLevel, Here)
  /\ UNCHANGED <<unit, nesting, scopes, heights, machine>>

OpenCall ==
  /\ Compiling("operator") /\ expects.reach = CallLevel /\ expects.callee # 0
  /\ \/ /\ Read(<<Token("call", "none"), Token("right_paren", "none")>>)
        /\ Emitted(EmitIndex(chunk, "call", 0, expects.callee))
        /\ ExpectOperator(CallLevel, 0)
        /\ UNCHANGED nesting
     \/ /\ Read(<<Token("call", "none")>>)
        /\ Push([Waiting("call", -1, expects.callee, Here) EXCEPT !.count = 1])
        /\ Expect("operand")
        /\ KeepsCode
  /\ UNCHANGED <<unit, scopes, heights, machine>>

NextArgument ==
  /\ Compiling("operator") /\ Top.kind = "call"
  /\ Read(<<Token("comma", "none")>>)
  /\ Replace([Top EXCEPT !.count = @ + 1])
  /\ Expect("operand")
  /\ KeepsCode /\ UNCHANGED <<unit, scopes, heights, machine>>

CloseParenthesis ==
  /\ Compiling("operator") /\ Top.kind \in {"call", "group"}
  /\ Read(<<Token("right_paren", "none")>>)
  /\ nesting' = Below
  /\ IF Top.kind = "call"
     THEN /\ Emitted(EmitIndex(chunk, "call", Top.count, Top.token))
          /\ ExpectOperator(CallLevel, 0)
     ELSE /\ KeepsCode
          /\ ExpectOperator(CallLevel, Top.token)
  /\ UNCHANGED <<unit, scopes, heights, machine>>

-----------------------------------------------------------------------------
(* Statements and declarations *)

AtList == Top.kind \in {"unit", "block"}
AtInitializer == Top.kind = "for" /\ Phase = 1

(* Where the grammar admits this kind of statement or declaration. *)
May(kind) ==
  /\ Compiling("statement") /\ kind \in unit.tokens
  /\ CASE AtList -> Len(Top.parts) < unit.max_list
       [] AtInitializer -> kind \in {"expression", "var"}
       [] OTHER -> kind \notin {"var", "function"}

NoteHeight == heights' = heights \cup {<<Size(chunk), Len(tracked_locals)>>}

(* track_local; a local has a name of its own. *)
Track == IF scope_depth > 0 THEN tracked_locals' = Append(tracked_locals, scope_depth)
         ELSE UNCHANGED tracked_locals

(* Nothing holds the text or the code any more. *)
Forgotten ==
  /\ chunk' = EmptyChunk
  /\ tracked_locals' = <<>> /\ scope_depth' = 0
  /\ nesting' = <<Waiting("unit", -1, 0, 1)>> /\ Expect("statement")
  /\ source' = <<>> /\ heights' = {}

(* A statement is over, and its node is a part of the one it belongs to.    *)
(* After its initializer a for takes down where its condition begins.       *)
Resumed(owner, node) ==
  LET part == [owner EXCEPT !.parts = Append(@, node)]
  IN  IF owner.kind = "for" /\ owner.parts = <<>>
      THEN [part EXCEPT !.from = Len(source') + 1, !.begins = <<Size(chunk')>>]
      ELSE part
(* Mutant: an if or a loop takes the next statement for a part of it. *)
ResumeList(owner) ==
  Expect(IF owner.kind = "for" /\ owner.parts = <<>> THEN "operand" ELSE "statement")

Resume(owner) ==
  Expect(CASE owner.kind \in {"unit", "block"} -> "statement"
           [] owner.kind = "for" /\ owner.parts = <<>> -> "operand"
           [] OTHER -> "done")
Owner == nesting[Len(nesting) - 1]
Complete(node) ==
  /\ nesting' = Append(SubSeq(nesting, 1, Len(nesting) - 2), Resumed(Owner, node))
  /\ Resume(Owner)
Add(node) == Replace(Resumed(Top, node)) /\ Resume(Top)   \* for a statement read in one step

(* An expression statement, a print, a return of a value, a variable with   *)
(* an initializer, an if or a while: an expression comes first.             *)
BeginWithExpression ==
  /\ \E kind \in {"expression", "print", "return", "var", "if", "while"},
        name \in Names \cup {"none"} :
       LET tokens == IF kind = "expression" THEN <<>> ELSE <<Token(kind, name)>>
       IN  /\ (kind = "var") = (name # "none")
           /\ May(kind) /\ (kind = "return" => unit.kind = "function")
           /\ Read(tokens)
           /\ Push([Waiting(kind, -1, Here, Here + Len(tokens)) EXCEPT
                      !.names = <<name>>,
                      !.begins = IF kind = "while" THEN <<Size(chunk)>> ELSE <<>>])
           /\ IF kind = "var" THEN Track ELSE UNCHANGED tracked_locals
  /\ Expect("operand") /\ NoteHeight
  /\ UNCHANGED <<unit, chunk, scope_depth, status, machine>>

(* The end of an expression statement, a print, a return or a variable. *)
EndWithExpression ==
  LET ending == CASE Top.kind = "expression" -> "pop"
                  [] Top.kind = "print" -> "print"
                  [] Top.kind = "return" -> "return_"
                  [] Top.kind = "var" -> "define_global"
      tail == IF ending = "pop" \/ (Top.kind = "var" /\ scope_depth > 0) THEN <<>> ELSE <<ending>>
  IN  /\ Compiling("operator") /\ Top.kind \in {"expression", "print", "return", "var"}
      /\ CASE Top.kind # "var" -> Emitted(EmitPlain(chunk, ending, Top.token))
           [] Top.kind = "var" /\ scope_depth = 0 ->
                Emitted(EmitConstant(chunk, ending, Name(Top.names[1]), Top.token))
           [] OTHER -> KeepsCode
      /\ UNCHANGED source
      /\ Complete(Simple(Top.token, Top.from, Len(source), tail))
      /\ UNCHANGED <<unit, scopes, heights, machine>>

(* A variable without initializer, or a function declaration. *)
Declare ==
  /\ \E kind \in {"var", "function"}, name \in Names :
       LET token == Token(IF kind = "var" THEN "var" ELSE "fun", name)
           value == IF kind = "var" THEN "nil" ELSE "closure"
           made == IF kind = "var" THEN EmitPlain(chunk, "nil", Here)
                   ELSE EmitClosure(chunk, NewFunction(Here), <<>>, Here)
       IN  /\ May(kind) /\ Read(<<token>>)
           /\ IF scope_depth = 0
              THEN /\ Emitted(EmitConstant(made, "define_global", Name(name), Here))
                   /\ Add(Simple(Here, 1, 0, <<value, "define_global">>))
              ELSE Emitted(made) /\ Add(Simple(Here, 1, 0, <<value>>))
  /\ Track /\ NoteHeight
  /\ UNCHANGED <<unit, scope_depth, machine>>

(* `return;' *)
ReturnNothing ==
  /\ May("return") /\ unit.kind # "script"
  /\ Read(<<Token("return", "none")>>)
  /\ Emitted(EmitPlain(EmitNothing(chunk, Here), "return_", Here))
  /\ Add(Simple(Here, 1, 0, <<Nothing, "return_">>))
  /\ NoteHeight
  /\ UNCHANGED <<unit, scopes, machine>>

BeginScope ==
  /\ \E kind \in {"block", "for"} :
       May(kind) /\ Read(<<Token(kind, "none")>>) /\ Push(Waiting(kind, -1, Here, Here + 1))
  /\ scope_depth' = scope_depth + 1
  /\ NoteHeight
  /\ UNCHANGED <<unit, chunk, tracked_locals, expects, status, machine>>

(* pop_top_scope_depth: the locals of the scope are the last ones. *)
Outer == Cardinality({i \in DOMAIN tracked_locals : tracked_locals[i] # scope_depth})
(* Mutant: all but one of the locals. *)
EmitFewerPops(c, token) ==
  Emit(c, [i \in 1 .. Len(tracked_locals) - Outer - 1 |-> Op("pop")], token)

EmitPops(c, token) == Emit(c, [i \in 1 .. Len(tracked_locals) - Outer |-> Op("pop")], token)
PopScope ==
  /\ tracked_locals' = SubSeq(tracked_locals, 1, Outer)
  /\ scope_depth' = scope_depth - 1

EndBlock ==
  /\ Compiling("statement") /\ Top.kind = "block"
  /\ Emitted(EmitPops(chunk, Top.token))
  /\ PopScope
  /\ Complete(Compound("block", Top.token, Top.parts))
  /\ UNCHANGED <<unit, source, heights, machine>>

-----------------------------------------------------------------------------
(* if and while *)

EndCondition ==
  LET tested == EmitJump(chunk, "jump_if_false", Top.token)
  IN  /\ Compiling("operator") /\ Top.kind \in {"if", "while"}
      /\ Emitted(EmitPlain(tested, "pop", Top.token))
      /\ Replace([Top EXCEPT !.parts = <<Simple(Top.token, Top.from, Len(source), <<>>)>>,
                             !.jumps = <<Size(tested)>>])
      /\ Expect("statement")
      /\ UNCHANGED <<unit, scopes, source, heights, machine>>

AfterThen ==
  LET jumped == EmitJump(chunk, "jump", Top.token)
      otherwise == EmitPlain(ToNextOpcode(jumped, Top.jumps[1]), "pop", Top.token)
  IN  /\ Compiling("done") /\ Top.kind = "if" /\ Phase = 3
      /\ \/ /\ Emitted(otherwise)   \* there is an else
            /\ Replace([Top EXCEPT !.jumps = <<Size(jumped)>>])
            /\ Expect("statement")
         \/ /\ Emitted(ToNextOpcode(otherwise, Size(jumped)))
            /\ Complete(Compound("if", Top.token, Top.parts))
      /\ UNCHANGED <<unit, scopes, source, heights, machine>>

AfterElse ==
  /\ Compiling("done") /\ Top.kind = "if" /\ Phase = 4
  /\ Emitted(ToNextOpcode(chunk, Top.jumps[1]))
  /\ Complete(Compound("if", Top.token, Top.parts))
  /\ UNCHANGED <<unit, scopes, source, heights, machine>>

AfterWhileBody ==
  LET looped == EmitLoop(chunk, Top.begins[1], Top.token)
  IN  /\ Compiling("done") /\ Top.kind = "while"
      /\ Emitted(EmitPlain(ToNextOpcode(looped, Top.jumps[1]), "pop", Top.token))
      /\ Complete(Compound("while", Top.token, Top.parts))
      /\ UNCHANGED <<unit, scopes, source, heights, machine>>

-----------------------------------------------------------------------------
(* for *)

Missing == Compound("block", 0, <<>>)
IfGiven(tail) == Simple(Top.token, Top.from, Len(source), tail)

NoInitializer ==
  /\ Compiling("statement") /\ Top.kind = "for" /\ Phase = 1
  /\ KeepsCode /\ UNCHANGED source
  /\ Add(Missing)
  /\ UNCHANGED <<unit, scopes, heights, machine>>

ForCondition ==
  LET given == expects.what = "operator"
      condition == IF given THEN chunk ELSE EmitPlain(chunk, "true_", Top.token)
      tested == EmitJump(condition, "jump_if_false", Top.token)
      skipped == EmitJump(tested, "jump", Top.token)
  IN  /\ status = "compiling" /\ expects.what \in {"operand", "operator"}
      /\ Top.kind = "for" /\ Phase = 2
      /\ Emitted(skipped)
      /\ Replace([Top EXCEPT
           !.parts = Append(@, IF given THEN IfGiven(<<>>)
                               ELSE Simple(Top.token, 1, 0, <<"true_">>)),
           !.from = Here,
           !.jumps = <<Size(tested), Size(skipped)>>,
           !.begins = Append(@, Size(skipped))])
      /\ Expect("operand")
      /\ UNCHANGED <<unit, scopes, source, heights, machine>>

ForIncrement ==
  LET given == expects.what = "operator"
      increment == IF given THEN EmitPlain(chunk, "pop", Top.token) ELSE chunk
      looped == EmitLoop(increment, Top.begins[1], Top.token)
  IN  /\ status = "compiling" /\ expects.what \in {"operand", "operator"}
      /\ Top.kind = "for" /\ Phase = 3
      /\ Emitted(EmitPlain(ToNextOpcode(looped, Top.jumps[2]), "pop", Top.token))
      /\ Replace([Top EXCEPT !.parts = Append(@, IF given THEN IfGiven(<<>>) ELSE Missing),
                             !.jumps = <<Top.jumps[1]>>])
      /\ Expect("statement")
      /\ UNCHANGED <<unit, scopes, source, heights, machine>>

(* Mutant: back to the condition, without the increment. *)
AfterForBodyToCondition ==
  LET looped == EmitLoop(chunk, Top.begins[1], Top.token)
      ended == EmitPlain(ToNextOpcode(looped, Top.jumps[1]), "pop", Top.token)
  IN  /\ Compiling("done") /\ Top.kind = "for" /\ Phase = 5
      /\ Emitted(EmitPops(ended, Top.token))
      /\ PopScope
      /\ Complete(Compound("for", Top.token, Top.parts))
      /\ UNCHANGED <<unit, source, heights, machine>>

AfterForBody ==
  LET looped == EmitLoop(chunk, Top.begins[2], Top.token)
      ended == EmitPlain(ToNextOpcode(looped, Top.jumps[1]), "pop", Top.token)
  IN  /\ Compiling("done") /\ Top.kind = "for" /\ Phase = 5
      /\ Emitted(EmitPops(ended, Top.token))
      /\ PopScope
      /\ Complete(Compound("for", Top.token, Top.parts))
      /\ UNCHANGED <<unit, source, heights, machine>>

(* The end of the text or of the function's body: compile_function_rest     *)
(* adds a default return value.  Then the unit runs.                        *)
EndUnit ==
  LET default == IF unit.kind = "script" THEN chunk
                 ELSE EmitPlain(EmitNothing(chunk, 0), "return_", 0)
  IN  /\ Compiling("statement") /\ Top.kind = "unit"
      /\ ~default.narrowing_error /\ chunk' = default
      /\ status' = "running"
      /\ IF unit.kind = "script" THEN UNCHANGED nesting
         ELSE Replace(Resumed(Top, Simple(0, 1, 0, <<Nothing, "return_">>)))
      /\ NoteHeight
      /\ UNCHANGED <<unit, scopes, expects, source, machine>>

(* Any other token, a return where none may be, a gsl::narrow that throws:  *)
(* the exception leaves the compiler, and nothing is left of it.            *)
CompileError ==
  /\ status = "compiling"
  /\ status' = "failed"
  /\ Forgotten
  /\ UNCHANGED <<unit, machine>>

-----------------------------------------------------------------------------
(* The machine *)

PushOpcode == {"constant", "nil", "true_", "false_", "get_global", "get_local", "closure"}
ErrorOpcode ==
  {"get_global", "set_global", "get_property", "set_property", "call",
   "negate", "greater", "less", "add", "subtract", "multiply", "divide"}

(* How many values an instruction takes off the stack. *)
Takes(opcode) ==
  CASE opcode \in {"equal", "greater", "less", "add", "subtract", "multiply", "divide"} -> 2
    [] opcode \in {"not_", "negate", "print", "pop", "close_upvalue", "define_global",
                   "get_property", "set_property"} -> 1
    [] opcode = "call" -> OperandAt(chunk, pc) + 1
    [] OTHER -> 0

(* The truth of the value it leaves, if it leaves one. *)
Leaves(opcode) ==
  CASE opcode \in {"constant", "true_", "closure", "get_local"} -> {<<TRUE>>}
    [] opcode \in {"nil", "false_"} -> {<<FALSE>>}
    [] opcode \in {"print", "pop", "close_upvalue",
                   "define_global", "set_global", "set_property"} -> {<<>>}
    [] opcode = "not_" -> {<<~stack_[Len(stack_)]>>}
    [] opcode \in {"add", "subtract", "multiply", "divide", "negate"} -> {<<TRUE>>}
    [] OTHER -> {<<TRUE>>, <<FALSE>>}

Running == status = "running" /\ pc < Size(chunk)
Now == OpcodeAt(chunk, pc)
KeepsText == UNCHANGED <<unit, chunk, scopes, nesting, expects, source, heights>>

Execute ==
  /\ Running /\ Now \notin JumpOpcode \cup {"return_"}
  /\ \E left \in Leaves(Now) : stack_' = SubSeq(stack_, 1, Len(stack_) - Takes(Now)) \o left
  /\ pc' = pc + Width(chunk, pc)
  /\ KeepsText /\ UNCHANGED status

(* Mutant: a jump that is not taken does not read its distance. *)
JumpUnread ==
  /\ Running /\ Now \in JumpOpcode
  /\ pc' = IF Now = "jump_if_false" /\ stack_[Len(stack_)] THEN pc + 1 ELSE JumpTarget(chunk, pc)
  /\ KeepsText /\ UNCHANGED <<status, stack_>>

Jump ==
  /\ Running /\ Now \in JumpOpcode
  /\ pc' = IF Now = "jump_if_false" /\ stack_[Len(stack_)] THEN pc + 3 ELSE JumpTarget(chunk, pc)
  /\ KeepsText /\ UNCHANGED <<status, stack_>>

Return ==
  /\ Running /\ Now = "return_"
  /\ stack_' = <<stack_[Len(stack_)]>>
  /\ status' = "over"
  /\ KeepsText /\ UNCHANGED pc

RunToEnd ==
  /\ status = "running" /\ pc = Size(chunk)
  /\ status' = "over"
  /\ KeepsText /\ UNCHANGED machine

RuntimeError ==
  /\ Running /\ Now \in ErrorOpcode
  /\ status' = "failed"
  /\ pc' = 0
  /\ Forgotten /\ UNCHANGED <<unit, stack_>>

-----------------------------------------------------------------------------
(* In a function, slot 0 is the function itself or `this', a tracked local. *)
FlowInit ==
  /\ unit \in Units
  /\ chunk = EmptyChunk
  /\ tracked_locals = IF unit.kind = "script" THEN <<>> ELSE <<1>>
  /\ scope_depth = IF unit.kind = "script" THEN 0 ELSE 1
  /\ nesting = <<Waiting("unit", -1, 0, 1)>>
  /\ expects = [what |-> "statement", reach |-> 0, callee |-> 0]
  /\ status = "compiling"
  /\ source = <<>>
  /\ heights = {}
  /\ pc = 0
  /\ stack_ = IF unit.kind = "script" THEN <<>> ELSE <<TRUE>>

CompileExpression ==
  \/ Operand \/ Prefix \/ Assignment \/ BinaryOperator \/ FinishOperator
  \/ AccessProperty \/ OpenCall \/ NextArgument \/ CloseParenthesis
CompileStatement ==
  \/ BeginWithExpression \/ EndWithExpression \/ Declare \/ ReturnNothing
  \/ BeginScope \/ EndBlock \/ EndCondition \/ AfterThen \/ AfterElse \/ AfterWhileBody
  \/ NoInitializer \/ ForCondition \/ ForIncrement \/ AfterForBody \/ EndUnit
Run == Execute \/ Jump \/ Return \/ RunToEnd \/ RuntimeError

FlowNext == CompileExpression \/ CompileStatement \/ CompileError \/ Run
FlowSpec == FlowInit /\ [][FlowNext]_flowVars

-----------------------------------------------------------------------------
(* Invariants *)

Lexeme == Names \cup {"none"} \cup {"minus", "bang"} \cup DOMAIN Level
Constant == [type : {"number", "string", "function"}, text : Lexeme, token : Nat]

OperatorKinds == {"unary", "logical", "binary", "assignment"}
Kinds ==
  OperatorKinds \cup {"unit", "group", "call", "expression", "print", "return", "var",
                      "if", "while", "for", "block"}

(* How many jumps a waiting function has still to patch, and how many       *)
(* beginnings it remembers, when it has compiled this many parts.           *)
JumpsToPatch(kind, parts) ==
  CASE kind = "logical" -> 1
    [] kind \in {"if", "while"} -> IF parts = 0 THEN 0 ELSE 1
    [] kind = "for" -> IF parts < 2 THEN 0 ELSE IF parts = 2 THEN 2 ELSE 1
    [] OTHER -> 0
Beginnings(kind, parts) ==
  CASE kind = "while" -> 1
    [] kind = "for" -> IF parts < 2 THEN parts ELSE 2
    [] OTHER -> 0

IsSequence(s) == s \in Seq({s[i] : i \in DOMAIN s})

WaitingOK(k) ==
  /\ DOMAIN k = {"kind", "level", "token", "from", "parts", "names", "jumps", "begins", "count"}
  /\ k.kind \in Kinds /\ k.level \in -1 .. UnaryLevel
  /\ k.level >= 0 <=> k.kind \in OperatorKinds
  /\ k.token \in Nat /\ k.from \in Nat /\ k.count \in Nat
  /\ IsSequence(k.parts) /\ k.names \in Seq(Lexeme)
  /\ k.kind = "binary" => k.names[1] \in DOMAIN Instructions
  /\ k.kind = "assignment" => Len(k.names) \in 1..3
  /\ k.kind = "var" => Len(k.names) = 1
  /\ k.jumps \in Seq(Nat) /\ Len(k.jumps) = JumpsToPatch(k.kind, Len(k.parts))
  /\ k.begins \in Seq(Nat) /\ Len(k.begins) = Beginnings(k.kind, Len(k.parts))

(* What a waiting function can be waiting for. *)
ExpressionKinds == OperatorKinds \cup {"group", "call"}
Awaits(k, what) ==
  CASE what = "statement" ->
         \/ k.kind \in {"unit", "block"}
         \/ k.kind = "if" /\ Len(k.parts) \in 1..2
         \/ k.kind = "while" /\ Len(k.parts) = 1
         \/ k.kind = "for" /\ Len(k.parts) \in {0, 3}
    [] what \in {"operand", "operator"} ->
         \/ k.kind \in ExpressionKinds \cup {"expression", "print", "return", "var"}
         \/ k.kind \in {"if", "while"} /\ Len(k.parts) = 0
         \/ k.kind = "for" /\ Len(k.parts) \in 1..2
    [] what = "done" ->
         \/ k.kind = "if" /\ Len(k.parts) \in 2..3
         \/ k.kind = "while" /\ Len(k.parts) = 2
         \/ k.kind = "for" /\ Len(k.parts) = 4

(* Every compile function that waits has the jumps and the beginnings that  *)
(* what it has compiled so far calls for; it waits for what is compiled     *)
(* now; and only the bottom is the unit.                                    *)
FlowTypeOK ==
  /\ unit \in Units
  /\ chunk \in Chunks(Constant)
  /\ tracked_locals \in Seq(Nat) /\ scope_depth \in Int
  /\ IsSequence(nesting) /\ Len(nesting) > 0
  /\ \A i \in DOMAIN nesting : WaitingOK(nesting[i]) /\ (nesting[i].kind = "unit" <=> i = 1)
  /\ \A i \in 1 .. Len(nesting) - 1 :
       Awaits(nesting[i],
              IF nesting[i + 1].kind \in ExpressionKinds THEN "operand" ELSE "statement")
  /\ IF status = "compiling" THEN Awaits(Top, expects.what) ELSE Len(nesting) = 1
  /\ expects \in [what : {"statement", "operand", "operator", "done"}, reach : Int, callee : Nat]
  /\ status \in {"compiling", "running", "over", "failed"}
  /\ source \in Seq([kind : unit.tokens, lexeme : Lexeme])

Pending == UNION {{k.jumps[j] : j \in DOMAIN k.jumps} : k \in {nesting[i] : i \in DOMAIN nesting}}

(* The code is sound at every moment of the compilation: an instruction ends *)
(* where the next begins, every jump leads to an instruction or to the end,  *)
(* except the jumps that a waiting function still has to patch, and every    *)
(* beginning a loop will jump back to is one of an instruction; constants    *)
(* are unique and every byte has a token.                                    *)
CodeSound ==
  /\ ~chunk.narrowing_error /\ SoundCode(chunk, Pending)
  /\ \A i \in DOMAIN nesting : \A j \in DOMAIN nesting[i].begins :
       IsStart(chunk, nesting[i].begins[j])

(* The machine never takes an operand for an opcode. *)
PcAtInstruction ==
  /\ status = "compiling" => pc = 0
  /\ status = "running" => IsStart(chunk, pc)

(* At the beginning of a statement the stack holds exactly the locals the   *)
(* compiler tracks: the slot of a local is its index there, on every path.  *)
StackAsTracked ==
  status = "running" =>
    \A note \in heights : note[1] = pc => Len(stack_) = note[2]

(* A constant instruction refers to the literal or the name of its token:   *)
(* no index is cut to a byte, and equal constants are one.                  *)
OperandsMeanTheirSource ==
  Running /\ Now \in ConstantOpcode =>
    LET constant == chunk.constants[OperandAt(chunk, pc) + 1]
        t == source[TokenAt(chunk, pc)]
    IN  IF Now = "constant" THEN t.kind = "number" /\ constant = Number
        ELSE constant = Name(t.lexeme)
=============================================================================
