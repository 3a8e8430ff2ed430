--------------------------- MODULE MCControlFlow ---------------------------
(***************************************************************************)
(* The properties of ControlFlow that need more than its own operators:    *)
(* that what the machine does is what the text means, and what the mutants *)
(* change.                                                                 *)
(***************************************************************************)
EXTENDS ControlFlow

(* Four kinds of text: expressions; statements, nested, with few operators; *)
(* declarations and blocks of a script; and one with too many constants.    *)
Operands == {"identifier", "number", "fun", "nil", "true", "false"}
Parentheses == {"left_paren", "call", "comma", "right_paren"}
UnitOf(kind, tokens, operators, max_tokens, max_operators, max_list) ==
  [kind |-> kind, tokens |-> tokens, operators |-> operators, max_tokens |-> max_tokens,
   max_operators |-> max_operators, max_list |-> max_list, max_fields |-> 2]

MCUnits ==
  {UnitOf("script", {"expression", "identifier", "fun", "unary", "set", "put", "field", "binary",
                    "property"} \cup Parentheses,
         {"or", "and", "less_equal", "minus"}, 6, 3, 1),
   UnitOf("function", {"expression", "return", "identifier", "if", "while", "for", "block", "binary"},
         {"and"}, 6, 1, 2),
   UnitOf("script", Operands \cup {"expression", "print", "var", "function", "for", "block"},
         {}, 4, 0, 2),
   UnitOf("init", {"expression", "return", "if"} \cup Operands, {}, 4, 0, 2),
   UnitOf("script", {"expression", "fun", "binary", "identifier"}, {"plus"}, 13, 6, 1)}

(* The instructions that only arrange the stack and the next instruction. *)
Silent == {"pop", "close_upvalue", "jump", "jump_if_false", "loop"}

(* The operation that happens next when the machine is at p with this stack. *)
RECURSIVE NextOperation(_, _)
NextOperation(p, stack) ==
  IF p = Size(chunk) THEN <<"over", 0>>
  ELSE LET opcode == OpcodeAt(chunk, p)
       IN  CASE opcode \notin Silent -> <<opcode, TokenAt(chunk, p)>>
             [] opcode \in {"pop", "close_upvalue"} ->
                  NextOperation(p + 1, SubSeq(stack, 1, Len(stack) - 1))
             [] opcode = "jump_if_false" /\ stack[Len(stack)] -> NextOperation(p + 3, stack)
             [] OTHER -> NextOperation(JumpTarget(chunk, p), stack)

Text ==
  INSTANCE StructuredFlow WITH
    program <- Compound("block", 0, nesting[1].parts),
    at <- CASE status = "compiling" -> <<"unwritten", 0>>
            [] status = "running" -> NextOperation(pc, stack_)
            [] status = "over" -> <<"over", 0>>
            [] status = "failed" -> <<"failed", 0>>

(* Whatever the text, the machine does the operations of the text in the    *)
(* order of the text: each operator after its operands, the second operand  *)
(* of `and' and `or' only when the first does not decide, a branch or a     *)
(* body as the condition says, the increment of a for after its body; and   *)
(* each operation is reported at its own token.                             *)
ImplementsStructuredFlow == Text!FlowSpec
=============================================================================
