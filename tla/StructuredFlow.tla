--------------------------- MODULE StructuredFlow ---------------------------
(***************************************************************************)
(* What a unit of Lox code (a script or a function body) promises: the     *)
(* order in which its operations happen, defined on the text alone, with   *)
(* no bytecode, no jump and no parser.                                     *)
(*                                                                         *)
(* `source' is the sequence of the unit's significant tokens; an operation *)
(* is <<opcode, token>>, and `at' is the operation that happens next.  An  *)
(* expression is an interval of tokens, taken apart at its loosest         *)
(* operator; a statement is a node over the nodes and the intervals it is  *)
(* made of.                                                                *)
(***************************************************************************)
EXTENDS Integers, Sequences, SyntaxNodes

VARIABLES
  source,    \* the tokens: [kind, lexeme]
  program,   \* the statements, a node
  at         \* the operation to happen next, or one of the three below

flowVars == <<source, program, at>>

Unwritten == <<"unwritten", 0>>    \* the text is not finished
Over == <<"over", 0>>              \* the unit has run to its end or returned
Failed == <<"failed", 0>>          \* an error was reported

(* From loosest to tightest; all of them group to the left. *)
Binary ==
  <<{"or"}, {"and"}, {"equal_equal", "bang_equal"},
    {"less", "less_equal", "greater", "greater_equal"}, {"plus", "minus"}, {"star", "slash"}>>

Opcodes ==
  [plus |-> <<"add">>, minus |-> <<"subtract">>, star |-> <<"multiply">>, slash |-> <<"divide">>,
   less |-> <<"less">>, greater |-> <<"greater">>, equal_equal |-> <<"equal">>,
   less_equal |-> <<"greater", "not_">>, greater_equal |-> <<"less", "not_">>,
   bang_equal |-> <<"equal", "not_">>]

Atom ==
  [number |-> "constant", identifier |-> "get_global", fun |-> "closure",
   nil |-> "nil", true |-> "true_", false |-> "false_"]

At(opcodes, token) == [i \in DOMAIN opcodes |-> <<opcodes[i], token>>]

-----------------------------------------------------------------------------
(* Expressions *)

Kind(t) == source[t].kind
Opens(t) == Kind(t) \in {"left_paren", "call"}
Closes(t) == Kind(t) = "right_paren"

(* How many parentheses opened in lo .. t are still open after t. *)
Depth(lo, t) ==
  LET count[i \in lo - 1 .. t] ==
        IF i < lo THEN 0
        ELSE count[i - 1] + IF Opens(i) THEN 1 ELSE IF Closes(i) THEN -1 ELSE 0
  IN  count[t]

Last_(S) == CHOOSE x \in S : \A y \in S : y <= x
Outer(lo, hi, kind) == {t \in lo .. hi : Kind(t) = kind /\ Depth(lo, t) = 0}
Loosest(ts) ==
  CHOOSE k \in DOMAIN Binary :
    /\ \E t \in ts : source[t].lexeme \in Binary[k]
    /\ \A j \in 1 .. k - 1 : \A t \in ts : source[t].lexeme \notin Binary[j]

(* The arguments between lo and hi, separated by commas. *)
Arguments(lo, hi) ==
  LET commas == Outer(lo, hi, "comma")
      count == IF lo > hi THEN 0 ELSE 1 + Len(SelectSeq([t \in 1..hi |-> t], LAMBDA t : t \in commas))
      ends[i \in 0 .. count] ==
        IF i = 0 THEN lo - 1
        ELSE CHOOSE t \in commas \cup {hi + 1} :
               t > ends[i - 1] /\ \A u \in commas : u <= ends[i - 1] \/ t <= u
  IN  [i \in 1 .. count |-> <<ends[i - 1] + 1, ends[i] - 1>>]

(* A call is reported at its callee's name: the last property, or the first *)
(* token of what is called.                                                 *)
Callee(lo, open) == IF Kind(open - 1) = "property" THEN open - 1 ELSE lo

(* The operands, in the order they are evaluated, and then the operations   *)
(* on them; with a short circuit, the second operand may not be evaluated.  *)
Shape(lo, hi) ==
  LET shape(parts, tail) == [parts |-> parts, tail |-> tail, short_circuit |-> ""]
      ops == Outer(lo, hi, "binary")
      op == LET loosest == Binary[Loosest(ops)]
            IN  Last_({t \in ops : source[t].lexeme \in loosest})
      value == CHOOSE t \in lo + 2 .. hi :
                 Kind(t) # "field" /\ \A u \in lo + 1 .. t - 1 : Kind(u) = "field"
      open == Last_({t \in lo .. hi : Opens(t) /\ Depth(lo, t) = 1})
  IN  CASE Kind(lo) = "set" ->
             shape(<<<<lo + 1, hi>>>>, <<<<"set_global", lo>>>>)
        [] Kind(lo) = "put" ->
             shape(<<<<value, hi>>>>,
                   [i \in 1 .. value - lo |->
                      <<CASE i = 1 -> "get_global"
                          [] i = value - lo -> "set_property"
                          [] OTHER -> "get_property",
                        lo + i - 1>>])
        [] Kind(lo) \notin {"set", "put"} /\ ops # {} ->
             LET sides == <<<<lo, op - 1>>, <<op + 1, hi>>>>
             IN  IF source[op].lexeme \in {"and", "or"}
                 THEN [parts |-> sides, tail |-> <<>>, short_circuit |-> source[op].lexeme]
                 ELSE shape(sides, At(Opcodes[source[op].lexeme], op))
        [] Kind(lo) = "unary" /\ ops = {} ->
             shape(<<<<lo + 1, hi>>>>,
                   At(<<IF source[lo].lexeme = "minus" THEN "negate" ELSE "not_">>, lo))
        [] OTHER ->
             CASE Kind(hi) = "property" -> shape(<<<<lo, hi - 1>>>>, <<<<"get_property", hi>>>>)
               [] Closes(hi) /\ Kind(open) = "call" ->
                    shape(<<<<lo, open - 1>>>> \o Arguments(open + 1, hi - 1),
                          <<<<"call", Callee(lo, open)>>>>)
               [] Closes(hi) /\ Kind(open) = "left_paren" -> shape(<<<<lo + 1, hi - 1>>>>, <<>>)
               [] OTHER -> shape(<<>>, <<<<Atom[Kind(lo)], lo>>>>)

(* The end of an expression or a statement, with the truth of its value. *)
Complete(truth) == <<"complete", IF truth THEN 1 ELSE 0>>
IsComplete(at_) == at_[1] = "complete"
True(at_) == at_[2] = 1

RECURSIVE FirstIn(_, _)
FirstIn(lo, hi) ==
  LET shape == Shape(lo, hi)
  IN  IF shape.parts = <<>> THEN shape.tail[1]
      ELSE FirstIn(shape.parts[1][1], shape.parts[1][2])

(* What follows operation e of the expression when its value has this truth. *)
RECURSIVE AfterIn(_, _, _, _)
AfterIn(lo, hi, e, truth) ==
  LET shape == Shape(lo, hi)
      rest(i) == IF i <= Len(shape.parts) THEN FirstIn(shape.parts[i][1], shape.parts[i][2])
                 ELSE shape.tail[1]
      i == CHOOSE k \in DOMAIN shape.parts : e[2] \in shape.parts[k][1] .. shape.parts[k][2]
      after == AfterIn(shape.parts[i][1], shape.parts[i][2], e, truth)
      j == CHOOSE k \in DOMAIN shape.tail : shape.tail[k] = e
  IN  IF \E k \in DOMAIN shape.tail : shape.tail[k] = e
      THEN IF j < Len(shape.tail) THEN shape.tail[j + 1] ELSE Complete(truth)
      ELSE IF ~IsComplete(after) THEN after
      ELSE IF shape.short_circuit # "" /\ i = 1 /\ True(after) # (shape.short_circuit = "and")
      THEN after
      ELSE IF i = Len(shape.parts) /\ shape.tail = <<>> THEN after
      ELSE rest(i + 1)

-----------------------------------------------------------------------------
(* Statements *)

RECURSIVE First(_)
FirstOf(nodes) ==
  LET next[i \in 1 .. Len(nodes) + 1] ==
        IF i > Len(nodes) THEN Complete(TRUE)
        ELSE IF IsComplete(First(nodes[i])) THEN next[i + 1] ELSE First(nodes[i])
  IN  next[1]
First(node) ==
  CASE node.kind = "simple" ->
         IF node.from <= node.to THEN FirstIn(node.from, node.to)
         ELSE IF node.tail # <<>> THEN <<node.tail[1], node.token>> ELSE Complete(TRUE)
    [] node.kind = "block" -> FirstOf(node.parts)
    [] node.kind \in {"if", "while"} -> First(node.parts[1])
    [] node.kind = "for" -> FirstOf(<<node.parts[1], node.parts[2]>>)

RECURSIVE Contains_(_, _)
Contains_(node, e) ==
  \/ e[2] \in node.from .. node.to
  \/ e[2] = node.token /\ \E i \in DOMAIN node.tail : node.tail[i] = e[1]
  \/ \E i \in DOMAIN node.parts : Contains_(node.parts[i], e)

(* Where control goes when part i of a compound statement is complete. *)
Onward(node, i, truth) ==
  LET p == node.parts
  IN  CASE node.kind = "block" -> FirstOf(SubSeq(p, i + 1, Len(p)))
        [] node.kind = "if" ->
             FirstOf(IF i > 1 THEN <<>> ELSE IF truth THEN <<p[2]>> ELSE SubSeq(p, 3, Len(p)))
        [] node.kind = "while" ->
             FirstOf(IF i = 2 THEN <<p[1]>> ELSE IF truth THEN <<p[2], p[1]>> ELSE <<>>)
        [] node.kind = "for" ->
             FirstOf(CASE i \in {1, 3} -> <<p[2]>>
                       [] i = 4 -> <<p[3], p[2]>>
                       [] i = 2 /\ truth -> <<p[4], p[3], p[2]>>
                       [] i = 2 /\ ~truth -> <<>>)

RECURSIVE After(_, _, _)
After(node, e, truth) ==
  LET tail == At(node.tail, node.token)
      inTail == \E k \in DOMAIN tail : tail[k] = e
      j == CHOOSE k \in DOMAIN tail : tail[k] = e
      value == AfterIn(node.from, node.to, e, truth)
      i == CHOOSE k \in DOMAIN node.parts : Contains_(node.parts[k], e)
      after == After(node.parts[i], e, truth)
  IN  IF node.kind = "simple"
      THEN IF inTail THEN (IF j < Len(tail) THEN tail[j + 1] ELSE Complete(truth))
           ELSE IF IsComplete(value) /\ tail # <<>> THEN tail[1] ELSE value
      ELSE IF IsComplete(after) THEN Onward(node, i, True(after)) ELSE after

-----------------------------------------------------------------------------
(* The unit as a state machine: it is written, then it runs. *)

(* What the operation can leave: a literal has one truth value. *)
Truths(e) ==
  CASE e[1] \in {"constant", "closure", "true_"} -> {TRUE}
    [] e[1] \in {"nil", "false_"} -> {FALSE}
    [] OTHER -> BOOLEAN

OverIfComplete(at_) == IF IsComplete(at_) THEN Over ELSE at_

FlowInit == at = Unwritten

Write == at = Unwritten /\ at' = Unwritten

Begin ==
  /\ at = Unwritten
  /\ at' = OverIfComplete(First(program'))

Operate ==
  /\ at \notin {Unwritten, Over, Failed}
  /\ \E truth \in Truths(at) :
       at' = IF at[1] = "return_" THEN Over ELSE OverIfComplete(After(program, at, truth))
  /\ UNCHANGED <<source, program>>

Fail == at' = Failed

FlowNext == Write \/ Begin \/ Operate \/ Fail

FlowSpec == FlowInit /\ [][FlowNext]_flowVars
=============================================================================
