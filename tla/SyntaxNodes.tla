---------------------------- MODULE SyntaxNodes ----------------------------
(***************************************************************************)
(* The statements of a unit of Lox code as nodes over intervals of tokens. *)
(*                                                                         *)
(* A simple node is the expression `from' .. `to', if there is one, and    *)
(* then the operations `tail' reported at `token': a condition, an         *)
(* expression statement, a print, a declaration, a return.  The parts of   *)
(* an if are the condition and one or two branches; of a while, condition  *)
(* and body; of a for, initializer, condition, increment and body.         *)
(***************************************************************************)
Simple(token, from, to, tail) ==
  [kind |-> "simple", token |-> token, from |-> from, to |-> to, tail |-> tail, parts |-> <<>>]

Compound(kind, token, parts) ==
  [kind |-> kind, token |-> token, from |-> 1, to |-> 0, tail |-> <<>>, parts |-> parts]
=============================================================================
