------------------------------- MODULE Chunk -------------------------------
(***************************************************************************)
(* The chunk of bytecode of src/chunk.cpp: what each emit function appends *)
(* to the bytecode, the constant table without duplicates, the jumps whose *)
(* distance is patched later, and the narrowing of every index, count and  *)
(* distance to one or two bytes.                                           *)
(*                                                                         *)
(* A chunk is a value: the emit functions are operators from a chunk to a  *)
(* chunk.  A byte is an opcode or a number below ByteValues, 256 in the    *)
(* code.  gsl::narrow throws when a number does not fit; the compiler is   *)
(* then unwound and the chunk is gone, so all that is kept of it is that   *)
(* fact.  Indexes into the bytecode and the constants count from 0.        *)
(***************************************************************************)
EXTENDS Integers, Sequences

CONSTANT ByteValues   \* how many values a byte has

ASSUME ChunkAssumption == ByteValues \in Nat \ {0, 1}

(* The opcodes by the shape of their operands: none, an index of a          *)
(* constant, another index or count, a two-byte distance; and the closure.  *)
(* invoke and super_invoke are declared in the source and never emitted.    *)
PlainOpcode ==
  {"nil", "true_", "false_", "pop", "equal", "greater", "less", "add", "subtract",
   "multiply", "divide", "not_", "negate", "print", "close_upvalue", "return_", "inherit"}
NameOpcode ==
  {"get_global", "define_global", "set_global", "get_property", "set_property",
   "get_super", "class_", "method"}
ConstantOpcode == NameOpcode \cup {"constant"}
IndexOpcode == {"get_local", "set_local", "get_upvalue", "set_upvalue", "call"}
JumpOpcode == {"jump", "jump_if_false", "loop"}
Opcode == PlainOpcode \cup ConstantOpcode \cup IndexOpcode \cup JumpOpcode \cup {"closure"}

(* A byte of the bytecode, with what it was emitted as. *)
ByteValue == 0 .. ByteValues - 1
Cell == [opcode : Opcode \cup {"operand"}, byte : ByteValue]

Op(opcode) == [opcode |-> opcode, byte |-> 0]
Byte(n) == [opcode |-> "operand", byte |-> n]

EmptyChunk ==
  [bytecode |-> <<>>, constants |-> <<>>, source_map_tokens |-> <<>>, narrowing_error |-> FALSE]

(* The chunks whose constants are in S. *)
Chunks(S) ==
  [bytecode : Seq(Cell), constants : Seq(S), source_map_tokens : Seq(Nat),
   narrowing_error : BOOLEAN]

Size(c) == Len(c.bytecode)

(* gsl::narrow threw while this chunk was written. *)
Unwound(c) == [c EXCEPT !.narrowing_error = TRUE]

FitsByte(n) == n < ByteValues
FitsTwoBytes(n) == n < ByteValues * ByteValues

(* The private emit, once per byte: every byte has its source token. *)
Emit(c, cells, token) ==
  [c EXCEPT !.bytecode = @ \o cells,
            !.source_map_tokens = @ \o [i \in 1..Len(cells) |-> token]]

EmitPlain(c, opcode, token) == Emit(c, <<Op(opcode)>>, token)

(* Mutant: static_cast instead of gsl::narrow. *)
EmitIndexCast(c, opcode, index, token) ==
  Emit(c, <<Op(opcode), Byte(index % ByteValues)>>, token)

EmitIndex(c, opcode, index, token) ==
  IF FitsByte(index) THEN Emit(c, <<Op(opcode), Byte(index)>>, token) ELSE Unwound(c)

(* insert_constant: std::find, then push_back. *)
InsertConstant(c, value) ==
  IF \E i \in DOMAIN c.constants : c.constants[i] = value THEN c
  ELSE [c EXCEPT !.constants = Append(@, value)]

ConstantIndex(c, value) ==
  (CHOOSE i \in DOMAIN c.constants :
     /\ c.constants[i] = value
     /\ \A j \in 1 .. i - 1 : c.constants[j] # value) - 1

(* emit_constant, and the emit of the opcodes that take a name. *)
EmitConstant(c, opcode, value, token) ==
  LET inserted == InsertConstant(c, value)
  IN  EmitIndex(inserted, opcode, ConstantIndex(inserted, value), token)

(* emit_closure: the function, the number of upvalues, two bytes for each:  *)
(* 1 for a local of the enclosing function, 0 for an upvalue of it, and its *)
(* index there.                                                             *)
EmitClosure(c, fn, tracked_upvalues, token) ==
  LET inserted == InsertConstant(c, fn)
      index == ConstantIndex(inserted, fn)
      n == Len(tracked_upvalues)
      upvalue(k) == tracked_upvalues[(k + 1) \div 2]
      operand(k) == IF k % 2 = 0 THEN upvalue(k).index ELSE IF upvalue(k).direct THEN 1 ELSE 0
  IN  IF FitsByte(index) /\ FitsByte(n) /\ \A i \in 1..n : FitsByte(tracked_upvalues[i].index)
      THEN Emit(inserted,
                <<Op("closure"), Byte(index), Byte(n)>> \o
                [k \in 1..(2 * n) |-> Byte(operand(k))],
                token)
      ELSE Unwound(inserted)

(* emit_jump and emit_jump_if_false: two dummy bytes.  The Jump_backpatch   *)
(* they return remembers the size after them.                               *)
EmitJump(c, opcode, token) == Emit(c, <<Op(opcode), Byte(0), Byte(0)>>, token)

(* Two bytes at an index, the high one first. *)
WriteDistance(c, index, distance) ==
  [c EXCEPT !.bytecode[index + 1] = Byte(distance \div ByteValues),
            !.bytecode[index + 2] = Byte(distance % ByteValues)]

ReadDistance(bytecode, index) ==
  bytecode[index + 1].byte * ByteValues + bytecode[index + 2].byte

(* Mutant: the distance from the jump's first byte. *)
ToNextOpcodeFromJump(c, jump_begin_index) ==
  LET distance == Size(c) - jump_begin_index + 3
  IN  IF FitsTwoBytes(distance) THEN WriteDistance(c, jump_begin_index - 2, distance)
      ELSE Unwound(c)

(* Jump_backpatch::to_next_opcode. *)
ToNextOpcode(c, jump_begin_index) ==
  LET distance == Size(c) - jump_begin_index
  IN  IF FitsTwoBytes(distance) THEN WriteDistance(c, jump_begin_index - 2, distance)
      ELSE Unwound(c)

EmitLoop(c, loop_begin_index, token) ==
  LET dummy == EmitJump(c, "loop", token)
      distance == Size(dummy) - loop_begin_index
  IN  IF FitsTwoBytes(distance) THEN WriteDistance(dummy, Size(dummy) - 2, distance)
      ELSE Unwound(dummy)

-----------------------------------------------------------------------------
(* Reading a chunk: what VM::run and the disassembler do at an index. *)

OpcodeAt(c, index) == c.bytecode[index + 1].opcode
OperandAt(c, index) == c.bytecode[index + 2].byte
TokenAt(c, index) == c.source_map_tokens[index + 1]

(* The bytes of the instruction whose opcode is the i-th byte. *)
WidthAt(bytecode, i) ==
  LET opcode == bytecode[i].opcode
  IN  CASE opcode \in PlainOpcode -> 1
        [] opcode \in ConstantOpcode \cup IndexOpcode -> 2
        [] opcode \in JumpOpcode -> 3
        [] opcode = "closure" -> 3 + 2 * bytecode[i + 2].byte

Width(c, index) == WidthAt(c.bytecode, index + 1)

(* Where a jump at this index goes when it is taken. *)
JumpTarget(c, index) ==
  LET distance == ReadDistance(c.bytecode, index + 1)
  IN  IF OpcodeAt(c, index) = "loop" THEN index + 3 - distance ELSE index + 3 + distance

-----------------------------------------------------------------------------
(* Sound code *)

(* An instruction begins at this index, or the code ends there. *)
IsStart(c, index) ==
  \/ index = Size(c)
  \/ index \in 0 .. Size(c) - 1 /\ OpcodeAt(c, index) # "operand"

(* An instruction has its operands, and ends where another begins. *)
Aligned(c) ==
  \A index \in 0 .. Size(c) - 1 :
    OpcodeAt(c, index) # "operand" =>
      /\ OpcodeAt(c, index) = "closure" => index + 2 < Size(c)
      /\ IsStart(c, index + Width(c, index))
      /\ \A i \in index + 1 .. index + Width(c, index) - 1 : OpcodeAt(c, i) = "operand"

(* Every jump but those still to be patched leads to an instruction.  A jump *)
(* to be patched is named as Jump_backpatch does, by the index after it.     *)
JumpsLand(c, pending) ==
  \A index \in 0 .. Size(c) - 1 :
    OpcodeAt(c, index) \in JumpOpcode /\ index + 3 \notin pending =>
      IsStart(c, JumpTarget(c, index))

IsPending(c, jump_begin_index) ==
  /\ jump_begin_index \in 3 .. Size(c)
  /\ OpcodeAt(c, jump_begin_index - 3) \in {"jump", "jump_if_false"}
  /\ OpcodeAt(c, jump_begin_index - 2) = "operand"
  /\ OpcodeAt(c, jump_begin_index - 1) = "operand"

(* std::find makes every constant unique; every byte has its token. *)
ConstantsUnique(c) ==
  \A i, j \in DOMAIN c.constants : c.constants[i] = c.constants[j] => i = j
TokensParallel(c) == Len(c.source_map_tokens) = Len(c.bytecode)

SoundCode(c, pending) ==
  /\ IsStart(c, 0) /\ Aligned(c) /\ JumpsLand(c, pending)
  /\ \A j \in pending : IsPending(c, j)
  /\ ConstantsUnique(c) /\ TokensParallel(c)
=============================================================================
