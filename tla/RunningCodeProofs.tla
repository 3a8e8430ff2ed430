------------------------- MODULE RunningCodeProofs -------------------------
(***************************************************************************)
(* What the machine finds when it runs what ControlFlow compiled, whatever *)
(* the text: the stack is as the compiler tracked it, StackAsTracked, and  *)
(* what an instruction refers to is what its token says,                   *)
(* OperandsMeanTheirSource.                                                *)
(*                                                                         *)
(* Both are properties of every path through the code, so both are kept    *)
(* with the code from the moment it is emitted: the height of the stack at *)
(* every instruction, and the meaning of its constant.  Each action of the *)
(* compiler is an instance of a few lemmas on how `nesting' changes, with  *)
(* the lemmas on what it emits.                                            *)
(***************************************************************************)
EXTENDS ControlFlowProofs

-----------------------------------------------------------------------------
(* What is written stays, and an instruction is written whole *)

Kept(c, d) ==
  /\ Size(c) \in Nat /\ Size(d) \in Nat /\ Size(c) <= Size(d)
  /\ \A i \in 1 .. Size(c) : /\ d.bytecode[i] = c.bytecode[i]
                             /\ d.source_map_tokens[i] = c.source_map_tokens[i]
  /\ \A i \in DOMAIN c.constants : i \in DOMAIN d.constants /\ d.constants[i] = c.constants[i]

(* The last instruction of d, and all that c has not. *)
Wrote(c, d, opcode, token) ==
  /\ Kept(c, d) /\ Size(c) < Size(d)
  /\ OpcodeAt(d, Size(c)) = opcode /\ TokenAt(d, Size(c)) = token
  /\ \A i \in Size(c) + 1 .. Size(d) - 1 : OpcodeAt(d, i) = "operand"

LEMMA Concatenated ==
  ASSUME NEW S, NEW s \in Seq(S), NEW e \in Seq(S)
  PROVE  /\ Len(s) \in Nat /\ Len(e) \in Nat /\ Len(s \o e) = Len(s) + Len(e)
         /\ \A i \in 1 .. Len(s) : (s \o e)[i] = s[i]
         /\ \A i \in 1 .. Len(e) : (s \o e)[Len(s) + i] = e[i]
<1>. QED
  OBVIOUS

LEMMA CellsWrote ==
  ASSUME NEW S, NEW c \in Chunks(S), TokensParallel(c), NEW cells \in Seq(Cell), NEW token \in Nat
  PROVE  LET d == Emit(c, cells, token)
         IN  /\ Kept(c, d) /\ Size(d) = Size(c) + Len(cells)
             /\ \A i \in 1 .. Len(cells) : /\ d.bytecode[Size(c) + i] = cells[i]
                                           /\ d.source_map_tokens[Size(c) + i] = token
<1> DEFINE d == Emit(c, cells, token)
           tokens == [i \in 1 .. Len(cells) |-> token]
<1>1. /\ c.bytecode \in Seq(Cell) /\ c.source_map_tokens \in Seq(Nat) /\ Len(cells) \in Nat
      /\ Len(c.bytecode) = Size(c) /\ Len(c.source_map_tokens) = Size(c) /\ Size(c) \in Nat
  BY DEF Chunks, Size, TokensParallel
<1>2. d.bytecode = c.bytecode \o cells /\ d.source_map_tokens = c.source_map_tokens \o tokens
      /\ d.constants = c.constants
  BY DEF Emit, Chunks
<1>3. tokens \in Seq(Nat) /\ Len(tokens) = Len(cells) /\ \A i \in 1 .. Len(cells) : tokens[i] = token
  BY <1>1
<1>. HIDE DEF tokens, d
<1>4. /\ Len(d.bytecode) = Size(c) + Len(cells)
      /\ \A i \in 1 .. Size(c) : d.bytecode[i] = c.bytecode[i]
      /\ \A i \in 1 .. Len(cells) : d.bytecode[Size(c) + i] = cells[i]
  <2> DEFINE s == c.bytecode
  <2>1. s \in Seq(Cell) /\ cells \in Seq(Cell) /\ Len(s) = Size(c)
    BY <1>1
  <2>. HIDE DEF s
  <2>2. /\ Len(s \o cells) = Len(s) + Len(cells)
        /\ \A i \in 1 .. Len(s) : (s \o cells)[i] = s[i]
        /\ \A i \in 1 .. Len(cells) : (s \o cells)[Len(s) + i] = cells[i]
    <3>1. PICK T : T = Cell
      OBVIOUS
    <3>2. PICK e : e = cells
      OBVIOUS
    <3>3. s \in Seq(T) /\ e \in Seq(T)
      BY <2>1, <3>1, <3>2
    <3>4. /\ Len(s \o e) = Len(s) + Len(e)
          /\ \A i \in 1 .. Len(s) : (s \o e)[i] = s[i]
          /\ \A i \in 1 .. Len(e) : (s \o e)[Len(s) + i] = e[i]
      BY <3>3, Concatenated
    <3>. QED
      BY <3>2, <3>4
  <2>. QED
    BY <1>2, <2>1, <2>2 DEF s
<1>5. /\ \A i \in 1 .. Size(c) : d.source_map_tokens[i] = c.source_map_tokens[i]
      /\ \A i \in 1 .. Len(cells) : d.source_map_tokens[Size(c) + i] = token
  <2> DEFINE s == c.source_map_tokens
  <2>1. s \in Seq(Nat) /\ Len(s) = Size(c)
    BY <1>1
  <2>. HIDE DEF s
  <2>2. /\ \A i \in 1 .. Len(s) : (s \o tokens)[i] = s[i]
        /\ \A i \in 1 .. Len(tokens) : (s \o tokens)[Len(s) + i] = tokens[i]
    BY <1>3, <2>1, Concatenated
  <2>. QED
    BY <1>2, <1>3, <2>1, <2>2 DEF s
<1>6. Size(d) = Size(c) + Len(cells)
  BY <1>4 DEF Size
<1>7. Kept(c, d)
  <2>1. Size(d) \in Nat /\ Size(c) <= Size(d)
    BY <1>1, <1>6
  <2>. QED
    BY <1>1, <1>2, <1>4, <1>5, <2>1 DEF Kept
<1>. QED
  BY <1>4, <1>5, <1>6, <1>7 DEF d

LEMMA InstructionWrote ==
  ASSUME NEW S, NEW c \in Chunks(S), TokensParallel(c), NEW cells \in Seq(Cell), NEW token \in Nat,
         Len(cells) > 0, \A i \in 2 .. Len(cells) : cells[i].opcode = "operand"
  PROVE  LET d == Emit(c, cells, token)
         IN  Wrote(c, d, cells[1].opcode, token) /\ Size(d) = Size(c) + Len(cells)
<1> DEFINE d == Emit(c, cells, token)
<1>1. /\ Kept(c, d) /\ Size(d) = Size(c) + Len(cells)
      /\ \A i \in 1 .. Len(cells) : /\ d.bytecode[Size(c) + i] = cells[i]
                                    /\ d.source_map_tokens[Size(c) + i] = token
  BY CellsWrote, Zenon
<1>. HIDE DEF d
<1>2. Size(c) \in Nat /\ Len(cells) \in Nat
  BY <1>1 DEF Kept
<1>3. OpcodeAt(d, Size(c)) = cells[1].opcode /\ TokenAt(d, Size(c)) = token
  BY <1>1, <1>2 DEF OpcodeAt, TokenAt
<1>4. ASSUME NEW i \in Size(c) + 1 .. Size(d) - 1 PROVE OpcodeAt(d, i) = "operand"
  <2>1. PICK k : k = i + 1 - Size(c)
    OBVIOUS
  <2>2. k \in 2 .. Len(cells) /\ Size(c) + k = i + 1
    <3>1. PICK n : n = Size(c)
      OBVIOUS
    <3>2. PICK m : m = Len(cells)
      OBVIOUS
    <3>3. Size(d) = n + m /\ n \in Nat /\ m \in Nat
      BY <1>1, <1>2, <3>1, <3>2
    <3>4. i \in n + 1 .. n + m - 1
      BY <3>1, <3>3
    <3>5. k = i + 1 - n
      BY <2>1, <3>1
    <3>6. k \in 2 .. m /\ n + k = i + 1
      BY <3>3, <3>4, <3>5
    <3>. QED
      BY <3>1, <3>2, <3>6
  <2>3. d.bytecode[Size(c) + k] = cells[k]
    BY <1>1, <1>2, <2>2
  <2>. QED
    BY <2>2, <2>3 DEF OpcodeAt
<1>. QED
  BY <1>1, <1>2, <1>3, <1>4 DEF Wrote, d

LEMMA SoundChunk ==
  ASSUME NEW S, NEW c, NEW P, Good(c, P, S), ~c.narrowing_error
  PROVE  c \in Chunks(S) /\ TokensParallel(c) /\ Aligned(c) /\ Size(c) \in Nat /\ SoundCode(c, P)
<1>. QED
  BY DEF Good, SoundCode, Chunks, Size

LEMMA ByteCell ==
  /\ \A opcode \in Opcode : Op(opcode) \in Cell /\ Op(opcode).opcode = opcode
  /\ \A n \in Nat : /\ FitsByte(n) => Byte(n) \in Cell
                    /\ Byte(n).opcode = "operand" /\ Byte(n).byte = n
<1>. QED
  BY ChunkAssumption DEF Op, Byte, Cell, ByteValue, FitsByte

LEMMA PlainWrote ==
  ASSUME NEW S, NEW c, NEW P, Good(c, P, S), NEW opcode \in PlainOpcode, NEW token \in Nat,
         ~EmitPlain(c, opcode, token).narrowing_error
  PROVE  Wrote(c, EmitPlain(c, opcode, token), opcode, token)
<1>1. ~c.narrowing_error
  BY EmitPlainGood DEF Later
<1>2. c \in Chunks(S) /\ TokensParallel(c)
  BY <1>1, SoundChunk
<1> DEFINE cells == <<Op(opcode)>>
<1>3. cells \in Seq(Cell) /\ Len(cells) = 1 /\ cells[1].opcode = opcode
  <2>1. opcode \in Opcode
    BY DEF Opcode
  <2>2. Op(opcode) \in Cell /\ Op(opcode).opcode = opcode
    BY <2>1, ByteCell
  <2>. QED
    BY <2>2
<1>. HIDE DEF cells
<1>4. Len(cells) > 0 /\ \A i \in 2 .. Len(cells) : cells[i].opcode = "operand"
  BY <1>3
<1>5. Wrote(c, Emit(c, cells, token), cells[1].opcode, token)
  BY <1>2, <1>3, <1>4, InstructionWrote, Zenon
<1>. QED
  BY <1>3, <1>5 DEF EmitPlain, cells

LEMMA IndexWrote ==
  ASSUME NEW S, NEW c, NEW P, Good(c, P, S), NEW opcode \in ConstantOpcode \cup IndexOpcode,
         NEW index \in Nat, NEW token \in Nat, ~EmitIndex(c, opcode, index, token).narrowing_error
  PROVE  LET d == EmitIndex(c, opcode, index, token)
         IN  Wrote(c, d, opcode, token) /\ OperandAt(d, Size(c)) = index
<1>1. ~c.narrowing_error
  BY EmitIndexGood DEF Later
<1>2. c \in Chunks(S) /\ TokensParallel(c)
  BY <1>1, SoundChunk
<1>3. FitsByte(index)
  <2>1. ASSUME ~FitsByte(index) PROVE FALSE
    <3>1. EmitIndex(c, opcode, index, token) = Unwound(c)
      BY <2>1 DEF EmitIndex
    <3>. QED
      BY <3>1, StillUnwound DEF Good
  <2>. QED
    BY <2>1
<1> DEFINE cells == <<Op(opcode), Byte(index)>>
<1>4. cells \in Seq(Cell) /\ Len(cells) = 2 /\ cells[1].opcode = opcode /\ cells[2].opcode = "operand"
  <2>1. opcode \in Opcode
    BY DEF Opcode
  <2>2. /\ Op(opcode) \in Cell /\ Op(opcode).opcode = opcode
        /\ Byte(index) \in Cell /\ Byte(index).opcode = "operand"
    BY <1>3, <2>1, ByteCell
  <2>. QED
    BY <2>2
<1>5. EmitIndex(c, opcode, index, token) = Emit(c, cells, token)
  BY <1>3 DEF EmitIndex
<1>. HIDE DEF cells
<1>6. Len(cells) > 0 /\ \A i \in 2 .. Len(cells) : cells[i].opcode = "operand"
  BY <1>4
<1>7. Wrote(c, Emit(c, cells, token), cells[1].opcode, token)
  BY <1>2, <1>4, <1>6, InstructionWrote, Zenon
<1>8. OperandAt(EmitIndex(c, opcode, index, token), Size(c)) = index
  BY EmitIndexGood
<1>. QED
  BY <1>4, <1>5, <1>7, <1>8

LEMMA InsertKept ==
  ASSUME NEW S, NEW c, NEW P, Good(c, P, S), NEW value \in S, ~c.narrowing_error
  PROVE  LET d == InsertConstant(c, value)
         IN  /\ Good(d, P, S) /\ ~d.narrowing_error /\ Kept(c, d) /\ Size(d) = Size(c)
             /\ d.source_map_tokens = c.source_map_tokens /\ d.bytecode = c.bytecode
             /\ ConstantIndex(d, value) \in Nat
<1> DEFINE d == InsertConstant(c, value)
<1>1. c \in Chunks(S) /\ Size(c) \in Nat
  BY SoundChunk
<1>2. "narrowing_error" \in DOMAIN c
  BY DEF Good
<1>3. ~d.narrowing_error
  BY <1>2, StillUnwound
<1>4. d.source_map_tokens = c.source_map_tokens
  BY <1>1 DEF InsertConstant, Chunks
<1>5. /\ Good(d, P, S)
      /\ ~d.narrowing_error =>
           /\ d.bytecode = c.bytecode
           /\ ConstantIndex(d, value) \in 0 .. Len(d.constants) - 1
           /\ \A i \in 1 .. Len(c.constants) : d.constants[i] = c.constants[i]
  BY InsertGood
<1>6. d \in Chunks(S)
  BY <1>3, <1>5, SoundChunk
<1>7. Len(c.constants) <= Len(d.constants) /\ c.constants \in Seq(S) /\ d.constants \in Seq(S)
  <2>1. c.constants \in Seq(S) /\ d.constants \in Seq(S)
    BY <1>1, <1>6 DEF Chunks
  <2>2. d.constants = c.constants \/ d.constants = Append(c.constants, value)
    BY <1>1 DEF InsertConstant, Chunks
  <2>. QED
    BY <2>1, <2>2
<1>. HIDE DEF d
<1>8. Kept(c, d) /\ Size(d) = Size(c)
  <2>1. \A i \in DOMAIN c.constants : i \in DOMAIN d.constants /\ d.constants[i] = c.constants[i]
    BY <1>3, <1>5, <1>7
  <2>. QED
    BY <1>1, <1>3, <1>4, <1>5, <2>1 DEF Kept, Size
<1>9. ConstantIndex(d, value) \in Nat
  BY <1>3, <1>5, <1>7
<1>. QED
  BY <1>3, <1>4, <1>5, <1>8, <1>9 DEF d

LEMMA KeptTransitive ==
  ASSUME NEW c, NEW d, NEW e, Kept(c, d), Kept(d, e)
  PROVE  Kept(c, e)
<1>1. Size(c) <= Size(e) /\ \A i \in 1 .. Size(c) : i \in 1 .. Size(d)
  BY DEF Kept
<1>. QED
  BY <1>1 DEF Kept

LEMMA WroteSame ==
  ASSUME NEW c, NEW d, NEW e, Kept(c, d), Size(d) = Size(c), NEW opcode, NEW token,
         Wrote(d, e, opcode, token)
  PROVE  Wrote(c, e, opcode, token)
<1>. QED
  BY KeptTransitive DEF Wrote

LEMMA ConstantWrote ==
  ASSUME NEW S, NEW c, NEW P, Good(c, P, S), NEW opcode \in ConstantOpcode,
         NEW value \in S, NEW token \in Nat, ~EmitConstant(c, opcode, value, token).narrowing_error
  PROVE  LET d == EmitConstant(c, opcode, value, token)
         IN  /\ Wrote(c, d, opcode, token)
             /\ d.constants[OperandAt(d, Size(c)) + 1] = value
<1> DEFINE inserted == InsertConstant(c, value)
           index == ConstantIndex(inserted, value)
           d == EmitConstant(c, opcode, value, token)
<1>1. ~c.narrowing_error /\ d.constants[OperandAt(d, Size(c)) + 1] = value
  BY EmitConstantGood DEF Later
<1>2. /\ Good(inserted, P, S) /\ ~inserted.narrowing_error /\ Kept(c, inserted)
      /\ Size(inserted) = Size(c) /\ index \in Nat
  BY <1>1, InsertKept, Zenon
<1>3. d = EmitIndex(inserted, opcode, index, token)
  BY DEF EmitConstant
<1>. HIDE DEF inserted, index, d
<1>4. Wrote(inserted, d, opcode, token)
  BY <1>2, <1>3, IndexWrote DEF d
<1>5. Wrote(c, d, opcode, token)
  BY <1>2, <1>4, WroteSame
<1>. QED
  BY <1>1, <1>5 DEF d

LEMMA ClosureWrote ==
  ASSUME NEW S, NEW c, NEW P, Good(c, P, S), NEW fn \in S, NEW token \in Nat,
         ~EmitClosure(c, fn, <<>>, token).narrowing_error
  PROVE  Wrote(c, EmitClosure(c, fn, <<>>, token), "closure", token)
<1> DEFINE inserted == InsertConstant(c, fn)
           index == ConstantIndex(inserted, fn)
           d == EmitClosure(c, fn, <<>>, token)
           nothing == [k \in 1 .. (2 * Len(<<>>)) |->
                         Byte(IF k % 2 = 0 THEN <<>>[(k + 1) \div 2].index
                              ELSE IF <<>>[(k + 1) \div 2].direct THEN 1 ELSE 0)]
           cells == <<Op("closure"), Byte(index), Byte(0)>>
<1>1. ~c.narrowing_error
  <2>1. <<>> \in Seq({}) /\ \A u \in {} : u.index \in Nat
    OBVIOUS
  <2>. QED
    BY <2>1, EmitClosureGood DEF Later
<1>2. /\ Good(inserted, P, S) /\ ~inserted.narrowing_error /\ Kept(c, inserted)
      /\ Size(inserted) = Size(c) /\ index \in Nat
  BY <1>1, InsertKept, Zenon
<1>3. nothing = <<>>
  OBVIOUS
<1>4. d = IF FitsByte(index) /\ FitsByte(0) THEN Emit(inserted, cells \o nothing, token)
          ELSE Unwound(inserted)
  BY DEF EmitClosure
<1>. HIDE DEF nothing, inserted, index, d
<1>5. FitsByte(index) /\ FitsByte(0) /\ d = Emit(inserted, cells \o nothing, token)
  <2>1. "narrowing_error" \in DOMAIN inserted
    BY <1>2 DEF Good
  <2>. QED
    BY <1>4, <2>1, StillUnwound DEF d
<1>6. /\ cells \in Seq(Cell) /\ Len(cells) = 3 /\ cells[1].opcode = "closure"
      /\ cells[2].opcode = "operand" /\ cells[3].opcode = "operand"
  <2>1. "closure" \in Opcode
    BY DEF Opcode
  <2>2. /\ Op("closure") \in Cell /\ Op("closure").opcode = "closure"
        /\ Byte(index) \in Cell /\ Byte(index).opcode = "operand"
        /\ Byte(0) \in Cell /\ Byte(0).opcode = "operand"
    BY <1>2, <1>5, <2>1, ByteCell
  <2>. QED
    BY <2>2
<1>. HIDE DEF cells
<1>7. cells \o nothing = cells
  BY <1>3, <1>6
<1>8. Len(cells) > 0 /\ \A i \in 2 .. Len(cells) : cells[i].opcode = "operand"
  BY <1>6
<1>9. inserted \in Chunks(S) /\ TokensParallel(inserted)
  BY <1>2, SoundChunk
<1>10. Wrote(inserted, Emit(inserted, cells, token), cells[1].opcode, token)
  BY <1>6, <1>8, <1>9, InstructionWrote, Zenon
<1>11. Wrote(inserted, d, "closure", token)
  BY <1>5, <1>6, <1>7, <1>10
<1>12. Wrote(c, d, "closure", token)
  BY <1>2, <1>11, WroteSame
<1>. QED
  BY <1>12 DEF d

LEMMA JumpWrote ==
  ASSUME NEW S, NEW c, NEW P, Good(c, P, S), NEW opcode \in JumpOpcode, NEW token \in Nat,
         ~c.narrowing_error
  PROVE  LET d == EmitJump(c, opcode, token)
         IN  Wrote(c, d, opcode, token) /\ Size(d) = Size(c) + 3 /\ ~d.narrowing_error
<1>1. c \in Chunks(S) /\ TokensParallel(c) /\ "narrowing_error" \in DOMAIN c
  BY SoundChunk DEF Good
<1> DEFINE cells == <<Op(opcode), Byte(0), Byte(0)>>
<1>2. /\ cells \in Seq(Cell) /\ Len(cells) = 3 /\ cells[1].opcode = opcode
      /\ cells[2].opcode = "operand" /\ cells[3].opcode = "operand"
  <2>1. opcode \in Opcode
    BY DEF Opcode
  <2>2. FitsByte(0)
    BY ChunkAssumption DEF FitsByte
  <2>3. /\ Op(opcode) \in Cell /\ Op(opcode).opcode = opcode
        /\ Byte(0) \in Cell /\ Byte(0).opcode = "operand"
    BY <2>1, <2>2, ByteCell
  <2>. QED
    BY <2>3
<1>3. EmitJump(c, opcode, token) = Emit(c, cells, token)
  BY DEF EmitJump
<1>. HIDE DEF cells
<1>4. Len(cells) > 0 /\ \A i \in 2 .. Len(cells) : cells[i].opcode = "operand"
  BY <1>2
<1>5. LET d == Emit(c, cells, token)
      IN  Wrote(c, d, cells[1].opcode, token) /\ Size(d) = Size(c) + Len(cells)
  BY <1>1, <1>2, <1>4, InstructionWrote, Zenon
<1>6. ~Emit(c, cells, token).narrowing_error
  BY <1>1, StillUnwound
<1>. QED
  BY <1>2, <1>3, <1>5, <1>6

LEMMA LoopWrote ==
  ASSUME NEW S, NEW c, NEW P, Good(c, P, S), NEW token \in Nat,
         NEW b \in Nat, ~c.narrowing_error => IsStart(c, b),
         ~EmitLoop(c, b, token).narrowing_error
  PROVE  LET d == EmitLoop(c, b, token)
         IN  Wrote(c, d, "loop", token) /\ Size(d) = Size(c) + 3 /\ JumpTarget(d, Size(c)) = b
<1> DEFINE dummy == EmitJump(c, "loop", token)
           distance == Size(dummy) - b
           d == EmitLoop(c, b, token)
           n == Size(c)
<1>1. ~c.narrowing_error /\ Size(d) = n + 3 /\ JumpTarget(d, n) = b
  BY EmitLoopGood DEF Later
<1>2. Wrote(c, dummy, "loop", token) /\ Size(dummy) = n + 3 /\ ~dummy.narrowing_error
  <2>1. "loop" \in JumpOpcode
    BY DEF JumpOpcode
  <2>. QED
    BY <1>1, <2>1, JumpWrote
<1>3. c \in Chunks(S) /\ n \in Nat /\ SoundCode(c, P)
  BY <1>1, SoundChunk
<1>4. dummy \in Chunks(S)
  <2>1. "loop" \in JumpOpcode
    BY DEF JumpOpcode
  <2>. QED
    BY <1>3, <2>1, EmitJumpShape
<1>5. FitsTwoBytes(distance)
  <2>1. ASSUME ~FitsTwoBytes(distance) PROVE FALSE
    <3>1. d = Unwound(dummy)
      BY <2>1 DEF EmitLoop
    <3>2. "narrowing_error" \in DOMAIN dummy
      BY <1>4 DEF Chunks
    <3>. QED
      BY <3>1, <3>2, StillUnwound
  <2>. QED
    BY <2>1
<1>6. d = WriteDistance(dummy, Size(dummy) - 2, distance)
  BY <1>5 DEF EmitLoop
<1>. HIDE DEF d, dummy, distance
<1>7. /\ d.bytecode = [dummy.bytecode EXCEPT ![n + 2] = Byte(distance \div ByteValues),
                                             ![n + 3] = Byte(distance % ByteValues)]
      /\ d.source_map_tokens = dummy.source_map_tokens /\ d.constants = dummy.constants
  <2>1. Size(dummy) - 2 + 1 = n + 2 /\ Size(dummy) - 2 + 2 = n + 3
    BY <1>2, <1>3
  <2>. QED
    BY <1>4, <1>6, <2>1 DEF WriteDistance, Chunks
<1>. HIDE DEF n
<1>8. /\ dummy.bytecode \in Seq(Cell) /\ Len(dummy.bytecode) = n + 3
  BY <1>2, <1>4 DEF Chunks, Size
<1>9. /\ \A i \in 1 .. n + 1 : d.bytecode[i] = dummy.bytecode[i]
      /\ d.bytecode[n + 2].opcode = "operand" /\ d.bytecode[n + 3].opcode = "operand"
  BY <1>3, <1>7, <1>8 DEF Byte
<1>10. Kept(c, d)
  <2>1. Kept(c, dummy)
    BY <1>2 DEF Wrote
  <2>. QED
    BY <1>1, <1>3, <1>7, <1>9, <2>1 DEF Kept, n
<1>11. OpcodeAt(d, n) = "loop" /\ TokenAt(d, n) = token
  BY <1>2, <1>3, <1>7, <1>9 DEF Wrote, OpcodeAt, TokenAt, n
<1>12. \A i \in n + 1 .. n + 3 - 1 : OpcodeAt(d, i) = "operand"
  BY <1>3, <1>9 DEF OpcodeAt
<1>. QED
  BY <1>1, <1>3, <1>10, <1>11, <1>12 DEF Wrote, d, n

-----------------------------------------------------------------------------
(* The height of the stack at every instruction *)

(* How many values an instruction takes and leaves.  What follows an        *)
(* unconditional jump is not reached from it.                               *)
Needs(opcode, operand) ==
  CASE opcode \in {"equal", "greater", "less", "add", "subtract", "multiply", "divide"} -> 2
    [] opcode \in {"not_", "negate", "print", "pop", "close_upvalue", "define_global",
                   "get_property", "set_property"} -> 1
    [] opcode = "call" -> operand + 1
    [] OTHER -> 0
Pushes(opcode) ==
  IF opcode \in {"print", "pop", "close_upvalue", "define_global", "set_global", "set_property"}
                \cup JumpOpcode
  THEN 0 ELSE 1
NoFall == {"jump", "loop", "return_"}

TakesAt(c, p) == Needs(OpcodeAt(c, p), OperandAt(c, p))

StepFits(c, P, h, p) ==
  /\ TakesAt(c, p) <= h[p]
  /\ OpcodeAt(c, p) \notin NoFall =>
       h[p + Width(c, p)] = h[p] - TakesAt(c, p) + Pushes(OpcodeAt(c, p))
  /\ OpcodeAt(c, p) \in JumpOpcode /\ p + 3 \notin P => h[JumpTarget(c, p)] = h[p]
Fits(c, P, h) ==
  \A p \in 0 .. Size(c) - 1 : OpcodeAt(c, p) # "operand" => StepFits(c, P, h, p)

(* Code whose stack is a high where it ends. *)
At(c, P, h, a) ==
  /\ Good(c, P, Constant) /\ h \in [Nat -> Nat]
  /\ ~c.narrowing_error => Fits(c, P, h) /\ h[Size(c)] = a
Rise(c, h, d, g) ==
  ~d.narrowing_error =>
    /\ ~c.narrowing_error /\ Size(c) \in Nat /\ Size(d) \in Nat /\ Size(c) <= Size(d)
    /\ \A p \in 0 .. Size(c) : g[p] = h[p]

LEMMA RiseTransitive ==
  ASSUME NEW c, NEW h, NEW d, NEW g, NEW e, NEW f, Rise(c, h, d, g), Rise(d, g, e, f)
  PROVE  Rise(c, h, e, f)
<1>1. SUFFICES ASSUME ~e.narrowing_error
               PROVE  /\ ~c.narrowing_error /\ Size(c) \in Nat /\ Size(e) \in Nat /\ Size(c) <= Size(e)
                      /\ \A p \in 0 .. Size(c) : f[p] = h[p]
  BY DEF Rise
<1>2. /\ Size(d) \in Nat /\ Size(e) \in Nat /\ Size(d) <= Size(e) /\ ~d.narrowing_error
      /\ \A p \in 0 .. Size(d) : f[p] = g[p]
  BY <1>1 DEF Rise
<1>3. /\ ~c.narrowing_error /\ Size(c) \in Nat /\ Size(c) <= Size(d)
      /\ \A p \in 0 .. Size(c) : g[p] = h[p]
  BY <1>2 DEF Rise
<1>4. \A p \in 0 .. Size(c) : p \in 0 .. Size(d)
  BY <1>2, <1>3
<1>. QED
  BY <1>2, <1>3, <1>4

LEMMA SameInstruction ==
  ASSUME NEW S, NEW c \in Chunks(S), Aligned(c), NEW d, Kept(c, d),
         NEW p \in 0 .. Size(c) - 1, OpcodeAt(c, p) # "operand"
  PROVE  /\ OpcodeAt(d, p) = OpcodeAt(c, p) /\ Width(d, p) = Width(c, p)
         /\ TakesAt(d, p) = TakesAt(c, p)
         /\ OpcodeAt(c, p) \in ConstantOpcode \cup IndexOpcode => OperandAt(d, p) = OperandAt(c, p)
         /\ OpcodeAt(c, p) \in JumpOpcode => JumpTarget(d, p) = JumpTarget(c, p)
         /\ p + Width(c, p) \in 0 .. Size(c)
<1>1. /\ Width(c, p) \in Nat \ {0} /\ p + Width(c, p) <= Size(c)
      /\ OpcodeAt(c, p) \in JumpOpcode => Width(c, p) = 3
      /\ OpcodeAt(c, p) = "closure" => p + 2 < Size(c)
  BY InstructionShape
<1>2. /\ Size(c) \in Nat /\ p \in Nat
      /\ \A i \in 1 .. Size(c) : d.bytecode[i] = c.bytecode[i]
  BY DEF Kept
<1>3. OpcodeAt(d, p) = OpcodeAt(c, p)
  BY <1>2 DEF OpcodeAt
<1>4. Width(d, p) = Width(c, p)
  <2>1. d.bytecode[p + 1] = c.bytecode[p + 1] /\ OpcodeAt(c, p) = c.bytecode[p + 1].opcode
    BY <1>2 DEF OpcodeAt
  <2>2. CASE OpcodeAt(c, p) = "closure"
    <3>1. d.bytecode[p + 1 + 2] = c.bytecode[p + 1 + 2]
      BY <1>1, <1>2, <2>2
    <3>. QED
      BY <2>1, <3>1 DEF Width, WidthAt
  <2>3. CASE OpcodeAt(c, p) # "closure"
    <3>1. OpcodeAt(c, p) \in PlainOpcode \cup ConstantOpcode \cup IndexOpcode \cup JumpOpcode
      <4>1. c.bytecode \in Seq(Cell) /\ Size(c) = Len(c.bytecode)
        BY DEF Chunks, Size
      <4>2. c.bytecode[p + 1] \in Cell
        BY <1>2, <4>1
      <4>. QED
        BY <2>1, <2>3, <4>2 DEF Cell, Opcode
    <3>. QED
      BY <2>1, <2>3, <3>1 DEF Width, WidthAt
  <2>. QED
    BY <2>2, <2>3
<1>5. OpcodeAt(c, p) \in ConstantOpcode \cup IndexOpcode => OperandAt(d, p) = OperandAt(c, p)
  <2>1. SUFFICES ASSUME OpcodeAt(c, p) \in ConstantOpcode \cup IndexOpcode
                 PROVE  OperandAt(d, p) = OperandAt(c, p)
    OBVIOUS
  <2>2. Width(c, p) = 2
    <3>1. OpcodeAt(c, p) \notin PlainOpcode \cup JumpOpcode \cup {"closure"}
      BY <2>1 DEF ConstantOpcode, NameOpcode, IndexOpcode, PlainOpcode, JumpOpcode
    <3>2. OpcodeAt(c, p) = c.bytecode[p + 1].opcode
      BY DEF OpcodeAt
    <3>. QED
      BY <2>1, <3>1, <3>2 DEF Width, WidthAt
  <2>3. p + 2 \in 1 .. Size(c)
    BY <1>1, <1>2, <2>2
  <2>. QED
    BY <1>2, <2>3 DEF OperandAt
<1>6. TakesAt(d, p) = TakesAt(c, p)
  BY <1>3, <1>5 DEF TakesAt, Needs, IndexOpcode
<1>7. OpcodeAt(c, p) \in JumpOpcode => JumpTarget(d, p) = JumpTarget(c, p)
  <2>1. SUFFICES ASSUME OpcodeAt(c, p) \in JumpOpcode
                 PROVE  JumpTarget(d, p) = JumpTarget(c, p)
    OBVIOUS
  <2>2. p + 1 + 1 \in 1 .. Size(c) /\ p + 1 + 2 \in 1 .. Size(c)
    BY <1>1, <1>2, <2>1
  <2>. QED
    BY <1>2, <1>3, <2>2 DEF JumpTarget, ReadDistance
<1>8. p + Width(c, p) \in 0 .. Size(c)
  BY <1>1, <1>2
<1>. QED
  BY <1>3, <1>4, <1>5, <1>6, <1>7, <1>8

LEMMA KeptFits ==
  ASSUME NEW S, NEW c \in Chunks(S), NEW P, SoundCode(c, P), NEW h, Fits(c, P, h),
         NEW d, Kept(c, d), NEW Q, P \subseteq Q,
         NEW g, \A p \in 0 .. Size(c) : g[p] = h[p],
         \A p \in Size(c) .. Size(d) - 1 : OpcodeAt(d, p) # "operand" => StepFits(d, Q, g, p)
  PROVE  Fits(d, Q, g)
<1>1. Size(c) \in Nat /\ Size(d) \in Nat /\ Size(c) <= Size(d) /\ Aligned(c)
  BY DEF Kept, SoundCode
<1>2. SUFFICES ASSUME NEW p \in 0 .. Size(c) - 1, OpcodeAt(d, p) # "operand"
               PROVE  StepFits(d, Q, g, p)
  <2>1. \A p \in 0 .. Size(d) - 1 : p \in 0 .. Size(c) - 1 \/ p \in Size(c) .. Size(d) - 1
    BY <1>1
  <2>. QED
    BY <2>1 DEF Fits
<1>3. OpcodeAt(c, p) # "operand"
  BY <1>1, <1>2 DEF Kept, OpcodeAt
<1>4. /\ OpcodeAt(d, p) = OpcodeAt(c, p) /\ Width(d, p) = Width(c, p)
      /\ TakesAt(d, p) = TakesAt(c, p)
      /\ OpcodeAt(c, p) \in JumpOpcode => JumpTarget(d, p) = JumpTarget(c, p)
      /\ p + Width(c, p) \in 0 .. Size(c)
  BY <1>1, <1>3, SameInstruction
<1>5. StepFits(c, P, h, p) /\ g[p] = h[p] /\ p \in 0 .. Size(c)
  BY <1>1, <1>3 DEF Fits
<1>6. OpcodeAt(c, p) \in JumpOpcode /\ p + 3 \notin P => JumpTarget(c, p) \in 0 .. Size(c)
  BY <1>1 DEF SoundCode, JumpsLand, IsStart
<1>. QED
  BY <1>4, <1>5, <1>6 DEF StepFits

LEMMA WroteWhole ==
  ASSUME NEW S, NEW d \in Chunks(S), Aligned(d), NEW c, NEW opcode, opcode # "operand", NEW token,
         Wrote(c, d, opcode, token)
  PROVE  /\ Size(c) + Width(d, Size(c)) = Size(d)
         /\ \A p \in Size(c) .. Size(d) - 1 : OpcodeAt(d, p) # "operand" => p = Size(c)
<1>1. /\ Size(c) \in Nat /\ Size(d) \in Nat /\ Size(c) < Size(d) /\ OpcodeAt(d, Size(c)) = opcode
      /\ \A i \in Size(c) + 1 .. Size(d) - 1 : OpcodeAt(d, i) = "operand"
  BY DEF Wrote, Kept
<1>2. Size(c) \in 0 .. Size(d) - 1
  BY <1>1
<1>3. /\ Width(d, Size(c)) \in Nat \ {0} /\ Size(c) + Width(d, Size(c)) <= Size(d)
      /\ IsStart(d, Size(c) + Width(d, Size(c)))
  BY <1>1, <1>2, InstructionShape
<1>4. Size(c) + Width(d, Size(c)) \notin Size(c) + 1 .. Size(d) - 1
  BY <1>1, <1>3 DEF IsStart
<1>. QED
  BY <1>1, <1>3, <1>4

(* One more instruction. *)
LEMMA OneAt ==
  ASSUME NEW c, NEW P, NEW h, NEW a \in Nat, At(c, P, h, a),
         NEW d, NEW Q, Good(d, Q, Constant), Later(c, d), P \subseteq Q,
         NEW opcode, opcode # "operand", NEW token, NEW m \in Nat,
         ~d.narrowing_error =>
           /\ Wrote(c, d, opcode, token)
           /\ Needs(opcode, OperandAt(d, Size(c))) <= a
           /\ opcode \notin NoFall => m = a - Needs(opcode, OperandAt(d, Size(c))) + Pushes(opcode)
           /\ opcode \in JumpOpcode /\ Size(c) + 3 \notin Q =>
                JumpTarget(d, Size(c)) \in 0 .. Size(c) /\ h[JumpTarget(d, Size(c))] = a
  PROVE  \E g : At(d, Q, g, m) /\ Rise(c, h, d, g)
<1>1. CASE d.narrowing_error
  BY <1>1 DEF At, Rise
<1>2. CASE ~d.narrowing_error
  <2>1. ~c.narrowing_error
    BY <1>2 DEF Later
  <2>2. /\ c \in Chunks(Constant) /\ Size(c) \in Nat /\ SoundCode(c, P) /\ Good(c, P, Constant)
        /\ Fits(c, P, h) /\ h[Size(c)] = a /\ h \in [Nat -> Nat]
    BY <2>1, SoundChunk DEF At
  <2>3. d \in Chunks(Constant) /\ Size(d) \in Nat /\ Aligned(d)
    BY <1>2, SoundChunk
  <2>4. Wrote(c, d, opcode, token) /\ Kept(c, d) /\ Size(c) < Size(d) /\ OpcodeAt(d, Size(c)) = opcode
    BY <1>2 DEF Wrote
  <2>5. /\ Size(c) + Width(d, Size(c)) = Size(d)
        /\ \A p \in Size(c) .. Size(d) - 1 : OpcodeAt(d, p) # "operand" => p = Size(c)
    BY <2>3, <2>4, WroteWhole
  <2>6. PICK g : g = [h EXCEPT ![Size(d)] = m]
    OBVIOUS
  <2>7. g \in [Nat -> Nat] /\ g[Size(d)] = m /\ \A p \in 0 .. Size(c) : g[p] = h[p]
    BY <2>2, <2>3, <2>4, <2>6
  <2>8. StepFits(d, Q, g, Size(c))
    <3>1. g[Size(c)] = a /\ TakesAt(d, Size(c)) = Needs(opcode, OperandAt(d, Size(c)))
      BY <2>2, <2>4, <2>7 DEF TakesAt
    <3>2. opcode \in JumpOpcode /\ Size(c) + 3 \notin Q => g[JumpTarget(d, Size(c))] = a
      BY <1>2, <2>7
    <3>. QED
      BY <1>2, <2>4, <2>5, <2>7, <3>1, <3>2 DEF StepFits
  <2>9. Fits(d, Q, g)
    <3>1. \A p \in Size(c) .. Size(d) - 1 : OpcodeAt(d, p) # "operand" => StepFits(d, Q, g, p)
      BY <2>5, <2>8
    <3>. QED
      BY <2>2, <2>4, <2>7, <3>1, KeptFits
  <2>10. At(d, Q, g, m)
    BY <2>7, <2>9 DEF At
  <2>11. Rise(c, h, d, g)
    BY <2>1, <2>2, <2>3, <2>4, <2>7 DEF Rise
  <2>. QED
    BY <2>10, <2>11
<1>. QED
  BY <1>1, <1>2

LEMMA PlainAt ==
  ASSUME NEW c, NEW P, NEW h, NEW a \in Nat, At(c, P, h, a),
         NEW opcode \in PlainOpcode, NEW token \in Nat,
         Needs(opcode, 0) <= a, NEW m \in Nat,
         opcode # "return_" => m = a - Needs(opcode, 0) + Pushes(opcode)
  PROVE  LET d == EmitPlain(c, opcode, token)
         IN  \E g : At(d, P, g, m) /\ Rise(c, h, d, g)
<1> DEFINE d == EmitPlain(c, opcode, token)
<1>1. Good(c, P, Constant)
  BY DEF At
<1>2. Good(d, P, Constant) /\ Later(c, d)
  BY <1>1, EmitPlainGood, Zenon
<1>3. ~d.narrowing_error => Wrote(c, d, opcode, token)
  BY <1>1, PlainWrote
<1>4. opcode \notin JumpOpcode \cup {"operand", "call"}
  BY DEF PlainOpcode, JumpOpcode
<1>5. Needs(opcode, OperandAt(d, Size(c))) = Needs(opcode, 0)
  BY <1>4 DEF Needs
<1>6. opcode \notin NoFall <=> opcode # "return_"
  BY <1>4 DEF NoFall, JumpOpcode
<1>. HIDE DEF d
<1>. QED
  BY <1>2, <1>3, <1>4, <1>5, <1>6, OneAt DEF d

LEMMA IndexAt ==
  ASSUME NEW c, NEW P, NEW h, NEW a \in Nat, At(c, P, h, a),
         NEW opcode \in {"get_local", "call"}, NEW index \in Nat, NEW token \in Nat,
         Needs(opcode, index) <= a, NEW m \in Nat, m = a - Needs(opcode, index) + 1
  PROVE  LET d == EmitIndex(c, opcode, index, token)
         IN  \E g : At(d, P, g, m) /\ Rise(c, h, d, g)
<1> DEFINE d == EmitIndex(c, opcode, index, token)
<1>1. Good(c, P, Constant)
  BY DEF At
<1>2. /\ opcode \in ConstantOpcode \cup IndexOpcode
      /\ opcode \notin JumpOpcode \cup NoFall \cup {"operand"} /\ Pushes(opcode) = 1
  BY DEF IndexOpcode, JumpOpcode, NoFall, Pushes
<1>3. Good(d, P, Constant) /\ Later(c, d)
  BY <1>1, <1>2, EmitIndexGood, Zenon
<1>4. ~d.narrowing_error => Wrote(c, d, opcode, token) /\ OperandAt(d, Size(c)) = index
  BY <1>1, <1>2, IndexWrote
<1>. HIDE DEF d
<1>. QED
  BY <1>2, <1>3, <1>4, OneAt DEF d

LEMMA ConstantAt ==
  ASSUME NEW c, NEW P, NEW h, NEW a \in Nat, At(c, P, h, a),
         NEW opcode \in ConstantOpcode, NEW value \in Constant, NEW token \in Nat,
         Needs(opcode, 0) <= a, NEW m \in Nat, m = a - Needs(opcode, 0) + Pushes(opcode)
  PROVE  LET d == EmitConstant(c, opcode, value, token)
         IN  \E g : At(d, P, g, m) /\ Rise(c, h, d, g)
<1> DEFINE d == EmitConstant(c, opcode, value, token)
<1>1. Good(c, P, Constant)
  BY DEF At
<1>2. opcode \notin JumpOpcode \cup NoFall \cup {"operand", "call"}
  BY DEF ConstantOpcode, NameOpcode, JumpOpcode, NoFall
<1>3. Good(d, P, Constant) /\ Later(c, d)
  BY <1>1, EmitConstantGood, Zenon
<1>4. ~d.narrowing_error => Wrote(c, d, opcode, token)
  BY <1>1, ConstantWrote
<1>5. Needs(opcode, OperandAt(d, Size(c))) = Needs(opcode, 0)
  BY <1>2 DEF Needs
<1>. HIDE DEF d
<1>. QED
  BY <1>2, <1>3, <1>4, <1>5, OneAt DEF d

LEMMA ClosureAt ==
  ASSUME NEW c, NEW P, NEW h, NEW a \in Nat, At(c, P, h, a),
         NEW fn \in Constant, NEW token \in Nat
  PROVE  LET d == EmitClosure(c, fn, <<>>, token)
         IN  \E g : At(d, P, g, a + 1) /\ Rise(c, h, d, g)
<1> DEFINE d == EmitClosure(c, fn, <<>>, token)
<1>1. Good(c, P, Constant)
  BY DEF At
<1>2. "closure" \notin JumpOpcode \cup NoFall /\ Needs("closure", OperandAt(d, Size(c))) = 0
      /\ Pushes("closure") = 1
  BY DEF JumpOpcode, NoFall, Needs, Pushes
<1>3. Good(d, P, Constant) /\ Later(c, d)
  <2>1. <<>> \in Seq({}) /\ \A u \in {} : u.index \in Nat
    OBVIOUS
  <2>. QED
    BY <1>1, <2>1, EmitClosureGood
<1>4. ~d.narrowing_error => Wrote(c, d, "closure", token)
  BY <1>1, ClosureWrote
<1>5. PICK m \in Nat : m = a + 1
  OBVIOUS
<1>6. m = a - 0 + 1 /\ 0 <= a
  BY <1>5
<1>. HIDE DEF d
<1>7. \E g : At(d, P, g, m) /\ Rise(c, h, d, g)
  BY <1>2, <1>3, <1>4, <1>6, OneAt
<1>. QED
  BY <1>5, <1>7 DEF d

(* A jump that is still to be patched, and how high the stack is there. *)
Left(c, s, h, a) ==
  ~c.narrowing_error => Size(c) \in Nat /\ s \in 3 .. Size(c) /\ h[s - 3] = a

(* A jump to be patched: it is named by the size after it. *)
LEMMA JumpAt ==
  ASSUME NEW c, NEW P, NEW h, NEW a \in Nat, At(c, P, h, a),
         NEW opcode \in {"jump", "jump_if_false"}, NEW token \in Nat,
         NEW m \in Nat, opcode = "jump_if_false" => m = a
  PROVE  LET d == EmitJump(c, opcode, token)
         IN  \E g : At(d, P \cup {Size(d)}, g, m) /\ Rise(c, h, d, g) /\ Left(d, Size(d), g, a)
<1> DEFINE d == EmitJump(c, opcode, token)
<1>1. Good(c, P, Constant)
  BY DEF At
<1>2. /\ Good(d, P \cup {Size(d)}, Constant) /\ Later(c, d)
      /\ ~d.narrowing_error => Size(d) = Size(c) + 3 /\ IsPending(d, Size(d))
  BY <1>1, EmitJumpGood, Zenon
<1>3. /\ opcode \in JumpOpcode /\ opcode # "operand" /\ Needs(opcode, OperandAt(d, Size(c))) = 0
      /\ Pushes(opcode) = 0 /\ (opcode \notin NoFall => opcode = "jump_if_false")
  BY DEF JumpOpcode, NoFall, Needs, Pushes
<1>4. ~d.narrowing_error => Wrote(c, d, opcode, token)
  BY <1>1, <1>2, <1>3, JumpWrote DEF Later
<1>5. ~d.narrowing_error => Size(c) + 3 \in P \cup {Size(d)}
  BY <1>2
<1>6. P \subseteq P \cup {Size(d)} /\ a = a - 0 + 0 /\ 0 <= a
  OBVIOUS
<1>. HIDE DEF d
<1>7. PICK g : At(d, P \cup {Size(d)}, g, m) /\ Rise(c, h, d, g)
  BY <1>2, <1>3, <1>4, <1>5, <1>6, OneAt
<1>8. Left(d, Size(d), g, a)
  <2>. SUFFICES ASSUME ~d.narrowing_error
                PROVE  Size(d) \in Nat /\ Size(d) \in 3 .. Size(d) /\ g[Size(d) - 3] = a
    BY DEF Left
  <2>1. ~c.narrowing_error /\ Size(c) \in Nat /\ Size(d) = Size(c) + 3 /\ g[Size(c)] = h[Size(c)]
    BY <1>2, <1>7 DEF Rise
  <2>2. h[Size(c)] = a
    BY <2>1 DEF At
  <2>. QED
    BY <2>1, <2>2
<1>. QED
  BY <1>7, <1>8 DEF d

LEMMA LoopAt ==
  ASSUME NEW c, NEW P, NEW h, NEW a \in Nat, At(c, P, h, a),
         NEW token \in Nat, NEW m \in Nat,
         NEW b \in Nat, ~c.narrowing_error => IsStart(c, b) /\ h[b] = a
  PROVE  LET d == EmitLoop(c, b, token)
         IN  \E g : At(d, P, g, m) /\ Rise(c, h, d, g)
<1> DEFINE d == EmitLoop(c, b, token)
<1>1. Good(c, P, Constant)
  BY DEF At
<1>2. Good(d, P, Constant) /\ Later(c, d)
  BY <1>1, EmitLoopGood
<1>3. /\ "loop" \in JumpOpcode \cap NoFall /\ Needs("loop", OperandAt(d, Size(c))) = 0
  BY DEF JumpOpcode, NoFall, Needs
<1>4. ~d.narrowing_error => Wrote(c, d, "loop", token) /\ JumpTarget(d, Size(c)) = b
  BY <1>1, LoopWrote
<1>5. ~d.narrowing_error => b \in 0 .. Size(c) /\ h[b] = a
  <2>1. ~d.narrowing_error => ~c.narrowing_error
    BY <1>2 DEF Later
  <2>2. ~c.narrowing_error => Size(c) \in Nat
    BY <1>1, SoundChunk
  <2>. QED
    BY <2>1, <2>2 DEF IsStart
<1>6. 0 <= a
  OBVIOUS
<1>. HIDE DEF d
<1>. QED
  BY <1>2, <1>3, <1>4, <1>5, <1>6, OneAt DEF d

LEMMA PatchSame ==
  ASSUME NEW S, NEW c, NEW P, Good(c, P, S), NEW j \in P,
         ~ToNextOpcode(c, j).narrowing_error
  PROVE  LET d == ToNextOpcode(c, j)
         IN  /\ ~c.narrowing_error /\ Size(d) = Size(c) /\ d.constants = c.constants
             /\ d.source_map_tokens = c.source_map_tokens
             /\ JumpTarget(d, j - 3) = Size(d)
             /\ \A p \in 0 .. Size(c) - 1 :
                  /\ OpcodeAt(d, p) = OpcodeAt(c, p)
                  /\ OpcodeAt(c, p) # "operand" =>
                       /\ Width(d, p) = Width(c, p) /\ TakesAt(d, p) = TakesAt(c, p)
                       /\ OpcodeAt(c, p) \in ConstantOpcode \cup IndexOpcode =>
                            OperandAt(d, p) = OperandAt(c, p)
                       /\ OpcodeAt(c, p) \in JumpOpcode /\ p # j - 3 =>
                            JumpTarget(d, p) = JumpTarget(c, p)
<1>0. /\ Good(ToNextOpcode(c, j), P \ {j}, S) /\ Later(c, ToNextOpcode(c, j))
      /\ Size(ToNextOpcode(c, j)) = Size(c)
      /\ JumpTarget(ToNextOpcode(c, j), j - 3) = Size(ToNextOpcode(c, j))
  BY PatchGood
<1> DEFINE distance == Size(c) - j
           d == ToNextOpcode(c, j)
<1>1. ~c.narrowing_error /\ Size(d) = Size(c) /\ JumpTarget(d, j - 3) = Size(d)
  BY <1>0 DEF Later
<1>2. c \in Chunks(S) /\ Aligned(c) /\ Size(c) \in Nat /\ SoundCode(c, P)
  BY <1>1, SoundChunk
<1>3. /\ j \in 3 .. Size(c) /\ OpcodeAt(c, j - 3) \in {"jump", "jump_if_false"}
      /\ OpcodeAt(c, j - 2) = "operand"
  BY <1>2 DEF SoundCode, IsPending
<1>4. FitsTwoBytes(distance)
  <2>1. ASSUME ~FitsTwoBytes(distance) PROVE FALSE
    <3>1. d = Unwound(c)
      BY <2>1 DEF ToNextOpcode
    <3>. QED
      BY <3>1, StillUnwound DEF Good
  <2>. QED
    BY <2>1
<1>5. d = WriteDistance(c, j - 2, distance)
  BY <1>4 DEF ToNextOpcode
<1>6. distance \in Nat /\ OpcodeAt(c, j - 3) \in JumpOpcode
  BY <1>2, <1>3 DEF JumpOpcode
<1>. HIDE DEF distance
<1>7. LET e == WriteDistance(c, j - 2, distance)
      IN  /\ e.constants = c.constants /\ e.source_map_tokens = c.source_map_tokens
          /\ \A index \in 0 .. Size(c) - 1 : OpcodeAt(e, index) = OpcodeAt(c, index)
          /\ \A index \in 0 .. Size(c) - 1 :
               OpcodeAt(c, index) \in JumpOpcode /\ index # j - 3 =>
                 JumpTarget(e, index) = JumpTarget(c, index)
  BY <1>2, <1>3, <1>4, <1>6, WriteDistanceExact
<1>8. d.bytecode = [c.bytecode EXCEPT ![j - 1] = Byte(distance \div ByteValues),
                                      ![j] = Byte(distance % ByteValues)]
  <2>1. j - 2 + 1 = j - 1 /\ j - 2 + 2 = j
    BY <1>3
  <2>. QED
    BY <1>2, <1>5, <2>1 DEF WriteDistance, Chunks
<1>. HIDE DEF d
<1>9. \A i \in 1 .. Size(c) : i # j - 1 /\ i # j => d.bytecode[i] = c.bytecode[i]
  BY <1>2, <1>8 DEF Chunks, Size
<1>10. ASSUME NEW p \in 0 .. Size(c) - 1
       PROVE  /\ OpcodeAt(d, p) = OpcodeAt(c, p)
              /\ OpcodeAt(c, p) # "operand" =>
                   /\ Width(d, p) = Width(c, p) /\ TakesAt(d, p) = TakesAt(c, p)
                   /\ OpcodeAt(c, p) \in ConstantOpcode \cup IndexOpcode =>
                        OperandAt(d, p) = OperandAt(c, p)
                   /\ OpcodeAt(c, p) \in JumpOpcode /\ p # j - 3 =>
                        JumpTarget(d, p) = JumpTarget(c, p)
  <2>1. OpcodeAt(d, p) = OpcodeAt(c, p)
    BY <1>5, <1>7
  <2>2. ASSUME OpcodeAt(c, p) # "operand"
        PROVE  /\ Width(d, p) = Width(c, p) /\ TakesAt(d, p) = TakesAt(c, p)
               /\ OpcodeAt(c, p) \in ConstantOpcode \cup IndexOpcode =>
                    OperandAt(d, p) = OperandAt(c, p)
               /\ OpcodeAt(c, p) \in JumpOpcode /\ p # j - 3 =>
                    JumpTarget(d, p) = JumpTarget(c, p)
    <3>1. /\ Width(c, p) \in Nat \ {0} /\ p + Width(c, p) <= Size(c)
          /\ OpcodeAt(c, p) = "closure" => p + 2 < Size(c) /\ Width(c, p) >= 3
          /\ \A i \in p + 1 .. p + Width(c, p) - 1 : OpcodeAt(c, i) = "operand"
      BY <1>2, <2>2, InstructionShape
    <3>2. p \in Nat /\ OpcodeAt(c, p) = c.bytecode[p + 1].opcode
          /\ c.bytecode[p + 1].opcode = d.bytecode[p + 1].opcode
      BY <1>2, <2>1 DEF OpcodeAt
    <3>3. c.bytecode[p + 1] \in Cell
      BY <1>2, <3>2 DEF Chunks, Size
    <3>4. Width(d, p) = Width(c, p)
      <4>1. CASE OpcodeAt(c, p) = "closure"
        <5>1. p + 1 # j - 3
          <6>1. p + 1 \in p + 1 .. p + Width(c, p) - 1
            BY <3>1, <3>2, <4>1
          <6>. QED
            BY <1>3, <3>1, <6>1
        <5>2. p # j - 3
          BY <1>3, <4>1
        <5>3. d.bytecode[p + 1 + 2] = c.bytecode[p + 1 + 2]
          BY <1>2, <1>3, <1>9, <3>1, <3>2, <4>1, <5>1, <5>2
        <5>. QED
          BY <3>2, <5>3 DEF Width, WidthAt
      <4>2. CASE OpcodeAt(c, p) # "closure"
        <5>1. OpcodeAt(c, p) \in PlainOpcode \cup ConstantOpcode \cup IndexOpcode \cup JumpOpcode
          BY <2>2, <3>2, <3>3, <4>2 DEF Cell, Opcode
        <5>. QED
          BY <3>2, <4>2, <5>1 DEF Width, WidthAt
      <4>. QED
        BY <4>1, <4>2
    <3>5. OpcodeAt(c, p) \in ConstantOpcode \cup IndexOpcode => OperandAt(d, p) = OperandAt(c, p)
      <4>1. SUFFICES ASSUME OpcodeAt(c, p) \in ConstantOpcode \cup IndexOpcode
                     PROVE  OperandAt(d, p) = OperandAt(c, p)
        OBVIOUS
      <4>2. OpcodeAt(c, p) \notin PlainOpcode \cup JumpOpcode \cup {"closure"}
        BY <4>1 DEF ConstantOpcode, NameOpcode, IndexOpcode, PlainOpcode, JumpOpcode
      <4>3. Width(c, p) = 2
        BY <3>2, <4>1, <4>2 DEF Width, WidthAt
      <4>4. p # j - 3 /\ p # j - 2
        BY <1>3, <1>6, <2>2, <4>2
      <4>5. p + 2 \in 1 .. Size(c) /\ p + 2 # j - 1 /\ p + 2 # j
        BY <1>2, <1>3, <3>1, <3>2, <4>3, <4>4
      <4>. QED
        BY <1>9, <4>5 DEF OperandAt
    <3>6. TakesAt(d, p) = TakesAt(c, p)
      BY <2>1, <3>5 DEF TakesAt, Needs, IndexOpcode
    <3>. QED
      BY <1>5, <1>7, <3>4, <3>5, <3>6
  <2>. QED
    BY <2>1, <2>2
<1>. QED
  BY <1>1, <1>5, <1>7, <1>10 DEF d

LEMMA PatchAt ==
  ASSUME NEW c, NEW P, NEW h, NEW a \in Nat, At(c, P, h, a), NEW j \in P,
         ~c.narrowing_error => h[j - 3] = a
  PROVE  LET d == ToNextOpcode(c, j)
         IN  At(d, P \ {j}, h, a) /\ Rise(c, h, d, h)
<1> DEFINE d == ToNextOpcode(c, j)
<1>1. Good(c, P, Constant) /\ h \in [Nat -> Nat]
  BY DEF At
<1>2. Good(d, P \ {j}, Constant)
  BY <1>1, PatchGood
<1>3. CASE d.narrowing_error
  BY <1>1, <1>2, <1>3 DEF At, Rise
<1>4. CASE ~d.narrowing_error
  <2>1. /\ ~c.narrowing_error /\ Size(d) = Size(c) /\ JumpTarget(d, j - 3) = Size(d)
        /\ \A p \in 0 .. Size(c) - 1 :
             /\ OpcodeAt(d, p) = OpcodeAt(c, p)
             /\ OpcodeAt(c, p) # "operand" =>
                  /\ Width(d, p) = Width(c, p) /\ TakesAt(d, p) = TakesAt(c, p)
                  /\ OpcodeAt(c, p) \in JumpOpcode /\ p # j - 3 =>
                       JumpTarget(d, p) = JumpTarget(c, p)
    BY <1>1, <1>4, PatchSame
  <2>2. Size(c) \in Nat /\ SoundCode(c, P) /\ Fits(c, P, h) /\ h[Size(c)] = a
    BY <1>1, <2>1, SoundChunk DEF At
  <2>3. j \in 3 .. Size(c)
    BY <2>2 DEF SoundCode, IsPending
  <2>. HIDE DEF d
  <2>4. Fits(d, P \ {j}, h)
    <3>1. SUFFICES ASSUME NEW p \in 0 .. Size(c) - 1, OpcodeAt(c, p) # "operand"
                   PROVE  StepFits(d, P \ {j}, h, p)
      BY <2>1 DEF Fits
    <3>2. StepFits(c, P, h, p)
      BY <2>2, <3>1 DEF Fits
    <3>3. CASE p = j - 3
      BY <2>1, <2>2, <3>1, <3>2, <3>3 DEF StepFits
    <3>4. CASE p # j - 3
      <4>1. p + 3 \notin P \ {j} => p + 3 \notin P
        BY <2>3, <3>4
      <4>. QED
        BY <2>1, <3>1, <3>2, <3>4, <4>1 DEF StepFits
    <3>. QED
      BY <3>3, <3>4
  <2>. QED
    BY <1>1, <1>2, <2>1, <2>2, <2>4 DEF At, Rise, d
<1>. QED
  BY <1>3, <1>4

LEMMA CellsOf ==
  ASSUME NEW opcodes \in Seq(PlainOpcode)
  PROVE  LET cells == [i \in DOMAIN opcodes |-> Op(opcodes[i])]
         IN  /\ cells \in Seq(Cell) /\ Len(cells) = Len(opcodes)
             /\ \A i \in 1 .. Len(opcodes) : cells[i].opcode = opcodes[i]
<1>1. \A i \in 1 .. Len(opcodes) : opcodes[i] \in Opcode
  BY DEF Opcode
<1>2. \A i \in 1 .. Len(opcodes) : Op(opcodes[i]) \in Cell /\ Op(opcodes[i]).opcode = opcodes[i]
  BY <1>1, ByteCell
<1>. QED
  BY <1>2

(* Instructions without operands in one go: k says how high the stack is    *)
(* after each.                                                              *)
LEMMA PlainsReach ==
  ASSUME NEW c, NEW P, NEW h, NEW a \in Nat, At(c, P, h, a),
         NEW opcodes \in Seq(PlainOpcode \ NoFall), NEW token \in Nat,
         NEW k \in [0 .. Len(opcodes) -> Nat], k[0] = a,
         \A i \in 1 .. Len(opcodes) :
           /\ Needs(opcodes[i], 0) <= k[i - 1]
           /\ k[i] = k[i - 1] - Needs(opcodes[i], 0) + Pushes(opcodes[i]),
         NEW b, b = k[Len(opcodes)],
         NEW d, d = Emit(c, [i \in DOMAIN opcodes |-> Op(opcodes[i])], token)
  PROVE  \E g : At(d, P, g, b) /\ Rise(c, h, d, g)
<1> DEFINE cells == [i \in DOMAIN opcodes |-> Op(opcodes[i])]
           n == Size(c)
           l == Len(opcodes)
<1>1. Good(c, P, Constant) /\ h \in [Nat -> Nat]
  BY DEF At
<1>2. opcodes \in Seq(PlainOpcode) /\ l \in Nat
  OBVIOUS
<1>3. Good(d, P, Constant) /\ Later(c, d)
  BY <1>1, <1>2, EmitPlainsGood, ZenonT(30)
<1>4. CASE d.narrowing_error
  <2>1. At(d, P, h, k[l]) /\ Rise(c, h, d, h)
    BY <1>1, <1>3, <1>4 DEF At, Rise
  <2>. QED
    BY <2>1
<1>5. CASE ~d.narrowing_error
  <2>1. ~c.narrowing_error
    BY <1>3, <1>5 DEF Later
  <2>2. /\ c \in Chunks(Constant) /\ TokensParallel(c) /\ n \in Nat /\ SoundCode(c, P)
        /\ Fits(c, P, h) /\ h[n] = a
    BY <1>1, <2>1, SoundChunk DEF At
  <2>3. cells \in Seq(Cell) /\ Len(cells) = l /\ \A i \in 1 .. l : cells[i].opcode = opcodes[i]
    BY <1>2, CellsOf, ZenonT(30)
  <2>0. d = Emit(c, cells, token)
    OBVIOUS
  <2>. HIDE DEF cells
  <2>4. /\ Kept(c, d) /\ Size(d) = n + l
        /\ \A i \in 1 .. l : d.bytecode[n + i] = cells[i]
    <3>1. /\ Kept(c, Emit(c, cells, token)) /\ Size(Emit(c, cells, token)) = Size(c) + Len(cells)
          /\ \A i \in 1 .. Len(cells) : Emit(c, cells, token).bytecode[Size(c) + i] = cells[i]
      <4>. HIDE DEF n, l
      <4>. QED
        BY <2>2, <2>3, CellsWrote, ZenonT(30)
    <3>. QED
      BY <2>0, <2>3, <3>1, Zenon
  <2>. HIDE DEF n, l
  <2>5. PICK g : g = [p \in Nat |-> IF p \in n .. n + l THEN k[p - n] ELSE h[p]]
    OBVIOUS
  <2>6. /\ g \in [Nat -> Nat] /\ \A i \in 0 .. l : g[n + i] = k[i]
    <3>1. \A i \in 0 .. l : n + i \in n .. n + l /\ n + i \in Nat /\ (n + i) - n = i
      BY <1>2, <2>2
    <3>2. \A p \in n .. n + l : p - n \in 0 .. l
      BY <1>2, <2>2
    <3>3. k \in [0 .. l -> Nat]
      BY DEF l
    <3>. QED
      BY <1>1, <2>5, <3>1, <3>2, <3>3
  <2>7. \A p \in 0 .. n : g[p] = h[p]
    <3>1. g[n] = a
      BY <1>2, <2>2, <2>6
    <3>2. \A p \in 0 .. n - 1 : g[p] = h[p]
      BY <2>2, <2>5
    <3>. QED
      BY <2>2, <3>1, <3>2
  <2>8. ASSUME NEW p \in n .. n + l - 1 PROVE StepFits(d, P, g, p)
    <3>1. PICK i : i = p - n + 1
      OBVIOUS
    <3>2. i \in 1 .. l /\ n + i = p + 1 /\ n + (i - 1) = p /\ i - 1 \in 0 .. l /\ i \in 0 .. l
      BY <1>2, <2>2, <3>1
    <3>3. OpcodeAt(d, p) = opcodes[i] /\ d.bytecode[p + 1].opcode = opcodes[i]
      BY <2>3, <2>4, <3>2 DEF OpcodeAt
    <3>4. opcodes[i] \in PlainOpcode /\ opcodes[i] \notin NoFall
      BY <3>2 DEF l
    <3>5. opcodes[i] \notin JumpOpcode \cup {"call"}
      BY SMTT(40), <3>4 DEF PlainOpcode, JumpOpcode
    <3>6. Width(d, p) = 1
      <4>1. Width(d, p) = WidthAt(d.bytecode, p + 1)
        BY DEF Width
      <4>2. d.bytecode[p + 1].opcode \in PlainOpcode
            /\ d.bytecode[p + 1].opcode \notin ConstantOpcode \cup IndexOpcode \cup JumpOpcode \cup {"closure"}
        BY <3>3, <3>4 DEF PlainOpcode, ConstantOpcode, NameOpcode, IndexOpcode, JumpOpcode
      <4>. QED
        BY <4>1, <4>2 DEF WidthAt
    <3>7. TakesAt(d, p) = Needs(opcodes[i], 0)
      BY <3>3, <3>5 DEF TakesAt, Needs
    <3>8. g[p] = k[i - 1] /\ g[p + 1] = k[i]
      BY <2>6, <3>2
    <3>9. /\ Needs(opcodes[i], 0) <= k[i - 1]
          /\ k[i] = k[i - 1] - Needs(opcodes[i], 0) + Pushes(opcodes[i])
      BY <3>2 DEF l
    <3>. QED
      BY <3>3, <3>4, <3>5, <3>6, <3>7, <3>8, <3>9 DEF StepFits
  <2>9. Fits(d, P, g)
    <3>1. Size(d) - 1 = n + l - 1
      BY <1>2, <2>2, <2>4
    <3>2. \A p \in n .. Size(d) - 1 : OpcodeAt(d, p) # "operand" => StepFits(d, P, g, p)
      BY <2>8, <3>1
    <3>. QED
      BY <2>2, <2>4, <2>7, <3>2, KeptFits DEF n
  <2>10. g[Size(d)] = k[l]
    <3>1. l \in 0 .. l /\ Size(d) = n + l
      BY <1>2, <2>4
    <3>. QED
      BY <2>6, <3>1
  <2>11. At(d, P, g, k[l])
    BY <1>3, <2>6, <2>9, <2>10 DEF At
  <2>12. Rise(c, h, d, g)
    BY <2>1, <2>2, <2>4, <2>7 DEF Rise, Kept, n
  <2>13. \E f : At(d, P, f, k[l]) /\ Rise(c, h, d, f)
    BY <2>11, <2>12
  <2>. QED
    BY <2>13 DEF l
<1>. QED
  BY <1>4, <1>5

-----------------------------------------------------------------------------
(* What the waiting functions have on the stack *)

(* Where a waiting function is on the stack: what lies below the value it   *)
(* waits for, and the locals and the depth in the part it compiles now.     *)
Place == [ground : Nat, locals : Nat, depth : Nat]

(* The jumps of an if with an else leave from the end of a branch, all      *)
(* others from a value that is tested.                                      *)
Else(k, w) == k.kind = "if" /\ (Len(k.parts) = 3 \/ (Len(k.parts) = 2 /\ w = "statement"))
Frame(h, tl, k, w, f) ==
  /\ \A j \in DOMAIN k.jumps : h[k.jumps[j] - 3] = IF Else(k, w) THEN f.ground ELSE f.ground + 1
  /\ \A b \in DOMAIN k.begins : h[k.begins[b]] = f.ground
  /\ k.kind \notin ExpressionKinds =>
       f.locals = IF k.kind = "var" /\ f.depth > 0 THEN f.ground + 1 ELSE f.ground
  /\ \A j \in 1 .. f.locals : tl[j] <= f.depth

(* A variable is tracked before its initializer is compiled. *)
AdmitsVariable(p) == p.kind \in {"unit", "block"} \/ (p.kind = "for" /\ Len(p.parts) = 0)
Held(k) == CASE k.kind = "binary" -> 1 [] k.kind = "call" -> k.count [] OTHER -> 0
Link(p, k, tl, e, f) ==
  /\ k.kind \in ExpressionKinds => f.ground = e.ground + Held(k)
  /\ k.kind \notin {"block", "for", "var"} => f.locals = e.locals
  /\ k.kind \notin {"block", "for"} => f.depth = e.depth
  /\ k.kind \in {"block", "for"} =>
       f.depth = e.depth + 1 /\ \A j \in 1 .. f.locals : tl[j] = f.depth <=> j > e.locals
  /\ k.kind = "var" =>
       /\ AdmitsVariable(p)
       /\ f.locals = IF f.depth > 0 THEN e.locals + 1 ELSE e.locals
       /\ f.depth > 0 => tl[f.locals] = f.depth

Frames(ks, what, tl, sd, h, F) ==
  /\ \A i \in 1 .. Len(ks) :
       Frame(h, tl, ks[i], IF i = Len(ks) THEN what ELSE For(ks[i + 1]), F[i])
  /\ \A i \in 2 .. Len(ks) : Link(ks[i - 1], ks[i], tl, F[i - 1], F[i])
  /\ \A i, j \in 1 .. Len(ks) : i <= j => F[i].locals <= F[j].locals
  /\ F[Len(ks)].locals = Len(tl) /\ F[Len(ks)].depth = sd

HeightsStay(c, h, hh) == \A p \in 0 .. Size(c) : hh[p] = h[p]
LocalsStay(f, tl, tt) == \A j \in 1 .. f.locals : tt[j] = tl[j]

LEMMA FrameStays ==
  ASSUME NEW c, Size(c) \in Nat, NEW k, WaitingOK(k), Relies(c, k), NEW h, NEW tl, NEW w,
         NEW f \in Place, Frame(h, tl, k, w, f),
         NEW hh, HeightsStay(c, h, hh), NEW tt, LocalsStay(f, tl, tt), NEW ww, ww = "statement" <=> w = "statement"
  PROVE  Frame(hh, tt, k, ww, f)
<1>1. \A j \in DOMAIN k.jumps : hh[k.jumps[j] - 3] = h[k.jumps[j] - 3]
  <2>1. \A j \in DOMAIN k.jumps : k.jumps[j] \in 3 .. Size(c)
    BY DEF Relies, IsPending
  <2>2. \A j \in 3 .. Size(c) : j - 3 \in 0 .. Size(c)
    OBVIOUS
  <2>. QED
    BY <2>1, <2>2 DEF HeightsStay
<1>2. \A b \in DOMAIN k.begins : hh[k.begins[b]] = h[k.begins[b]]
  <2>1. \A b \in DOMAIN k.begins : k.begins[b] \in 0 .. Size(c)
    BY DEF Relies, IsStart
  <2>. QED
    BY <2>1 DEF HeightsStay
<1>3. Else(k, ww) <=> Else(k, w)
  BY DEF Else
<1>. QED
  BY <1>1, <1>2, <1>3 DEF Frame, LocalsStay

LEMMA LinkStays ==
  ASSUME NEW p, NEW k, NEW tl, NEW e \in Place, NEW f \in Place, Link(p, k, tl, e, f),
         NEW tt, LocalsStay(f, tl, tt)
  PROVE  Link(p, k, tt, e, f)
<1>1. f.locals = e.locals + 1 => f.locals \in 1 .. f.locals
  BY DEF Place
<1>. QED
  BY <1>1 DEF Link, LocalsStay

Waits(c, ks, was, tl, sd, h, F) ==
  Compiles(c, ks, was) /\ F \in [Nat -> Place] /\ Frames(ks, was, tl, sd, h, F)

(* The m outermost functions, of which the last waits for `what'. *)
Lower(ks, m, what, tl, h, F) ==
  /\ \A i \in 1 .. m : Frame(h, tl, ks[i], IF i = m THEN what ELSE For(ks[i + 1]), F[i])
  /\ \A i \in 2 .. m : Link(ks[i - 1], ks[i], tl, F[i - 1], F[i])

(* The functions that wait below are where they were. *)
LEMMA BelowStays ==
  ASSUME NEW c, NEW ks, NEW was, NEW tl, NEW sd, NEW h, NEW F, Waits(c, ks, was, tl, sd, h, F),
         NEW hh, HeightsStay(c, h, hh), NEW m \in 1 .. Len(ks), NEW tt, LocalsStay(F[m], tl, tt),
         NEW what, what = "statement" <=>
                     (IF m = Len(ks) THEN was ELSE For(ks[m + 1])) = "statement"
  PROVE  Lower(ks, m, what, tt, hh, F)
<1>0. /\ Compiles(c, ks, was) /\ F \in [Nat -> Place] /\ Frames(ks, was, tl, sd, h, F)
      /\ \A j \in 1 .. F[m].locals : tt[j] = tl[j]
  BY DEF Waits, LocalsStay
<1>1. Len(ks) \in Nat /\ Size(c) \in Nat
  BY <1>0, CompilesFacts
<1>2. \A i \in 1 .. m : i \in 1 .. Len(ks) /\ i \in Nat /\ F[i] \in Place /\ F[i].locals \in Nat
  <2>1. \A i \in 1 .. m : i \in 1 .. Len(ks) /\ i \in Nat
    BY <1>1
  <2>2. \A f \in Place : f.locals \in Nat
    BY DEF Place
  <2>. QED
    BY <1>0, <2>1, <2>2
<1>3. ASSUME NEW i \in 1 .. m PROVE LocalsStay(F[i], tl, tt)
  <2>1. F[i].locals <= F[m].locals /\ F[i].locals \in Nat /\ F[m].locals \in Nat
    BY <1>0, <1>1, <1>2 DEF Frames
  <2>. QED
    BY <1>0, <2>1 DEF LocalsStay
<1>4. ASSUME NEW i \in 1 .. m
      PROVE  Frame(hh, tt, ks[i], IF i = m THEN what ELSE For(ks[i + 1]), F[i])
  <2>1. WaitingOK(ks[i]) /\ Relies(c, ks[i]) /\ F[i] \in Place
    BY <1>0, <1>2 DEF Compiles
  <2>2. Frame(h, tl, ks[i], IF i = Len(ks) THEN was ELSE For(ks[i + 1]), F[i])
    BY <1>0, <1>2 DEF Frames
  <2>3. i # m => i # Len(ks)
    BY <1>1
  <2>4. (IF i = m THEN what ELSE For(ks[i + 1])) = "statement" <=>
        (IF i = Len(ks) THEN was ELSE For(ks[i + 1])) = "statement"
    BY <2>3
  <2>. QED
    <3>1. PICK w : w = IF i = m THEN what ELSE For(ks[i + 1])
      OBVIOUS
    <3>2. PICK v : v = IF i = Len(ks) THEN was ELSE For(ks[i + 1])
      OBVIOUS
    <3>3. Frame(hh, tt, ks[i], w, F[i])
      BY <1>1, <1>3, <2>1, <2>2, <2>4, <3>1, <3>2, FrameStays
    <3>. QED
      BY <3>1, <3>3
<1>5. ASSUME NEW i \in 2 .. m PROVE Link(ks[i - 1], ks[i], tt, F[i - 1], F[i])
  <2>1. i \in 1 .. m /\ i \in 2 .. Len(ks) /\ F[i] \in Place /\ F[i - 1] \in Place
    BY <1>0, <1>1
  <2>2. Link(ks[i - 1], ks[i], tl, F[i - 1], F[i])
    BY <1>0, <2>1 DEF Frames
  <2>. QED
    BY <1>3, <2>1, <2>2, LinkStays
<1>. QED
  BY <1>4, <1>5 DEF Lower

LEMMA PushFrames ==
  ASSUME NEW c, NEW ks, NEW was, NEW tl, NEW sd, NEW h, NEW F, Waits(c, ks, was, tl, sd, h, F),
         NEW hh, HeightsStay(c, h, hh), NEW tt, LocalsStay(F[Len(ks)], tl, tt),
         NEW k, was = "statement" <=> For(k) = "statement", NEW what, NEW dd,
         NEW f \in Place, f.locals = Len(tt), f.depth = dd, F[Len(ks)].locals <= f.locals,
         Frame(hh, tt, k, what, f), Link(ks[Len(ks)], k, tt, F[Len(ks)], f)
  PROVE  Frames(Append(ks, k), what, tt, dd, hh, [F EXCEPT ![Len(ks) + 1] = f])
<1>0. Compiles(c, ks, was) /\ F \in [Nat -> Place] /\ Frames(ks, was, tl, sd, h, F)
  BY DEF Waits
<1>1. PICK n : n = Len(ks)
  OBVIOUS
<1>2. PICK ls : ls = Append(ks, k)
  OBVIOUS
<1>3. PICK G : G = [F EXCEPT ![n + 1] = f]
  OBVIOUS
<1>4. IsSequence(ks) /\ n \in Nat \ {0}
  BY <1>0, <1>1, CompilesFacts
<1>5. Len(ls) = n + 1 /\ ls[n + 1] = k /\ \A i \in 1 .. n : ls[i] = ks[i]
  BY <1>1, <1>2, <1>4, AppendSequence
<1>6. G[n + 1] = f /\ \A i \in 1 .. n : G[i] = F[i] /\ F[i] \in Place
  BY <1>0, <1>3, <1>4
<1>7. /\ \A i \in 1 .. n : Frame(hh, tt, ks[i], IF i = n THEN For(k) ELSE For(ks[i + 1]), F[i])
      /\ \A i \in 2 .. n : Link(ks[i - 1], ks[i], tt, F[i - 1], F[i])
  <2>1. n \in 1 .. Len(ks)
    BY <1>1, <1>4
  <2>2. LocalsStay(F[n], tl, tt)
    BY <1>1
  <2>3. PICK w : w = For(k)
    OBVIOUS
  <2>4. w = "statement" <=> (IF n = Len(ks) THEN was ELSE For(ks[n + 1])) = "statement"
    BY <1>1, <2>3
  <2>5. Lower(ks, n, w, tt, hh, F)
    BY <2>1, <2>2, <2>4, BelowStays
  <2>. QED
    BY <2>3, <2>5 DEF Lower
<1>8. ASSUME NEW i \in 1 .. n + 1
      PROVE  Frame(hh, tt, ls[i], IF i = n + 1 THEN what ELSE For(ls[i + 1]), G[i])
  <2>1. CASE i = n + 1
    BY <1>5, <1>6, <2>1
  <2>2. CASE i = n
    <3>1. i # n + 1 /\ i \in 1 .. n /\ ls[i + 1] = k
      BY <1>4, <1>5, <2>2
    <3>2. Frame(hh, tt, ks[i], For(k), F[i])
      BY <1>7, <2>2, <3>1
    <3>. QED
      BY <1>5, <1>6, <3>1, <3>2
  <2>3. CASE i \in 1 .. n - 1
    <3>1. i # n + 1 /\ i # n /\ i \in 1 .. n /\ i + 1 \in 1 .. n
      BY <1>4, <2>3
    <3>2. Frame(hh, tt, ks[i], For(ks[i + 1]), F[i])
      BY <1>7, <3>1
    <3>. QED
      BY <1>5, <1>6, <3>1, <3>2
  <2>. QED
    BY <1>4, <2>1, <2>2, <2>3
<1>9. ASSUME NEW i \in 2 .. n + 1 PROVE Link(ls[i - 1], ls[i], tt, G[i - 1], G[i])
  <2>1. CASE i = n + 1
    <3>1. i - 1 = n /\ n \in 1 .. n
      BY <1>4, <2>1
    <3>. QED
      BY <1>1, <1>5, <1>6, <2>1, <3>1
  <2>2. CASE i # n + 1
    <3>1. i \in 2 .. n /\ i \in 1 .. n /\ i - 1 \in 1 .. n
      BY <1>4, <2>2
    <3>. QED
      BY <1>5, <1>6, <1>7, <3>1
  <2>. QED
    BY <2>1, <2>2
<1>10. ASSUME NEW i \in 1 .. n + 1, NEW j \in 1 .. n + 1, i <= j PROVE G[i].locals <= G[j].locals
  <2>1. /\ f.locals \in Nat
        /\ \A q \in 1 .. n : F[q].locals \in Nat /\ F[q].locals <= F[n].locals
    <3>1. n \in 1 .. n /\ \A q \in 1 .. n : q <= n
      BY <1>4
    <3>2. \A e \in Place : e.locals \in Nat
      BY DEF Place
    <3>3. \A q \in 1 .. n : F[q].locals <= F[n].locals
      BY <1>0, <1>1, <3>1 DEF Frames
    <3>. QED
      BY <1>6, <3>2, <3>3
  <2>2. CASE j = n + 1 /\ i = n + 1
    BY <1>6, <2>1, <2>2
  <2>3. CASE j = n + 1 /\ i \in 1 .. n
    <3>1. F[n].locals \in Nat /\ F[n].locals <= f.locals /\ F[i].locals <= F[n].locals
      BY <1>1, <1>4, <2>1, <2>3
    <3>. QED
      BY <1>6, <2>1, <2>3, <3>1
  <2>4. CASE j \in 1 .. n /\ i \in 1 .. n
    BY <1>0, <1>1, <1>6, <1>10, <2>4 DEF Frames
  <2>. QED
    BY <1>4, <1>10, <2>2, <2>3, <2>4
<1>11. Frames(ls, what, tt, dd, hh, G)
  BY <1>5, <1>6, <1>8, <1>9, <1>10 DEF Frames
<1>. QED
  BY <1>1, <1>2, <1>3, <1>11

(* The outermost functions, of which the last goes on as r. *)
LEMMA ReFrames ==
  ASSUME NEW c, NEW ks, NEW was, NEW tl, NEW sd, NEW h, NEW F, Waits(c, ks, was, tl, sd, h, F),
         NEW hh, HeightsStay(c, h, hh), NEW m \in 1 .. Len(ks),
         NEW ls, Len(ls) = m, \A i \in 1 .. m - 1 : ls[i] = ks[i], NEW r, ls[m] = r,
         For(r) = For(ks[m]), NEW what, NEW tt, NEW dd,
         NEW f \in Place, f.locals = Len(tt), f.depth = dd, Frame(hh, tt, r, what, f),
         m > 1 => /\ LocalsStay(F[m - 1], tl, tt) /\ F[m - 1].locals <= f.locals
                  /\ Link(ks[m - 1], r, tt, F[m - 1], f)
  PROVE  Frames(ls, what, tt, dd, hh, [F EXCEPT ![m] = f])
<1>0. Compiles(c, ks, was) /\ F \in [Nat -> Place] /\ Frames(ks, was, tl, sd, h, F)
  BY DEF Waits
<1>1. PICK n : n = Len(ks)
  OBVIOUS
<1>2. PICK G : G = [F EXCEPT ![m] = f]
  OBVIOUS
<1>3. n \in Nat \ {0} /\ m \in Nat \ {0} /\ m <= n
  BY <1>0, <1>1, CompilesFacts
<1>4. G[m] = f /\ \A i \in 1 .. m - 1 : G[i] = F[i] /\ F[i] \in Place
  BY <1>0, <1>2, <1>3
<1>5. m > 1 => Lower(ks, m - 1, For(r), tt, hh, F)
  <2>1. SUFFICES ASSUME m > 1 PROVE Lower(ks, m - 1, For(r), tt, hh, F)
    OBVIOUS
  <2>2. PICK q \in 1 .. Len(ks) : q = m - 1 /\ q + 1 = m /\ q # Len(ks)
    BY <1>1, <1>3, <2>1
  <2>3. LocalsStay(F[q], tl, tt)
    BY <2>1, <2>2
  <2>4. PICK w : w = For(r)
    OBVIOUS
  <2>5. w = "statement" <=> (IF q = Len(ks) THEN was ELSE For(ks[q + 1])) = "statement"
    BY <2>2, <2>4
  <2>6. Lower(ks, q, w, tt, hh, F)
    BY <2>3, <2>5, BelowStays
  <2>. QED
    BY <2>2, <2>4, <2>6
<1>6. ASSUME NEW i \in 1 .. m
      PROVE  Frame(hh, tt, ls[i], IF i = m THEN what ELSE For(ls[i + 1]), G[i])
  <2>1. CASE i = m
    BY <1>4, <2>1
  <2>2. CASE i = m - 1
    <3>1. i # m /\ i \in 1 .. m - 1 /\ ls[i + 1] = r /\ m > 1
      BY <1>3, <2>2
    <3>2. Frame(hh, tt, ks[i], For(r), F[i])
      BY <1>5, <2>2, <3>1 DEF Lower
    <3>. QED
      BY <1>4, <3>1, <3>2
  <2>3. CASE i \in 1 .. m - 2
    <3>1. i # m /\ i # m - 1 /\ i \in 1 .. m - 1 /\ i + 1 \in 1 .. m - 1 /\ m > 1
      BY <1>3, <2>3
    <3>2. Frame(hh, tt, ks[i], For(ks[i + 1]), F[i])
      BY <1>5, <3>1 DEF Lower
    <3>. QED
      BY <1>4, <3>1, <3>2
  <2>. QED
    BY <1>3, <2>1, <2>2, <2>3
<1>7. ASSUME NEW i \in 2 .. m PROVE Link(ls[i - 1], ls[i], tt, G[i - 1], G[i])
  <2>1. CASE i = m
    <3>1. i - 1 \in 1 .. m - 1 /\ m > 1
      BY <1>3, <2>1
    <3>. QED
      BY <1>4, <2>1, <3>1
  <2>2. CASE i # m
    <3>1. i \in 2 .. m - 1 /\ i \in 1 .. m - 1 /\ i - 1 \in 1 .. m - 1 /\ m > 1
      BY <1>3, <2>2
    <3>. QED
      BY <1>4, <1>5, <3>1 DEF Lower
  <2>. QED
    BY <2>1, <2>2
<1>8. ASSUME NEW i \in 1 .. m, NEW j \in 1 .. m, i <= j PROVE G[i].locals <= G[j].locals
  <2>1. /\ f.locals \in Nat
        /\ \A q \in 1 .. m - 1 : F[q].locals \in Nat
    <3>1. \A e \in Place : e.locals \in Nat
      BY DEF Place
    <3>. QED
      BY <1>4, <3>1
  <2>2. CASE i = m
    <3>1. j = m
      BY <1>3, <1>8, <2>2
    <3>. QED
      BY <1>4, <2>1, <2>2, <3>1
  <2>3. CASE j = m /\ i \in 1 .. m - 1
    <3>1. m > 1 /\ m - 1 \in 1 .. m - 1 /\ i <= m - 1 /\ m - 1 \in 1 .. Len(ks) /\ i \in 1 .. Len(ks)
      BY <1>1, <1>3, <2>3
    <3>2. F[i].locals <= F[m - 1].locals
      BY <1>0, <3>1 DEF Frames
    <3>3. F[m - 1].locals \in Nat /\ F[i].locals \in Nat /\ F[m - 1].locals <= f.locals
      BY <2>1, <2>3, <3>1
    <3>. QED
      BY <1>4, <2>1, <2>3, <3>2, <3>3
  <2>4. CASE i \in 1 .. m - 1 /\ j \in 1 .. m - 1
    <3>1. i \in 1 .. Len(ks) /\ j \in 1 .. Len(ks)
      BY <1>1, <1>3, <2>4
    <3>. QED
      BY <1>0, <1>4, <1>8, <2>4, <3>1 DEF Frames
  <2>. QED
    BY <1>3, <2>2, <2>3, <2>4
<1>9. Frames(ls, what, tt, dd, hh, G)
  BY <1>3, <1>4, <1>6, <1>7, <1>8 DEF Frames
<1>. QED
  BY <1>2, <1>9

-----------------------------------------------------------------------------
(* The stack while a text is compiled *)

(* How high the stack is where a function goes on. *)
Height(what, f) == IF what = "operator" THEN f.ground + 1 ELSE f.ground

Noted(notes, c, h) == \A note \in notes : note[1] \in 0 .. Size(c) /\ h[note[1]] = note[2]

Tracks(c, ks, what, tl, sd, notes, h, F) ==
  /\ At(c, PendingOf(ks), h, Height(what, F[Len(ks)]))
  /\ F \in [Nat -> Place] /\ Frames(ks, what, tl, sd, h, F) /\ Noted(notes, c, h)

Notes == heights \cup {<<0, Len(stack_)>>}
Current(notes, h, F) ==
  Tracks(chunk, nesting, expects.what, tracked_locals, scope_depth, notes, h, F)
Tracked == \E h, F : Current(Notes, h, F)

CompilingStep == status = "compiling" /\ status' = "compiling" /\ IInv /\ IInv'
Reaches(h, R, hh, a) == At(chunk', R, hh, a) /\ Rise(chunk, h, chunk', hh)

Own(F) == F[Len(nesting)]
Outside(F) == F[Len(nesting) - 1]

LEMMA InvCompiling ==
  IInv => Compiles(chunk, nesting, IF status = "compiling" THEN expects.what ELSE "statement")
          /\ tracked_locals \in Seq(Nat)
<1>. QED
  BY InvCompiles DEF Rest

LEMMA StepCompiles ==
  CompilingStep => /\ Compiles(chunk, nesting, expects.what)
                   /\ Compiles(chunk', nesting', expects'.what)
                   /\ tracked_locals \in Seq(Nat) /\ tracked_locals' \in Seq(Nat)
<1>1. IInv' => (Compiles(chunk, nesting, IF status = "compiling" THEN expects.what ELSE "statement")
                /\ tracked_locals \in Seq(Nat))'
  BY InvCompiling, PTL
<1>. QED
  BY <1>1, InvCompiling DEF CompilingStep

LEMMA PlaceParts ==
  \A f \in Place : f.ground \in Nat /\ f.locals \in Nat /\ f.depth \in Nat
<1>. QED
  BY DEF Place

LEMMA HeightType ==
  ASSUME NEW f \in Place, NEW what
  PROVE  Height(what, f) \in Nat
<1>. QED
  BY PlaceParts DEF Height

(* What a step must show of the functions that wait after it. *)
LEMMA TracksAgain ==
  ASSUME CompilingStep, NEW notes, NEW h, NEW F, Current(notes, h, F), Notes' \subseteq notes,
         NEW R, R \subseteq PendingOf(nesting'), NEW hh, NEW f \in Place,
         Reaches(h, R, hh, Height(expects'.what, f)),
         NEW G \in [Nat -> Place], G[Len(nesting')] = f,
         Frames(nesting', expects'.what, tracked_locals', scope_depth', hh, G)
  PROVE  Tracked'
<1>1. /\ Compiles(chunk, nesting, expects.what) /\ Compiles(chunk', nesting', expects'.what)
  BY StepCompiles
<1>2. /\ ~chunk.narrowing_error /\ ~chunk'.narrowing_error /\ Good(chunk', PendingOf(nesting'), Constant)
  BY <1>1 DEF Compiles
<1>3. At(chunk', PendingOf(nesting'), hh, Height(expects'.what, G[Len(nesting')]))
  <2>1. Fits(chunk', R, hh) => Fits(chunk', PendingOf(nesting'), hh)
    BY DEF Fits, StepFits
  <2>. QED
    BY <1>2, <2>1 DEF At, Reaches
<1>4. Noted(Notes', chunk', hh)
  <2>1. Noted(notes, chunk, h)
    BY DEF Current, Tracks
  <2>2. /\ Size(chunk) \in Nat /\ Size(chunk') \in Nat /\ Size(chunk) <= Size(chunk')
        /\ \A p \in 0 .. Size(chunk) : hh[p] = h[p]
    BY <1>2 DEF Reaches, Rise
  <2>. QED
    BY <2>1, <2>2 DEF Noted
<1>5. Tracks(chunk', nesting', expects'.what, tracked_locals', scope_depth', Notes', hh, G)
  BY <1>3, <1>4 DEF Tracks
<1>. QED
  BY <1>5 DEF Tracked, Current

LEMMA CurrentWaits ==
  ASSUME CompilingStep, NEW notes, NEW h, NEW F, Current(notes, h, F)
  PROVE  /\ Waits(chunk, nesting, expects.what, tracked_locals, scope_depth, h, F)
         /\ F \in [Nat -> Place] /\ Len(nesting) \in Nat \ {0} /\ IsSequence(nesting)
         /\ Own(F) \in Place /\ Own(F).locals = Len(tracked_locals) /\ Own(F).depth = scope_depth
         /\ At(chunk, PendingOf(nesting), h, Height(expects.what, Own(F)))
         /\ Height(expects.what, Own(F)) \in Nat
         /\ Frame(h, tracked_locals, Top, expects.what, Own(F))
         /\ Len(nesting) > 1 =>
              /\ Outside(F) \in Place /\ Outside(F).locals <= Own(F).locals
              /\ Link(nesting[Len(nesting) - 1], Top, tracked_locals, Outside(F), Own(F))
              /\ Frame(h, tracked_locals, nesting[Len(nesting) - 1], For(Top), Outside(F))
<1>1. Compiles(chunk, nesting, expects.what)
  BY StepCompiles
<1>2. /\ F \in [Nat -> Place] /\ Frames(nesting, expects.what, tracked_locals, scope_depth, h, F)
      /\ At(chunk, PendingOf(nesting), h, Height(expects.what, F[Len(nesting)]))
  BY DEF Current, Tracks
<1>3. PICK n : n = Len(nesting)
  OBVIOUS
<1>4. IsSequence(nesting) /\ n \in Nat \ {0}
  BY <1>1, <1>3, CompilesFacts
<1>5. F[n] \in Place /\ (n > 1 => F[n - 1] \in Place)
  BY <1>2, <1>4
<1>6. /\ Frame(h, tracked_locals, nesting[n], expects.what, F[n])
      /\ n > 1 => /\ Frame(h, tracked_locals, nesting[n - 1], For(nesting[n]), F[n - 1])
                  /\ Link(nesting[n - 1], nesting[n], tracked_locals, F[n - 1], F[n])
                  /\ F[n - 1].locals <= F[n].locals
      /\ F[n].locals = Len(tracked_locals) /\ F[n].depth = scope_depth
  <2>1. n \in 1 .. n
    BY <1>4
  <2>2. /\ Frame(h, tracked_locals, nesting[n], expects.what, F[n])
        /\ F[n].locals = Len(tracked_locals) /\ F[n].depth = scope_depth
    BY <1>2, <1>3, <2>1 DEF Frames
  <2>3. ASSUME n > 1
        PROVE  /\ Frame(h, tracked_locals, nesting[n - 1], For(nesting[n]), F[n - 1])
               /\ Link(nesting[n - 1], nesting[n], tracked_locals, F[n - 1], F[n])
               /\ F[n - 1].locals <= F[n].locals
    <3>1. n \in 2 .. n /\ n - 1 \in 1 .. n /\ n - 1 # n /\ n - 1 <= n /\ (n - 1) + 1 = n
      BY <1>4, <2>3
    <3>2. nesting[(n - 1) + 1] = nesting[n]
      BY <3>1
    <3>. QED
      BY <1>2, <1>3, <2>1, <3>1, <3>2 DEF Frames
  <2>. QED
    BY <2>2, <2>3
<1>7. Height(expects.what, F[n]) \in Nat
  BY <1>5, HeightType
<1>. QED
  BY <1>1, <1>2, <1>3, <1>4, <1>5, <1>6, <1>7 DEF Waits, Own, Outside, Top

LEMMA ReachesStays ==
  ASSUME CompilingStep, NEW h, NEW R, NEW hh, NEW a, Reaches(h, R, hh, a)
  PROVE  /\ HeightsStay(chunk, h, hh) /\ Size(chunk) \in Nat /\ Size(chunk') \in Nat
         /\ Size(chunk) <= Size(chunk') /\ hh[Size(chunk')] = a
<1>1. ~chunk'.narrowing_error
  BY StepCompiles DEF Compiles
<1>. QED
  BY <1>1 DEF Reaches, At, Rise, HeightsStay

LEMMA PushTracks ==
  ASSUME CompilingStep, NEW notes, NEW h, NEW F, Current(notes, h, F), Notes' \subseteq notes,
         NEW k, Push(k), expects.what = "statement" <=> For(k) = "statement",
         NEW R, R \subseteq PendingOf(nesting) \cup JumpsOf(k), NEW hh, NEW f \in Place,
         Reaches(h, R, hh, Height(expects'.what, f)),
         f.locals = Len(tracked_locals'), f.depth = scope_depth',
         LocalsStay(Own(F), tracked_locals, tracked_locals'), Own(F).locals <= f.locals,
         Frame(hh, tracked_locals', k, expects'.what, f), Link(Top, k, tracked_locals', Own(F), f)
  PROVE  Tracked'
<1>1. /\ Waits(chunk, nesting, expects.what, tracked_locals, scope_depth, h, F)
      /\ F \in [Nat -> Place] /\ Len(nesting) \in Nat \ {0} /\ IsSequence(nesting)
  BY CurrentWaits
<1>2. HeightsStay(chunk, h, hh)
  BY ReachesStays
<1>3. nesting' = Append(nesting, k)
  BY DEF Push
<1>4. PICK G : G = [F EXCEPT ![Len(nesting) + 1] = f]
  OBVIOUS
<1>5. Frames(nesting', expects'.what, tracked_locals', scope_depth', hh, G)
  BY <1>1, <1>2, <1>3, <1>4, PushFrames DEF Own, Top
<1>6. /\ Len(nesting') = Len(nesting) + 1 /\ nesting'[Len(nesting) + 1] = k
      /\ \A i \in 1 .. Len(nesting) : nesting'[i] = nesting[i]
  BY <1>1, <1>3, AppendSequence
<1>7. G \in [Nat -> Place] /\ G[Len(nesting')] = f
  BY <1>1, <1>4, <1>6
<1>8. R \subseteq PendingOf(nesting')
  <2>1. IsSequence(nesting')
    BY <1>1, <1>3, AppendSequence
  <2>2. /\ \A j : j \in PendingOf(nesting) <=> \E i \in 1 .. Len(nesting) : j \in JumpsOf(nesting[i])
        /\ \A j : j \in PendingOf(nesting') <=> \E i \in 1 .. Len(nesting') : j \in JumpsOf(nesting'[i])
    BY <1>1, <2>1, PendingOfSequence
  <2>3. /\ Len(nesting) + 1 \in 1 .. Len(nesting')
        /\ \A i \in 1 .. Len(nesting) : i \in 1 .. Len(nesting')
    BY <1>1, <1>6
  <2>. QED
    BY <1>6, <2>2, <2>3
<1>. QED
  BY <1>5, <1>7, <1>8, TracksAgain

(* The functions up to the m-th remain. *)
LEMMA RemainTracks ==
  ASSUME CompilingStep, NEW notes, NEW h, NEW F, Current(notes, h, F), Notes' \subseteq notes,
         NEW m \in 1 .. Len(nesting), IsSequence(nesting'), Len(nesting') = m,
         \A i \in 1 .. m - 1 : nesting'[i] = nesting[i], NEW r, nesting'[m] = r,
         For(r) = For(nesting[m]),
         NEW R, R \subseteq PendingOf(nesting'), NEW hh, NEW f \in Place,
         Reaches(h, R, hh, Height(expects'.what, f)),
         f.locals = Len(tracked_locals'), f.depth = scope_depth',
         Frame(hh, tracked_locals', r, expects'.what, f),
         m > 1 => /\ LocalsStay(F[m - 1], tracked_locals, tracked_locals')
                  /\ F[m - 1].locals <= f.locals
                  /\ Link(nesting[m - 1], r, tracked_locals', F[m - 1], f)
  PROVE  Tracked'
<1>1. /\ Waits(chunk, nesting, expects.what, tracked_locals, scope_depth, h, F)
      /\ F \in [Nat -> Place] /\ Len(nesting) \in Nat \ {0}
  BY CurrentWaits
<1>2. HeightsStay(chunk, h, hh)
  BY ReachesStays
<1>3. PICK G : G = [F EXCEPT ![m] = f]
  OBVIOUS
<1>4. Frames(nesting', expects'.what, tracked_locals', scope_depth', hh, G)
  BY <1>1, <1>2, <1>3, ReFrames
<1>5. G \in [Nat -> Place] /\ G[Len(nesting')] = f
  BY <1>1, <1>3
<1>. QED
  BY <1>4, <1>5, TracksAgain

(* The same functions wait, the innermost perhaps for something else. *)
LEMMA ReplaceTracks ==
  ASSUME CompilingStep, NEW notes, NEW h, NEW F, Current(notes, h, F), Notes' \subseteq notes,
         NEW k, nesting' = Append(Below, k) \/ (nesting' = nesting /\ k = Top), For(k) = For(Top),
         NEW R, R \subseteq (PendingOf(nesting) \ JumpsOf(Top)) \cup JumpsOf(k),
         NEW hh, NEW f \in Place, Reaches(h, R, hh, Height(expects'.what, f)),
         f.locals = Len(tracked_locals'), f.depth = scope_depth',
         Frame(hh, tracked_locals', k, expects'.what, f),
         Len(nesting) > 1 => /\ LocalsStay(Outside(F), tracked_locals, tracked_locals')
                             /\ Outside(F).locals <= f.locals
                             /\ Link(nesting[Len(nesting) - 1], k, tracked_locals', Outside(F), f)
  PROVE  Tracked'
<1>1. PICK n : n = Len(nesting)
  OBVIOUS
<1>2. IsSequence(nesting) /\ n \in Nat \ {0}
  BY <1>1, CurrentWaits
<1>3. IsSequence(nesting') /\ Len(nesting') = n /\ nesting'[n] = k
      /\ \A i \in 1 .. n - 1 : nesting'[i] = nesting[i]
  <2>1. CASE nesting' = Append(Below, k)
    <3>1. n - 1 \in 0 .. n /\ Below = SubSeq(nesting, 1, n - 1)
      BY <1>1, <1>2 DEF Below
    <3>2. /\ IsSequence(Below) /\ Len(Below) = n - 1
          /\ \A i \in 1 .. n - 1 : Below[i] = nesting[i]
      BY <1>1, <1>2, <3>1, FrontSequence
    <3>3. /\ IsSequence(Append(Below, k)) /\ Len(Append(Below, k)) = (n - 1) + 1
          /\ Append(Below, k)[(n - 1) + 1] = k
          /\ \A i \in 1 .. n - 1 : Append(Below, k)[i] = Below[i]
      BY <3>2, AppendSequence
    <3>4. (n - 1) + 1 = n
      BY <1>2
    <3>. QED
      BY <2>1, <3>2, <3>3, <3>4
  <2>2. CASE nesting' = nesting /\ k = Top
    BY <1>1, <1>2, <2>2 DEF Top
  <2>. QED
    BY <2>1, <2>2
<1>4. R \subseteq PendingOf(nesting')
  <2>1. /\ \A j : j \in PendingOf(nesting) <=> \E i \in 1 .. n : j \in JumpsOf(nesting[i])
        /\ \A j : j \in PendingOf(nesting') <=> \E i \in 1 .. n : j \in JumpsOf(nesting'[i])
    BY <1>1, <1>2, <1>3, PendingOfSequence
  <2>2. n \in 1 .. n /\ \A i \in 1 .. n : i = n \/ i \in 1 .. n - 1
    BY <1>2
  <2>3. Top = nesting[n]
    BY <1>1 DEF Top
  <2>. QED
    BY <1>3, <2>1, <2>2, <2>3
<1>5. n \in 1 .. Len(nesting) /\ For(k) = For(nesting[n])
  BY <1>1, <1>2 DEF Top
<1>6. n > 1 => /\ LocalsStay(F[n - 1], tracked_locals, tracked_locals')
               /\ F[n - 1].locals <= f.locals
               /\ Link(nesting[n - 1], k, tracked_locals', F[n - 1], f)
  BY <1>1 DEF Outside
<1>. QED
  BY <1>3, <1>4, <1>5, <1>6, RemainTracks

(* No scope opens or closes, and nothing else is on the stack. *)
LEMMA StillTracks ==
  ASSUME CompilingStep, NEW notes, NEW h, NEW F, Current(notes, h, F), Notes' \subseteq notes,
         NEW k, nesting' = Append(Below, k) \/ (nesting' = nesting /\ k = Top),
         k.kind = Top.kind, k.count = Top.count,
         NEW R, R \subseteq (PendingOf(nesting) \ JumpsOf(Top)) \cup JumpsOf(k),
         NEW hh, Reaches(h, R, hh, Height(expects'.what, Own(F))), UNCHANGED scopes,
         Frame(hh, tracked_locals, k, expects'.what, Own(F))
  PROVE  Tracked'
<1>1. tracked_locals' = tracked_locals /\ scope_depth' = scope_depth
  BY DEF scopes
<1>2. /\ Own(F) \in Place /\ Own(F).locals = Len(tracked_locals) /\ Own(F).depth = scope_depth
      /\ Len(nesting) > 1 =>
           /\ Outside(F).locals <= Own(F).locals
           /\ Link(nesting[Len(nesting) - 1], Top, tracked_locals, Outside(F), Own(F))
  BY CurrentWaits
<1>3. Held(k) = Held(Top) /\ For(k) = For(Top)
  BY DEF Held, For
<1>4. Len(nesting) > 1 =>
        /\ LocalsStay(Outside(F), tracked_locals, tracked_locals')
        /\ Link(nesting[Len(nesting) - 1], k, tracked_locals, Outside(F), Own(F))
  BY <1>1, <1>2, <1>3 DEF LocalsStay, Link
<1>5. Frame(hh, tracked_locals', k, expects'.what, Own(F))
  BY <1>1
<1>6. /\ Own(F).locals = Len(tracked_locals') /\ Own(F).depth = scope_depth'
      /\ Len(nesting) > 1 =>
           /\ LocalsStay(Outside(F), tracked_locals, tracked_locals')
           /\ Outside(F).locals <= Own(F).locals
           /\ Link(nesting[Len(nesting) - 1], k, tracked_locals', Outside(F), Own(F))
  BY <1>1, <1>2, <1>4
<1>. QED
  BY <1>2, <1>3, <1>5, <1>6, ReplaceTracks

(* The innermost function returns. *)
LEMMA ReturnTracks ==
  ASSUME CompilingStep, NEW notes, NEW h, NEW F, Current(notes, h, F), Notes' \subseteq notes,
         Len(nesting) > 1, NEW r,
         nesting' = Append(SubSeq(nesting, 1, Len(nesting) - 2), r)
           \/ (nesting' = Below /\ r = nesting[Len(nesting) - 1]),
         r.kind = nesting[Len(nesting) - 1].kind, r.jumps = nesting[Len(nesting) - 1].jumps,
         NEW R, R \subseteq PendingOf(nesting) \ JumpsOf(Top),
         NEW hh, NEW f \in Place, Reaches(h, R, hh, Height(expects'.what, f)),
         f.locals = Len(tracked_locals'), f.depth = scope_depth',
         LocalsStay(Outside(F), tracked_locals, tracked_locals'), Outside(F).locals <= f.locals,
         Frame(hh, tracked_locals', r, expects'.what, f),
         \A p, e : Link(p, nesting[Len(nesting) - 1], tracked_locals, e, Outside(F))
                     /\ e.locals \in Nat /\ e.locals <= Outside(F).locals
                     /\ nesting[Len(nesting) - 1].kind # "unit" =>
                     Link(p, r, tracked_locals', e, f)
  PROVE  Tracked'
<1>1. PICK n : n = Len(nesting)
  OBVIOUS
<1>2. /\ IsSequence(nesting) /\ n \in Nat /\ n > 1
      /\ Waits(chunk, nesting, expects.what, tracked_locals, scope_depth, h, F)
  BY <1>1, CurrentWaits
<1>3. PICK m : m = n - 1
  OBVIOUS
<1>4. m \in Nat /\ m \in 1 .. Len(nesting) /\ m <= n /\ m # n /\ m \in 0 .. Len(nesting)
  BY <1>1, <1>2, <1>3
<1>5. IsSequence(nesting') /\ Len(nesting') = m /\ nesting'[m] = r
      /\ \A i \in 1 .. m - 1 : nesting'[i] = nesting[i]
  <2>1. CASE nesting' = Append(SubSeq(nesting, 1, Len(nesting) - 2), r)
    <3>1. PICK s : s = SubSeq(nesting, 1, m - 1)
      OBVIOUS
    <3>2. m - 1 = Len(nesting) - 2 /\ m - 1 \in 0 .. Len(nesting)
      BY <1>1, <1>2, <1>3
    <3>3. /\ IsSequence(s) /\ Len(s) = m - 1 /\ \A i \in 1 .. m - 1 : s[i] = nesting[i]
      BY <1>2, <3>1, <3>2, FrontSequence
    <3>4. /\ IsSequence(Append(s, r)) /\ Len(Append(s, r)) = (m - 1) + 1
          /\ Append(s, r)[(m - 1) + 1] = r
          /\ \A i \in 1 .. m - 1 : Append(s, r)[i] = s[i]
      BY <3>3, AppendSequence
    <3>5. (m - 1) + 1 = m
      BY <1>4
    <3>. QED
      BY <2>1, <3>1, <3>2, <3>3, <3>4, <3>5
  <2>2. CASE nesting' = Below /\ r = nesting[Len(nesting) - 1]
    <3>1. nesting' = SubSeq(nesting, 1, m) /\ r = nesting[m]
      BY <1>1, <1>3, <2>2 DEF Below
    <3>2. IsSequence(nesting') /\ Len(nesting') = m /\ \A i \in 1 .. m : nesting'[i] = nesting[i]
      BY <1>2, <1>4, <3>1, FrontSequence
    <3>. QED
      BY <1>4, <3>1, <3>2
  <2>. QED
    BY <2>1, <2>2
<1>6. JumpsOf(r) = JumpsOf(nesting[m]) /\ For(r) = For(nesting[m])
  BY <1>1, <1>3 DEF JumpsOf, For
<1>7. R \subseteq PendingOf(nesting')
  <2>1. /\ \A j : j \in PendingOf(nesting) <=> \E i \in 1 .. n : j \in JumpsOf(nesting[i])
        /\ \A j : j \in PendingOf(nesting') <=> \E i \in 1 .. m : j \in JumpsOf(nesting'[i])
    BY <1>1, <1>2, <1>5, PendingOfSequence
  <2>2. m \in 1 .. m /\ \A i \in 1 .. n : i = n \/ i = m \/ (i \in 1 .. m - 1 /\ i \in 1 .. m)
    BY <1>2, <1>3
  <2>3. Top = nesting[n]
    BY <1>1 DEF Top
  <2>. QED
    BY <1>5, <1>6, <2>1, <2>2, <2>3
<1>8. ASSUME m > 1
      PROVE  /\ LocalsStay(F[m - 1], tracked_locals, tracked_locals')
             /\ F[m - 1].locals <= f.locals
             /\ Link(nesting[m - 1], r, tracked_locals', F[m - 1], f)
  <2>1. /\ m - 1 \in 1 .. Len(nesting) /\ m \in 2 .. Len(nesting) /\ m - 1 <= m
        /\ Outside(F) = F[m] /\ nesting[Len(nesting) - 1] = nesting[m]
    BY <1>1, <1>3, <1>4, <1>8 DEF Outside
  <2>2. /\ F \in [Nat -> Place]
        /\ Link(nesting[m - 1], nesting[m], tracked_locals, F[m - 1], F[m])
        /\ F[m - 1].locals <= F[m].locals
    BY <1>2, <1>4, <2>1 DEF Waits, Frames
  <2>3. F[m - 1].locals \in Nat /\ F[m].locals \in Nat /\ f.locals \in Nat
    BY <1>4, <2>1, <2>2, PlaceParts
  <2>4. Link(nesting[m - 1], r, tracked_locals', F[m - 1], f)
    <3>1. nesting[m].kind # "unit"
      BY <1>2, <1>4, <1>8 DEF Waits, Compiles
    <3>. QED
      BY <2>1, <2>2, <2>3, <3>1
  <2>5. F[m - 1].locals <= f.locals
    BY <2>1, <2>2, <2>3
  <2>6. LocalsStay(F[m - 1], tracked_locals, tracked_locals')
    BY <2>1, <2>2, <2>3 DEF LocalsStay
  <2>. QED
    BY <2>4, <2>5, <2>6
<1>. QED
  BY <1>4, <1>5, <1>6, <1>7, <1>8, RemainTracks

(* An operand is complete, with the operator it belongs to. *)
LEMMA OperatorTracks ==
  ASSUME CompilingStep, NEW h, NEW F, Current(Notes, h, F), Notes' = Notes,
         Top.kind \in ExpressionKinds, nesting' = Below, UNCHANGED scopes,
         expects.what \in {"operand", "operator"}, expects'.what = "operator",
         NEW R, R \subseteq PendingOf(nesting) \ JumpsOf(Top),
         NEW hh, Reaches(h, R, hh, Outside(F).ground + 1)
  PROVE  Tracked'
<1>1. Compiles(chunk, nesting, expects.what)
  BY StepCompiles
<1>2. Len(nesting) \in Nat /\ Len(nesting) > 1
  <2>1. Top.kind # "unit"
    BY DEF ExpressionKinds, OperatorKinds
  <2>. QED
    BY <1>1, <2>1, BelowAwaits, CompilesFacts DEF Top
<1>3. PICK r : r = nesting[Len(nesting) - 1]
  OBVIOUS
<1>4. /\ Outside(F) \in Place /\ Outside(F).locals <= Own(F).locals
      /\ Link(r, Top, tracked_locals, Outside(F), Own(F))
      /\ Frame(h, tracked_locals, r, For(Top), Outside(F))
      /\ Own(F) \in Place /\ Own(F).locals = Len(tracked_locals) /\ Own(F).depth = scope_depth
  BY <1>2, <1>3, CurrentWaits
<1>5. Outside(F).locals = Own(F).locals /\ Outside(F).depth = Own(F).depth
  <2>1. Top.kind \notin {"block", "for", "var"}
    BY DEF ExpressionKinds, OperatorKinds
  <2>. QED
    BY <1>4, <2>1 DEF Link
<1>6. tracked_locals' = tracked_locals /\ scope_depth' = scope_depth
  BY DEF scopes
<1>7. LocalsStay(Outside(F), tracked_locals, tracked_locals')
  BY <1>6 DEF LocalsStay
<1>8. Frame(hh, tracked_locals', r, expects'.what, Outside(F))
  <2>1. WaitingOK(r) /\ Relies(chunk, r)
    BY <1>1, <1>2, <1>3 DEF Compiles
  <2>2. expects'.what = "statement" <=> For(Top) = "statement"
    BY DEF For
  <2>3. Size(chunk) \in Nat /\ HeightsStay(chunk, h, hh)
    BY ReachesStays
  <2>. QED
    BY <1>4, <1>7, <2>1, <2>2, <2>3, FrameStays
<1>9. Reaches(h, R, hh, Height(expects'.what, Outside(F)))
  BY DEF Height
<1>10. \A p, e : Link(p, nesting[Len(nesting) - 1], tracked_locals, e, Outside(F))
                   /\ e.locals \in Nat /\ e.locals <= Outside(F).locals
                   /\ nesting[Len(nesting) - 1].kind # "unit" =>
                   Link(p, r, tracked_locals', e, Outside(F))
  BY <1>3, <1>6
<1>11. /\ Outside(F).locals = Len(tracked_locals') /\ Outside(F).depth = scope_depth'
       /\ Outside(F).locals <= Outside(F).locals
  BY <1>4, <1>5, <1>6, PlaceParts
<1>. QED
  BY <1>2, <1>3, <1>4, <1>7, <1>8, <1>9, <1>10, <1>11, ReturnTracks

-----------------------------------------------------------------------------
(* A statement ends *)

(* Either the place of its owner is as it was, or it has one more local. *)
Grows(e, f, tt) ==
  /\ f.depth = e.depth /\ f.locals = e.locals + 1 /\ f.ground = e.ground + 1
  /\ tt[f.locals] = f.depth

LEMMA ResumedFrame ==
  ASSUME NEW k, WaitingOK(k), Relies(chunk, k), Awaits(k, "statement"), Size(chunk) \in Nat,
         NEW h, NEW tl, NEW e \in Place, Frame(h, tl, k, "statement", e),
         NEW hh, HeightsStay(chunk, h, hh), NEW tt, LocalsStay(e, tl, tt),
         NEW f \in Place, f = e \/ (AdmitsVariable(k) /\ Grows(e, f, tt)),
         hh[Size(chunk')] = f.ground, NEW node
  PROVE  LET r == Resumed(k, node)
         IN  /\ Frame(hh, tt, r, After(k), f) /\ r.kind = k.kind /\ r.jumps = k.jumps
             /\ Height(After(k), f) = f.ground /\ f.locals = f.ground
             /\ \A p, a : Link(p, k, tl, a, e) /\ a.locals \in Nat /\ a.locals <= e.locals
                            /\ k.kind # "unit" =>
                            Link(p, r, tt, a, f)
<1> DEFINE r == Resumed(k, node)
<1>1. /\ DOMAIN k = {"kind", "level", "token", "from", "parts", "names", "jumps", "begins", "count"}
      /\ IsSequence(k.parts) /\ Len(k.parts) \in Nat /\ (k.parts = <<>> <=> Len(k.parts) = 0)
      /\ k.jumps \in Seq(Nat) /\ Len(k.jumps) = JumpsToPatch(k.kind, Len(k.parts))
      /\ k.begins \in Seq(Nat) /\ Len(k.begins) = Beginnings(k.kind, Len(k.parts))
  BY SequenceLength, EmptySequence DEF WaitingOK
<1>2. PICK n : n = Len(k.parts)
  OBVIOUS
<1>3. \/ k.kind \in {"unit", "block"}
      \/ k.kind = "if" /\ n \in 1..2
      \/ k.kind = "while" /\ n = 1
      \/ k.kind = "for" /\ n \in {0, 3}
  BY <1>2 DEF Awaits
<1>4. /\ r.kind = k.kind /\ r.jumps = k.jumps /\ Len(r.parts) = n + 1 /\ r.count = k.count
      /\ k.kind = "for" /\ n = 0 => DOMAIN r.begins = {1} /\ r.begins[1] = Size(chunk')
      /\ ~(k.kind = "for" /\ n = 0) => r.begins = k.begins
  <2>1. PICK parts : parts = Append(k.parts, node)
    OBVIOUS
  <2>2. Len(parts) = n + 1
    BY <1>1, <1>2, <2>1, AppendSequence
  <2>3. CASE k.kind = "for" /\ n = 0
    <3>1. PICK begins : begins = <<Size(chunk')>>
      OBVIOUS
    <3>2. DOMAIN begins = {1} /\ begins[1] = Size(chunk')
      BY <3>1
    <3>3. r = [[k EXCEPT !.parts = parts] EXCEPT !.from = Len(source') + 1, !.begins = begins]
      BY <1>1, <1>2, <2>1, <2>3, <3>1 DEF Resumed
    <3>. HIDE DEF r
    <3>4. /\ r.kind = k.kind /\ r.jumps = k.jumps /\ r.parts = parts /\ r.begins = begins
          /\ r.count = k.count
      BY <1>1, <3>3
    <3>. QED
      BY <2>2, <2>3, <3>2, <3>4
  <2>4. CASE ~(k.kind = "for" /\ n = 0)
    <3>1. r = [k EXCEPT !.parts = parts]
      BY <1>1, <1>2, <2>1, <2>4 DEF Resumed
    <3>. HIDE DEF r
    <3>2. /\ r.kind = k.kind /\ r.jumps = k.jumps /\ r.parts = parts /\ r.begins = k.begins
          /\ r.count = k.count
      BY <1>1, <3>1
    <3>. QED
      BY <2>2, <2>4, <3>2
  <2>. QED
    BY <2>3, <2>4
<1>. HIDE DEF r
<1>5. k.kind \notin ExpressionKinds \cup {"var"}
  BY <1>3 DEF ExpressionKinds, OperatorKinds
<1>6. e.locals = e.ground /\ f.locals = f.ground
  BY <1>5 DEF Frame, Grows
<1>7. Frame(hh, tt, k, "statement", e)
  BY FrameStays
<1>8. AdmitsVariable(k) => DOMAIN k.jumps = {} /\ (k.kind # "for" => DOMAIN k.begins = {})
  <2>1. SUFFICES ASSUME AdmitsVariable(k)
                 PROVE  Len(k.jumps) = 0 /\ (k.kind # "for" => Len(k.begins) = 0)
    BY <1>1
  <2>. QED
    BY <1>1, <1>2, <2>1 DEF AdmitsVariable, JumpsToPatch, Beginnings
<1>9. \A j \in DOMAIN r.jumps :
        hh[r.jumps[j] - 3] = IF Else(r, After(k)) THEN f.ground ELSE f.ground + 1
  <2>1. CASE AdmitsVariable(k)
    BY <1>4, <1>8, <2>1
  <2>2. CASE ~AdmitsVariable(k)
    <3>1. Else(r, After(k)) <=> Else(k, "statement")
      <4>1. CASE k.kind = "if"
        <5>1. After(k) = "done"
          BY <4>1 DEF After
        <5>2. (Len(r.parts) = 3 <=> n = 2) /\ n \in 1..2 /\ n # 3 /\ r.kind = "if"
          BY <1>3, <1>4, <4>1
        <5>. QED
          BY <1>2, <4>1, <5>1, <5>2 DEF Else
      <4>2. CASE k.kind # "if"
        BY <1>4, <4>2 DEF Else
      <4>. QED
        BY <4>1, <4>2
    <3>. QED
      BY <1>4, <1>7, <2>2, <3>1 DEF Frame
  <2>. QED
    BY <2>1, <2>2
<1>10. \A b \in DOMAIN r.begins : hh[r.begins[b]] = f.ground
  <2>1. CASE k.kind = "for" /\ n = 0
    BY <1>4, <2>1
  <2>2. CASE ~(k.kind = "for" /\ n = 0) /\ AdmitsVariable(k)
    BY <1>2, <1>4, <1>8, <2>2 DEF AdmitsVariable
  <2>3. CASE ~(k.kind = "for" /\ n = 0) /\ ~AdmitsVariable(k)
    BY <1>4, <1>7, <2>3 DEF Frame
  <2>. QED
    BY <2>1, <2>2, <2>3
<1>11. \A j \in 1 .. f.locals : tt[j] <= f.depth
  <2>1. \A j \in 1 .. e.locals : tt[j] <= e.depth
    BY <1>7 DEF Frame
  <2>2. CASE Grows(e, f, tt)
    <3>1. /\ e.locals \in Nat /\ f.depth \in Nat /\ f.locals = e.locals + 1 /\ f.depth = e.depth
          /\ tt[f.locals] = f.depth
      BY <2>2, PlaceParts DEF Grows
    <3>2. \A j \in 1 .. f.locals : j = f.locals \/ j \in 1 .. e.locals
      BY <3>1
    <3>. QED
      BY <2>1, <3>1, <3>2
  <2>. QED
    BY <2>1, <2>2
<1>12. Frame(hh, tt, r, After(k), f)
  BY <1>4, <1>5, <1>6, <1>9, <1>10, <1>11 DEF Frame
<1>13. ASSUME NEW p, NEW a, Link(p, k, tl, a, e), a.locals \in Nat, a.locals <= e.locals, k.kind # "unit"
       PROVE  Link(p, r, tt, a, f)
  <2>1. Link(p, k, tt, a, e)
    BY <1>5, <1>13 DEF Link, LocalsStay
  <2>2. Held(r) = Held(k)
    BY <1>4 DEF Held
  <2>3. CASE f = e
    BY <1>4, <2>1, <2>2, <2>3 DEF Link
  <2>4. CASE AdmitsVariable(k) /\ Grows(e, f, tt)
    <3>1. k.kind \in {"block", "for"}
      BY <1>13, <2>4 DEF AdmitsVariable
    <3>2. /\ e.locals \in Nat /\ f.locals = e.locals + 1 /\ f.depth = e.depth
          /\ tt[f.locals] = f.depth
      BY <2>4, PlaceParts DEF Grows
    <3>3. /\ f.depth = a.depth + 1
          /\ \A j \in 1 .. e.locals : tt[j] = f.depth <=> j > a.locals
      BY <2>1, <3>1, <3>2 DEF Link
    <3>4. \A j \in 1 .. f.locals : tt[j] = f.depth <=> j > a.locals
      <4>1. \A j \in 1 .. f.locals : j = f.locals \/ j \in 1 .. e.locals
        BY <3>2
      <4>2. f.locals > a.locals
        BY <1>13, <3>2
      <4>. QED
        BY <3>2, <3>3, <4>1, <4>2
    <3>. QED
      BY <1>4, <1>5, <3>1, <3>3, <3>4 DEF Link
  <2>. QED
    BY <2>3, <2>4
<1>14. Height(After(k), f) = f.ground
  BY DEF Height, After
<1>. QED
  BY <1>4, <1>6, <1>12, <1>13, <1>14 DEF r

LEMMA CompleteTracks ==
  ASSUME CompilingStep, NEW notes, NEW h, NEW F, Current(notes, h, F), Notes' \subseteq notes,
         Top.kind \notin ExpressionKinds \cup {"unit"}, NEW node, Complete(node),
         NEW R, R \subseteq PendingOf(nesting) \ JumpsOf(Top),
         NEW hh, NEW f \in Place, Reaches(h, R, hh, f.ground),
         f.locals = Len(tracked_locals'), f.depth = scope_depth',
         LocalsStay(Outside(F), tracked_locals, tracked_locals'),
         f = Outside(F) \/ (AdmitsVariable(Owner) /\ Grows(Outside(F), f, tracked_locals'))
  PROVE  Tracked'
<1> DEFINE r == Resumed(Owner, node)
<1>1. Compiles(chunk, nesting, expects.what)
  BY StepCompiles
<1>2. Len(nesting) \in Nat /\ Len(nesting) > 1 /\ Awaits(Owner, "statement") /\ For(Top) = "statement"
  BY <1>1, BelowAwaits, CompilesFacts DEF Top, Owner, For
<1>3. WaitingOK(Owner) /\ Relies(chunk, Owner)
  BY <1>1, <1>2 DEF Compiles, Owner
<1>4. /\ Outside(F) \in Place /\ Frame(h, tracked_locals, Owner, "statement", Outside(F))
  BY <1>2, CurrentWaits DEF Owner
<1>5. HeightsStay(chunk, h, hh) /\ Size(chunk) \in Nat /\ hh[Size(chunk')] = f.ground
  BY ReachesStays
<1>6. nesting' = Append(SubSeq(nesting, 1, Len(nesting) - 2), r) /\ expects'.what = After(Owner)
  BY ResumeExpects DEF Complete
<1>7. /\ Frame(hh, tracked_locals', r, After(Owner), f) /\ r.kind = Owner.kind /\ r.jumps = Owner.jumps
      /\ Height(After(Owner), f) = f.ground /\ f.locals = f.ground
      /\ \A p, a : Link(p, Owner, tracked_locals, a, Outside(F)) /\ a.locals \in Nat
                     /\ a.locals <= Outside(F).locals /\ Owner.kind # "unit" =>
                     Link(p, r, tracked_locals', a, f)
  BY <1>2, <1>3, <1>4, <1>5, ResumedFrame
<1>. HIDE DEF r
<1>8. Owner = nesting[Len(nesting) - 1]
  BY DEF Owner
<1>9. Outside(F).locals <= f.locals
  BY <1>4, PlaceParts DEF Grows
<1>. QED
  BY <1>2, <1>6, <1>7, <1>8, <1>9, ReturnTracks

LEMMA AddTracks ==
  ASSUME CompilingStep, NEW notes, NEW h, NEW F, Current(notes, h, F), Notes' \subseteq notes,
         expects.what = "statement", NEW node, Add(node),
         NEW hh, NEW f \in Place, Reaches(h, PendingOf(nesting), hh, f.ground),
         f.locals = Len(tracked_locals'), f.depth = scope_depth',
         LocalsStay(Own(F), tracked_locals, tracked_locals'),
         f = Own(F) \/ (AdmitsVariable(Top) /\ Grows(Own(F), f, tracked_locals'))
  PROVE  Tracked'
<1> DEFINE r == Resumed(Top, node)
<1>1. Compiles(chunk, nesting, "statement")
  BY StepCompiles
<1>2. /\ Len(nesting) \in Nat \ {0} /\ Awaits(Top, "statement") /\ WaitingOK(Top) /\ Relies(chunk, Top)
  BY <1>1, CompilesFacts DEF Top
<1>3. /\ Own(F) \in Place /\ Frame(h, tracked_locals, Top, "statement", Own(F))
      /\ Len(nesting) > 1 =>
           /\ Outside(F) \in Place /\ Outside(F).locals <= Own(F).locals
           /\ Link(nesting[Len(nesting) - 1], Top, tracked_locals, Outside(F), Own(F))
  BY CurrentWaits
<1>4. HeightsStay(chunk, h, hh) /\ Size(chunk) \in Nat /\ hh[Size(chunk')] = f.ground
  BY ReachesStays
<1>5. nesting' = Append(Below, r) /\ expects'.what = After(Top)
  BY ResumeExpects DEF Add, Replace
<1>6. /\ Frame(hh, tracked_locals', r, After(Top), f) /\ r.kind = Top.kind /\ r.jumps = Top.jumps
      /\ Height(After(Top), f) = f.ground /\ f.locals = f.ground
      /\ \A p, a : Link(p, Top, tracked_locals, a, Own(F)) /\ a.locals \in Nat
                     /\ a.locals <= Own(F).locals /\ Top.kind # "unit" =>
                     Link(p, r, tracked_locals', a, f)
  BY <1>2, <1>3, <1>4, ResumedFrame
<1>. HIDE DEF r
<1>7. Len(nesting) > 1 =>
        /\ LocalsStay(Outside(F), tracked_locals, tracked_locals')
        /\ Outside(F).locals <= f.locals
        /\ Link(nesting[Len(nesting) - 1], r, tracked_locals', Outside(F), f)
  <2>1. SUFFICES ASSUME Len(nesting) > 1
                 PROVE  /\ LocalsStay(Outside(F), tracked_locals, tracked_locals')
                        /\ Outside(F).locals <= f.locals
                        /\ Link(nesting[Len(nesting) - 1], r, tracked_locals', Outside(F), f)
    OBVIOUS
  <2>2. Top.kind # "unit"
    BY <1>1, <1>2, <2>1 DEF Compiles, Top
  <2>3. Outside(F).locals \in Nat /\ Own(F).locals \in Nat /\ Own(F).locals <= f.locals
    BY <1>3, <2>1, PlaceParts DEF Grows
  <2>4. \A j \in 1 .. Outside(F).locals : j \in 1 .. Own(F).locals
    <3>1. Outside(F).locals <= Own(F).locals
      BY <1>3, <2>1
    <3>. QED
      BY <2>3, <3>1
  <2>5. LocalsStay(Outside(F), tracked_locals, tracked_locals')
    BY <2>4 DEF LocalsStay
  <2>6. Link(nesting[Len(nesting) - 1], Top, tracked_locals, Outside(F), Own(F))
        /\ Outside(F).locals <= Own(F).locals
    BY <1>3, <2>1
  <2>7. Link(nesting[Len(nesting) - 1], r, tracked_locals', Outside(F), f)
    BY <1>6, <2>2, <2>3, <2>6
  <2>8. Outside(F).locals <= f.locals
    <3>1. f.locals \in Nat
      BY PlaceParts
    <3>. QED
      BY <2>3, <2>6, <3>1
  <2>. QED
    BY <2>5, <2>7, <2>8
<1>8. PendingOf(nesting) \subseteq (PendingOf(nesting) \ JumpsOf(Top)) \cup JumpsOf(r)
  BY <1>6 DEF JumpsOf
<1>9. For(r) = For(Top)
  BY <1>6 DEF For
<1>. QED
  BY <1>5, <1>6, <1>7, <1>8, <1>9, ReplaceTracks

(* The compiler takes down how many locals there are before a statement. *)
LEMMA NoteTracks ==
  ASSUME CompilingStep, NEW h, NEW F, Current(Notes, h, F), expects.what = "statement",
         NoteHeight, stack_' = stack_
  PROVE  Current(Notes', h, F)
<1>1. Compiles(chunk, nesting, "statement")
  BY StepCompiles
<1>2. /\ Own(F).locals = Len(tracked_locals)
      /\ At(chunk, PendingOf(nesting), h, Height(expects.what, Own(F)))
      /\ Frame(h, tracked_locals, Top, expects.what, Own(F))
  BY CurrentWaits
<1>3. Top.kind \notin ExpressionKinds \cup {"var"}
  BY <1>1, CompilesFacts DEF Top, Awaits, ExpressionKinds, OperatorKinds
<1>4. h[Size(chunk)] = Len(tracked_locals)
  <2>1. ~chunk.narrowing_error
    BY <1>1 DEF Compiles
  <2>2. h[Size(chunk)] = Own(F).ground /\ Own(F).locals = Own(F).ground
    BY <1>2, <1>3, <2>1 DEF At, Height, Frame
  <2>. QED
    BY <1>2, <2>2
<1>5. Size(chunk) \in 0 .. Size(chunk)
  BY <1>1, CompilesFacts
<1>6. Noted(Notes, chunk, h)
  BY DEF Current, Tracks
<1>7. Noted(Notes', chunk, h)
  <2>1. Notes' = Notes \cup {<<Size(chunk), Len(tracked_locals)>>}
    BY DEF Notes, NoteHeight
  <2>. QED
    BY <1>4, <1>5, <1>6, <2>1 DEF Noted
<1>. QED
  BY <1>7 DEF Current, Tracks

-----------------------------------------------------------------------------
(* What the parts of the compiler emit *)

LEMMA EmitOperandAt ==
  ASSUME NEW c, NEW P, NEW h, NEW a \in Nat, At(c, P, h, a),
         NEW t \in OperandTokens, NEW token \in Nat
  PROVE  LET d == EmitOperand(c, t, token)
         IN  \E g : At(d, P, g, a + 1) /\ Rise(c, h, d, g)
<1>1. t.kind \in {"number", "identifier", "fun", "nil", "true", "false"}
      /\ (t.kind = "identifier" => t.lexeme \in Lexeme)
  BY LexemeOK DEF OperandTokens
<1>2. PICK m \in Nat : m = a + 1
  OBVIOUS
<1>3. /\ "constant" \in ConstantOpcode /\ "get_global" \in ConstantOpcode
      /\ "nil" \in PlainOpcode /\ "true_" \in PlainOpcode /\ "false_" \in PlainOpcode
  BY DEF ConstantOpcode, NameOpcode, PlainOpcode
<1>4. \A opcode \in {"constant", "get_global", "nil", "true_", "false_"} :
        /\ Needs(opcode, 0) = 0 /\ Pushes(opcode) = 1 /\ opcode # "return_"
  BY DEF Needs, Pushes, JumpOpcode
<1>5. m = a - 0 + 1 /\ 0 <= a
  BY <1>2
<1>6. CASE t.kind = "number"
  <2>1. Number \in Constant
    BY ConstantOK
  <2>2. EmitOperand(c, t, token) = EmitConstant(c, "constant", Number, token)
    BY <1>6 DEF EmitOperand
  <2>3. Needs("constant", 0) <= a /\ m = a - Needs("constant", 0) + Pushes("constant")
    BY <1>4, <1>5
  <2>. QED
    BY <1>2, <1>3, <2>1, <2>2, <2>3, ConstantAt
<1>7. CASE t.kind = "identifier"
  <2>1. Name(t.lexeme) \in Constant
    BY <1>1, <1>7, ConstantOK
  <2>2. EmitOperand(c, t, token) = EmitConstant(c, "get_global", Name(t.lexeme), token)
    BY <1>7 DEF EmitOperand
  <2>3. Needs("get_global", 0) <= a /\ m = a - Needs("get_global", 0) + Pushes("get_global")
    BY <1>4, <1>5
  <2>. QED
    BY <1>2, <1>3, <2>1, <2>2, <2>3, ConstantAt
<1>8. CASE t.kind = "fun"
  <2>1. NewFunction(token) \in Constant
    BY ConstantOK
  <2>2. EmitOperand(c, t, token) = EmitClosure(c, NewFunction(token), <<>>, token)
    BY <1>8 DEF EmitOperand
  <2>. QED
    BY <2>1, <2>2, ClosureAt
<1>9. CASE t.kind \in {"nil", "true", "false"}
  <2>1. PICK opcode \in {"nil", "true_", "false_"} : EmitOperand(c, t, token) = EmitPlain(c, opcode, token)
    BY <1>9 DEF EmitOperand
  <2>2. /\ opcode \in PlainOpcode /\ Needs(opcode, 0) <= a
        /\ m = a - Needs(opcode, 0) + Pushes(opcode)
    BY <1>3, <1>4, <1>5
  <2>. QED
    BY <1>2, <2>1, <2>2, PlainAt
<1>. QED
  BY <1>1, <1>6, <1>7, <1>8, <1>9

LEMMA EmitAssignmentAt ==
  ASSUME NEW c, NEW P, NEW h, NEW a \in Nat, At(c, P, h, a),
         NEW names \in Seq(Lexeme), Len(names) \in 1..3, NEW token \in Nat
  PROVE  LET d == EmitAssignment(c, names, token)
         IN  \E g : At(d, P, g, a) /\ Rise(c, h, d, g)
<1> DEFINE getter == EmitConstant(c, "get_global", Name(names[1]), token)
           last == Name(names[Len(names)])
           d == EmitAssignment(c, names, token)
<1>1. \A i \in 1 .. Len(names) : Name(names[i]) \in Constant
  BY ConstantOK
<1>2. /\ "get_global" \in ConstantOpcode /\ "set_global" \in ConstantOpcode
      /\ "get_property" \in ConstantOpcode /\ "set_property" \in ConstantOpcode
  BY DEF ConstantOpcode, NameOpcode
<1>3. /\ Name(names[1]) \in Constant /\ last \in Constant
      /\ token + 1 \in Nat /\ token + Len(names) - 1 \in Nat
  BY <1>1
<1>4. /\ Needs("get_global", 0) = 0 /\ Pushes("get_global") = 1
      /\ Needs("set_global", 0) = 0 /\ Pushes("set_global") = 0
      /\ Needs("get_property", 0) = 1 /\ Pushes("get_property") = 1
      /\ Needs("set_property", 0) = 1 /\ Pushes("set_property") = 0
  BY DEF Needs, Pushes, JumpOpcode
<1>5. PICK m \in Nat : m = a + 1
  OBVIOUS
<1>6. PICK g1 : At(getter, P, g1, m) /\ Rise(c, h, getter, g1)
  <2>1. Needs("get_global", 0) <= a /\ m = a - Needs("get_global", 0) + Pushes("get_global")
    BY <1>4, <1>5
  <2>. QED
    BY <1>2, <1>3, <2>1, ConstantAt
<1>. HIDE DEF getter, last, d
<1>7. ASSUME NEW middle, NEW g2, At(middle, P, g2, m), Rise(c, h, middle, g2),
             d = EmitConstant(middle, "set_property", last, token + Len(names) - 1)
      PROVE  \E g : At(d, P, g, a) /\ Rise(c, h, d, g)
  <2>1. Needs("set_property", 0) <= m /\ a = m - Needs("set_property", 0) + Pushes("set_property")
    BY <1>4, <1>5
  <2>2. PICK g : At(d, P, g, a) /\ Rise(middle, g2, d, g)
    BY <1>2, <1>3, <1>7, <2>1, ConstantAt
  <2>. QED
    BY <1>7, <2>2, RiseTransitive
<1>8. CASE Len(names) = 1
  <2>1. d = EmitConstant(c, "set_global", Name(names[1]), token)
    BY <1>8 DEF EmitAssignment, d
  <2>2. Needs("set_global", 0) <= a /\ a = a - Needs("set_global", 0) + Pushes("set_global")
    BY <1>4
  <2>. QED
    BY <1>2, <1>3, <2>1, <2>2, ConstantAt DEF d
<1>9. CASE Len(names) = 2
  <2>1. d = EmitConstant(getter, "set_property", last, token + Len(names) - 1)
    BY <1>9 DEF EmitAssignment, getter, last, d
  <2>. QED
    BY <1>6, <1>7, <2>1 DEF d
<1>10. CASE Len(names) = 3
  <2> DEFINE property == EmitConstant(getter, "get_property", Name(names[2]), token + 1)
  <2>1. Name(names[2]) \in Constant
    BY <1>1, <1>10
  <2>2. Needs("get_property", 0) <= m /\ m = m - Needs("get_property", 0) + Pushes("get_property")
    BY <1>4, <1>5
  <2>3. PICK g2 : At(property, P, g2, m) /\ Rise(getter, g1, property, g2)
    BY <1>2, <1>3, <1>6, <2>1, <2>2, ConstantAt
  <2>4. d = EmitConstant(property, "set_property", last, token + Len(names) - 1)
    BY <1>10 DEF EmitAssignment, getter, last, d
  <2>. HIDE DEF property
  <2>5. Rise(c, h, property, g2)
    BY <1>6, <2>3, RiseTransitive
  <2>. QED
    BY <1>7, <2>3, <2>4, <2>5 DEF d
<1>. QED
  BY <1>8, <1>9, <1>10

(* The instructions of a binary operator. *)
LEMMA EmitInstructionsAt ==
  ASSUME NEW c, NEW P, NEW h, NEW m \in Nat, 1 <= m, NEW a \in Nat, a = m + 1, At(c, P, h, a),
         NEW name \in DOMAIN Instructions, NEW token \in Nat,
         NEW d, d = Emit(c, [i \in DOMAIN Instructions[name] |-> Op(Instructions[name][i])], token)
  PROVE  \E g : At(d, P, g, m) /\ Rise(c, h, d, g)
<1> DEFINE calculations == {"equal", "less", "greater", "add", "subtract", "multiply", "divide"}
<1>1. \A opcode \in calculations :
        /\ opcode \in PlainOpcode \ NoFall /\ Needs(opcode, 0) = 2 /\ Pushes(opcode) = 1
  BY DEF PlainOpcode, NoFall, Needs, Pushes, JumpOpcode
<1>2. "not_" \in PlainOpcode \ NoFall /\ Needs("not_", 0) = 1 /\ Pushes("not_") = 1
  BY DEF PlainOpcode, NoFall, Needs, Pushes, JumpOpcode
<1>3. \E first \in calculations :
        Instructions[name] = <<first>> \/ Instructions[name] = <<first, "not_">>
  BY DEF Instructions
<1>4. PICK opcodes : opcodes = Instructions[name]
  OBVIOUS
<1>5. d = Emit(c, [i \in DOMAIN opcodes |-> Op(opcodes[i])], token)
  BY <1>4
<1>. HIDE DEF calculations
<1>6. PICK first \in calculations : opcodes = <<first>> \/ opcodes = <<first, "not_">>
  BY <1>3, <1>4
<1>7. CASE opcodes = <<first>>
  <2>1. opcodes \in Seq(PlainOpcode \ NoFall) /\ Len(opcodes) = 1 /\ opcodes[1] = first
    BY <1>1, <1>7
  <2>2. PICK w : w = [i \in 0 .. 1 |-> IF i = 0 THEN a ELSE m]
    OBVIOUS
  <2>3. w \in [0 .. Len(opcodes) -> Nat] /\ w[0] = a /\ w[1] = m /\ m = w[Len(opcodes)]
    BY <2>1, <2>2
  <2>4. \A i \in 1 .. Len(opcodes) :
          /\ Needs(opcodes[i], 0) <= w[i - 1]
          /\ w[i] = w[i - 1] - Needs(opcodes[i], 0) + Pushes(opcodes[i])
    <3>1. \A i \in 1 .. Len(opcodes) : i = 1
      BY <2>1
    <3>2. 2 <= a /\ m = a - 2 + 1
      OBVIOUS
    <3>3. w[1 - 1] = a
      BY <2>3
    <3>. QED
      BY <1>1, <2>1, <2>3, <3>1, <3>2, <3>3
  <2>5. w \in [0 .. Len(opcodes) -> Nat] /\ w[0] = a /\ m = w[Len(opcodes)]
    BY <2>3
  <2>6. opcodes \in Seq(PlainOpcode \ NoFall)
    BY <2>1
  <2>. QED
    BY SMTT(40), <1>5, <2>4, <2>5, <2>6, PlainsReach
<1>8. CASE opcodes = <<first, "not_">>
  <2>1. /\ opcodes \in Seq(PlainOpcode \ NoFall) /\ Len(opcodes) = 2 /\ opcodes[1] = first
        /\ opcodes[2] = "not_"
    BY <1>1, <1>2, <1>8
  <2>2. PICK w : w = [i \in 0 .. 2 |-> IF i = 0 THEN a ELSE m]
    OBVIOUS
  <2>3. /\ w \in [0 .. Len(opcodes) -> Nat] /\ w[0] = a /\ w[1] = m /\ w[2] = m
        /\ m = w[Len(opcodes)]
    BY <2>1, <2>2
  <2>4. \A i \in 1 .. Len(opcodes) :
          /\ Needs(opcodes[i], 0) <= w[i - 1]
          /\ w[i] = w[i - 1] - Needs(opcodes[i], 0) + Pushes(opcodes[i])
    <3>1. \A i \in 1 .. Len(opcodes) : i = 1 \/ i = 2
      BY <2>1
    <3>2. 2 <= a /\ m = a - 2 + 1 /\ m = m - 1 + 1
      OBVIOUS
    <3>3. w[1 - 1] = a /\ w[2 - 1] = m
      BY <2>3
    <3>. QED
      BY <1>1, <1>2, <2>1, <2>3, <3>1, <3>2, <3>3
  <2>5. w \in [0 .. Len(opcodes) -> Nat] /\ w[0] = a /\ m = w[Len(opcodes)]
    BY <2>3
  <2>6. opcodes \in Seq(PlainOpcode \ NoFall)
    BY <2>1
  <2>. QED
    BY <1>5, <2>4, <2>5, <2>6, PlainsReach
<1>. QED
  BY <1>6, <1>7, <1>8

(* What comes after the right operand: the value of the operator is left. *)
LEMMA EmitOperatorAt ==
  ASSUME NEW c, NEW P, NEW h, NEW b \in Nat,
         NEW k, WaitingOK(k), k.kind \in OperatorKinds, At(c, P, h, b + Held(k) + 1),
         JumpsOf(k) \subseteq P,
         k.kind = "logical" => \A j \in DOMAIN k.jumps : h[k.jumps[j] - 3] = b + 1
  PROVE  LET d == EmitOperator(c, k)
         IN  \E g : At(d, P \ JumpsOf(k), g, b + 1) /\ Rise(c, h, d, g)
<1> DEFINE d == EmitOperator(c, k)
<1>1. k.kind \in {"unary", "logical", "binary", "assignment"} /\ k.token \in Nat
  BY DEF OperatorKinds, WaitingOK
<1>2. PICK m \in Nat : m = b + 1
  OBVIOUS
<1>3. CASE k.kind = "logical"
  <2>1. JumpsToPatch(k.kind, Len(k.parts)) = 1
    BY <1>3 DEF JumpsToPatch
  <2>2. JumpsOf(k) = {k.jumps[1]} /\ k.jumps[1] \in P /\ 1 \in DOMAIN k.jumps
    <3>1. 1 \in DOMAIN k.jumps
      <4>1. k.jumps \in Seq(Nat) /\ Len(k.jumps) = 1
        BY <2>1 DEF WaitingOK
      <4>. QED
        BY <4>1
    <3>. QED
      BY <2>1, <3>1, OneJump
  <2>3. d = ToNextOpcode(c, k.jumps[1])
    BY <1>3 DEF EmitOperator
  <2>4. b + Held(k) + 1 = m /\ h[k.jumps[1] - 3] = m
    BY <1>2, <1>3, <2>2 DEF Held
  <2>5. PICK j \in P : j = k.jumps[1]
    BY <2>2
  <2>6. At(c, P, h, m) /\ h[j - 3] = m
    BY <2>4, <2>5
  <2>7. At(ToNextOpcode(c, j), P \ {j}, h, m) /\ Rise(c, h, ToNextOpcode(c, j), h)
    BY <2>6, PatchAt
  <2>. QED
    BY <1>2, <2>2, <2>3, <2>5, <2>7
<1>4. CASE k.kind # "logical"
  <2>1. JumpsToPatch(k.kind, Len(k.parts)) = 0
    BY <1>1, <1>4 DEF JumpsToPatch
  <2>2. P \ JumpsOf(k) = P
    BY <2>1, NoJumps
  <2>3. CASE k.kind = "unary"
    <3>1. \A opcode \in {"negate", "not_"} :
            /\ opcode \in PlainOpcode /\ Needs(opcode, 0) = 1 /\ Pushes(opcode) = 1
      BY DEF PlainOpcode, Needs, Pushes, JumpOpcode
    <3>2. PICK opcode \in {"negate", "not_"} : d = EmitPlain(c, opcode, k.token)
      BY <2>3 DEF EmitOperator
    <3>3. b + Held(k) + 1 = m
      BY <1>2, <2>3 DEF Held
    <3>4. At(c, P, h, m) /\ Needs(opcode, 0) <= m /\ m = m - Needs(opcode, 0) + Pushes(opcode)
      <4>1. 1 <= m /\ m = m - 1 + 1
        BY <1>2
      <4>. QED
        BY <3>1, <3>3, <4>1
    <3>5. \E g : At(d, P, g, m) /\ Rise(c, h, d, g)
      BY <1>1, <3>1, <3>2, <3>4, PlainAt
    <3>. QED
      BY <1>2, <2>2, <3>5
  <2>4. CASE k.kind = "binary"
    <3>1. k.names[1] \in DOMAIN Instructions
      BY <2>4 DEF WaitingOK
    <3>2. d = Emit(c, [i \in DOMAIN Instructions[k.names[1]] |-> Op(Instructions[k.names[1]][i])], k.token)
      BY <2>4 DEF EmitOperator
    <3>3. PICK a \in Nat : a = b + 2
      OBVIOUS
    <3>4. At(c, P, h, a)
      <4>1. b + Held(k) + 1 = a
        BY <2>4, <3>3 DEF Held
      <4>. QED
        BY <4>1
    <3>5. a = m + 1 /\ 1 <= m
      BY <1>2, <3>3
    <3>. HIDE DEF d
    <3>6. \E g : At(d, P, g, m) /\ Rise(c, h, d, g)
      BY <1>1, <3>1, <3>2, <3>4, <3>5, EmitInstructionsAt
    <3>7. PICK g : At(d, P, g, m) /\ Rise(c, h, d, g)
      BY <3>6
    <3>8. At(d, P \ JumpsOf(k), g, b + 1)
      BY <1>2, <2>2, <3>7
    <3>. QED
      BY <3>7, <3>8 DEF d
  <2>5. CASE k.kind = "assignment"
    <3>1. k.names \in Seq(Lexeme) /\ Len(k.names) \in 1..3
      BY <2>5 DEF WaitingOK
    <3>2. d = EmitAssignment(c, k.names, k.token)
      BY <2>5 DEF EmitOperator
    <3>3. b + Held(k) + 1 = m
      BY <1>2, <2>5 DEF Held
    <3>4. At(c, P, h, m)
      BY <3>3
    <3>5. \E g : At(d, P, g, m) /\ Rise(c, h, d, g)
      BY <1>1, <3>1, <3>2, <3>4, EmitAssignmentAt
    <3>. QED
      BY <1>2, <2>2, <3>5
  <2>. QED
    BY <1>1, <1>4, <2>3, <2>4, <2>5
<1>. QED
  BY <1>3, <1>4

LEMMA EmitNothingAt ==
  ASSUME NEW c, NEW P, NEW h, NEW a \in Nat, At(c, P, h, a), NEW token \in Nat
  PROVE  LET d == EmitNothing(c, token)
         IN  \E g : At(d, P, g, a + 1) /\ Rise(c, h, d, g)
<1>1. PICK m \in Nat : m = a + 1
  OBVIOUS
<1>2. /\ Needs("get_local", 0) = 0 /\ Needs("nil", 0) = 0 /\ Pushes("nil") = 1
      /\ "nil" \in PlainOpcode
  BY DEF Needs, Pushes, PlainOpcode, JumpOpcode
<1>3. 0 <= a /\ m = a - 0 + 1 /\ 0 \in Nat
  BY <1>1
<1>4. CASE unit.kind = "init"
  <2>1. EmitNothing(c, token) = EmitIndex(c, "get_local", 0, token)
    BY <1>4 DEF EmitNothing
  <2>2. Needs("get_local", 0) <= a /\ m = a - Needs("get_local", 0) + 1
    BY <1>2, <1>3
  <2>. QED
    BY <1>1, <1>3, <2>1, <2>2, IndexAt
<1>5. CASE unit.kind # "init"
  <2>1. EmitNothing(c, token) = EmitPlain(c, "nil", token)
    BY <1>5 DEF EmitNothing
  <2>2. Needs("nil", 0) <= a /\ m = a - Needs("nil", 0) + Pushes("nil")
    BY <1>2, <1>3
  <2>. QED
    BY <1>1, <1>2, <2>1, <2>2, PlainAt
<1>. QED
  BY <1>4, <1>5

(* Nothing goes on after a return: the stack may be of any height there. *)
LEMMA ReturnAt ==
  ASSUME NEW c, NEW P, NEW h, NEW a \in Nat, At(c, P, h, a), NEW token \in Nat, NEW m \in Nat
  PROVE  LET d == EmitPlain(EmitNothing(c, token), "return_", token)
         IN  \E g : At(d, P, g, m) /\ Rise(c, h, d, g)
<1> DEFINE nothing == EmitNothing(c, token)
<1>1. PICK b \in Nat : b = a + 1
  OBVIOUS
<1>2. PICK g : At(nothing, P, g, b) /\ Rise(c, h, nothing, g)
  BY <1>1, EmitNothingAt
<1>. HIDE DEF nothing
<1>3. "return_" \in PlainOpcode /\ Needs("return_", 0) <= b
  BY DEF PlainOpcode, Needs
<1>4. PICK f : /\ At(EmitPlain(nothing, "return_", token), P, f, m)
               /\ Rise(nothing, g, EmitPlain(nothing, "return_", token), f)
  BY <1>2, <1>3, PlainAt
<1>. QED
  BY <1>2, <1>4, RiseTransitive DEF nothing

LEMMA LeftStays ==
  ASSUME NEW c, NEW h, NEW d, NEW g, Rise(c, h, d, g), NEW s, NEW a, Left(c, s, h, a)
  PROVE  Left(d, s, g, a)
<1>1. SUFFICES ASSUME ~d.narrowing_error
               PROVE  Size(d) \in Nat /\ s \in 3 .. Size(d) /\ g[s - 3] = a
  BY DEF Left
<1>2. /\ ~c.narrowing_error /\ Size(c) \in Nat /\ Size(d) \in Nat /\ Size(c) <= Size(d)
      /\ \A p \in 0 .. Size(c) : g[p] = h[p]
  BY <1>1 DEF Rise
<1>3. s \in 3 .. Size(c) /\ h[s - 3] = a
  BY <1>2 DEF Left
<1>4. s - 3 \in 0 .. Size(c) /\ s \in 3 .. Size(d)
  BY <1>2, <1>3
<1>. QED
  BY <1>2, <1>3, <1>4

LEMMA LeftPatched ==
  ASSUME NEW c, NEW P, NEW h, NEW a \in Nat, At(c, P, h, a), NEW s \in P, Left(c, s, h, a)
  PROVE  At(ToNextOpcode(c, s), P \ {s}, h, a) /\ Rise(c, h, ToNextOpcode(c, s), h)
BY PatchAt DEF Left

LEMMA PopAt ==
  ASSUME NEW c, NEW P, NEW h, NEW a \in Nat, NEW m \in Nat, m = a + 1, At(c, P, h, m),
         NEW token \in Nat
  PROVE  LET d == EmitPlain(c, "pop", token)
         IN  \E g : At(d, P, g, a) /\ Rise(c, h, d, g)
<1>1. "pop" \in PlainOpcode /\ Needs("pop", 0) = 1 /\ Pushes("pop") = 0
  BY DEF PlainOpcode, Needs, Pushes
<1>2. Needs("pop", 0) <= m /\ a = m - Needs("pop", 0) + Pushes("pop")
  <2>1. 1 <= m /\ a = m - 1 + 0
    OBVIOUS
  <2>. QED
    BY <1>1, <2>1
<1>. QED
  BY <1>1, <1>2, PlainAt

(* The two kinds of jumps: after the one that is always taken the stack may *)
(* be of any height.                                                        *)
LEMMA TestAt ==
  ASSUME NEW c, NEW P, NEW h, NEW a \in Nat, At(c, P, h, a), NEW token \in Nat
  PROVE  LET d == EmitJump(c, "jump_if_false", token)
         IN  \E g : At(d, P \cup {Size(d)}, g, a) /\ Rise(c, h, d, g) /\ Left(d, Size(d), g, a)
BY JumpAt, Zenon

LEMMA SkipAt ==
  ASSUME NEW c, NEW P, NEW h, NEW a \in Nat, At(c, P, h, a), NEW token \in Nat, NEW m \in Nat
  PROVE  LET d == EmitJump(c, "jump", token)
         IN  \E g : At(d, P \cup {Size(d)}, g, m) /\ Rise(c, h, d, g) /\ Left(d, Size(d), g, a)
<1>1. "jump" \in {"jump", "jump_if_false"} /\ "jump" # "jump_if_false"
  OBVIOUS
<1>. QED
  BY <1>1, JumpAt

LEMMA ConjunctionAt ==
  ASSUME NEW c, NEW P, NEW h, NEW a \in Nat, NEW m \in Nat, m = a + 1, At(c, P, h, m),
         NEW token \in Nat
  PROVE  LET tested == EmitJump(c, "jump_if_false", token)
             d == EmitPlain(tested, "pop", token)
         IN  \E g : /\ At(d, P \cup {Size(tested)}, g, a) /\ Rise(c, h, d, g)
                    /\ Left(d, Size(tested), g, m)
<1> DEFINE tested == EmitJump(c, "jump_if_false", token)
           d == EmitPlain(tested, "pop", token)
           Q == P \cup {Size(tested)}
<1>1. PICK g : At(tested, Q, g, m) /\ Rise(c, h, tested, g) /\ Left(tested, Size(tested), g, m)
  BY TestAt
<1>. HIDE DEF tested, Q
<1>2. PICK f : At(d, Q, f, a) /\ Rise(tested, g, d, f)
  BY <1>1, PopAt
<1>. HIDE DEF d
<1>3. Rise(c, h, d, f)
  BY <1>1, <1>2, RiseTransitive
<1>4. Left(d, Size(tested), f, m)
  BY <1>1, <1>2, LeftStays
<1>. QED
  BY <1>2, <1>3, <1>4 DEF d, tested, Q

(* A condition, and a jump that leaves from it after the one that is taken   *)
(* when it is false: what follows begins at any height.                     *)
LEMMA TwoJumpsAt ==
  ASSUME NEW c, NEW P, NEW h, NEW a \in Nat, At(c, P, h, a), NEW token \in Nat, NEW m \in Nat
  PROVE  LET tested == EmitJump(c, "jump_if_false", token)
             skipped == EmitJump(tested, "jump", token)
         IN  \E g : /\ At(skipped, P \cup {Size(tested)} \cup {Size(skipped)}, g, m)
                    /\ Rise(c, h, skipped, g)
                    /\ Left(skipped, Size(tested), g, a) /\ Left(skipped, Size(skipped), g, a)
<1> DEFINE tested == EmitJump(c, "jump_if_false", token)
           skipped == EmitJump(tested, "jump", token)
           Q == P \cup {Size(tested)}
<1>1. PICK g : At(tested, Q, g, a) /\ Rise(c, h, tested, g) /\ Left(tested, Size(tested), g, a)
  BY TestAt
<1>. HIDE DEF tested, Q
<1>2. PICK f : /\ At(skipped, Q \cup {Size(skipped)}, f, m) /\ Rise(tested, g, skipped, f)
               /\ Left(skipped, Size(skipped), f, a)
  BY <1>1, SkipAt
<1>. HIDE DEF skipped
<1>3. Rise(c, h, skipped, f)
  BY <1>1, <1>2, RiseTransitive
<1>4. Left(skipped, Size(tested), f, a)
  BY <1>1, <1>2, LeftStays
<1>. QED
  BY <1>2, <1>3, <1>4 DEF skipped, tested, Q

LEMMA DisjunctionAt ==
  ASSUME NEW c, NEW P, NEW h, NEW a \in Nat, NEW m \in Nat, m = a + 1, At(c, P, h, m),
         NEW token \in Nat
  PROVE  LET tested == EmitJump(c, "jump_if_false", token)
             skipped == EmitJump(tested, "jump", token)
             d == EmitPlain(ToNextOpcode(skipped, Size(tested)), "pop", token)
         IN  \E g : /\ At(d, (P \cup {Size(tested)} \cup {Size(skipped)}) \ {Size(tested)}, g, a)
                    /\ Rise(c, h, d, g) /\ Left(d, Size(skipped), g, m)
<1> DEFINE tested == EmitJump(c, "jump_if_false", token)
           skipped == EmitJump(tested, "jump", token)
           patched == ToNextOpcode(skipped, Size(tested))
           d == EmitPlain(patched, "pop", token)
           Q == P \cup {Size(tested)} \cup {Size(skipped)}
<1>1. PICK g : /\ At(skipped, Q, g, m) /\ Rise(c, h, skipped, g)
               /\ Left(skipped, Size(tested), g, m) /\ Left(skipped, Size(skipped), g, m)
  BY TwoJumpsAt
<1>2. Size(tested) \in Q
  OBVIOUS
<1>. HIDE DEF tested, skipped, Q
<1>3. At(patched, Q \ {Size(tested)}, g, m) /\ Rise(skipped, g, patched, g)
  BY <1>1, <1>2, LeftPatched
<1>. HIDE DEF patched
<1>4. PICK f : At(d, Q \ {Size(tested)}, f, a) /\ Rise(patched, g, d, f)
  BY <1>3, PopAt
<1>. HIDE DEF d
<1>5. Rise(skipped, g, d, f)
  BY <1>3, <1>4, RiseTransitive
<1>6. Rise(c, h, d, f)
  BY <1>1, <1>5, RiseTransitive
<1>7. Left(d, Size(skipped), f, m)
  BY <1>1, <1>5, LeftStays
<1>. QED
  BY <1>4, <1>6, <1>7 DEF d, patched, skipped, tested, Q

(* The end of the first branch of an if. *)
LEMMA OtherwiseAt ==
  ASSUME NEW c, NEW P, NEW h, NEW a \in Nat, At(c, P, h, a), NEW token \in Nat,
         NEW m \in Nat, m = a + 1, NEW j \in P, Left(c, j, h, m)
  PROVE  LET jumped == EmitJump(c, "jump", token)
             d == EmitPlain(ToNextOpcode(jumped, j), "pop", token)
         IN  \E g : /\ At(d, (P \cup {Size(jumped)}) \ {j}, g, a) /\ Rise(c, h, d, g)
                    /\ Left(d, Size(jumped), g, a)
<1> DEFINE jumped == EmitJump(c, "jump", token)
           patched == ToNextOpcode(jumped, j)
           d == EmitPlain(patched, "pop", token)
           Q == P \cup {Size(jumped)}
<1>1. PICK g : At(jumped, Q, g, m) /\ Rise(c, h, jumped, g) /\ Left(jumped, Size(jumped), g, a)
  BY SkipAt
<1>2. j \in Q
  OBVIOUS
<1>. HIDE DEF jumped, Q
<1>3. Left(jumped, j, g, m)
  BY <1>1, LeftStays
<1>4. At(patched, Q \ {j}, g, m) /\ Rise(jumped, g, patched, g)
  BY <1>1, <1>2, <1>3, LeftPatched
<1>. HIDE DEF patched
<1>5. PICK f : At(d, Q \ {j}, f, a) /\ Rise(patched, g, d, f)
  BY <1>4, PopAt
<1>. HIDE DEF d
<1>6. Rise(jumped, g, d, f)
  BY <1>4, <1>5, RiseTransitive
<1>7. Rise(c, h, d, f)
  BY <1>1, <1>6, RiseTransitive
<1>8. Left(d, Size(jumped), f, a)
  BY <1>1, <1>6, LeftStays
<1>. QED
  BY <1>5, <1>7, <1>8 DEF d, patched, jumped, Q

(* There is no else. *)
LEMMA ThenAt ==
  ASSUME NEW c, NEW P, NEW h, NEW a \in Nat, At(c, P, h, a), NEW token \in Nat, ~c.narrowing_error,
         NEW m \in Nat, m = a + 1, NEW j \in P, Left(c, j, h, m)
  PROVE  LET jumped == EmitJump(c, "jump", token)
             otherwise == EmitPlain(ToNextOpcode(jumped, j), "pop", token)
             d == ToNextOpcode(otherwise, Size(jumped))
         IN  \E g : At(d, ((P \cup {Size(jumped)}) \ {j}) \ {Size(jumped)}, g, a) /\ Rise(c, h, d, g)
<1> DEFINE jumped == EmitJump(c, "jump", token)
           otherwise == EmitPlain(ToNextOpcode(jumped, j), "pop", token)
           d == ToNextOpcode(otherwise, Size(jumped))
           R == (P \cup {Size(jumped)}) \ {j}
<1>1. PICK g : At(otherwise, R, g, a) /\ Rise(c, h, otherwise, g) /\ Left(otherwise, Size(jumped), g, a)
  BY OtherwiseAt
<1>2. Size(jumped) \in R
  <2>1. Size(jumped) # j
    <3>1. ~jumped.narrowing_error
      BY StillUnwound DEF EmitJump, At, Good
    <3>2. Size(jumped) = Size(c) + 3
      BY <3>1, EmitJumpGood DEF At
    <3>3. Size(c) \in Nat /\ j \in 3 .. Size(c)
      BY DEF Left
    <3>. HIDE DEF jumped
    <3>. QED
      BY <3>2, <3>3
  <2>. QED
    BY <2>1
<1>. HIDE DEF jumped, R, otherwise
<1>3. At(d, R \ {Size(jumped)}, g, a) /\ Rise(otherwise, g, d, g)
  BY <1>1, <1>2, LeftPatched
<1>. HIDE DEF d
<1>4. Rise(c, h, d, g)
  BY <1>1, <1>3, RiseTransitive
<1>. QED
  BY <1>3, <1>4 DEF d, otherwise, jumped, R

LEMMA LoopEndAt ==
  ASSUME NEW c, NEW P, NEW h, NEW a \in Nat, At(c, P, h, a), NEW token \in Nat,
         NEW b \in Nat, ~c.narrowing_error => IsStart(c, b) /\ h[b] = a,
         NEW m \in Nat, m = a + 1, NEW j \in P, Left(c, j, h, m)
  PROVE  LET d == EmitPlain(ToNextOpcode(EmitLoop(c, b, token), j), "pop", token)
         IN  \E g : At(d, P \ {j}, g, a) /\ Rise(c, h, d, g)
<1> DEFINE looped == EmitLoop(c, b, token)
           patched == ToNextOpcode(looped, j)
           d == EmitPlain(patched, "pop", token)
<1>1. PICK g : At(looped, P, g, m) /\ Rise(c, h, looped, g)
  BY LoopAt
<1>. HIDE DEF looped
<1>2. Left(looped, j, g, m)
  BY <1>1, LeftStays
<1>3. At(patched, P \ {j}, g, m) /\ Rise(looped, g, patched, g)
  BY <1>1, <1>2, LeftPatched
<1>. HIDE DEF patched
<1>4. PICK f : At(d, P \ {j}, f, a) /\ Rise(patched, g, d, f)
  BY <1>3, PopAt
<1>. HIDE DEF d
<1>5. Rise(looped, g, d, f)
  BY <1>3, <1>4, RiseTransitive
<1>6. Rise(c, h, d, f)
  BY <1>1, <1>5, RiseTransitive
<1>. QED
  BY <1>4, <1>6 DEF d, patched, looped

LEMMA EmitPopsAt ==
  ASSUME tracked_locals \in Seq(Nat), NEW c, NEW P, NEW h, NEW a \in Nat, At(c, P, h, a),
         NEW token \in Nat, NEW b \in Nat, b + Len(tracked_locals) - Outer = a
  PROVE  LET d == EmitPops(c, token)
         IN  \E g : At(d, P, g, b) /\ Rise(c, h, d, g)
<1> DEFINE m == Len(tracked_locals) - Outer
           opcodes == [i \in 1 .. m |-> "pop"]
           d == EmitPops(c, token)
<1>1. m \in Nat /\ a = b + m
  BY OuterType
<1>. HIDE DEF m
<1>2. "pop" \in PlainOpcode \ NoFall /\ Needs("pop", 0) = 1 /\ Pushes("pop") = 0
  BY DEF PlainOpcode, NoFall, Needs, Pushes
<1>3. /\ opcodes \in Seq(PlainOpcode \ NoFall) /\ DOMAIN opcodes = 1 .. m
      /\ Len(opcodes) = m /\ \A i \in 1 .. m : opcodes[i] = "pop"
  BY <1>1, <1>2
<1>. HIDE DEF opcodes
<1>4. d = Emit(c, [i \in DOMAIN opcodes |-> Op(opcodes[i])], token)
  BY <1>3 DEF EmitPops, m
<1>. HIDE DEF d
<1>5. PICK k : k = [i \in 0 .. m |-> a - i]
  OBVIOUS
<1>6. k \in [0 .. Len(opcodes) -> Nat] /\ k[0] = a /\ k[Len(opcodes)] = b
  <2>1. \A i \in 0 .. m : a - i \in Nat
    BY <1>1
  <2>2. 0 \in 0 .. m /\ m \in 0 .. m /\ a - 0 = a /\ a - m = b
    BY <1>1
  <2>. QED
    BY <1>3, <1>5, <2>1, <2>2
<1>7. \A i \in 1 .. Len(opcodes) :
        /\ Needs(opcodes[i], 0) <= k[i - 1]
        /\ k[i] = k[i - 1] - Needs(opcodes[i], 0) + Pushes(opcodes[i])
  <2>1. SUFFICES ASSUME NEW i \in 1 .. m
                 PROVE  1 <= k[i - 1] /\ k[i] = k[i - 1] - 1 + 0
    BY <1>2, <1>3
  <2>2. i - 1 \in 0 .. m /\ i \in 0 .. m
    BY <1>1
  <2>3. k[i - 1] = a - (i - 1) /\ k[i] = a - i
    BY <1>5, <2>2
  <2>. QED
    BY <1>1, <2>3
<1>8. k \in [0 .. Len(opcodes) -> Nat] /\ k[0] = a /\ b = k[Len(opcodes)]
  BY <1>6
<1>9. opcodes \in Seq(PlainOpcode \ NoFall)
  BY <1>3
<1>10. \E g : At(d, P, g, b) /\ Rise(c, h, d, g)
  BY <1>4, <1>7, <1>8, <1>9, PlainsReach
<1>. QED
  BY <1>10 DEF d

-----------------------------------------------------------------------------
(* The height of the stack through an expression *)

(* Nothing is written. *)
LEMMA SameReaches ==
  ASSUME CompilingStep, NEW notes, NEW h, NEW F, Current(notes, h, F), chunk' = chunk
  PROVE  Reaches(h, PendingOf(nesting), h, Height(expects.what, Own(F)))
<1>1. At(chunk, PendingOf(nesting), h, Height(expects.what, Own(F)))
  BY CurrentWaits
<1>2. ~chunk.narrowing_error /\ Size(chunk) \in Nat
  BY StepCompiles, CompilesFacts
<1>. QED
  BY <1>1, <1>2 DEF Reaches, Rise

(* The same function waits for the next thing. *)
LEMMA StayTracks ==
  ASSUME CompilingStep, NEW notes, NEW h, NEW F, Current(notes, h, F), Notes' \subseteq notes,
         nesting' = nesting, UNCHANGED scopes,
         expects.what # "statement", expects'.what # "statement",
         NEW hh, Reaches(h, PendingOf(nesting), hh, Height(expects'.what, Own(F)))
  PROVE  Tracked'
<1>1. WaitingOK(Top) /\ Relies(chunk, Top)
  BY StepCompiles, TopFacts
<1>2. Own(F) \in Place /\ Frame(h, tracked_locals, Top, expects.what, Own(F))
  BY CurrentWaits
<1>3. HeightsStay(chunk, h, hh) /\ Size(chunk) \in Nat
  BY ReachesStays
<1>4. LocalsStay(Own(F), tracked_locals, tracked_locals)
  BY DEF LocalsStay
<1>5. Frame(hh, tracked_locals, Top, expects'.what, Own(F))
  BY <1>1, <1>2, <1>3, <1>4, FrameStays
<1>6. PendingOf(nesting) \subseteq (PendingOf(nesting) \ JumpsOf(Top)) \cup JumpsOf(Top)
  OBVIOUS
<1>. QED
  BY <1>5, <1>6, StillTracks

LEMMA OperandTracks ==
  ASSUME IInv, IInv', Tracked, Operand
  PROVE  Tracked'
<1>1. /\ CompilingStep /\ expects.what = "operand" /\ expects'.what = "operator"
      /\ nesting' = nesting /\ UNCHANGED scopes /\ Notes' = Notes /\ Here \in Nat
  BY InvCompiles DEF Operand, Compiling, CompilingStep, Emitted, ExpectOperator, Notes, machine
<1>2. PICK h, F : Current(Notes, h, F)
  BY DEF Tracked
<1>3. PICK t \in OperandTokens : chunk' = EmitOperand(chunk, t, Here)
  BY DEF Operand, Emitted
<1>4. /\ At(chunk, PendingOf(nesting), h, Own(F).ground) /\ Own(F).ground \in Nat
      /\ Height("operator", Own(F)) = Own(F).ground + 1
  BY <1>1, <1>2, CurrentWaits DEF Height
<1>5. PICK hh : Reaches(h, PendingOf(nesting), hh, Own(F).ground + 1)
  BY <1>1, <1>3, <1>4, EmitOperandAt DEF Reaches
<1>. QED
  BY <1>1, <1>2, <1>4, <1>5, StayTracks

LEMMA AccessPropertyTracks ==
  ASSUME IInv, IInv', Tracked, AccessProperty
  PROVE  Tracked'
<1>1. /\ CompilingStep /\ expects.what = "operator" /\ expects'.what = "operator"
      /\ nesting' = nesting /\ UNCHANGED scopes /\ Notes' = Notes /\ Here \in Nat
  BY InvCompiles DEF AccessProperty, Compiling, CompilingStep, Emitted, ExpectOperator, Notes, machine
<1>2. PICK h, F : Current(Notes, h, F)
  BY DEF Tracked
<1>3. PICK name \in Names : chunk' = EmitConstant(chunk, "get_property", Name(name), Here)
  BY DEF AccessProperty, Emitted
<1>4. "get_property" \in ConstantOpcode /\ Name(name) \in Constant
      /\ Needs("get_property", 0) = 1 /\ Pushes("get_property") = 1
  BY LexemeOK, ConstantOK DEF ConstantOpcode, NameOpcode, Needs, Pushes, JumpOpcode
<1>5. PICK a \in Nat : /\ a = Height("operator", Own(F)) /\ 1 <= a /\ a = a - 1 + 1
                       /\ At(chunk, PendingOf(nesting), h, a)
  BY <1>1, <1>2, CurrentWaits, PlaceParts DEF Height
<1>6. Needs("get_property", 0) <= a /\ a = a - Needs("get_property", 0) + Pushes("get_property")
  BY <1>4, <1>5
<1>7. PICK hh : Reaches(h, PendingOf(nesting), hh, a)
  BY <1>1, <1>3, <1>4, <1>5, <1>6, ConstantAt DEF Reaches
<1>. QED
  BY <1>1, <1>2, <1>5, <1>7, StayTracks

(* An operator waits for its operand. *)
LEMMA PushOperatorTracks ==
  ASSUME CompilingStep, NEW h, NEW F, Current(Notes, h, F), Notes' = Notes,
         NEW k, Push(k), k.kind \in ExpressionKinds, Held(k) \in Nat, DOMAIN k.begins = {},
         UNCHANGED scopes, expects.what # "statement", expects'.what = "operand",
         NEW R, R \subseteq PendingOf(nesting) \cup JumpsOf(k),
         NEW hh, NEW a \in Nat, a = Own(F).ground + Held(k), Reaches(h, R, hh, a),
         \A j \in DOMAIN k.jumps : hh[k.jumps[j] - 3] = a + 1
  PROVE  Tracked'
<1>1. /\ Own(F) \in Place /\ Frame(h, tracked_locals, Top, expects.what, Own(F))
      /\ Own(F).locals = Len(tracked_locals) /\ Own(F).depth = scope_depth
  BY CurrentWaits
<1>2. Own(F).ground \in Nat /\ Own(F).locals \in Nat /\ Own(F).depth \in Nat
  BY <1>1, PlaceParts
<1>3. PICK f \in Place : f.ground = a /\ f.locals = Own(F).locals /\ f.depth = Own(F).depth
  <2>1. [ground |-> a, locals |-> Own(F).locals, depth |-> Own(F).depth] \in Place
    BY <1>2 DEF Place
  <2>. QED
    BY <2>1
<1>4. k.kind \notin {"if", "var", "block", "for"}
  BY DEF ExpressionKinds, OperatorKinds
<1>5. tracked_locals' = tracked_locals /\ scope_depth' = scope_depth
  BY DEF scopes
<1>6. Frame(hh, tracked_locals, k, "operand", f)
  <2>1. \A j \in 1 .. f.locals : tracked_locals[j] <= f.depth
    BY <1>1, <1>3 DEF Frame
  <2>. QED
    BY <1>3, <1>4, <2>1 DEF Frame, Else
<1>7. Link(Top, k, tracked_locals, Own(F), f)
  BY <1>3, <1>4 DEF Link
<1>8. For(k) # "statement" /\ LocalsStay(Own(F), tracked_locals, tracked_locals')
      /\ Own(F).locals <= f.locals
  BY <1>2, <1>3, <1>5 DEF For, LocalsStay
<1>9. Height(expects'.what, f) = a
  BY <1>3 DEF Height
<1>10. f.locals = Len(tracked_locals') /\ f.depth = scope_depth'
  BY <1>1, <1>3, <1>5
<1>. QED
  BY <1>5, <1>6, <1>7, <1>8, <1>9, <1>10, PushTracks

(* One that writes nothing before. *)
LEMMA PushPlainTracks ==
  ASSUME CompilingStep, NEW h, NEW F, Current(Notes, h, F), Notes' = Notes,
         NEW k, Push(k), k.kind \in ExpressionKinds, k.begins = <<>>, k.jumps = <<>>,
         Held(k) = IF expects.what = "operator" THEN 1 ELSE 0,
         UNCHANGED scopes, expects.what \in {"operand", "operator"}, expects'.what = "operand",
         chunk' = chunk
  PROVE  Tracked'
<1>1. Reaches(h, PendingOf(nesting), h, Height(expects.what, Own(F)))
  BY SameReaches
<1>2. Own(F).ground \in Nat
  BY CurrentWaits, PlaceParts
<1>3. PICK a \in Nat : a = Own(F).ground + Held(k) /\ Height(expects.what, Own(F)) = a
  BY <1>2 DEF Height
<1>4. DOMAIN k.begins = {} /\ DOMAIN k.jumps = {} /\ Held(k) \in Nat
  BY NoneOf
<1>5. PendingOf(nesting) \subseteq PendingOf(nesting) \cup JumpsOf(k)
  OBVIOUS
<1>6. expects.what # "statement" /\ Reaches(h, PendingOf(nesting), h, a)
      /\ \A j \in DOMAIN k.jumps : h[k.jumps[j] - 3] = a + 1
  BY <1>1, <1>3, <1>4
<1>. QED
  BY <1>3, <1>4, <1>5, <1>6, PushOperatorTracks

LEMMA PrefixTracks ==
  ASSUME IInv, IInv', Tracked, Prefix
  PROVE  Tracked'
<1>1. /\ CompilingStep /\ expects.what = "operand" /\ expects' = expects
      /\ chunk' = chunk /\ UNCHANGED scopes /\ Notes' = Notes
  BY DEF Prefix, Compiling, CompilingStep, Notes, machine
<1>2. PICK h, F : Current(Notes, h, F)
  BY DEF Tracked
<1>3. \E k : Push(k) /\ k.kind \in {"unary", "group"} /\ k.begins = <<>> /\ k.jumps = <<>>
  <2>1. \A lexeme : LET k == WaitingOperator("unary", UnaryLevel, <<lexeme>>)
                    IN  k.kind = "unary" /\ k.begins = <<>> /\ k.jumps = <<>>
    BY DEF WaitingOperator, Waiting
  <2>2. LET k == Waiting("group", -1, Here, Here)
        IN  k.kind = "group" /\ k.begins = <<>> /\ k.jumps = <<>>
    BY DEF Waiting
  <2>3. \/ \E lexeme : Push(WaitingOperator("unary", UnaryLevel, <<lexeme>>))
        \/ Push(Waiting("group", -1, Here, Here))
    BY DEF Prefix
  <2>. QED
    BY <2>1, <2>2, <2>3
<1>4. PICK k : Push(k) /\ k.kind \in {"unary", "group"} /\ k.begins = <<>> /\ k.jumps = <<>>
  BY <1>3
<1>5. k.kind \in ExpressionKinds /\ Held(k) = 0
  BY <1>4 DEF ExpressionKinds, OperatorKinds, Held
<1>. QED
  BY <1>1, <1>2, <1>4, <1>5, PushPlainTracks

LEMMA AssignmentTracks ==
  ASSUME IInv, IInv', Tracked, Assignment
  PROVE  Tracked'
<1>1. /\ CompilingStep /\ expects.what = "operand" /\ expects' = expects
      /\ chunk' = chunk /\ UNCHANGED scopes /\ Notes' = Notes
  BY DEF Assignment, Compiling, CompilingStep, Notes, machine
<1>2. PICK h, F : Current(Notes, h, F)
  BY DEF Tracked
<1>3. PICK names : Push(WaitingOperator("assignment", AssignmentLevel, names))
  BY DEF Assignment
<1> DEFINE k == WaitingOperator("assignment", AssignmentLevel, names)
<1>4. k.kind = "assignment" /\ k.begins = <<>> /\ k.jumps = <<>>
  BY DEF WaitingOperator, Waiting
<1>. HIDE DEF k
<1>5. k.kind \in ExpressionKinds /\ Held(k) = 0
  BY <1>4 DEF ExpressionKinds, OperatorKinds, Held
<1>. QED
  BY <1>1, <1>2, <1>3, <1>4, <1>5, PushPlainTracks DEF k

LEMMA BinaryOperatorTracks ==
  ASSUME IInv, IInv', Tracked, BinaryOperator
  PROVE  Tracked'
<1> DEFINE operator(kind, lexeme) == WaitingOperator(kind, Level[lexeme], <<lexeme>>)
           tested == EmitJump(chunk, "jump_if_false", Here)
           skipped == EmitJump(tested, "jump", Here)
<1>1. /\ CompilingStep /\ expects.what = "operator" /\ expects'.what = "operand"
      /\ UNCHANGED scopes /\ Notes' = Notes /\ Here \in Nat
  <2>1. status = "compiling" /\ status' = status
    BY DEF BinaryOperator, Compiling, Emitted, KeepsCode
  <2>. QED
    BY <2>1, InvCompiles DEF BinaryOperator, Compiling, CompilingStep, Expect, Notes, machine
<1>2. PICK h, F : Current(Notes, h, F)
  BY DEF Tracked
<1>3. PICK lexeme \in unit.operators :
        CASE lexeme = "and" ->
               /\ Emitted(EmitPlain(tested, "pop", Here))
               /\ Push([operator("logical", lexeme) EXCEPT !.jumps = <<Size(tested)>>])
          [] lexeme = "or" ->
               /\ Emitted(EmitPlain(ToNextOpcode(skipped, Size(tested)), "pop", Here))
               /\ Push([operator("logical", lexeme) EXCEPT !.jumps = <<Size(skipped)>>])
          [] lexeme \notin {"and", "or"} -> KeepsCode /\ Push(operator("binary", lexeme))
  BY ZenonT(60) DEF BinaryOperator
<1>4. PICK a \in Nat : a = Own(F).ground
  BY <1>1, <1>2, CurrentWaits, PlaceParts
<1>5. PICK m \in Nat : m = a + 1
  OBVIOUS
<1>6. At(chunk, PendingOf(nesting), h, m)
  BY <1>1, <1>2, <1>4, <1>5, CurrentWaits DEF Height
<1>7. \A jumps, l : LET k == [operator("logical", l) EXCEPT !.jumps = jumps]
                    IN  k.kind = "logical" /\ k.begins = <<>> /\ k.jumps = jumps
  BY DEF WaitingOperator, Waiting
<1>8. \A s, k, R, hh :
        /\ Push(k) /\ k.kind = "logical" /\ k.begins = <<>> /\ k.jumps = <<s>>
        /\ R \subseteq PendingOf(nesting) \cup {s}
        /\ Reaches(h, R, hh, a) /\ Left(chunk', s, hh, m)
        => Tracked'
  <2>1. SUFFICES ASSUME NEW s, NEW k, NEW R, NEW hh,
                        Push(k), k.kind = "logical", k.begins = <<>>, k.jumps = <<s>>,
                        R \subseteq PendingOf(nesting) \cup {s},
                        Reaches(h, R, hh, a), Left(chunk', s, hh, m)
                 PROVE  Tracked'
    OBVIOUS
  <2>2. k.kind \in ExpressionKinds /\ Held(k) = 0
    BY <2>1 DEF ExpressionKinds, OperatorKinds, Held
  <2>3. DOMAIN k.begins = {} /\ JumpsOf(k) = {s} /\ DOMAIN k.jumps = {1} /\ k.jumps[1] = s
    <3>1. DOMAIN <<s>> = {1} /\ <<s>>[1] = s
      OBVIOUS
    <3>. QED
      BY <2>1, <3>1, NoneOf DEF JumpsOf
  <2>4. hh[s - 3] = m
    <3>1. ~chunk'.narrowing_error
      BY <1>1, StepCompiles, CompilesFacts
    <3>. QED
      BY <2>1, <3>1 DEF Left
  <2>5. a = Own(F).ground + Held(k) /\ Held(k) \in Nat
    BY <1>4, <2>2
  <2>6. \A j \in DOMAIN k.jumps : hh[k.jumps[j] - 3] = a + 1
    BY <1>5, <2>3, <2>4
  <2>7. expects.what # "statement" /\ R \subseteq PendingOf(nesting) \cup JumpsOf(k)
    BY <1>1, <2>1, <2>3
  <2>. QED
    BY <1>1, <1>2, <2>1, <2>2, <2>3, <2>5, <2>6, <2>7, PushOperatorTracks
<1>9. CASE lexeme = "and"
  <2> DEFINE k == [operator("logical", lexeme) EXCEPT !.jumps = <<Size(tested)>>]
             s == Size(tested)
  <2>1. chunk' = EmitPlain(tested, "pop", Here) /\ Push(k)
    BY <1>3, <1>9 DEF Emitted
  <2>2. k.kind = "logical" /\ k.begins = <<>> /\ k.jumps = <<s>>
    BY <1>7
  <2>3. PICK hh : /\ At(chunk', PendingOf(nesting) \cup {s}, hh, a) /\ Rise(chunk, h, chunk', hh)
                  /\ Left(chunk', s, hh, m)
    BY <1>1, <1>5, <1>6, <2>1, ConjunctionAt
  <2>. HIDE DEF k, s
  <2>. QED
    BY <1>8, <2>1, <2>2, <2>3 DEF Reaches
<1>10. CASE lexeme = "or"
  <2> DEFINE k == [operator("logical", lexeme) EXCEPT !.jumps = <<Size(skipped)>>]
             s == Size(skipped)
             R == (PendingOf(nesting) \cup {Size(tested)} \cup {s}) \ {Size(tested)}
  <2>1. chunk' = EmitPlain(ToNextOpcode(skipped, Size(tested)), "pop", Here) /\ Push(k)
    BY <1>3, <1>10 DEF Emitted
  <2>2. k.kind = "logical" /\ k.begins = <<>> /\ k.jumps = <<s>>
    BY <1>7
  <2>3. PICK hh : /\ At(chunk', R, hh, a) /\ Rise(chunk, h, chunk', hh)
                  /\ Left(chunk', s, hh, m)
    BY <1>1, <1>5, <1>6, <2>1, DisjunctionAt
  <2>4. R \subseteq PendingOf(nesting) \cup {s}
    OBVIOUS
  <2>. HIDE DEF k, s, R
  <2>. QED
    BY <1>8, <2>1, <2>2, <2>3, <2>4 DEF Reaches
<1>11. CASE lexeme \notin {"and", "or"}
  <2> DEFINE k == operator("binary", lexeme)
  <2>1. chunk' = chunk /\ Push(k)
    BY <1>3, <1>11 DEF KeepsCode
  <2>2. k.kind = "binary" /\ k.begins = <<>> /\ k.jumps = <<>>
    BY DEF WaitingOperator, Waiting
  <2>. HIDE DEF k
  <2>3. k.kind \in ExpressionKinds /\ Held(k) = 1
    BY <2>2 DEF ExpressionKinds, OperatorKinds, Held
  <2>. QED
    BY <1>1, <1>2, <2>1, <2>2, <2>3, PushPlainTracks
<1>. QED
  BY <1>9, <1>10, <1>11

(* The operators and the parentheses that are over. *)
LEMMA EnclosedFacts ==
  ASSUME CompilingStep, NEW h, NEW F, Current(Notes, h, F), expects.what = "operator",
         Top.kind \in ExpressionKinds
  PROVE  /\ Outside(F).ground \in Nat /\ Own(F).ground = Outside(F).ground + Held(Top)
         /\ Held(Top) \in Nat /\ WaitingOK(Top) /\ JumpsOf(Top) \subseteq PendingOf(nesting)
         /\ At(chunk, PendingOf(nesting), h, Outside(F).ground + Held(Top) + 1)
         /\ (Top.kind # "logical" => JumpsOf(Top) = {})
<1>1. Compiles(chunk, nesting, "operator")
  BY StepCompiles
<1>2. WaitingOK(Top) /\ JumpsOf(Top) \subseteq PendingOf(nesting)
  BY <1>1, TopFacts
<1>3. Len(nesting) > 1
  <2>1. Top.kind # "unit"
    BY DEF ExpressionKinds, OperatorKinds
  <2>. QED
    BY <1>1, <2>1, BelowAwaits DEF Top
<1>4. /\ Outside(F) \in Place /\ Own(F) \in Place
      /\ Link(nesting[Len(nesting) - 1], Top, tracked_locals, Outside(F), Own(F))
      /\ At(chunk, PendingOf(nesting), h, Height(expects.what, Own(F)))
  BY <1>3, CurrentWaits
<1>5. Own(F).ground = Outside(F).ground + Held(Top)
  BY <1>4 DEF Link
<1>6. Outside(F).ground \in Nat
  BY <1>4, PlaceParts
<1>7. Held(Top) \in Nat
  BY <1>2 DEF Held, WaitingOK
<1>8. Height(expects.what, Own(F)) = Outside(F).ground + Held(Top) + 1
  BY <1>5 DEF Height
<1>9. Top.kind # "logical" => JumpsOf(Top) = {}
  <2>1. Top.kind # "logical" => JumpsToPatch(Top.kind, Len(Top.parts)) = 0
    BY DEF ExpressionKinds, OperatorKinds, JumpsToPatch
  <2>. QED
    BY <1>2, <2>1, NoJumps
<1>. QED
  BY <1>2, <1>4, <1>5, <1>6, <1>7, <1>8, <1>9

LEMMA FinishOperatorTracks ==
  ASSUME IInv, IInv', Tracked, FinishOperator
  PROVE  Tracked'
<1>1. /\ CompilingStep /\ expects.what = "operator" /\ expects'.what = "operator"
      /\ UNCHANGED scopes /\ Notes' = Notes /\ nesting' = Below /\ chunk' = EmitOperator(chunk, Top)
  BY DEF FinishOperator, Compiling, CompilingStep, Emitted, ExpectOperator, Notes, machine
<1>2. PICK h, F : Current(Notes, h, F)
  BY DEF Tracked
<1>3. WaitingOK(Top)
  BY <1>1, StepCompiles, TopFacts
<1>4. Top.kind \in OperatorKinds
  BY <1>3 DEF WaitingOK, FinishOperator
<1>5. Top.kind \in ExpressionKinds
  BY <1>4 DEF ExpressionKinds
<1>6. PICK b \in Nat : b = Outside(F).ground
  BY <1>1, <1>2, <1>5, EnclosedFacts
<1>7. At(chunk, PendingOf(nesting), h, b + Held(Top) + 1) /\ JumpsOf(Top) \subseteq PendingOf(nesting)
  BY <1>1, <1>2, <1>5, <1>6, EnclosedFacts
<1>8. Top.kind = "logical" => \A j \in DOMAIN Top.jumps : h[Top.jumps[j] - 3] = b + 1
  <2>1. SUFFICES ASSUME Top.kind = "logical"
                 PROVE  \A j \in DOMAIN Top.jumps : h[Top.jumps[j] - 3] = b + 1
    OBVIOUS
  <2>2. Frame(h, tracked_locals, Top, expects.what, Own(F))
    BY <1>1, <1>2, CurrentWaits
  <2>3. Own(F).ground = b + 0
    <3>1. Held(Top) = 0
      BY <2>1 DEF Held
    <3>2. Own(F).ground = b + Held(Top)
      BY <1>1, <1>2, <1>5, <1>6, EnclosedFacts
    <3>. QED
      BY <3>1, <3>2
  <2>4. ~Else(Top, expects.what)
    BY <2>1 DEF Else
  <2>5. Own(F).ground + 1 = b + 1
    BY <2>3
  <2>. QED
    BY <2>2, <2>4, <2>5 DEF Frame
<1>9. PICK hh : Reaches(h, PendingOf(nesting) \ JumpsOf(Top), hh, b + 1)
  BY <1>1, <1>3, <1>4, <1>7, <1>8, EmitOperatorAt DEF Reaches
<1>10. expects.what \in {"operand", "operator"}
  BY <1>1
<1>. QED
  BY <1>1, <1>2, <1>5, <1>6, <1>9, <1>10, OperatorTracks

LEMMA OpenCallTracks ==
  ASSUME IInv, IInv', Tracked, OpenCall
  PROVE  Tracked'
<1>1. /\ CompilingStep /\ expects.what = "operator" /\ UNCHANGED scopes /\ Notes' = Notes
      /\ expects.callee \in Nat
  <2>1. status = "compiling" /\ status' = status
    BY DEF OpenCall, Compiling, Emitted, KeepsCode
  <2>. QED
    BY <2>1, InvCompiles DEF OpenCall, Compiling, CompilingStep, Notes, machine, Rest
<1>2. PICK h, F : Current(Notes, h, F)
  BY DEF Tracked
<1>3. CASE /\ Emitted(EmitIndex(chunk, "call", 0, expects.callee))
           /\ ExpectOperator(CallLevel, 0)
           /\ UNCHANGED nesting
  <2>1. expects'.what = "operator" /\ chunk' = EmitIndex(chunk, "call", 0, expects.callee)
    BY <1>3 DEF ExpectOperator, Emitted
  <2>2. PICK a \in Nat : /\ a = Height("operator", Own(F)) /\ 1 <= a /\ a = a - 1 + 1
                         /\ At(chunk, PendingOf(nesting), h, a)
    BY SMTT(40), <1>1, <1>2, CurrentWaits, PlaceParts DEF Height
  <2>3. Needs("call", 0) <= a /\ a = a - Needs("call", 0) + 1 /\ "call" \in {"get_local", "call"}
    <3>1. Needs("call", 0) = 1
      BY DEF Needs
    <3>. QED
      BY <2>2, <3>1
  <2>4. PICK hh : Reaches(h, PendingOf(nesting), hh, a)
    BY <1>1, <2>1, <2>2, <2>3, IndexAt DEF Reaches
  <2>. QED
    BY <1>1, <1>2, <1>3, <2>1, <2>2, <2>4, StayTracks
<1>4. CASE /\ Push([Waiting("call", -1, expects.callee, Here) EXCEPT !.count = 1])
           /\ Expect("operand")
           /\ KeepsCode
  <2> DEFINE k == [Waiting("call", -1, expects.callee, Here) EXCEPT !.count = 1]
  <2>1. Push(k) /\ expects'.what = "operand" /\ chunk' = chunk
    BY <1>4 DEF Expect, KeepsCode
  <2>2. k.kind = "call" /\ k.begins = <<>> /\ k.jumps = <<>> /\ k.count = 1
    BY DEF Waiting
  <2>. HIDE DEF k
  <2>3. k.kind \in ExpressionKinds /\ Held(k) = 1
    BY <2>2 DEF ExpressionKinds, Held
  <2>. QED
    BY <1>1, <1>2, <2>1, <2>2, <2>3, PushPlainTracks
<1>. QED
  BY <1>3, <1>4 DEF OpenCall

LEMMA NextArgumentTracks ==
  ASSUME IInv, IInv', Tracked, NextArgument
  PROVE  Tracked'
<1> DEFINE k == [Top EXCEPT !.count = @ + 1]
<1>1. /\ CompilingStep /\ expects.what = "operator" /\ expects'.what = "operand"
      /\ UNCHANGED scopes /\ Notes' = Notes /\ nesting' = Append(Below, k) /\ chunk' = chunk
      /\ Top.kind = "call"
  BY DEF NextArgument, Compiling, CompilingStep, Expect, Replace, KeepsCode, Notes, machine
<1>2. PICK h, F : Current(Notes, h, F)
  BY DEF Tracked
<1>3. Top.kind \in ExpressionKinds
  BY <1>1 DEF ExpressionKinds
<1>4. /\ Outside(F).ground \in Nat /\ Own(F).ground = Outside(F).ground + Held(Top)
      /\ Held(Top) = Top.count /\ WaitingOK(Top) /\ Top.count \in Nat
      /\ JumpsOf(Top) = {}
  BY <1>1, <1>2, <1>3, EnclosedFacts DEF Held
<1>5. /\ k.kind = "call" /\ k.jumps = Top.jumps /\ k.begins = Top.begins /\ k.count = Top.count + 1
      /\ k.parts = Top.parts
  <2>1. DOMAIN Top = {"kind", "level", "token", "from", "parts", "names", "jumps", "begins", "count"}
    BY <1>4 DEF WaitingOK
  <2>. QED
    BY <1>1, <2>1
<1>. HIDE DEF k
<1>6. /\ Own(F) \in Place /\ Own(F).locals = Len(tracked_locals) /\ Own(F).depth = scope_depth
      /\ Frame(h, tracked_locals, Top, "operator", Own(F))
  BY <1>1, <1>2, CurrentWaits
<1>7. Own(F).ground \in Nat /\ Own(F).locals \in Nat /\ Own(F).depth \in Nat
  BY <1>6, PlaceParts
<1>8. PICK f \in Place : f.ground = Own(F).ground + 1 /\ f.locals = Own(F).locals /\ f.depth = Own(F).depth
  <2>1. [ground |-> Own(F).ground + 1, locals |-> Own(F).locals, depth |-> Own(F).depth] \in Place
    BY <1>7 DEF Place
  <2>. QED
    BY <2>1
<1>9. Reaches(h, PendingOf(nesting), h, Height(expects'.what, f))
  <2>1. Height(expects'.what, f) = Height(expects.what, Own(F))
    BY <1>1, <1>8 DEF Height
  <2>. QED
    BY <1>1, <1>2, <2>1, SameReaches
<1>10. Frame(h, tracked_locals, k, "operand", f)
  <2>1. DOMAIN Top.jumps = {} /\ DOMAIN Top.begins = {}
    <3>1. /\ Top.jumps \in Seq(Nat) /\ Len(Top.jumps) = 0 /\ Top.begins \in Seq(Nat)
          /\ Len(Top.begins) = 0
      BY <1>1, <1>4 DEF WaitingOK, JumpsToPatch, Beginnings
    <3>. QED
      BY <3>1
  <2>2. \A j \in 1 .. f.locals : tracked_locals[j] <= f.depth
    BY <1>6, <1>8 DEF Frame
  <2>3. k.kind \in ExpressionKinds
    BY <1>5 DEF ExpressionKinds
  <2>. QED
    BY <1>5, <2>1, <2>2, <2>3 DEF Frame
<1>11. Len(nesting) > 1 => /\ LocalsStay(Outside(F), tracked_locals, tracked_locals')
                           /\ Outside(F).locals <= f.locals
                           /\ Link(nesting[Len(nesting) - 1], k, tracked_locals', Outside(F), f)
  <2>1. SUFFICES ASSUME Len(nesting) > 1
                 PROVE  /\ LocalsStay(Outside(F), tracked_locals, tracked_locals')
                        /\ Outside(F).locals <= f.locals
                        /\ Link(nesting[Len(nesting) - 1], k, tracked_locals', Outside(F), f)
    OBVIOUS
  <2>2. /\ Outside(F).locals <= Own(F).locals
        /\ Link(nesting[Len(nesting) - 1], Top, tracked_locals, Outside(F), Own(F))
    BY <1>1, <1>2, <2>1, CurrentWaits
  <2>3. tracked_locals' = tracked_locals
    BY <1>1 DEF scopes
  <2>4. f.ground = Outside(F).ground + Held(k)
    <3>1. Held(k) = Top.count + 1
      BY <1>5 DEF Held
    <3>. QED
      BY <1>4, <1>8, <3>1
  <2>5. f.locals = Outside(F).locals /\ f.depth = Outside(F).depth
    BY <1>1, <1>8, <2>2 DEF Link
  <2>6. Link(nesting[Len(nesting) - 1], k, tracked_locals, Outside(F), f)
    BY <1>5, <2>4, <2>5 DEF Link
  <2>. QED
    BY <1>8, <2>2, <2>3, <2>6 DEF LocalsStay
<1>12. /\ PendingOf(nesting) \subseteq (PendingOf(nesting) \ JumpsOf(Top)) \cup JumpsOf(k)
       /\ For(k) = For(Top) /\ f.locals = Len(tracked_locals') /\ f.depth = scope_depth'
       /\ tracked_locals' = tracked_locals
  BY <1>1, <1>4, <1>5, <1>6, <1>8 DEF For, scopes
<1>. QED
  BY <1>1, <1>2, <1>9, <1>10, <1>11, <1>12, ReplaceTracks

LEMMA CloseParenthesisTracks ==
  ASSUME IInv, IInv', Tracked, CloseParenthesis
  PROVE  Tracked'
<1>1. /\ CompilingStep /\ expects.what = "operator" /\ expects'.what = "operator"
      /\ UNCHANGED scopes /\ Notes' = Notes /\ nesting' = Below /\ Top.kind \in {"call", "group"}
  <2>1. status = "compiling" /\ status' = status /\ expects'.what = "operator"
    BY DEF CloseParenthesis, Compiling, Emitted, KeepsCode, ExpectOperator
  <2>. QED
    BY <2>1 DEF CloseParenthesis, Compiling, CompilingStep, Notes, machine
<1>2. PICK h, F : Current(Notes, h, F)
  BY DEF Tracked
<1>3. Top.kind \in ExpressionKinds
  BY <1>1 DEF ExpressionKinds
<1>4. /\ Outside(F).ground \in Nat /\ WaitingOK(Top) /\ JumpsOf(Top) = {}
      /\ At(chunk, PendingOf(nesting), h, Outside(F).ground + Held(Top) + 1)
  BY <1>1, <1>2, <1>3, EnclosedFacts
<1>5. Top.count \in Nat /\ Top.token \in Nat
  BY <1>4 DEF WaitingOK
<1>6. PICK m \in Nat : m = Outside(F).ground + 1
  BY <1>4
<1>7. CASE Top.kind = "call"
  <2>1. chunk' = EmitIndex(chunk, "call", Top.count, Top.token)
    BY <1>7 DEF CloseParenthesis, Emitted
  <2>2. PICK a \in Nat : a = Outside(F).ground + Held(Top) + 1 /\ a = m + Top.count
    BY <1>4, <1>5, <1>6, <1>7 DEF Held
  <2>3. Needs("call", Top.count) <= a /\ m = a - Needs("call", Top.count) + 1
        /\ "call" \in {"get_local", "call"}
    <3>1. Needs("call", Top.count) = Top.count + 1
      BY DEF Needs
    <3>2. Top.count + 1 <= a /\ m = a - (Top.count + 1) + 1
      BY <1>4, <1>5, <1>6, <2>2
    <3>. QED
      BY <3>1, <3>2
  <2>4. At(chunk, PendingOf(nesting), h, a)
    BY <1>4, <2>2
  <2>5. PICK hh : Reaches(h, PendingOf(nesting), hh, m)
    BY <1>5, <2>1, <2>3, <2>4, IndexAt DEF Reaches
  <2>6. PendingOf(nesting) \subseteq PendingOf(nesting) \ JumpsOf(Top)
    BY <1>4
  <2>. QED
    BY <1>1, <1>2, <1>3, <1>6, <2>5, <2>6, OperatorTracks
<1>8. CASE Top.kind = "group"
  <2>1. chunk' = chunk
    BY <1>8 DEF CloseParenthesis, KeepsCode
  <2>2. Own(F).ground = Outside(F).ground + 0
    <3>1. Held(Top) = 0
      BY <1>8 DEF Held
    <3>. QED
      BY <1>1, <1>2, <1>3, <3>1, EnclosedFacts
  <2>3. Height(expects.what, Own(F)) = m
    BY <1>1, <1>4, <1>6, <2>2 DEF Height
  <2>4. Reaches(h, PendingOf(nesting), h, m)
    BY <1>1, <1>2, <2>1, <2>3, SameReaches
  <2>5. PendingOf(nesting) \subseteq PendingOf(nesting) \ JumpsOf(Top)
    BY <1>4
  <2>. QED
    BY <1>1, <1>2, <1>3, <1>6, <2>4, <2>5, OperatorTracks
<1>. QED
  BY <1>1, <1>7, <1>8

-----------------------------------------------------------------------------
(* The height of the stack at the beginning of a statement *)

LEMMA StatementFacts ==
  ASSUME CompilingStep, NEW notes, NEW h, NEW F, Current(notes, h, F),
         expects.what \in {"statement", "done"}
  PROVE  /\ Own(F) \in Place /\ Own(F).ground \in Nat /\ Own(F).depth \in Nat
         /\ Own(F).locals = Own(F).ground /\ Own(F).locals = Len(tracked_locals)
         /\ Own(F).depth = scope_depth /\ tracked_locals \in Seq(Nat)
         /\ At(chunk, PendingOf(nesting), h, Own(F).ground)
         /\ ~chunk.narrowing_error /\ Size(chunk) \in Nat /\ h[Size(chunk)] = Own(F).ground
         /\ Top.kind \notin ExpressionKinds \cup {"var"}
         /\ \A j \in 1 .. Own(F).locals : tracked_locals[j] <= Own(F).depth
<1>1. Compiles(chunk, nesting, expects.what) /\ tracked_locals \in Seq(Nat)
  BY StepCompiles
<1>2. ~chunk.narrowing_error /\ Size(chunk) \in Nat /\ Awaits(Top, expects.what)
  BY <1>1, CompilesFacts DEF Top
<1>3. Top.kind \notin ExpressionKinds \cup {"var"}
  BY <1>2 DEF Awaits, ExpressionKinds, OperatorKinds
<1>4. /\ Own(F) \in Place /\ Own(F).locals = Len(tracked_locals) /\ Own(F).depth = scope_depth
      /\ At(chunk, PendingOf(nesting), h, Height(expects.what, Own(F)))
      /\ Frame(h, tracked_locals, Top, expects.what, Own(F))
  BY CurrentWaits
<1>5. Height(expects.what, Own(F)) = Own(F).ground
  BY DEF Height
<1>6. Own(F).locals = Own(F).ground /\ \A j \in 1 .. Own(F).locals : tracked_locals[j] <= Own(F).depth
  BY <1>3, <1>4 DEF Frame
<1>7. h[Size(chunk)] = Own(F).ground
  BY <1>2, <1>4, <1>5 DEF At
<1>. QED
  BY <1>1, <1>2, <1>3, <1>4, <1>5, <1>6, <1>7, PlaceParts

(* A place for what begins to wait. *)
LEMMA PlaceIs ==
  ASSUME NEW g \in Nat, NEW l \in Nat, NEW d \in Nat
  PROVE  \E f \in Place : f.ground = g /\ f.locals = l /\ f.depth = d
<1>1. [ground |-> g, locals |-> l, depth |-> d] \in Place
  BY DEF Place
<1>. QED
  BY <1>1

(* A local is tracked. *)
LEMMA TrackGrows ==
  ASSUME CompilingStep, NEW notes, NEW h, NEW F, Current(notes, h, F), expects.what = "statement",
         Track, scope_depth' = scope_depth
  PROVE  /\ Len(tracked_locals') = IF Own(F).depth > 0 THEN Own(F).locals + 1 ELSE Own(F).locals
         /\ LocalsStay(Own(F), tracked_locals, tracked_locals')
         /\ Own(F).depth > 0 => tracked_locals'[Own(F).locals + 1] = Own(F).depth
<1>1. /\ Own(F).locals = Len(tracked_locals) /\ Own(F).depth = scope_depth /\ Own(F).depth \in Nat
      /\ tracked_locals \in Seq(Nat)
  BY StatementFacts
<1>2. CASE scope_depth > 0
  <2>1. tracked_locals' = Append(tracked_locals, scope_depth)
    BY <1>2 DEF Track
  <2>2. /\ Len(tracked_locals') = Len(tracked_locals) + 1
        /\ tracked_locals'[Len(tracked_locals) + 1] = scope_depth
        /\ \A j \in 1 .. Len(tracked_locals) : tracked_locals'[j] = tracked_locals[j]
    BY <1>1, <2>1
  <2>. QED
    BY <1>1, <1>2, <2>2 DEF LocalsStay
<1>3. CASE ~(scope_depth > 0)
  <2>1. tracked_locals' = tracked_locals
    BY <1>3 DEF Track
  <2>. QED
    BY <1>1, <1>3, <2>1 DEF LocalsStay
<1>. QED
  BY <1>2, <1>3

LEMMA BeginWithExpressionTracks ==
  ASSUME IInv, IInv', Tracked, BeginWithExpression
  PROVE  Tracked'
<1> DEFINE kinds == {"expression", "print", "return", "var", "if", "while"}
           tokens(kind, name) == IF kind = "expression" THEN <<>> ELSE <<Token(kind, name)>>
           begins(kind) == IF kind = "while" THEN <<Size(chunk)>> ELSE <<>>
<1>1. PICK kind \in kinds, name \in Names \cup {"none"} :
        /\ May(kind)
        /\ Push([Waiting(kind, -1, Here, Here + Len(tokens(kind, name))) EXCEPT
                   !.names = <<name>>, !.begins = begins(kind)])
        /\ IF kind = "var" THEN Track ELSE UNCHANGED tracked_locals
  BY ZenonT(60) DEF BeginWithExpression
<1>2. /\ CompilingStep /\ expects.what = "statement" /\ expects'.what = "operand"
      /\ chunk' = chunk /\ scope_depth' = scope_depth /\ NoteHeight /\ stack_' = stack_
  <2>1. Compiling("statement")
    BY <1>1 DEF May
  <2>. QED
    BY <2>1 DEF BeginWithExpression, Compiling, CompilingStep, Expect, machine
<1>3. PICK h, F : Current(Notes, h, F)
  BY DEF Tracked
<1>4. Current(Notes', h, F)
  BY <1>2, <1>3, NoteTracks
<1> DEFINE k == [Waiting(kind, -1, Here, Here + Len(tokens(kind, name))) EXCEPT
                   !.names = <<name>>, !.begins = begins(kind)]
<1>5. k.kind = kind /\ k.jumps = <<>> /\ k.parts = <<>> /\ k.begins = begins(kind) /\ Push(k)
  BY <1>1 DEF Waiting
<1>. HIDE DEF k, tokens
<1>6. kind \notin ExpressionKinds /\ kind \notin {"block", "for", "unit"}
  BY DEF ExpressionKinds, OperatorKinds
<1>7. /\ Own(F) \in Place /\ Own(F).ground \in Nat /\ Own(F).depth \in Nat
      /\ Own(F).locals = Own(F).ground /\ Own(F).locals = Len(tracked_locals)
      /\ Own(F).depth = scope_depth /\ tracked_locals \in Seq(Nat)
      /\ h[Size(chunk)] = Own(F).ground
      /\ \A j \in 1 .. Own(F).locals : tracked_locals[j] <= Own(F).depth
  BY <1>2, <1>3, StatementFacts
<1>8. /\ Len(tracked_locals') =
           IF kind = "var" /\ Own(F).depth > 0 THEN Own(F).locals + 1 ELSE Own(F).locals
      /\ LocalsStay(Own(F), tracked_locals, tracked_locals')
      /\ kind = "var" /\ Own(F).depth > 0 => tracked_locals'[Own(F).locals + 1] = Own(F).depth
  <2>1. CASE kind = "var"
    <3>1. Track
      BY <1>1, <2>1
    <3>. QED
      BY <1>2, <1>3, <2>1, <3>1, TrackGrows
  <2>2. CASE kind # "var"
    <3>1. tracked_locals' = tracked_locals
      BY <1>1, <2>2
    <3>. QED
      BY <1>7, <2>2, <3>1 DEF LocalsStay
  <2>. QED
    BY <2>1, <2>2
<1>9. PICK l \in Nat : l = Len(tracked_locals')
  BY <1>7, <1>8
<1>10. PICK f \in Place : f.ground = Own(F).ground /\ f.locals = l /\ f.depth = Own(F).depth
  <2>1. PICK g \in Nat, d \in Nat : g = Own(F).ground /\ d = Own(F).depth
    BY <1>7
  <2>2. \E f \in Place : f.ground = g /\ f.locals = l /\ f.depth = d
    BY PlaceIs
  <2>. QED
    BY <2>1, <2>2
<1>11. Own(F).locals <= f.locals /\ f.locals = Len(tracked_locals') /\ f.depth = scope_depth'
  BY <1>2, <1>7, <1>8, <1>9, <1>10
<1>12. Frame(h, tracked_locals', k, "operand", f)
  <2>1. DOMAIN k.jumps = {}
    BY <1>5, NoneOf
  <2>2. \A b \in DOMAIN k.begins : h[k.begins[b]] = f.ground
    <3>1. CASE kind = "while"
      <4>1. DOMAIN <<Size(chunk)>> = {1} /\ <<Size(chunk)>>[1] = Size(chunk)
        OBVIOUS
      <4>. QED
        BY <1>5, <1>7, <1>10, <3>1, <4>1
    <3>2. CASE kind # "while"
      BY <1>5, <3>2, NoneOf
    <3>. QED
      BY <3>1, <3>2
  <2>3. f.locals = IF k.kind = "var" /\ f.depth > 0 THEN f.ground + 1 ELSE f.ground
    BY <1>5, <1>7, <1>8, <1>9, <1>10
  <2>4. \A j \in 1 .. f.locals : tracked_locals'[j] <= f.depth
    <3>1. \A j \in 1 .. Own(F).locals : tracked_locals'[j] <= f.depth
      BY <1>7, <1>8, <1>10 DEF LocalsStay
    <3>2. f.locals = Own(F).locals + 1 => tracked_locals'[f.locals] <= f.depth
      BY <1>7, <1>8, <1>9, <1>10
    <3>3. f.locals = Own(F).locals \/ f.locals = Own(F).locals + 1
      BY <1>8, <1>9, <1>10
    <3>4. Own(F).locals \in Nat
      BY <1>7
    <3>. QED
      BY <3>1, <3>2, <3>3, <3>4
  <2>. QED
    BY <2>1, <2>2, <2>3, <2>4 DEF Frame
<1>13. Link(Top, k, tracked_locals', Own(F), f)
  <2>1. kind = "var" => AdmitsVariable(Top)
    <3>1. WaitingOK(Top)
      BY <1>2, StepCompiles, TopFacts
    <3>2. Len(Top.parts) \in Nat
      BY <1>2, StepCompiles, TopFacts
    <3>. QED
      BY <1>1, <3>2 DEF May, AtList, AtInitializer, Phase, AdmitsVariable
  <2>2. kind # "var" => f.locals = Own(F).locals
    BY <1>8, <1>9, <1>10
  <2>3. kind = "var" => /\ f.locals = IF f.depth > 0 THEN Own(F).locals + 1 ELSE Own(F).locals
                        /\ f.depth > 0 => tracked_locals'[f.locals] = f.depth
    BY <1>8, <1>9, <1>10
  <2>. QED
    BY <1>5, <1>6, <1>10, <2>1, <2>2, <2>3 DEF Link
<1>14. For(k) = "statement" /\ PendingOf(nesting) \subseteq PendingOf(nesting) \cup JumpsOf(k)
  BY <1>5, <1>6 DEF For
<1>15. Reaches(h, PendingOf(nesting), h, Height(expects'.what, f))
  <2>1. Height(expects'.what, f) = Height(expects.what, Own(F))
    BY <1>2, <1>10 DEF Height
  <2>. QED
    BY <1>2, <1>3, <2>1, SameReaches
<1>16. Notes' \subseteq Notes' /\ expects.what = "statement" /\ expects'.what = "operand"
  BY <1>2
<1>. QED
  BY <1>2, <1>4, <1>5, <1>8, <1>11, <1>12, <1>13, <1>14, <1>15, <1>16, PushTracks

LEMMA BeginScopeTracks ==
  ASSUME IInv, IInv', Tracked, BeginScope
  PROVE  Tracked'
<1>1. PICK kind \in {"block", "for"} : May(kind) /\ Push(Waiting(kind, -1, Here, Here + 1))
  BY DEF BeginScope
<1>2. /\ CompilingStep /\ expects.what = "statement" /\ expects'.what = "statement"
      /\ chunk' = chunk /\ scope_depth' = scope_depth + 1 /\ tracked_locals' = tracked_locals
      /\ NoteHeight /\ stack_' = stack_
  BY <1>1 DEF BeginScope, May, Compiling, CompilingStep, machine
<1>3. PICK h, F : Current(Notes, h, F)
  BY DEF Tracked
<1>4. Current(Notes', h, F)
  BY <1>2, <1>3, NoteTracks
<1> DEFINE k == Waiting(kind, -1, Here, Here + 1)
<1>5. k.kind = kind /\ k.jumps = <<>> /\ k.begins = <<>> /\ Push(k)
  BY <1>1 DEF Waiting
<1>. HIDE DEF k
<1>6. kind \notin ExpressionKinds
  BY DEF ExpressionKinds, OperatorKinds
<1>7. /\ Own(F) \in Place /\ Own(F).ground \in Nat /\ Own(F).depth \in Nat
      /\ Own(F).locals = Own(F).ground /\ Own(F).locals = Len(tracked_locals)
      /\ Own(F).depth = scope_depth /\ tracked_locals \in Seq(Nat)
      /\ \A j \in 1 .. Own(F).locals : tracked_locals[j] <= Own(F).depth
  BY <1>2, <1>3, StatementFacts
<1>8. PICK f \in Place : /\ f.ground = Own(F).ground /\ f.locals = Own(F).ground
                         /\ f.depth = Own(F).depth + 1
  <2>1. PICK g \in Nat, d \in Nat : g = Own(F).ground /\ d = Own(F).depth + 1
    BY <1>7
  <2>2. \E f \in Place : f.ground = g /\ f.locals = g /\ f.depth = d
    BY PlaceIs
  <2>. QED
    BY <2>1, <2>2
<1>9. \A j \in 1 .. f.locals : tracked_locals[j] \in Nat /\ tracked_locals[j] <= Own(F).depth
  <2>1. \A j \in 1 .. Len(tracked_locals) : tracked_locals[j] \in Nat
    BY <1>7
  <2>2. f.locals = Len(tracked_locals) /\ f.locals = Own(F).locals
    BY <1>7, <1>8
  <2>. QED
    BY <1>7, <2>1, <2>2
<1>10. Frame(h, tracked_locals, k, "statement", f)
  <2>1. DOMAIN k.jumps = {} /\ DOMAIN k.begins = {}
    BY <1>5, NoneOf
  <2>2. \A j \in 1 .. f.locals : tracked_locals[j] <= f.depth
    <3>1. PICK d \in Nat : d = Own(F).depth /\ f.depth = d + 1
      BY <1>7, <1>8
    <3>2. \A j \in 1 .. f.locals : tracked_locals[j] \in Nat /\ tracked_locals[j] <= d
      BY <1>9, <3>1
    <3>. QED
      BY <3>1, <3>2
  <2>. QED
    BY <1>5, <1>8, <2>1, <2>2 DEF Frame
<1>11. Link(Top, k, tracked_locals, Own(F), f)
  <2>1. \A j \in 1 .. f.locals : tracked_locals[j] # f.depth /\ ~(j > Own(F).locals)
    <3>1. PICK d \in Nat, l \in Nat :
            /\ d = Own(F).depth /\ f.depth = d + 1 /\ l = f.locals /\ l = Own(F).locals
      BY <1>7, <1>8
    <3>2. \A j \in 1 .. l : tracked_locals[j] \in Nat /\ tracked_locals[j] <= d
      BY <1>9, <3>1
    <3>3. \A j \in 1 .. l : tracked_locals[j] # d + 1 /\ ~(j > l)
      BY <3>2
    <3>. QED
      BY <3>1, <3>3
  <2>2. \A j \in 1 .. f.locals : tracked_locals[j] = f.depth <=> j > Own(F).locals
    BY <2>1
  <2>. QED
    BY <1>5, <1>6, <1>8, <2>2 DEF Link
<1>12. For(k) = "statement" /\ PendingOf(nesting) \subseteq PendingOf(nesting) \cup JumpsOf(k)
  BY <1>5, <1>6 DEF For
<1>13. Reaches(h, PendingOf(nesting), h, Height(expects'.what, f))
  <2>1. Height(expects'.what, f) = Height(expects.what, Own(F))
    BY <1>2, <1>8 DEF Height
  <2>. QED
    BY <1>2, <1>3, <2>1, SameReaches
<1>14. /\ f.locals = Len(tracked_locals') /\ f.depth = scope_depth' /\ Notes' \subseteq Notes'
       /\ LocalsStay(Own(F), tracked_locals, tracked_locals') /\ Own(F).locals <= f.locals
  <2>1. f.locals = Len(tracked_locals') /\ f.depth = scope_depth'
    BY <1>2, <1>7, <1>8
  <2>2. Own(F).locals <= f.locals
    <3>1. PICK g \in Nat : g = Own(F).locals /\ g = f.locals
      BY <1>7, <1>8
    <3>. QED
      BY <3>1
  <2>. QED
    BY <1>2, <2>1, <2>2 DEF LocalsStay
<1>. QED
  BY <1>2, <1>4, <1>5, <1>10, <1>11, <1>12, <1>13, <1>14, PushTracks

-----------------------------------------------------------------------------
(* The height of the stack at the end of a statement *)

LEMMA EnclosedStatement ==
  ASSUME CompilingStep, NEW notes, NEW h, NEW F, Current(notes, h, F),
         Top.kind \in {"expression", "print", "return", "var", "if", "while"}
  PROVE  /\ Outside(F) \in Place /\ Outside(F).ground \in Nat /\ Outside(F).locals = Outside(F).ground
         /\ Own(F).ground = Outside(F).ground /\ scope_depth = Outside(F).depth /\ scope_depth \in Nat
         /\ Len(tracked_locals) = IF Top.kind = "var" /\ scope_depth > 0 THEN Outside(F).ground + 1
                                  ELSE Outside(F).ground
         /\ Top.kind = "var" => /\ AdmitsVariable(Owner)
                                /\ scope_depth > 0 => tracked_locals[Len(tracked_locals)] = scope_depth
         /\ Top.kind \notin ExpressionKinds \cup {"unit"}
<1>1. Compiles(chunk, nesting, expects.what)
  BY StepCompiles
<1>2. Top.kind \notin ExpressionKinds \cup {"unit", "block", "for"}
  BY DEF ExpressionKinds, OperatorKinds
<1>3. Len(nesting) > 1 /\ Awaits(Owner, "statement")
  BY <1>1, <1>2, BelowAwaits, CompilesFacts DEF Top, Owner, For
<1>4. Owner.kind \notin ExpressionKinds \cup {"var"}
  BY <1>3 DEF Awaits, ExpressionKinds, OperatorKinds
<1>5. /\ Own(F) \in Place /\ Own(F).locals = Len(tracked_locals) /\ Own(F).depth = scope_depth
      /\ Frame(h, tracked_locals, Top, expects.what, Own(F))
      /\ Outside(F) \in Place
      /\ Link(Owner, Top, tracked_locals, Outside(F), Own(F))
      /\ Frame(h, tracked_locals, Owner, For(Top), Outside(F))
  BY <1>3, CurrentWaits DEF Owner
<1>6. PICK g \in Nat, l \in Nat, d \in Nat, a \in Nat :
        /\ g = Own(F).ground /\ l = Own(F).locals /\ d = Own(F).depth /\ a = Outside(F).ground
  BY <1>5, PlaceParts
<1>7. Outside(F).locals = a /\ l = IF Top.kind = "var" /\ d > 0 THEN g + 1 ELSE g
  BY <1>2, <1>4, <1>5, <1>6 DEF Frame
<1>8. /\ Outside(F).depth = d
      /\ Top.kind # "var" => l = a
      /\ Top.kind = "var" => /\ AdmitsVariable(Owner) /\ l = IF d > 0 THEN a + 1 ELSE a
                             /\ d > 0 => tracked_locals[l] = d
  BY <1>2, <1>5, <1>6, <1>7 DEF Link
<1>9. g = a
  BY <1>7, <1>8
<1>. QED
  BY <1>2, <1>5, <1>6, <1>7, <1>8, <1>9

(* The value of an initializer is the local that is tracked already. *)
LEMMA LocalRemains ==
  ASSUME CompilingStep, NEW notes, NEW h, NEW F, Current(notes, h, F), Notes' \subseteq notes,
         Top.kind = "var", scope_depth > 0, chunk' = chunk, UNCHANGED scopes,
         expects.what = "operator", NEW node, Complete(node)
  PROVE  Tracked'
<1>1. PICK a \in Nat, d \in Nat :
        /\ a = Outside(F).ground /\ Outside(F).locals = a /\ Own(F).ground = a
        /\ d = Outside(F).depth /\ scope_depth = d /\ Outside(F) \in Place
        /\ Len(tracked_locals) = a + 1 /\ AdmitsVariable(Owner) /\ tracked_locals[a + 1] = d
        /\ Top.kind \notin ExpressionKinds \cup {"unit"}
  BY EnclosedStatement
<1>2. PICK m \in Nat : m = a + 1
  OBVIOUS
<1>3. PICK f \in Place : f.ground = m /\ f.locals = m /\ f.depth = d
  BY PlaceIs
<1>4. tracked_locals' = tracked_locals /\ scope_depth' = scope_depth
  BY DEF scopes
<1>5. Grows(Outside(F), f, tracked_locals')
  BY <1>1, <1>2, <1>3, <1>4 DEF Grows
<1>6. Reaches(h, PendingOf(nesting), h, f.ground)
  <2>1. Height(expects.what, Own(F)) = f.ground
    BY <1>1, <1>2, <1>3 DEF Height
  <2>. QED
    BY <2>1, SameReaches
<1>7. PendingOf(nesting) \subseteq PendingOf(nesting) \ JumpsOf(Top)
  <2>1. WaitingOK(Top)
    BY StepCompiles, TopFacts
  <2>. QED
    BY <2>1, NoJumps DEF JumpsToPatch
<1>8. /\ f.locals = Len(tracked_locals') /\ f.depth = scope_depth'
      /\ LocalsStay(Outside(F), tracked_locals, tracked_locals')
  BY <1>1, <1>2, <1>3, <1>4 DEF LocalsStay
<1>. QED
  BY <1>1, <1>5, <1>6, <1>7, <1>8, CompleteTracks

(* What ends on the height it began on. *)
LEMMA GroundRemains ==
  ASSUME CompilingStep, NEW notes, NEW h, NEW F, Current(notes, h, F), Notes' \subseteq notes,
         Top.kind \in {"expression", "print", "return", "var", "if", "while"},
         Top.kind = "var" => scope_depth = 0, UNCHANGED scopes, NEW node, Complete(node),
         NEW R, R \subseteq PendingOf(nesting) \ JumpsOf(Top),
         NEW hh, Reaches(h, R, hh, Outside(F).ground)
  PROVE  Tracked'
<1>1. /\ Outside(F) \in Place /\ Outside(F).locals = Outside(F).ground
      /\ scope_depth = Outside(F).depth /\ Len(tracked_locals) = Outside(F).ground
      /\ Top.kind \notin ExpressionKinds \cup {"unit"}
  BY EnclosedStatement
<1>2. tracked_locals' = tracked_locals /\ scope_depth' = scope_depth
  BY DEF scopes
<1>3. /\ Outside(F).locals = Len(tracked_locals') /\ Outside(F).depth = scope_depth'
      /\ LocalsStay(Outside(F), tracked_locals, tracked_locals')
  BY <1>1, <1>2 DEF LocalsStay
<1>4. PICK f \in Place : f = Outside(F)
  BY <1>1
<1>. QED
  BY <1>1, <1>3, <1>4, CompleteTracks

LEMMA EndWithExpressionTracks ==
  ASSUME IInv, IInv', Tracked, EndWithExpression
  PROVE  Tracked'
<1> DEFINE kinds == {"expression", "print", "return", "var"}
           ending == CASE Top.kind = "expression" -> "pop"
                       [] Top.kind = "print" -> "print"
                       [] Top.kind = "return" -> "return_"
                       [] Top.kind = "var" -> "define_global"
<1>1. /\ expects.what = "operator" /\ status = "compiling"
      /\ UNCHANGED scopes /\ Notes' = Notes /\ Top.kind \in kinds /\ \E node : Complete(node)
      /\ CASE Top.kind # "var" -> Emitted(EmitPlain(chunk, ending, Top.token))
           [] Top.kind = "var" /\ scope_depth = 0 ->
                Emitted(EmitConstant(chunk, ending, Name(Top.names[1]), Top.token))
           [] OTHER -> KeepsCode
  BY DEF EndWithExpression, Compiling, Notes, machine
<1>2. CompilingStep
  BY <1>1 DEF CompilingStep, Emitted, KeepsCode
<1>3. PICK node : Complete(node)
  BY <1>1
<1>4. PICK h, F : Current(Notes, h, F)
  BY DEF Tracked
<1>5. WaitingOK(Top) /\ Top.token \in Nat
  BY <1>2, StepCompiles, TopFacts
<1>6. PendingOf(nesting) \subseteq PendingOf(nesting) \ JumpsOf(Top)
  BY <1>1, <1>5, NoJumps DEF JumpsToPatch
<1>7. PICK a \in Nat : /\ a = Outside(F).ground /\ Own(F).ground = a /\ scope_depth \in Nat
  BY <1>1, <1>2, <1>4, EnclosedStatement
<1>8. PICK m \in Nat : m = a + 1 /\ 1 <= m /\ a = m - 1 + 0
  OBVIOUS
<1>9. At(chunk, PendingOf(nesting), h, m)
  BY <1>1, <1>2, <1>4, <1>7, <1>8, CurrentWaits DEF Height
<1>10. CASE Top.kind = "var" /\ scope_depth > 0
  <2>1. chunk' = chunk
    BY <1>1, <1>7, <1>10 DEF KeepsCode
  <2>. QED
    BY <1>1, <1>2, <1>3, <1>4, <1>10, <2>1, LocalRemains
<1>11. ASSUME NEW hh, Reaches(h, PendingOf(nesting), hh, a), Top.kind = "var" => scope_depth = 0
       PROVE  Tracked'
  BY <1>1, <1>2, <1>3, <1>4, <1>6, <1>7, <1>11, GroundRemains
<1>12. CASE Top.kind # "var"
  <2>1. ending \in PlainOpcode /\ ending \in {"pop", "print", "return_"}
    <3>1. "pop" \in PlainOpcode /\ "print" \in PlainOpcode /\ "return_" \in PlainOpcode
      BY DEF PlainOpcode
    <3>. QED
      BY <1>1, <1>12, <3>1
  <2>2. chunk' = EmitPlain(chunk, ending, Top.token)
    BY <1>1, <1>12 DEF Emitted
  <2>. HIDE DEF ending
  <2>3. /\ Needs(ending, 0) <= m
        /\ ending # "return_" => a = m - Needs(ending, 0) + Pushes(ending)
    <3>1. Needs(ending, 0) = IF ending = "return_" THEN 0 ELSE 1
      BY <2>1 DEF Needs
    <3>2. ending # "return_" => Pushes(ending) = 0
      BY <2>1 DEF Pushes
    <3>. QED
      BY <1>8, <3>1, <3>2
  <2>4. PICK hh : Reaches(h, PendingOf(nesting), hh, a)
    BY <1>5, <1>9, <2>1, <2>2, <2>3, PlainAt DEF Reaches
  <2>. QED
    BY <1>11, <1>12, <2>4
<1>13. CASE Top.kind = "var" /\ scope_depth = 0
  <2>1. chunk' = EmitConstant(chunk, "define_global", Name(Top.names[1]), Top.token)
    BY <1>1, <1>13 DEF Emitted
  <2>2. Name(Top.names[1]) \in Constant
    <3>1. Top.names[1] \in Lexeme
      BY <1>5, <1>13 DEF WaitingOK
    <3>. QED
      BY <3>1, ConstantOK
  <2>3. /\ "define_global" \in ConstantOpcode /\ Needs("define_global", 0) = 1
        /\ Pushes("define_global") = 0
    BY DEF ConstantOpcode, NameOpcode, Needs, Pushes
  <2>4. Needs("define_global", 0) <= m /\ a = m - Needs("define_global", 0) + Pushes("define_global")
    BY <1>8, <2>3
  <2>5. PICK hh : Reaches(h, PendingOf(nesting), hh, a)
    BY <1>5, <1>9, <2>1, <2>2, <2>3, <2>4, ConstantAt DEF Reaches
  <2>. QED
    BY <1>11, <1>13, <2>5
<1>. QED
  BY <1>7, <1>10, <1>12, <1>13

-----------------------------------------------------------------------------
(* Statements that are read in one step *)

LEMMA AddSame ==
  ASSUME CompilingStep, NEW notes, NEW h, NEW F, Current(notes, h, F), Notes' \subseteq notes,
         expects.what = "statement", NEW node, Add(node), UNCHANGED scopes,
         NEW hh, Reaches(h, PendingOf(nesting), hh, Own(F).ground)
  PROVE  Tracked'
<1>1. /\ Own(F) \in Place /\ Own(F).locals = Len(tracked_locals) /\ Own(F).depth = scope_depth
  BY StatementFacts
<1>2. tracked_locals' = tracked_locals /\ scope_depth' = scope_depth
  BY DEF scopes
<1>3. /\ Own(F).locals = Len(tracked_locals') /\ Own(F).depth = scope_depth'
      /\ LocalsStay(Own(F), tracked_locals, tracked_locals')
  BY <1>1, <1>2 DEF LocalsStay
<1>4. PICK f \in Place : f = Own(F)
  BY <1>1
<1>. QED
  BY <1>3, <1>4, AddTracks

LEMMA NoInitializerTracks ==
  ASSUME IInv, IInv', Tracked, NoInitializer
  PROVE  Tracked'
<1>1. /\ CompilingStep /\ expects.what = "statement" /\ chunk' = chunk /\ UNCHANGED scopes
      /\ Notes' = Notes /\ Add(Missing)
  BY DEF NoInitializer, Compiling, CompilingStep, KeepsCode, Notes, machine
<1>2. PICK h, F : Current(Notes, h, F)
  BY DEF Tracked
<1>3. Reaches(h, PendingOf(nesting), h, Own(F).ground)
  <2>1. Height(expects.what, Own(F)) = Own(F).ground
    BY <1>1 DEF Height
  <2>. QED
    BY <1>1, <1>2, <2>1, SameReaches
<1>. QED
  BY <1>1, <1>2, <1>3, AddSame

LEMMA ReturnNothingTracks ==
  ASSUME IInv, IInv', Tracked, ReturnNothing
  PROVE  Tracked'
<1>1. /\ CompilingStep /\ expects.what = "statement" /\ UNCHANGED scopes
      /\ chunk' = EmitPlain(EmitNothing(chunk, Here), "return_", Here) /\ Here \in Nat
      /\ NoteHeight /\ stack_' = stack_
  BY InvCompiles DEF ReturnNothing, May, Compiling, CompilingStep, Emitted, machine
<1>2. PICK h, F : Current(Notes, h, F)
  BY DEF Tracked
<1>3. Current(Notes', h, F)
  BY <1>1, <1>2, NoteTracks
<1>4. PICK a \in Nat : a = Own(F).ground /\ At(chunk, PendingOf(nesting), h, a)
  BY <1>1, <1>2, StatementFacts
<1>5. PICK hh : Reaches(h, PendingOf(nesting), hh, a)
  BY <1>1, <1>4, ReturnAt DEF Reaches
<1>6. PICK node : Add(node)
  BY DEF ReturnNothing
<1>7. Notes' \subseteq Notes' /\ Reaches(h, PendingOf(nesting), hh, Own(F).ground)
  BY <1>4, <1>5
<1>. QED
  BY <1>1, <1>3, <1>6, <1>7, AddSame

LEMMA DeclareTracks ==
  ASSUME IInv, IInv', Tracked, Declare
  PROVE  Tracked'
<1> DEFINE made(kind) == IF kind = "var" THEN EmitPlain(chunk, "nil", Here)
                         ELSE EmitClosure(chunk, NewFunction(Here), <<>>, Here)
<1>1. PICK kind \in {"var", "function"}, name \in Names :
        /\ May(kind) /\ \E node : Add(node)
        /\ IF scope_depth = 0
           THEN Emitted(EmitConstant(made(kind), "define_global", Name(name), Here))
           ELSE Emitted(made(kind))
  <2>1. Declare => \E kind \in {"var", "function"}, name \in Names :
          LET value == IF kind = "var" THEN "nil" ELSE "closure"
          IN /\ May(kind)
             /\ IF scope_depth = 0
                THEN /\ Emitted(EmitConstant(made(kind), "define_global", Name(name), Here))
                     /\ Add(Simple(Here, 1, 0, <<value, "define_global">>))
                ELSE Emitted(made(kind)) /\ Add(Simple(Here, 1, 0, <<value>>))
    BY ZenonT(60) DEF Declare
  <2>. QED
    BY <2>1
<1>2. /\ CompilingStep /\ expects.what = "statement" /\ Track /\ scope_depth' = scope_depth
      /\ Here \in Nat /\ NoteHeight /\ stack_' = stack_
  <2>1. status' = status
    BY <1>1 DEF Emitted
  <2>. QED
    BY <1>1, <2>1, InvCompiles DEF Declare, May, Compiling, CompilingStep, machine
<1>3. PICK h, F : Current(Notes, h, F)
  BY DEF Tracked
<1>4. Current(Notes', h, F)
  BY <1>2, <1>3, NoteTracks
<1>5. PICK a \in Nat, d \in Nat :
        /\ a = Own(F).ground /\ Own(F).locals = a /\ d = Own(F).depth /\ d = scope_depth
        /\ At(chunk, PendingOf(nesting), h, a) /\ Own(F) \in Place
        /\ Len(tracked_locals) = a
  BY <1>2, <1>3, StatementFacts
<1>6. PICK m \in Nat : m = a + 1 /\ 1 <= m /\ a = m - 1 + 0 /\ 0 <= a /\ m = a - 0 + 1
  OBVIOUS
<1>7. PICK g : At(made(kind), PendingOf(nesting), g, m) /\ Rise(chunk, h, made(kind), g)
  <2>1. CASE kind = "var"
    <3>1. "nil" \in PlainOpcode /\ Needs("nil", 0) = 0 /\ Pushes("nil") = 1
      BY DEF PlainOpcode, Needs, Pushes, JumpOpcode
    <3>2. Needs("nil", 0) <= a /\ m = a - Needs("nil", 0) + Pushes("nil")
      BY <1>6, <3>1
    <3>3. made(kind) = EmitPlain(chunk, "nil", Here)
      BY <2>1
    <3>. QED
      BY <1>2, <1>5, <3>1, <3>2, <3>3, PlainAt
  <2>2. CASE kind # "var"
    <3>1. NewFunction(Here) \in Constant
      BY <1>2, ConstantOK
    <3>2. made(kind) = EmitClosure(chunk, NewFunction(Here), <<>>, Here)
      BY <2>2
    <3>. QED
      BY <1>2, <1>5, <1>6, <3>1, <3>2, ClosureAt
  <2>. QED
    BY <2>1, <2>2
<1>. HIDE DEF made
<1>8. PICK node : Add(node)
  BY <1>1
<1>9. /\ Len(tracked_locals') = IF d > 0 THEN m ELSE a
      /\ LocalsStay(Own(F), tracked_locals, tracked_locals')
      /\ d > 0 => tracked_locals'[m] = d
  BY <1>2, <1>3, <1>5, <1>6, TrackGrows
<1>10. AdmitsVariable(Top)
  <2>1. Len(Top.parts) \in Nat
    BY <1>2, StepCompiles, TopFacts
  <2>. QED
    BY <1>1, <2>1 DEF May, AtList, AtInitializer, Phase, AdmitsVariable
<1>11. Notes' \subseteq Notes' /\ scope_depth' = d
  BY <1>2, <1>5
<1>12. CASE d > 0
  <2>1. chunk' = made(kind)
    BY <1>1, <1>5, <1>12 DEF Emitted
  <2>2. PICK f \in Place : f.ground = m /\ f.locals = m /\ f.depth = d
    BY PlaceIs
  <2>3. Grows(Own(F), f, tracked_locals')
    BY <1>5, <1>6, <1>9, <1>12, <2>2 DEF Grows
  <2>4. Reaches(h, PendingOf(nesting), g, f.ground) /\ f.locals = Len(tracked_locals')
    BY <1>7, <1>9, <1>12, <2>1, <2>2 DEF Reaches
  <2>. QED
    BY <1>2, <1>4, <1>8, <1>9, <1>10, <1>11, <2>2, <2>3, <2>4, AddTracks
<1>13. CASE d = 0
  <2>1. chunk' = EmitConstant(made(kind), "define_global", Name(name), Here)
    BY <1>1, <1>5, <1>13 DEF Emitted
  <2>2. /\ "define_global" \in ConstantOpcode /\ Needs("define_global", 0) = 1
        /\ Pushes("define_global") = 0 /\ Name(name) \in Constant
    BY LexemeOK, ConstantOK DEF ConstantOpcode, NameOpcode, Needs, Pushes
  <2>3. Needs("define_global", 0) <= m /\ a = m - Needs("define_global", 0) + Pushes("define_global")
    BY <1>6, <2>2
  <2>4. PICK hh : At(chunk', PendingOf(nesting), hh, a) /\ Rise(made(kind), g, chunk', hh)
    BY <1>2, <1>7, <2>1, <2>2, <2>3, ConstantAt
  <2>5. Reaches(h, PendingOf(nesting), hh, a)
    BY <1>7, <2>4, RiseTransitive DEF Reaches
  <2>6. UNCHANGED scopes
    <3>1. ~(scope_depth > 0)
      BY <1>5, <1>13
    <3>. QED
      BY <1>2, <3>1 DEF Track, scopes
  <2>. QED
    BY <1>2, <1>4, <1>5, <1>8, <1>11, <2>5, <2>6, AddSame
<1>. QED
  BY <1>12, <1>13

-----------------------------------------------------------------------------
(* The height of the stack where jumps leave and arrive *)

LEMMA TopJumps ==
  ASSUME CompilingStep, NEW notes, NEW h, NEW F, Current(notes, h, F), NEW m \in Nat,
         m = IF Else(Top, expects.what) THEN Own(F).ground ELSE Own(F).ground + 1
  PROVE  /\ \A j \in DOMAIN Top.jumps : /\ Top.jumps[j] \in PendingOf(nesting)
                                        /\ Left(chunk, Top.jumps[j], h, m)
         /\ \A b \in DOMAIN Top.begins : /\ Top.begins[b] \in Nat /\ IsStart(chunk, Top.begins[b])
                                         /\ h[Top.begins[b]] = Own(F).ground
<1>1. WaitingOK(Top) /\ Relies(chunk, Top) /\ JumpsOf(Top) \subseteq PendingOf(nesting)
      /\ Top.begins \in Seq(Nat)
  BY StepCompiles, TopFacts
<1>2. Frame(h, tracked_locals, Top, expects.what, Own(F)) /\ Size(chunk) \in Nat
  BY StepCompiles, CompilesFacts, CurrentWaits
<1>3. ASSUME NEW j \in DOMAIN Top.jumps
      PROVE  Top.jumps[j] \in PendingOf(nesting) /\ Left(chunk, Top.jumps[j], h, m)
  <2>1. Top.jumps[j] \in JumpsOf(Top)
    BY DEF JumpsOf
  <2>2. Top.jumps[j] \in 3 .. Size(chunk)
    BY <1>1 DEF Relies, IsPending
  <2>3. h[Top.jumps[j] - 3] = m
    BY <1>2 DEF Frame
  <2>. QED
    BY <1>1, <1>2, <2>1, <2>2, <2>3 DEF Left
<1>4. ASSUME NEW b \in DOMAIN Top.begins
      PROVE  /\ Top.begins[b] \in Nat /\ IsStart(chunk, Top.begins[b])
             /\ h[Top.begins[b]] = Own(F).ground
  BY <1>1, <1>2 DEF Relies, Frame
<1>. QED
  BY <1>3, <1>4

(* The function goes on in another part, with other jumps. *)
LEMMA PartFrame ==
  ASSUME CompilingStep, NEW notes, NEW h, NEW F, Current(notes, h, F),
         NEW hh, HeightsStay(chunk, h, hh), NEW k, k.kind = Top.kind, NEW what,
         \A j \in DOMAIN k.jumps :
           hh[k.jumps[j] - 3] = IF Else(k, what) THEN Own(F).ground ELSE Own(F).ground + 1,
         \A b \in DOMAIN k.begins : \/ b \in DOMAIN Top.begins /\ k.begins[b] = Top.begins[b]
                                    \/ hh[k.begins[b]] = Own(F).ground
  PROVE  Frame(hh, tracked_locals, k, what, Own(F))
<1>1. Frame(h, tracked_locals, Top, expects.what, Own(F)) /\ Relies(chunk, Top) /\ Size(chunk) \in Nat
  BY StepCompiles, CompilesFacts, TopFacts, CurrentWaits
<1>2. \A b \in DOMAIN Top.begins : hh[Top.begins[b]] = Own(F).ground
  <2>1. \A b \in DOMAIN Top.begins : Top.begins[b] \in 0 .. Size(chunk)
    BY <1>1 DEF Relies, IsStart
  <2>. QED
    BY <1>1, <2>1 DEF HeightsStay, Frame
<1>3. \A b \in DOMAIN k.begins : hh[k.begins[b]] = Own(F).ground
  BY <1>2
<1>. QED
  BY <1>1, <1>3 DEF Frame

(* One jump that has left from this height. *)
LEMMA LeftOf ==
  ASSUME CompilingStep, NEW hh, NEW s, NEW a, Left(chunk', s, hh, a)
  PROVE  hh[s - 3] = a
BY StepCompiles, CompilesFacts DEF Left

LEMMA EndConditionTracks ==
  ASSUME IInv, IInv', Tracked, EndCondition
  PROVE  Tracked'
<1> DEFINE tested == EmitJump(chunk, "jump_if_false", Top.token)
           s == Size(tested)
           parts == <<Simple(Top.token, Top.from, Len(source), <<>>)>>
           k == [Top EXCEPT !.parts = parts, !.jumps = <<s>>]
<1>1. /\ CompilingStep /\ expects.what = "operator" /\ expects'.what = "statement"
      /\ UNCHANGED scopes /\ Notes' = Notes /\ nesting' = Append(Below, k)
      /\ chunk' = EmitPlain(tested, "pop", Top.token) /\ Top.kind \in {"if", "while"}
  BY DEF EndCondition, Compiling, CompilingStep, Expect, Replace, Emitted, Notes, machine
<1>2. PICK h, F : Current(Notes, h, F)
  BY DEF Tracked
<1>3. /\ WaitingOK(Top) /\ Top.token \in Nat
      /\ DOMAIN Top = {"kind", "level", "token", "from", "parts", "names", "jumps", "begins", "count"}
  BY <1>1, StepCompiles, TopFacts
<1>4. PICK a \in Nat, m \in Nat :
        a = Own(F).ground /\ m = a + 1 /\ At(chunk, PendingOf(nesting), h, m)
  BY <1>1, <1>2, EnclosedStatement, CurrentWaits DEF Height
<1>5. PICK hh : /\ At(chunk', PendingOf(nesting) \cup {s}, hh, a) /\ Rise(chunk, h, chunk', hh)
                /\ Left(chunk', s, hh, m)
  BY <1>1, <1>3, <1>4, ConjunctionAt
<1>6. Len(parts) = 1
  OBVIOUS
<1>. HIDE DEF s, parts
<1>7. /\ k.kind = Top.kind /\ k.parts = parts /\ k.jumps = <<s>> /\ k.begins = Top.begins
      /\ k.count = Top.count
  BY <1>3
<1>. HIDE DEF k
<1>8. DOMAIN k.jumps = {1} /\ k.jumps[1] = s /\ JumpsOf(k) = {s}
  <2>1. DOMAIN <<s>> = {1} /\ <<s>>[1] = s
    OBVIOUS
  <2>. QED
    BY <1>7, <2>1 DEF JumpsOf
<1>9. JumpsOf(Top) = {}
  <2>1. Len(Top.parts) = 0
    BY <1>1, StepCompiles, TopFacts DEF Awaits, ExpressionKinds, OperatorKinds
  <2>2. JumpsToPatch(Top.kind, Len(Top.parts)) = 0
    BY <1>1, <2>1 DEF JumpsToPatch
  <2>. QED
    BY <1>3, <2>2, NoJumps
<1>10. Reaches(h, PendingOf(nesting) \cup {s}, hh, Height(expects'.what, Own(F)))
  <2>1. Height(expects'.what, Own(F)) = a
    BY <1>1, <1>4 DEF Height
  <2>. QED
    BY <1>5, <2>1 DEF Reaches
<1>11. Frame(hh, tracked_locals, k, expects'.what, Own(F))
  <2>1. HeightsStay(chunk, h, hh)
    BY <1>1, <1>10, ReachesStays
  <2>2. ~Else(k, expects'.what)
    BY <1>6, <1>7 DEF Else
  <2>3. hh[s - 3] = Own(F).ground + 1
    BY <1>1, <1>4, <1>5, LeftOf
  <2>. QED
    BY <1>1, <1>2, <1>7, <1>8, <2>1, <2>2, <2>3, PartFrame
<1>12. PendingOf(nesting) \cup {s} \subseteq (PendingOf(nesting) \ JumpsOf(Top)) \cup JumpsOf(k)
  BY <1>8, <1>9
<1>. QED
  BY <1>1, <1>2, <1>7, <1>10, <1>11, <1>12, StillTracks

LEMMA AfterThenTracks ==
  ASSUME IInv, IInv', Tracked, AfterThen
  PROVE  Tracked'
<1> DEFINE jumped == EmitJump(chunk, "jump", Top.token)
           j == Top.jumps[1]
           otherwise == EmitPlain(ToNextOpcode(jumped, j), "pop", Top.token)
           ended == ToNextOpcode(otherwise, Size(jumped))
           s == Size(jumped)
           P == PendingOf(nesting)
           k == [Top EXCEPT !.jumps = <<s>>]
<1>1. /\ expects.what = "done" /\ UNCHANGED scopes /\ Notes' = Notes /\ status = "compiling"
      /\ Top.kind = "if" /\ Phase = 3
      /\ \/ Emitted(otherwise) /\ nesting' = Append(Below, k) /\ expects'.what = "statement"
         \/ Emitted(ended) /\ \E node : Complete(node)
  BY DEF AfterThen, Compiling, Expect, Replace, Notes, machine
<1>2. CompilingStep
  BY <1>1 DEF CompilingStep, Emitted
<1>3. PICK h, F : Current(Notes, h, F)
  BY DEF Tracked
<1>4. /\ WaitingOK(Top) /\ Top.token \in Nat /\ Len(Top.parts) = 2
      /\ DOMAIN Top = {"kind", "level", "token", "from", "parts", "names", "jumps", "begins", "count"}
      /\ Top.jumps \in Seq(Nat) /\ Len(Top.jumps) = 1 /\ JumpsOf(Top) = {j}
      /\ ~chunk.narrowing_error
  <2>1. Len(Top.parts) \in Nat /\ Len(Top.parts) + 1 = 3
    BY <1>1, <1>2, StepCompiles, TopFacts DEF Phase
  <2>2. Len(Top.parts) = 2
    <3>1. \A n \in Nat : n + 1 = 3 => n = 2
      OBVIOUS
    <3>. QED
      BY <2>1, <3>1
  <2>3. JumpsToPatch(Top.kind, Len(Top.parts)) = 1
    BY <1>1, <2>2 DEF JumpsToPatch
  <2>. QED
    BY <1>2, <2>2, <2>3, StepCompiles, TopFacts, OneJump
<1>5. PICK a \in Nat, m \in Nat :
        a = Own(F).ground /\ m = a + 1 /\ a = Outside(F).ground /\ At(chunk, P, h, a)
  BY <1>1, <1>2, <1>3, EnclosedStatement, StatementFacts
<1>6. j \in P /\ Left(chunk, j, h, m)
  <2>1. ~Else(Top, expects.what)
    BY <1>1, <1>4 DEF Else
  <2>2. 1 \in DOMAIN Top.jumps
    BY <1>4
  <2>. QED
    BY <1>2, <1>3, <1>5, <2>1, <2>2, TopJumps
<1>7. CASE Emitted(otherwise) /\ nesting' = Append(Below, k) /\ expects'.what = "statement"
  <2>1. PICK hh : /\ At(chunk', (P \cup {s}) \ {j}, hh, a) /\ Rise(chunk, h, chunk', hh)
                  /\ Left(chunk', s, hh, a)
    <3>. HIDE DEF P, j
    <3>1. chunk' = otherwise
      BY <1>7 DEF Emitted
    <3>. QED
      BY <1>4, <1>5, <1>6, <3>1, OtherwiseAt
  <2>. HIDE DEF s, j, P
  <2>2. /\ k.kind = "if" /\ k.kind = Top.kind /\ k.parts = Top.parts /\ k.jumps = <<s>>
        /\ k.begins = Top.begins /\ k.count = Top.count
    BY <1>1, <1>4
  <2>. HIDE DEF k
  <2>3. DOMAIN k.jumps = {1} /\ k.jumps[1] = s /\ JumpsOf(k) = {s}
    <3>1. DOMAIN <<s>> = {1} /\ <<s>>[1] = s
      OBVIOUS
    <3>. QED
      BY <2>2, <3>1 DEF JumpsOf
  <2>4. Reaches(h, (P \cup {s}) \ {j}, hh, Height(expects'.what, Own(F)))
    <3>1. Height(expects'.what, Own(F)) = a
      BY <1>5, <1>7 DEF Height
    <3>. QED
      BY <2>1, <3>1 DEF Reaches
  <2>5. Frame(hh, tracked_locals, k, expects'.what, Own(F))
    <3>1. HeightsStay(chunk, h, hh)
      BY <1>2, <2>4, ReachesStays
    <3>2. Else(k, expects'.what)
      BY <1>4, <1>7, <2>2 DEF Else
    <3>3. hh[s - 3] = Own(F).ground
      BY <1>2, <1>5, <2>1, LeftOf
    <3>. QED
      BY <1>2, <1>3, <2>2, <2>3, <3>1, <3>2, <3>3, PartFrame
  <2>6. (P \cup {s}) \ {j} \subseteq (P \ JumpsOf(Top)) \cup JumpsOf(k)
    BY <1>4, <2>3
  <2>7. nesting' = Append(Below, k)
    BY <1>7
  <2>. QED
    BY <1>1, <1>2, <1>3, <2>2, <2>4, <2>5, <2>6, <2>7, StillTracks DEF P
<1>8. CASE Emitted(ended) /\ \E node : Complete(node)
  <2>1. PICK hh : At(chunk', ((P \cup {s}) \ {j}) \ {s}, hh, a) /\ Rise(chunk, h, chunk', hh)
    <3>. HIDE DEF P, j
    <3>1. chunk' = ended
      BY <1>8 DEF Emitted
    <3>. QED
      BY <1>4, <1>5, <1>6, <3>1, ThenAt
  <2>2. ((P \cup {s}) \ {j}) \ {s} \subseteq P \ JumpsOf(Top)
    BY <1>4
  <2>3. PICK node : Complete(node)
    BY <1>8
  <2> DEFINE R == ((P \cup {s}) \ {j}) \ {s}
  <2>4. Reaches(h, R, hh, Outside(F).ground)
    BY <1>5, <2>1 DEF Reaches
  <2>5. Top.kind \in {"expression", "print", "return", "var", "if", "while"} /\ Top.kind # "var"
    BY <1>1
  <2>. HIDE DEF R
  <2>6. R \subseteq PendingOf(nesting) \ JumpsOf(Top)
    BY <2>2 DEF R
  <2>. QED
    BY <1>1, <1>2, <1>3, <2>3, <2>4, <2>5, <2>6, GroundRemains
<1>. QED
  BY <1>1, <1>7, <1>8

LEMMA AfterElseTracks ==
  ASSUME IInv, IInv', Tracked, AfterElse
  PROVE  Tracked'
<1> DEFINE j == Top.jumps[1]
<1>1. /\ expects.what = "done" /\ UNCHANGED scopes /\ Notes' = Notes /\ CompilingStep
      /\ Top.kind = "if" /\ Phase = 4 /\ chunk' = ToNextOpcode(chunk, j) /\ \E node : Complete(node)
  BY DEF AfterElse, Compiling, CompilingStep, Emitted, Notes, machine
<1>2. PICK h, F : Current(Notes, h, F)
  BY DEF Tracked
<1>3. Len(Top.parts) = 3 /\ Top.jumps \in Seq(Nat) /\ Len(Top.jumps) = 1 /\ JumpsOf(Top) = {j}
  <2>1. Len(Top.parts) \in Nat /\ Len(Top.parts) + 1 = 4
    BY <1>1, StepCompiles, TopFacts DEF Phase
  <2>2. Len(Top.parts) = 3
    <3>1. \A n \in Nat : n + 1 = 4 => n = 3
      OBVIOUS
    <3>. QED
      BY <2>1, <3>1
  <2>3. JumpsToPatch(Top.kind, Len(Top.parts)) = 1
    BY <1>1, <2>2 DEF JumpsToPatch
  <2>. QED
    BY <1>1, <2>2, <2>3, StepCompiles, TopFacts, OneJump
<1>4. PICK a \in Nat : a = Own(F).ground /\ a = Outside(F).ground /\ At(chunk, PendingOf(nesting), h, a)
  BY <1>1, <1>2, EnclosedStatement, StatementFacts
<1>5. j \in PendingOf(nesting) /\ Left(chunk, j, h, a)
  <2>1. Else(Top, expects.what)
    BY <1>1, <1>3 DEF Else
  <2>2. 1 \in DOMAIN Top.jumps
    BY <1>3
  <2>. QED
    BY <1>1, <1>2, <1>4, <2>1, <2>2, TopJumps
<1>6. Reaches(h, PendingOf(nesting) \ {j}, h, Outside(F).ground)
  <2>. HIDE DEF j
  <2>. QED
    BY <1>1, <1>4, <1>5, LeftPatched DEF Reaches
<1>7. PICK node : Complete(node)
  BY <1>1
<1>8. PendingOf(nesting) \ {j} \subseteq PendingOf(nesting) \ JumpsOf(Top)
  BY <1>3
<1>9. Top.kind \in {"expression", "print", "return", "var", "if", "while"} /\ Top.kind # "var"
  BY <1>1
<1>. QED
  BY <1>1, <1>2, <1>6, <1>7, <1>8, <1>9, GroundRemains

LEMMA AfterWhileBodyTracks ==
  ASSUME IInv, IInv', Tracked, AfterWhileBody
  PROVE  Tracked'
<1> DEFINE j == Top.jumps[1]
           b == Top.begins[1]
<1>1. /\ expects.what = "done" /\ UNCHANGED scopes /\ Notes' = Notes /\ CompilingStep
      /\ Top.kind = "while" /\ \E node : Complete(node)
      /\ chunk' = EmitPlain(ToNextOpcode(EmitLoop(chunk, b, Top.token), j), "pop", Top.token)
  BY DEF AfterWhileBody, Compiling, CompilingStep, Emitted, Notes, machine
<1>2. PICK h, F : Current(Notes, h, F)
  BY DEF Tracked
<1>3. /\ Top.jumps \in Seq(Nat) /\ Len(Top.jumps) = 1 /\ JumpsOf(Top) = {j}
      /\ Top.begins \in Seq(Nat) /\ Len(Top.begins) = 1 /\ Top.token \in Nat
  <2>1. Len(Top.parts) = 2
    BY <1>1, StepCompiles, TopFacts DEF Awaits
  <2>2. JumpsToPatch(Top.kind, Len(Top.parts)) = 1 /\ Beginnings(Top.kind, Len(Top.parts)) = 1
    BY <1>1, <2>1 DEF JumpsToPatch, Beginnings
  <2>. QED
    BY <1>1, <2>2, StepCompiles, TopFacts, OneJump
<1>4. PICK a \in Nat, m \in Nat :
        a = Own(F).ground /\ m = a + 1 /\ a = Outside(F).ground /\ At(chunk, PendingOf(nesting), h, a)
  BY <1>1, <1>2, EnclosedStatement, StatementFacts
<1>5. /\ j \in PendingOf(nesting) /\ Left(chunk, j, h, m)
      /\ b \in Nat /\ IsStart(chunk, b) /\ h[b] = a
  <2>1. ~Else(Top, expects.what)
    BY <1>1 DEF Else
  <2>2. 1 \in DOMAIN Top.jumps /\ 1 \in DOMAIN Top.begins
    BY <1>3
  <2>. QED
    BY <1>1, <1>2, <1>4, <2>1, <2>2, TopJumps
<1>6. PICK hh : At(chunk', PendingOf(nesting) \ {j}, hh, a) /\ Rise(chunk, h, chunk', hh)
  <2>. HIDE DEF j, b
  <2>. QED
    BY <1>1, <1>3, <1>4, <1>5, LoopEndAt
<1>7. PICK node : Complete(node)
  BY <1>1
<1>8. PendingOf(nesting) \ {j} \subseteq PendingOf(nesting) \ JumpsOf(Top)
      /\ Reaches(h, PendingOf(nesting) \ {j}, hh, Outside(F).ground)
  BY <1>3, <1>4, <1>6 DEF Reaches
<1>9. Top.kind \in {"expression", "print", "return", "var", "if", "while"} /\ Top.kind # "var"
  BY <1>1
<1>. QED
  BY <1>1, <1>2, <1>7, <1>8, <1>9, GroundRemains

-----------------------------------------------------------------------------
(* The height of the stack at the end of a scope *)

(* The locals of the innermost scope are the last ones. *)
LEMMA OuterIs ==
  ASSUME tracked_locals \in Seq(Nat), NEW l \in 0 .. Len(tracked_locals),
         \A j \in 1 .. Len(tracked_locals) : tracked_locals[j] = scope_depth <=> j > l
  PROVE  Outer = l
<1>1. PICK n \in Nat : n = Len(tracked_locals) /\ DOMAIN tracked_locals = 1 .. n
  OBVIOUS
<1>2. {i \in DOMAIN tracked_locals : tracked_locals[i] # scope_depth} = {i \in 1 .. n : ~(i > l)}
  BY <1>1
<1>3. {i \in 1 .. n : ~(i > l)} = 1 .. l
  BY <1>1
<1>4. Cardinality(1 .. l) = l
  BY FS_Interval
<1>. QED
  BY <1>2, <1>3, <1>4 DEF Outer

LEMMA ScopeEnds ==
  ASSUME CompilingStep, NEW notes, NEW h, NEW F, Current(notes, h, F),
         expects.what \in {"statement", "done"}, Top.kind \in {"block", "for"}
  PROVE  /\ Outside(F) \in Place /\ Outside(F).ground \in Nat /\ Outside(F).locals = Outside(F).ground
         /\ Own(F).ground \in Nat /\ tracked_locals \in Seq(Nat)
         /\ Outer = Outside(F).ground /\ Outside(F).ground + Len(tracked_locals) - Outer = Own(F).ground
         /\ scope_depth - 1 = Outside(F).depth /\ Outer \in 0 .. Len(tracked_locals)
         /\ Top.kind \notin ExpressionKinds \cup {"unit"}
<1>1. Compiles(chunk, nesting, expects.what)
  BY StepCompiles
<1>2. Top.kind \notin ExpressionKinds \cup {"unit"}
  BY DEF ExpressionKinds, OperatorKinds
<1>3. Len(nesting) > 1 /\ Awaits(Owner, "statement")
  BY <1>1, <1>2, BelowAwaits, CompilesFacts DEF Top, Owner, For
<1>4. Owner.kind \notin ExpressionKinds \cup {"var"}
  BY <1>3 DEF Awaits, ExpressionKinds, OperatorKinds
<1>5. /\ Outside(F) \in Place /\ Outside(F).locals <= Own(F).locals
      /\ Link(Owner, Top, tracked_locals, Outside(F), Own(F))
      /\ Frame(h, tracked_locals, Owner, For(Top), Outside(F))
  BY <1>3, CurrentWaits DEF Owner
<1>6. PICK a \in Nat, l \in Nat, d \in Nat, e \in Nat :
        /\ a = Own(F).ground /\ Own(F).locals = a /\ Len(tracked_locals) = a
        /\ l = Outside(F).locals /\ d = Own(F).depth /\ d = scope_depth /\ e = Outside(F).depth
        /\ tracked_locals \in Seq(Nat)
  BY <1>5, StatementFacts, PlaceParts
<1>7. Outside(F).ground = l
  BY <1>4, <1>5, <1>6 DEF Frame
<1>8. d = e + 1 /\ \A j \in 1 .. a : tracked_locals[j] = d <=> j > l
  BY <1>5, <1>6 DEF Link
<1>9. l \in 0 .. Len(tracked_locals)
  BY <1>5, <1>6
<1>10. Outer = l
  BY <1>6, <1>8, <1>9, OuterIs
<1>11. l + a - l = a /\ d - 1 = e
  BY <1>6, <1>8
<1>. QED
  BY <1>2, <1>5, <1>6, <1>7, <1>9, <1>10, <1>11

LEMMA PopScopeTracks ==
  ASSUME CompilingStep, NEW notes, NEW h, NEW F, Current(notes, h, F), Notes' \subseteq notes,
         expects.what \in {"statement", "done"}, Top.kind \in {"block", "for"},
         PopScope, NEW node, Complete(node),
         NEW R, R \subseteq PendingOf(nesting) \ JumpsOf(Top),
         NEW hh, Reaches(h, R, hh, Outside(F).ground)
  PROVE  Tracked'
<1>1. PICK f \in Place, l \in Nat :
        /\ f = Outside(F) /\ f.locals = l /\ f.ground = l /\ tracked_locals \in Seq(Nat)
        /\ Outer = l /\ scope_depth - 1 = f.depth /\ l \in 0 .. Len(tracked_locals)
        /\ Top.kind \notin ExpressionKinds \cup {"unit"}
  BY ScopeEnds
<1>2. tracked_locals' = SubSeq(tracked_locals, 1, l) /\ scope_depth' = f.depth
  BY <1>1 DEF PopScope
<1>3. /\ Len(SubSeq(tracked_locals, 1, l)) = l
      /\ \A j \in 1 .. l : SubSeq(tracked_locals, 1, l)[j] = tracked_locals[j]
  BY <1>1
<1>4. f.locals = Len(tracked_locals') /\ LocalsStay(f, tracked_locals, tracked_locals')
  BY <1>1, <1>2, <1>3 DEF LocalsStay
<1>. QED
  BY <1>1, <1>2, <1>4, CompleteTracks

LEMMA EndBlockTracks ==
  ASSUME IInv, IInv', Tracked, EndBlock
  PROVE  Tracked'
<1>1. /\ expects.what = "statement" /\ Notes' = Notes /\ CompilingStep /\ PopScope
      /\ Top.kind = "block" /\ (\E node : Complete(node)) /\ chunk' = EmitPops(chunk, Top.token)
  BY DEF EndBlock, Compiling, CompilingStep, Emitted, Notes, machine
<1>2. PICK h, F : Current(Notes, h, F)
  BY DEF Tracked
<1>3. WaitingOK(Top) /\ Top.token \in Nat
  BY <1>1, StepCompiles, TopFacts
<1>4. JumpsOf(Top) = {}
  BY <1>1, <1>3, NoJumps DEF JumpsToPatch
<1>5. PICK a \in Nat, b \in Nat :
        /\ a = Own(F).ground /\ b = Outside(F).ground /\ b + Len(tracked_locals) - Outer = a
        /\ At(chunk, PendingOf(nesting), h, a) /\ tracked_locals \in Seq(Nat)
  BY <1>1, <1>2, ScopeEnds, StatementFacts
<1>6. PICK hh : Reaches(h, PendingOf(nesting), hh, b)
  BY <1>1, <1>3, <1>5, EmitPopsAt DEF Reaches
<1>7. PICK node : Complete(node)
  BY <1>1
<1>8. PendingOf(nesting) \subseteq PendingOf(nesting) \ JumpsOf(Top)
      /\ Reaches(h, PendingOf(nesting), hh, Outside(F).ground)
  BY <1>4, <1>5, <1>6
<1>. QED
  BY <1>1, <1>2, <1>7, <1>8, PopScopeTracks

LEMMA AfterForBodyTracks ==
  ASSUME IInv, IInv', Tracked, AfterForBody
  PROVE  Tracked'
<1> DEFINE j == Top.jumps[1]
           b == Top.begins[2]
           ended == EmitPlain(ToNextOpcode(EmitLoop(chunk, b, Top.token), j), "pop", Top.token)
           P == PendingOf(nesting)
<1>1. /\ expects.what = "done" /\ Notes' = Notes /\ CompilingStep /\ PopScope
      /\ Top.kind = "for" /\ (\E node : Complete(node)) /\ chunk' = EmitPops(ended, Top.token)
  BY DEF AfterForBody, Compiling, CompilingStep, Emitted, Notes, machine
<1>2. PICK h, F : Current(Notes, h, F)
  BY DEF Tracked
<1>3. /\ JumpsOf(Top) = {j} /\ Top.token \in Nat /\ 1 \in DOMAIN Top.jumps /\ 2 \in DOMAIN Top.begins
  <2>1. Len(Top.parts) = 4
    BY <1>1, StepCompiles, TopFacts DEF Awaits
  <2>2. JumpsToPatch("for", 4) = 1 /\ Beginnings("for", 4) = 2
    BY DEF JumpsToPatch, Beginnings
  <2>3. /\ Top.begins \in Seq(Nat) /\ Len(Top.begins) = 2
        /\ Top.jumps \in Seq(Nat) /\ Len(Top.jumps) = 1 /\ WaitingOK(Top) /\ Top.token \in Nat
    BY <1>1, <2>1, <2>2, StepCompiles, TopFacts
  <2>4. 2 \in DOMAIN Top.begins
    BY <2>3, Pair
  <2>5. 1 \in DOMAIN Top.jumps
    BY <2>3
  <2>6. JumpsToPatch(Top.kind, Len(Top.parts)) = 1
    BY <1>1, <2>1, <2>2
  <2>. QED
    BY <2>3, <2>4, <2>5, <2>6, OneJump
<1>4. PICK a \in Nat, e \in Nat :
        /\ a = Own(F).ground /\ e = Outside(F).ground /\ e + Len(tracked_locals) - Outer = a
        /\ At(chunk, P, h, a) /\ tracked_locals \in Seq(Nat)
  BY <1>1, <1>2, ScopeEnds, StatementFacts
<1>12. PICK m \in Nat : m = a + 1
  OBVIOUS
<1>5. j \in P /\ Left(chunk, j, h, m) /\ b \in Nat /\ IsStart(chunk, b) /\ h[b] = a
  <2>1. ~Else(Top, expects.what)
    BY <1>1 DEF Else
  <2>. QED
    BY <1>1, <1>2, <1>3, <1>4, <1>12, <2>1, TopJumps
<1>. HIDE DEF P, j, b
<1>6. PICK g : At(ended, P \ {j}, g, a) /\ Rise(chunk, h, ended, g)
  BY <1>3, <1>4, <1>5, <1>12, LoopEndAt
<1>. HIDE DEF ended
<1>7. PICK hh : At(chunk', P \ {j}, hh, e) /\ Rise(ended, g, chunk', hh)
  BY <1>1, <1>3, <1>4, <1>6, EmitPopsAt
<1>8. Reaches(h, P \ {j}, hh, Outside(F).ground)
  BY <1>4, <1>6, <1>7, RiseTransitive DEF Reaches
<1>9. PICK node : Complete(node)
  BY <1>1
<1>10. PICK R : R = P \ {j}
  OBVIOUS
<1>11. R \subseteq PendingOf(nesting) \ JumpsOf(Top) /\ Reaches(h, R, hh, Outside(F).ground)
  BY <1>3, <1>8, <1>10 DEF P
<1>. QED
  BY <1>1, <1>2, <1>9, <1>11, PopScopeTracks

-----------------------------------------------------------------------------
(* The height of the stack between the parts of a for *)

(* What a for relies on where it waits for its condition or its increment. *)
LEMMA ForFacts ==
  ASSUME CompilingStep, NEW notes, NEW h, NEW F, Current(notes, h, F),
         expects.what \in {"operand", "operator"}, Top.kind = "for"
  PROVE  \E a \in Nat, m \in Nat :
           /\ a = Own(F).ground /\ m = a + 1
           /\ At(chunk, PendingOf(nesting), h, IF expects.what = "operator" THEN m ELSE a)
<1>1. PICK a \in Nat : a = Own(F).ground
  BY CurrentWaits, PlaceParts
<1>2. PICK m \in Nat : m = a + 1
  OBVIOUS
<1>3. Height(expects.what, Own(F)) = IF expects.what = "operator" THEN m ELSE a
  BY <1>1, <1>2 DEF Height
<1>. QED
  BY <1>1, <1>2, <1>3, CurrentWaits

LEMMA ForConditionTracks ==
  ASSUME IInv, IInv', Tracked, ForCondition
  PROVE  Tracked'
<1> DEFINE given == expects.what = "operator"
           condition == IF given THEN chunk ELSE EmitPlain(chunk, "true_", Top.token)
           tested == EmitJump(condition, "jump_if_false", Top.token)
           skipped == EmitJump(tested, "jump", Top.token)
           part == IF given THEN IfGiven(<<>>) ELSE Simple(Top.token, 1, 0, <<"true_">>)
           parts == Append(Top.parts, part)
           jumps == <<Size(tested), Size(skipped)>>
           begins == Append(Top.begins, Size(skipped))
           k == [Top EXCEPT !.parts = parts, !.from = Here, !.jumps = jumps, !.begins = begins]
           P == PendingOf(nesting)
<1>1. /\ expects.what \in {"operand", "operator"} /\ expects'.what = "operand"
      /\ UNCHANGED scopes /\ Notes' = Notes /\ CompilingStep
      /\ Top.kind = "for" /\ Phase = 2 /\ chunk' = skipped
  BY DEF ForCondition, CompilingStep, Emitted, Expect, Notes, machine
<1>2. nesting' = Append(Below, k)
  BY DEF ForCondition, Replace
<1>3. PICK h, F : Current(Notes, h, F)
  BY DEF Tracked
<1>4. /\ WaitingOK(Top) /\ Top.token \in Nat
      /\ DOMAIN Top = {"kind", "level", "token", "from", "parts", "names", "jumps", "begins", "count"}
  BY <1>1, StepCompiles, TopFacts
<1>5. Len(Top.parts) = 1
  <2>1. Len(Top.parts) \in Nat /\ Len(Top.parts) + 1 = 2
    BY <1>1, StepCompiles, TopFacts DEF Phase
  <2>2. \A n \in Nat : n + 1 = 2 => n = 1
    OBVIOUS
  <2>. QED
    BY <2>1, <2>2
<1>6. PICK a \in Nat, m \in Nat :
        /\ a = Own(F).ground /\ m = a + 1
        /\ At(chunk, P, h, IF given THEN m ELSE a)
  BY <1>1, <1>3, ForFacts
<1>7. PICK g : At(condition, P, g, m) /\ Rise(chunk, h, condition, g)
  <2>1. CASE given
    <3>1. At(condition, P, h, m)
      BY <1>6, <2>1
    <3>2. Rise(chunk, h, condition, h)
      <4>1. ~chunk.narrowing_error /\ Size(chunk) \in Nat
        BY <1>1, StepCompiles, CompilesFacts
      <4>. QED
        BY <2>1, <4>1 DEF Rise
    <3>. QED
      BY <3>1, <3>2
  <2>2. CASE ~given
    <3>1. "true_" \in PlainOpcode /\ Needs("true_", 0) = 0 /\ Pushes("true_") = 1
      BY DEF PlainOpcode, Needs, Pushes, JumpOpcode
    <3>2. Needs("true_", 0) <= a /\ m = a - Needs("true_", 0) + Pushes("true_")
      <4>1. 0 <= a /\ m = a - 0 + 1
        BY <1>6
      <4>. QED
        BY <3>1, <4>1
    <3>3. condition = EmitPlain(chunk, "true_", Top.token) /\ At(chunk, P, h, a)
      BY <1>6, <2>2
    <3>. HIDE DEF condition, P
    <3>. QED
      BY <1>4, <3>1, <3>2, <3>3, PlainAt
  <2>. QED
    BY <2>1, <2>2
<1>. HIDE DEF condition, P
<1>8. PICK f : /\ At(skipped, P \cup {Size(tested)} \cup {Size(skipped)}, f, a)
               /\ Rise(condition, g, skipped, f)
               /\ Left(skipped, Size(tested), f, m) /\ Left(skipped, Size(skipped), f, m)
  BY <1>4, <1>6, <1>7, TwoJumpsAt
<1>9. /\ Len(parts) = 2
  <2>1. IsSequence(Top.parts)
    BY <1>4 DEF WaitingOK
  <2>2. Len(Append(Top.parts, part)) = Len(Top.parts) + 1
    BY <2>1, AppendSequence
  <2>. QED
    BY <1>5, <2>2
<1>10. DOMAIN jumps = {1, 2} /\ jumps[1] = Size(tested) /\ jumps[2] = Size(skipped)
  OBVIOUS
<1>. HIDE DEF tested, skipped
<1>11. /\ DOMAIN begins = {1, 2} /\ begins[1] = Top.begins[1] /\ begins[2] = Size(skipped)
       /\ DOMAIN Top.begins = {1}
  <2>1. Beginnings("for", 1) = 1
    BY DEF Beginnings
  <2>2. Top.begins \in Seq(Nat) /\ Len(Top.begins) = 1
    BY <1>1, <1>4, <1>5, <2>1 DEF WaitingOK
  <2>3. Size(skipped) \in Nat
    BY <1>1, StepCompiles, CompilesFacts
  <2>4. ASSUME NEW b \in Seq(Nat), Len(b) = 1, NEW n \in Nat
        PROVE  /\ Append(b, n) \in Seq(Nat) /\ Len(Append(b, n)) = 2 /\ DOMAIN Append(b, n) = {1, 2}
               /\ Append(b, n)[1] = b[1] /\ Append(b, n)[2] = n
    BY SMTT(40), <2>4, SecondOf
  <2>5. DOMAIN Top.begins = {1}
    BY <2>2
  <2>. QED
    BY <2>2, <2>3, <2>4, <2>5
<1>. HIDE DEF parts, jumps, begins, part
<1>12. /\ k.kind = Top.kind /\ k.parts = parts /\ k.jumps = jumps /\ k.begins = begins
       /\ k.count = Top.count
  BY <1>4
<1>. HIDE DEF k
<1>13. JumpsOf(k) = {Size(tested), Size(skipped)} /\ JumpsOf(Top) = {}
  <2>1. JumpsToPatch(Top.kind, Len(Top.parts)) = 0
    BY <1>1, <1>5 DEF JumpsToPatch
  <2>2. JumpsOf(Top) = {}
    BY <1>4, <2>1, NoJumps
  <2>. QED
    BY <1>10, <1>12, <2>2 DEF JumpsOf
<1> DEFINE R == P \cup {Size(tested)} \cup {Size(skipped)}
<1>14. Reaches(h, R, f, Height(expects'.what, Own(F)))
  <2>1. Height(expects'.what, Own(F)) = a
    BY <1>1, <1>6 DEF Height
  <2>2. Rise(chunk, h, skipped, f)
    BY <1>7, <1>8, RiseTransitive
  <2>. QED
    BY <1>1, <1>8, <2>1, <2>2 DEF Reaches
<1>15. R \subseteq (PendingOf(nesting) \ JumpsOf(Top)) \cup JumpsOf(k)
  BY <1>13 DEF P
<1>. HIDE DEF R, given
<1>16. HeightsStay(chunk, h, f) /\ f[Size(skipped)] = Own(F).ground
  <2>1. f[Size(chunk')] = Height(expects'.what, Own(F)) /\ HeightsStay(chunk, h, f)
    BY <1>1, <1>14, ReachesStays
  <2>2. Height(expects'.what, Own(F)) = Own(F).ground
    BY <1>1 DEF Height
  <2>. QED
    BY <1>1, <2>1, <2>2
<1>17. f[Size(tested) - 3] = Own(F).ground + 1 /\ f[Size(skipped) - 3] = Own(F).ground + 1
  BY <1>1, <1>6, <1>8, LeftOf
<1>18. ~Else(k, expects'.what)
  BY <1>1, <1>12 DEF Else
<1>19. Frame(f, tracked_locals, k, expects'.what, Own(F))
  <2>1. \A j \in DOMAIN k.jumps :
          f[k.jumps[j] - 3] = IF Else(k, expects'.what) THEN Own(F).ground ELSE Own(F).ground + 1
    BY <1>10, <1>12, <1>17, <1>18
  <2>2. \A b \in DOMAIN k.begins : \/ b \in DOMAIN Top.begins /\ k.begins[b] = Top.begins[b]
                                   \/ f[k.begins[b]] = Own(F).ground
    BY <1>11, <1>12, <1>16
  <2>. QED
    BY <1>1, <1>3, <1>12, <1>16, <2>1, <2>2, PartFrame
<1>20. Notes' \subseteq Notes /\ (nesting' = Append(Below, k) \/ (nesting' = nesting /\ k = Top))
  BY <1>1, <1>2
<1>. QED
  BY <1>1, <1>3, <1>12, <1>14, <1>15, <1>19, <1>20, StillTracks

LEMMA ForIncrementTracks ==
  ASSUME IInv, IInv', Tracked, ForIncrement
  PROVE  Tracked'
<1> DEFINE given == expects.what = "operator"
           increment == IF given THEN EmitPlain(chunk, "pop", Top.token) ELSE chunk
           b == Top.begins[1]
           j == Top.jumps[2]
           s == Top.jumps[1]
           d == EmitPlain(ToNextOpcode(EmitLoop(increment, b, Top.token), j), "pop", Top.token)
           part == IF given THEN IfGiven(<<>>) ELSE Missing
           parts == Append(Top.parts, part)
           jumps == <<s>>
           k == [Top EXCEPT !.parts = parts, !.jumps = jumps]
           P == PendingOf(nesting)
<1>1. /\ expects.what \in {"operand", "operator"} /\ expects'.what = "statement"
      /\ UNCHANGED scopes /\ Notes' = Notes /\ CompilingStep
      /\ Top.kind = "for" /\ Phase = 3 /\ chunk' = d
  BY DEF ForIncrement, CompilingStep, Emitted, Expect, Notes, machine
<1>2. nesting' = Append(Below, k)
  BY DEF ForIncrement, Replace
<1>3. PICK h, F : Current(Notes, h, F)
  BY DEF Tracked
<1>4. /\ WaitingOK(Top) /\ Top.token \in Nat /\ Relies(chunk, Top)
      /\ DOMAIN Top = {"kind", "level", "token", "from", "parts", "names", "jumps", "begins", "count"}
  BY <1>1, StepCompiles, TopFacts
<1>5. Len(Top.parts) = 2
  <2>1. Len(Top.parts) \in Nat /\ Len(Top.parts) + 1 = 3
    BY <1>1, StepCompiles, TopFacts DEF Phase
  <2>2. \A n \in Nat : n + 1 = 3 => n = 2
    OBVIOUS
  <2>. QED
    BY <2>1, <2>2
<1>6. /\ JumpsOf(Top) = {s, j} /\ DOMAIN Top.jumps = {1, 2} /\ DOMAIN Top.begins = {1, 2}
  <2>1. JumpsToPatch("for", 2) = 2 /\ Beginnings("for", 2) = 2
    BY DEF JumpsToPatch, Beginnings
  <2>2. /\ Top.jumps \in Seq(Nat) /\ Len(Top.jumps) = 2
        /\ Top.begins \in Seq(Nat) /\ Len(Top.begins) = 2
    BY <1>1, <1>4, <1>5, <2>1 DEF WaitingOK
  <2>3. ASSUME NEW q \in Seq(Nat), Len(q) = 2
        PROVE  DOMAIN q = {1, 2} /\ q[1] \in Nat /\ q[2] \in Nat
    BY <2>3, Pair
  <2>. QED
    BY <2>2, <2>3 DEF JumpsOf
<1>7. PICK a \in Nat, m \in Nat :
        /\ a = Own(F).ground /\ m = a + 1
        /\ At(chunk, P, h, IF given THEN m ELSE a)
  BY <1>1, <1>3, ForFacts
<1>8. /\ j \in P /\ Left(chunk, j, h, m) /\ Left(chunk, s, h, m)
      /\ b \in Nat /\ IsStart(chunk, b) /\ h[b] = a
  <2>1. ~Else(Top, expects.what)
    BY <1>1 DEF Else
  <2>2. 1 \in DOMAIN Top.jumps /\ 2 \in DOMAIN Top.jumps /\ 1 \in DOMAIN Top.begins
    BY <1>6
  <2>. QED
    BY <1>1, <1>3, <1>7, <2>1, <2>2, TopJumps
<1>9. PICK g : At(increment, P, g, a) /\ Rise(chunk, h, increment, g)
  <2>1. CASE given
    <3>1. increment = EmitPlain(chunk, "pop", Top.token) /\ At(chunk, P, h, m)
      BY <1>7, <2>1
    <3>. HIDE DEF increment, P
    <3>. QED
      BY <1>4, <1>7, <3>1, PopAt
  <2>2. CASE ~given
    <3>1. At(increment, P, h, a)
      BY <1>7, <2>2
    <3>2. Rise(chunk, h, increment, h)
      <4>1. ~chunk.narrowing_error /\ Size(chunk) \in Nat
        BY <1>1, StepCompiles, CompilesFacts
      <4>. QED
        BY <2>2, <4>1 DEF Rise
    <3>. QED
      BY <3>1, <3>2
  <2>. QED
    BY <2>1, <2>2
<1>10. ~increment.narrowing_error => IsStart(increment, b) /\ g[b] = a
  <2>1. Good(chunk, P, Constant)
    BY <1>1, StepCompiles, CompilesFacts
  <2>2. Later(chunk, increment)
    <3>1. "pop" \in PlainOpcode
      BY DEF PlainOpcode
    <3>2. Later(chunk, chunk)
      BY <1>1, StepCompiles, CompilesFacts
    <3>. QED
      BY <1>4, <2>1, <3>1, <3>2, EmitPlainGood
  <2>3. ~increment.narrowing_error => IsStart(increment, b)
    <3>. HIDE DEF increment
    <3>1. 1 \in DOMAIN Top.begins
      BY <1>6
    <3>. QED
      BY <1>4, <2>2, <3>1, LaterRelies DEF Relies
  <2>4. ~increment.narrowing_error => g[b] = a
    <3>. HIDE DEF increment, b
    <3>1. Size(chunk) \in Nat
      BY <1>1, StepCompiles, CompilesFacts
    <3>2. b \in 0 .. Size(chunk)
      BY <1>8, <3>1 DEF IsStart
    <3>. QED
      BY <1>8, <1>9, <3>2 DEF Rise
  <2>. QED
    BY <2>3, <2>4
<1>. HIDE DEF increment, b, j, P
<1>11. Left(increment, j, g, m) /\ Left(increment, s, g, m)
  BY <1>8, <1>9, LeftStays
<1>12. PICK f : At(d, P \ {j}, f, a) /\ Rise(increment, g, d, f)
  BY <1>4, <1>7, <1>8, <1>9, <1>10, <1>11, LoopEndAt
<1>. HIDE DEF d
<1>13. Left(d, s, f, m)
  BY <1>11, <1>12, LeftStays
<1>14. Len(parts) = 3
  <2>1. IsSequence(Top.parts)
    BY <1>4 DEF WaitingOK
  <2>2. Len(Append(Top.parts, part)) = Len(Top.parts) + 1
    BY <2>1, AppendSequence
  <2>. QED
    BY <1>5, <2>2
<1>15. DOMAIN jumps = {1} /\ jumps[1] = s
  OBVIOUS
<1>. HIDE DEF parts, part, jumps
<1>16. /\ k.kind = Top.kind /\ k.parts = parts /\ k.jumps = jumps /\ k.begins = Top.begins
       /\ k.count = Top.count
  BY <1>4
<1>. HIDE DEF k
<1>17. JumpsOf(k) = {s}
  BY <1>15, <1>16 DEF JumpsOf
<1> DEFINE R == P \ {j}
<1>18. Reaches(h, R, f, Height(expects'.what, Own(F)))
  <2>1. Height(expects'.what, Own(F)) = a
    BY <1>1, <1>7 DEF Height
  <2>2. Rise(chunk, h, d, f)
    BY <1>9, <1>12, RiseTransitive
  <2>. QED
    BY <1>1, <1>12, <2>1, <2>2 DEF Reaches
<1>19. R \subseteq (PendingOf(nesting) \ JumpsOf(Top)) \cup JumpsOf(k)
  BY <1>6, <1>17 DEF P
<1>. HIDE DEF R, given, s
<1>20. f[s - 3] = Own(F).ground + 1
  BY <1>1, <1>7, <1>13, LeftOf
<1>21. ~Else(k, expects'.what)
  BY <1>1, <1>16 DEF Else
<1>22. HeightsStay(chunk, h, f)
  BY <1>1, <1>18, ReachesStays
<1>23. Frame(f, tracked_locals, k, expects'.what, Own(F))
  <2>1. \A q \in DOMAIN k.jumps :
          f[k.jumps[q] - 3] = IF Else(k, expects'.what) THEN Own(F).ground ELSE Own(F).ground + 1
    BY <1>15, <1>16, <1>20, <1>21
  <2>. QED
    BY <1>1, <1>3, <1>16, <1>22, <2>1, PartFrame
<1>24. Notes' \subseteq Notes /\ (nesting' = Append(Below, k) \/ (nesting' = nesting /\ k = Top))
  BY <1>1, <1>2
<1>. QED
  BY <1>1, <1>3, <1>16, <1>18, <1>19, <1>23, <1>24, StillTracks

-----------------------------------------------------------------------------
(* The stack while the code runs *)

(* Every path to an instruction brings the stack to the same height, and    *)
(* the heights noted while the code was compiled are among these.           *)
RunTracks(h) ==
  /\ h \in [Nat -> Nat] /\ Fits(chunk, {}, h) /\ Noted(heights, chunk, h)
  /\ Len(stack_) = h[pc]
RunTracked == \E h : RunTracks(h)

LEMMA UnitWaitsForNothing ==
  ASSUME NEW c, NEW ks, NEW what, Compiles(c, ks, what), Len(ks) = 1
  PROVE  PendingOf(ks) = {} /\ ks[1].kind = "unit"
<1>1. WaitingOK(ks[1]) /\ ks[1].kind = "unit" /\ DOMAIN ks = {1}
  BY SequenceLength DEF Compiles
<1>2. JumpsOf(ks[1]) = {}
  BY <1>1, NoJumps DEF JumpsToPatch
<1>. QED
  BY <1>1, <1>2 DEF PendingOf

(* The end of the unit: the machine begins with the stack as it is. *)
LEMMA EndUnitTracks ==
  ASSUME IInv, Tracked, EndUnit
  PROVE  RunTracked'
<1>1. /\ Compiles(chunk, nesting, "statement") /\ expects.what = "statement" /\ pc = 0
      /\ Top.kind = "unit" /\ tracked_locals \in Seq(Nat)
  BY InvCompiles DEF EndUnit, Compiling, Rest
<1>2. /\ ~chunk'.narrowing_error
      /\ chunk' = chunk \/ chunk' = EmitPlain(EmitNothing(chunk, 0), "return_", 0)
      /\ NoteHeight /\ pc' = pc /\ stack_' = stack_
  BY DEF EndUnit, machine
<1>3. Len(nesting) = 1
  <2>1. Len(nesting) \in Nat /\ Len(nesting) > 0
    BY <1>1, SequenceLength DEF Compiles
  <2>2. nesting[Len(nesting)].kind = "unit" /\ Len(nesting) \in 1 .. Len(nesting)
    BY <1>1, <2>1 DEF Top
  <2>. QED
    BY <1>1, <2>2 DEF Compiles
<1>4. PendingOf(nesting) = {}
  BY <1>1, <1>3, UnitWaitsForNothing
<1>5. PICK h, F : Current(Notes, h, F)
  BY DEF Tracked
<1>6. PICK f : f = F[1]
  OBVIOUS
<1>7. /\ At(chunk, {}, h, Height("statement", f)) /\ Noted(Notes, chunk, h)
      /\ F \in [Nat -> Place] /\ Frames(nesting, "statement", tracked_locals, scope_depth, h, F)
  BY <1>1, <1>3, <1>4, <1>5, <1>6 DEF Current, Tracks
<1>8. f \in Place /\ Frame(h, tracked_locals, nesting[1], "statement", f) /\ f.locals = Len(tracked_locals)
  <2>1. 1 \in 1 .. 1 /\ 1 \in Nat
    OBVIOUS
  <2>. QED
    BY <1>3, <1>6, <1>7, <2>1 DEF Frames
<1>9. PICK a \in Nat : a = f.ground /\ a = Len(tracked_locals)
  <2>1. nesting[1].kind \notin ExpressionKinds \cup {"var"}
    BY <1>1, <1>3 DEF Top, ExpressionKinds, OperatorKinds
  <2>. QED
    BY <1>8, <2>1, PlaceParts DEF Frame
<1>10. At(chunk, {}, h, a)
  BY <1>7, <1>9 DEF Height
<1>11. PICK g : At(chunk', {}, g, a) /\ Rise(chunk, h, chunk', g)
  <2>1. CASE chunk' = chunk
    <3>1. Size(chunk) \in Nat
      BY <1>1, CompilesFacts
    <3>2. Rise(chunk, h, chunk', h)
      BY <1>2, <2>1, <3>1 DEF Rise
    <3>. QED
      BY <1>10, <2>1, <3>2
  <2>2. CASE chunk' = EmitPlain(EmitNothing(chunk, 0), "return_", 0)
    BY <1>10, <2>2, ReturnAt
  <2>. QED
    BY <1>2, <2>1, <2>2
<1>12. /\ Size(chunk) \in Nat /\ Size(chunk') \in Nat /\ Size(chunk) <= Size(chunk')
       /\ \A p \in 0 .. Size(chunk) : g[p] = h[p]
  BY <1>2, <1>11 DEF Rise
<1>13. /\ g \in [Nat -> Nat] /\ Fits(chunk', {}, g)
  BY <1>2, <1>11 DEF At
<1>14. h[Size(chunk)] = a
  BY <1>1, <1>10 DEF At, Compiles
<1>15. Noted(heights', chunk', g)
  <2>1. heights' = heights \cup {<<Size(chunk), a>>}
    BY <1>2, <1>9 DEF NoteHeight
  <2>2. \A note \in heights : note[1] \in 0 .. Size(chunk) /\ h[note[1]] = note[2]
    BY <1>7 DEF Noted, Notes
  <2>3. \A note \in heights : note[1] \in 0 .. Size(chunk') /\ g[note[1]] = note[2]
    BY <1>12, <2>2
  <2>4. Size(chunk) \in 0 .. Size(chunk') /\ g[Size(chunk)] = a
    BY <1>12, <1>14
  <2>. QED
    BY <2>1, <2>3, <2>4 DEF Noted
<1>16. Len(stack_') = g[pc']
  <2>1. <<0, Len(stack_)>> \in Notes
    BY DEF Notes
  <2>2. h[0] = Len(stack_)
    BY <1>7, <2>1 DEF Noted
  <2>. QED
    BY <1>1, <1>2, <1>12, <2>2
<1>17. RunTracks(g)'
  BY <1>13, <1>15, <1>16 DEF RunTracks
<1>. QED
  BY <1>17 DEF RunTracked

(* What an instruction leaves is as long as the heights have it. *)
LEMMA LeavesLength ==
  ASSUME Now \notin JumpOpcode \cup {"return_"}, NEW left \in Leaves(Now),
         stack_ \in Seq(BOOLEAN)
  PROVE  left \in Seq(BOOLEAN) /\ Len(left) = Pushes(Now)
<1>1. \A b \in BOOLEAN : <<b>> \in Seq(BOOLEAN) /\ Len(<<b>>) = 1
  OBVIOUS
<1>2. <<>> \in Seq(BOOLEAN) /\ Len(<<>>) = 0
  BY NoneOf
<1>3. PICK b \in BOOLEAN : b = ~stack_[Len(stack_)]
  OBVIOUS
<1>4. CASE Now \in {"print", "pop", "close_upvalue", "define_global", "set_global", "set_property"}
  <2>1. left = <<>> /\ Pushes(Now) = 0
    BY <1>4 DEF Leaves, Pushes
  <2>. QED
    BY <1>2, <2>1
<1>5. CASE Now \notin {"print", "pop", "close_upvalue", "define_global", "set_global", "set_property"}
  <2>1. Pushes(Now) = 1
    BY <1>5 DEF Pushes
  <2>2. left \in {<<TRUE>>, <<FALSE>>, <<b>>}
    BY <1>3, <1>5 DEF Leaves
  <2>. QED
    BY <1>1, <2>1, <2>2
<1>. QED
  BY <1>4, <1>5

LEMMA StackAfter ==
  ASSUME NEW s \in Seq(BOOLEAN), NEW n \in Nat, n <= Len(s), NEW t \in Seq(BOOLEAN)
  PROVE  /\ SubSeq(s, 1, Len(s) - n) \o t \in Seq(BOOLEAN)
         /\ Len(SubSeq(s, 1, Len(s) - n) \o t) = Len(s) - n + Len(t)
<1>1. PICK l \in Nat : l = Len(s)
  OBVIOUS
<1>2. PICK m \in 0 .. l : m = l - n
  BY <1>1
<1>3. SubSeq(s, 1, m) \in Seq(BOOLEAN) /\ Len(SubSeq(s, 1, m)) = m
  BY <1>1, <1>2
<1>4. PICK r : r = SubSeq(s, 1, m)
  OBVIOUS
<1>5. r \o t \in Seq(BOOLEAN) /\ Len(r \o t) = Len(r) + Len(t)
  BY <1>3, <1>4, Concatenated
<1>. QED
  BY <1>1, <1>2, <1>3, <1>4, <1>5

(* An instruction takes no more than there is, and leaves the stack as high *)
(* as it is wherever the machine goes on.                                   *)
LEMMA InstructionTracks ==
  ASSUME IInv, Running, NEW h, RunTracks(h)
  PROVE  /\ pc \in 0 .. Size(chunk) - 1 /\ StepFits(chunk, {}, h, pc)
         /\ TakesAt(chunk, pc) = Takes(Now) /\ Takes(Now) \in Nat
         /\ Now \in JumpOpcode => Width(chunk, pc) = 3
<1>1. /\ chunk \in Chunks(Constant) /\ Aligned(chunk) /\ IsStart(chunk, pc) /\ Size(chunk) \in Nat
      /\ pc # Size(chunk)
  BY RunningFacts DEF Running
<1>2. pc \in 0 .. Size(chunk) - 1 /\ Now # "operand" /\ Now = OpcodeAt(chunk, pc)
  BY <1>1 DEF IsStart, Now
<1>3. StepFits(chunk, {}, h, pc)
  BY <1>2 DEF RunTracks, Fits
<1>4. TakesAt(chunk, pc) = Takes(Now)
  BY <1>2 DEF TakesAt, Takes, Needs
<1>5. Takes(Now) \in Nat
  <2>1. CASE Now = "call"
    <3>1. Width(chunk, pc) = 2
      <4>1. chunk.bytecode[pc + 1].opcode = "call"
        BY <1>2, <2>1 DEF OpcodeAt
      <4>2. "call" \notin PlainOpcode \cup JumpOpcode /\ "call" \in ConstantOpcode \cup IndexOpcode
        BY DEF PlainOpcode, IndexOpcode, JumpOpcode
      <4>. QED
        BY <4>1, <4>2 DEF Width, WidthAt
    <3>2. pc + 2 \in 1 .. Size(chunk)
      BY <1>1, <1>2, <3>1, InstructionShape
    <3>3. chunk.bytecode \in Seq(Cell) /\ Size(chunk) = Len(chunk.bytecode)
      BY <1>1 DEF Chunks, Size
    <3>4. chunk.bytecode[pc + 2] \in Cell
      <4>1. PICK i : i = pc + 2
        OBVIOUS
      <4>2. i \in 1 .. Len(chunk.bytecode)
        BY <3>2, <3>3, <4>1
      <4>3. chunk.bytecode[i] \in Cell
        BY <3>3, <4>2
      <4>. QED
        BY <4>1, <4>3
    <3>5. OperandAt(chunk, pc) \in Nat
      BY <3>4, ChunkAssumption DEF OperandAt, Cell, ByteValue
    <3>. QED
      BY <2>1, <3>5 DEF Takes
  <2>2. CASE Now # "call"
    BY <2>2 DEF Takes
  <2>. QED
    BY <2>1, <2>2
<1>6. Now \in JumpOpcode => Width(chunk, pc) = 3
  BY <1>1, <1>2, InstructionShape
<1>. QED
  BY <1>2, <1>3, <1>4, <1>5, <1>6

LEMMA ExecuteTracks ==
  ASSUME IInv, RunTracked, stack_ \in Seq(BOOLEAN), Execute
  PROVE  RunTracked' /\ stack_' \in Seq(BOOLEAN)
<1>1. PICK h : RunTracks(h)
  BY DEF RunTracked
<1>2. /\ Running /\ Now \notin JumpOpcode \cup {"return_"} /\ pc' = pc + Width(chunk, pc)
      /\ chunk' = chunk /\ heights' = heights
  BY DEF Execute, KeepsText
<1>3. /\ StepFits(chunk, {}, h, pc) /\ TakesAt(chunk, pc) = Takes(Now) /\ Takes(Now) \in Nat
      /\ Now = OpcodeAt(chunk, pc)
  BY <1>1, <1>2, InstructionTracks DEF Now
<1>4. PICK n \in Nat : n = Takes(Now)
  BY <1>3
<1>5. PICK left \in Leaves(Now) : stack_' = SubSeq(stack_, 1, Len(stack_) - n) \o left
  BY <1>4 DEF Execute
<1>6. left \in Seq(BOOLEAN) /\ Len(left) = Pushes(Now)
  BY <1>2, LeavesLength
<1>7. Now \notin NoFall
  BY <1>2 DEF NoFall, JumpOpcode
<1>8. n <= h[pc] /\ h[pc'] = h[pc] - n + Pushes(Now) /\ h[pc] = Len(stack_)
  BY <1>1, <1>2, <1>3, <1>4, <1>7 DEF StepFits, RunTracks
<1>9. stack_' \in Seq(BOOLEAN) /\ Len(stack_') = Len(stack_) - n + Len(left)
  BY <1>5, <1>6, <1>8, StackAfter
<1>10. Len(stack_') = h[pc']
  BY <1>6, <1>8, <1>9
<1>11. RunTracks(h)'
  BY <1>1, <1>2, <1>10 DEF RunTracks
<1>. QED
  BY <1>9, <1>11 DEF RunTracked

LEMMA JumpTracks ==
  ASSUME IInv, RunTracked, Jump
  PROVE  RunTracked' /\ stack_' = stack_
<1>1. PICK h : RunTracks(h)
  BY DEF RunTracked
<1>2. /\ Running /\ Now \in JumpOpcode
      /\ (Now = "jump_if_false" /\ pc' = pc + 3) \/ pc' = JumpTarget(chunk, pc)
      /\ chunk' = chunk /\ heights' = heights /\ stack_' = stack_
  BY DEF Jump, KeepsText
<1>3. /\ StepFits(chunk, {}, h, pc) /\ TakesAt(chunk, pc) = Takes(Now)
      /\ Now = OpcodeAt(chunk, pc) /\ Width(chunk, pc) = 3
  BY <1>1, <1>2, InstructionTracks DEF Now
<1>4. Takes(Now) = 0 /\ Pushes(Now) = 0
  BY <1>2 DEF Takes, Pushes, JumpOpcode
<1>5. h[pc] \in Nat /\ h[pc] = Len(stack_)
  <2>1. pc \in Nat
    BY <1>1, <1>2, InstructionTracks
  <2>. QED
    BY <1>1, <2>1 DEF RunTracks
<1>6. h[pc'] = h[pc]
  <2>1. CASE Now = "jump_if_false" /\ pc' = pc + 3
    <3>1. Now \notin NoFall
      BY <2>1 DEF NoFall
    <3>2. h[pc + 3] = h[pc] - 0 + 0
      BY <1>3, <1>4, <3>1 DEF StepFits
    <3>. QED
      BY <1>5, <2>1, <3>2
  <2>2. CASE pc' = JumpTarget(chunk, pc)
    BY <1>2, <1>3, <2>2 DEF StepFits
  <2>. QED
    BY <1>2, <2>1, <2>2
<1>7. RunTracks(h)'
  BY <1>1, <1>2, <1>5, <1>6 DEF RunTracks
<1>. QED
  BY <1>2, <1>7 DEF RunTracked

-----------------------------------------------------------------------------
(* The stack from the first token to the last instruction *)

StackInv ==
  /\ status \in {"compiling", "running"} => stack_ \in Seq(BOOLEAN)
  /\ status = "compiling" => Tracked
  /\ status = "running" => RunTracked

(* Before the first token: nothing is compiled, and the stack holds what    *)
(* the compiler tracks already, the function itself in slot 0.              *)
LEMMA InitTracks ==
  ASSUME FlowInit
  PROVE  StackInv
<1>1. /\ chunk = EmptyChunk /\ nesting = <<Waiting("unit", -1, 0, 1)>> /\ expects.what = "statement"
      /\ status = "compiling" /\ heights = {}
  BY DEF FlowInit
<1>2. PICK a \in {0, 1} : /\ Len(tracked_locals) = a /\ scope_depth = a /\ Len(stack_) = a
                          /\ \A j \in 1 .. a : tracked_locals[j] <= a
                          /\ stack_ \in Seq(BOOLEAN)
  <2>1. CASE unit.kind = "script"
    <3>1. tracked_locals = <<>> /\ scope_depth = 0 /\ stack_ = <<>>
      BY <2>1 DEF FlowInit
    <3>2. stack_ \in Seq(BOOLEAN) /\ Len(<<>>) = 0
      BY <3>1, NoneOf
    <3>. QED
      BY <3>1, <3>2
  <2>2. CASE unit.kind # "script"
    <3>1. tracked_locals = <<1>> /\ scope_depth = 1 /\ stack_ = <<TRUE>>
      BY <2>2 DEF FlowInit
    <3>2. stack_ \in Seq(BOOLEAN) /\ Len(stack_) = 1 /\ Len(tracked_locals) = 1 /\ tracked_locals[1] = 1
      BY <3>1
    <3>. QED
      BY <3>1, <3>2
  <2>. QED
    BY <2>1, <2>2
<1> DEFINE h == [p \in Nat |-> a]
           f == [ground |-> a, locals |-> a, depth |-> a]
           F == [i \in Nat |-> f]
<1>3. Compiles(chunk, nesting, "statement") /\ Len(nesting) = 1
  BY <1>1, StartCompiles
<1>4. PendingOf(nesting) = {} /\ nesting[1].kind = "unit"
  BY <1>3, UnitWaitsForNothing
<1>5. Size(chunk) = 0
  BY <1>1 DEF EmptyChunk, Size
<1>6. h \in [Nat -> Nat] /\ \A p \in Nat : h[p] = a
  OBVIOUS
<1>7. f \in Place /\ F \in [Nat -> Place] /\ F[1] = f
  BY DEF Place
<1>8. f.ground = a /\ f.locals = a /\ f.depth = a
  OBVIOUS
<1>. HIDE DEF h, f, F
<1>9. At(chunk, PendingOf(nesting), h, Height(expects.what, F[Len(nesting)]))
  <2>1. Good(chunk, PendingOf(nesting), Constant)
    BY <1>3 DEF Compiles
  <2>2. Fits(chunk, PendingOf(nesting), h)
    BY <1>5 DEF Fits
  <2>. QED
    BY <1>1, <1>3, <1>5, <1>6, <1>7, <1>8, <2>1, <2>2 DEF At, Height
<1>10. Frames(nesting, expects.what, tracked_locals, scope_depth, h, F)
  <2>1. WaitingOK(nesting[1])
    BY <1>3 DEF Compiles
  <2>2. DOMAIN nesting[1].jumps = {} /\ DOMAIN nesting[1].begins = {}
    <3>1. /\ nesting[1].jumps \in Seq(Nat) /\ Len(nesting[1].jumps) = 0
          /\ nesting[1].begins \in Seq(Nat) /\ Len(nesting[1].begins) = 0
      BY <1>4, <2>1 DEF WaitingOK, JumpsToPatch, Beginnings
    <3>. QED
      BY <3>1
  <2>3. Frame(h, tracked_locals, nesting[1], expects.what, f)
    BY <1>2, <1>4, <1>8, <2>2 DEF Frame, ExpressionKinds, OperatorKinds
  <2>4. \A i \in 1 .. 1 : i = 1
    OBVIOUS
  <2>5. 2 .. 1 = {}
    OBVIOUS
  <2>. QED
    BY <1>2, <1>3, <1>7, <1>8, <2>3, <2>4, <2>5 DEF Frames
<1>11. Noted(Notes, chunk, h)
  BY <1>1, <1>2, <1>5, <1>6 DEF Noted, Notes
<1>12. Tracked
  BY <1>7, <1>9, <1>10, <1>11 DEF Tracked, Current, Tracks
<1>. QED
  BY <1>1, <1>2, <1>12 DEF StackInv

LEMMA ExpressionTracks ==
  ASSUME IInv, IInv', StackInv, CompileExpression
  PROVE  StackInv'
<1>1. CASE Operand
  <2>1. status = "compiling" /\ status' = "compiling" /\ stack_' = stack_
    BY <1>1 DEF Operand, May, Compiling, Emitted, KeepsCode, machine
  <2>. QED
    BY <1>1, <2>1, OperandTracks DEF StackInv
<1>2. CASE Prefix
  <2>1. status = "compiling" /\ status' = "compiling" /\ stack_' = stack_
    BY <1>2 DEF Prefix, May, Compiling, Emitted, KeepsCode, machine
  <2>. QED
    BY <1>2, <2>1, PrefixTracks DEF StackInv
<1>3. CASE Assignment
  <2>1. status = "compiling" /\ status' = "compiling" /\ stack_' = stack_
    BY <1>3 DEF Assignment, May, Compiling, Emitted, KeepsCode, machine
  <2>. QED
    BY <1>3, <2>1, AssignmentTracks DEF StackInv
<1>4. CASE BinaryOperator
  <2>1. status = "compiling" /\ status' = "compiling" /\ stack_' = stack_
    BY <1>4 DEF BinaryOperator, May, Compiling, Emitted, KeepsCode, machine
  <2>. QED
    BY <1>4, <2>1, BinaryOperatorTracks DEF StackInv
<1>5. CASE FinishOperator
  <2>1. status = "compiling" /\ status' = "compiling" /\ stack_' = stack_
    BY <1>5 DEF FinishOperator, May, Compiling, Emitted, KeepsCode, machine
  <2>. QED
    BY <1>5, <2>1, FinishOperatorTracks DEF StackInv
<1>6. CASE AccessProperty
  <2>1. status = "compiling" /\ status' = "compiling" /\ stack_' = stack_
    BY <1>6 DEF AccessProperty, May, Compiling, Emitted, KeepsCode, machine
  <2>. QED
    BY <1>6, <2>1, AccessPropertyTracks DEF StackInv
<1>7. CASE OpenCall
  <2>1. status = "compiling" /\ status' = "compiling" /\ stack_' = stack_
    BY <1>7 DEF OpenCall, May, Compiling, Emitted, KeepsCode, machine
  <2>. QED
    BY <1>7, <2>1, OpenCallTracks DEF StackInv
<1>8. CASE NextArgument
  <2>1. status = "compiling" /\ status' = "compiling" /\ stack_' = stack_
    BY <1>8 DEF NextArgument, May, Compiling, Emitted, KeepsCode, machine
  <2>. QED
    BY <1>8, <2>1, NextArgumentTracks DEF StackInv
<1>9. CASE CloseParenthesis
  <2>1. status = "compiling" /\ status' = "compiling" /\ stack_' = stack_
    BY <1>9 DEF CloseParenthesis, May, Compiling, Emitted, KeepsCode, machine
  <2>. QED
    BY <1>9, <2>1, CloseParenthesisTracks DEF StackInv
<1>. QED
  BY <1>1, <1>2, <1>3, <1>4, <1>5,
     <1>6, <1>7, <1>8, <1>9 DEF CompileExpression

LEMMA StatementTracks ==
  ASSUME IInv, IInv', StackInv, CompileStatement
  PROVE  StackInv'
<1>1. CASE BeginWithExpression
  <2>1. status = "compiling" /\ status' = "compiling" /\ stack_' = stack_
    BY <1>1 DEF BeginWithExpression, May, Compiling, Emitted, KeepsCode, machine
  <2>. QED
    BY <1>1, <2>1, BeginWithExpressionTracks DEF StackInv
<1>2. CASE EndWithExpression
  <2>1. status = "compiling" /\ status' = "compiling" /\ stack_' = stack_
    BY <1>2 DEF EndWithExpression, May, Compiling, Emitted, KeepsCode, machine
  <2>. QED
    BY <1>2, <2>1, EndWithExpressionTracks DEF StackInv
<1>3. CASE Declare
  <2>1. status = "compiling" /\ status' = "compiling" /\ stack_' = stack_
    BY <1>3 DEF Declare, May, Compiling, Emitted, KeepsCode, machine
  <2>. QED
    BY <1>3, <2>1, DeclareTracks DEF StackInv
<1>4. CASE ReturnNothing
  <2>1. status = "compiling" /\ status' = "compiling" /\ stack_' = stack_
    BY <1>4 DEF ReturnNothing, May, Compiling, Emitted, KeepsCode, machine
  <2>. QED
    BY <1>4, <2>1, ReturnNothingTracks DEF StackInv
<1>5. CASE BeginScope
  <2>1. status = "compiling" /\ status' = "compiling" /\ stack_' = stack_
    BY <1>5 DEF BeginScope, May, Compiling, Emitted, KeepsCode, machine
  <2>. QED
    BY <1>5, <2>1, BeginScopeTracks DEF StackInv
<1>6. CASE EndBlock
  <2>1. status = "compiling" /\ status' = "compiling" /\ stack_' = stack_
    BY <1>6 DEF EndBlock, May, Compiling, Emitted, KeepsCode, machine
  <2>. QED
    BY <1>6, <2>1, EndBlockTracks DEF StackInv
<1>7. CASE EndCondition
  <2>1. status = "compiling" /\ status' = "compiling" /\ stack_' = stack_
    BY <1>7 DEF EndCondition, May, Compiling, Emitted, KeepsCode, machine
  <2>. QED
    BY <1>7, <2>1, EndConditionTracks DEF StackInv
<1>8. CASE AfterThen
  <2>1. status = "compiling" /\ status' = "compiling" /\ stack_' = stack_
    BY <1>8 DEF AfterThen, May, Compiling, Emitted, KeepsCode, machine
  <2>. QED
    BY <1>8, <2>1, AfterThenTracks DEF StackInv
<1>9. CASE AfterElse
  <2>1. status = "compiling" /\ status' = "compiling" /\ stack_' = stack_
    BY <1>9 DEF AfterElse, May, Compiling, Emitted, KeepsCode, machine
  <2>. QED
    BY <1>9, <2>1, AfterElseTracks DEF StackInv
<1>10. CASE AfterWhileBody
  <2>1. status = "compiling" /\ status' = "compiling" /\ stack_' = stack_
    BY <1>10 DEF AfterWhileBody, May, Compiling, Emitted, KeepsCode, machine
  <2>. QED
    BY <1>10, <2>1, AfterWhileBodyTracks DEF StackInv
<1>11. CASE NoInitializer
  <2>1. status = "compiling" /\ status' = "compiling" /\ stack_' = stack_
    BY <1>11 DEF NoInitializer, May, Compiling, Emitted, KeepsCode, machine
  <2>. QED
    BY <1>11, <2>1, NoInitializerTracks DEF StackInv
<1>12. CASE ForCondition
  <2>1. status = "compiling" /\ status' = "compiling" /\ stack_' = stack_
    BY <1>12 DEF ForCondition, May, Compiling, Emitted, KeepsCode, machine
  <2>. QED
    BY <1>12, <2>1, ForConditionTracks DEF StackInv
<1>13. CASE ForIncrement
  <2>1. status = "compiling" /\ status' = "compiling" /\ stack_' = stack_
    BY <1>13 DEF ForIncrement, May, Compiling, Emitted, KeepsCode, machine
  <2>. QED
    BY <1>13, <2>1, ForIncrementTracks DEF StackInv
<1>14. CASE AfterForBody
  <2>1. status = "compiling" /\ status' = "compiling" /\ stack_' = stack_
    BY <1>14 DEF AfterForBody, May, Compiling, Emitted, KeepsCode, machine
  <2>. QED
    BY <1>14, <2>1, AfterForBodyTracks DEF StackInv
<1>15. CASE EndUnit
  <2>1. status = "compiling" /\ status' = "running" /\ stack_' = stack_
    BY <1>15 DEF EndUnit, Compiling, machine
  <2>. QED
    BY <1>15, <2>1, EndUnitTracks DEF StackInv
<1>. QED
  BY <1>1, <1>2, <1>3, <1>4, <1>5, <1>6, <1>7, <1>8,
     <1>9, <1>10, <1>11, <1>12, <1>13, <1>14, <1>15 DEF CompileStatement

LEMMA RunKeepsStack ==
  ASSUME IInv, StackInv, Run
  PROVE  StackInv'
<1>1. CASE Execute
  <2>1. status = "running" /\ status' = "running"
    BY <1>1 DEF Execute, Running
  <2>. QED
    BY <1>1, <2>1, ExecuteTracks DEF StackInv
<1>2. CASE Jump
  <2>1. status = "running" /\ status' = "running"
    BY <1>2 DEF Jump, Running
  <2>. QED
    BY <1>2, <2>1, JumpTracks DEF StackInv
<1>3. CASE Return
  <2>1. status' = "over"
    BY <1>3 DEF Return
  <2>. QED
    BY <2>1 DEF StackInv
<1>4. CASE RunToEnd
  <2>1. status' = "over" /\ stack_' = stack_
    BY <1>4 DEF RunToEnd, machine
  <2>. QED
    BY <2>1 DEF StackInv
<1>5. CASE RuntimeError
  <2>1. status' = "failed" /\ stack_' = stack_
    BY <1>5 DEF RuntimeError
  <2>. QED
    BY <2>1 DEF StackInv
<1>. QED
  BY <1>1, <1>2, <1>3, <1>4, <1>5 DEF Run

LEMMA StackStep ==
  ASSUME IInv, IInv', StackInv, [FlowNext]_flowVars
  PROVE  StackInv'
<1>1. CASE CompileError
  <2>1. status' = "failed" /\ stack_' = stack_
    BY <1>1 DEF CompileError, machine
  <2>. QED
    BY <2>1 DEF StackInv
<1>2. CASE UNCHANGED flowVars
  <2>1. /\ chunk' = chunk /\ nesting' = nesting /\ expects' = expects /\ status' = status
        /\ tracked_locals' = tracked_locals /\ scope_depth' = scope_depth
        /\ heights' = heights /\ pc' = pc /\ stack_' = stack_
    BY <1>2 DEF flowVars, scopes, machine
  <2>. QED
    BY <2>1 DEF StackInv, Tracked, Current, Notes, RunTracked, RunTracks
<1>. QED
  BY <1>1, <1>2, ExpressionTracks, StatementTracks, RunKeepsStack DEF FlowNext

LEMMA StackInvariant == FlowSpec => []StackInv
<1>1. FlowInit => StackInv
  BY InitTracks
<1>2. IInv /\ IInv' /\ StackInv /\ [FlowNext]_flowVars => StackInv'
  BY StackStep
<1>. QED
  BY <1>1, <1>2, FlowInvariant, PTL DEF FlowSpec

(* While compiled code runs, whatever way the machine took there, the stack *)
(* is exactly as high at the beginning of a statement as the locals were    *)
(* that the compiler tracked when it began to compile that statement: the   *)
(* index Compiler::track_local gives a local is its slot.                   *)
THEOREM StackHoldsTheLocals == FlowSpec => []StackAsTracked
<1>1. StackInv => StackAsTracked
  BY DEF StackInv, RunTracked, RunTracks, Noted, StackAsTracked
<1>. QED
  BY <1>1, StackInvariant, PTL

(* VM::run pops no more than the stack of the unit it runs holds: no        *)
(* instruction, on any path, reaches below the slots of its activation.     *)
THEOREM NothingTakenFromBelow == FlowSpec => [](Running => Takes(Now) <= Len(stack_))
<1>1. ASSUME IInv, StackInv, Running
      PROVE  Takes(Now) <= Len(stack_)
  <2>1. PICK h : RunTracks(h)
    BY <1>1 DEF StackInv, RunTracked, Running
  <2>2. StepFits(chunk, {}, h, pc) /\ TakesAt(chunk, pc) = Takes(Now)
    BY <1>1, <2>1, InstructionTracks
  <2>. QED
    BY <2>1, <2>2 DEF StepFits, RunTracks
<1>2. IInv /\ StackInv => (Running => Takes(Now) <= Len(stack_))
  BY <1>1
<1>. QED
  BY <1>2, FlowInvariant, StackInvariant, PTL

-----------------------------------------------------------------------------
(* What an instruction refers to *)

(* The constant of an instruction is what its token says. *)
Spells(opcode, constant, t) ==
  IF opcode = "constant" THEN t.kind = "number" /\ constant = Number ELSE constant = Name(t.lexeme)
MeantAt(c, src, p) ==
  /\ OperandAt(c, p) + 1 \in DOMAIN c.constants /\ TokenAt(c, p) \in 1 .. Len(src)
  /\ Spells(OpcodeAt(c, p), c.constants[OperandAt(c, p) + 1], src[TokenAt(c, p)])
Meant(c, src) ==
  \A p \in 0 .. Size(c) - 1 : OpcodeAt(c, p) \in ConstantOpcode => MeantAt(c, src, p)

Mean(c, P, src) == Good(c, P, Constant) /\ (~c.narrowing_error => Meant(c, src))

LEMMA ConstantOpcodes ==
  ConstantOpcode \cap (PlainOpcode \cup IndexOpcode \cup JumpOpcode \cup {"closure", "operand"}) = {}
<1>. QED
  BY DEF ConstantOpcode, NameOpcode, PlainOpcode, IndexOpcode, JumpOpcode

(* What is kept means what it meant. *)
LEMMA KeptMeans ==
  ASSUME NEW c, NEW P, NEW src, Mean(c, P, src), ~c.narrowing_error,
         NEW d, NEW Q, Good(d, Q, Constant), Kept(c, d),
         \A p \in Size(c) .. Size(d) - 1 : OpcodeAt(d, p) \in ConstantOpcode => MeantAt(d, src, p)
  PROVE  Mean(d, Q, src)
<1>1. c \in Chunks(Constant) /\ Aligned(c) /\ Meant(c, src) /\ Size(c) \in Nat /\ Size(d) \in Nat
  BY SoundChunk DEF Mean, SoundCode, Kept
<1>2. SUFFICES ASSUME NEW p \in 0 .. Size(c) - 1, OpcodeAt(d, p) \in ConstantOpcode
               PROVE  MeantAt(d, src, p)
  <2>1. \A p \in 0 .. Size(d) - 1 : p \in 0 .. Size(c) - 1 \/ p \in Size(c) .. Size(d) - 1
    BY <1>1
  <2>. QED
    BY <2>1 DEF Mean, Meant
<1>3. p + 1 \in 1 .. Size(c)
  BY <1>1, <1>2
<1>4. OpcodeAt(d, p) = OpcodeAt(c, p) /\ TokenAt(d, p) = TokenAt(c, p)
  BY <1>3 DEF Kept, OpcodeAt, TokenAt
<1>5. OpcodeAt(c, p) # "operand"
  BY <1>2, <1>4, ConstantOpcodes
<1>6. OperandAt(d, p) = OperandAt(c, p)
  BY <1>1, <1>2, <1>4, <1>5, SameInstruction
<1>7. MeantAt(c, src, p)
  BY <1>1, <1>2, <1>4 DEF Meant
<1>. QED
  BY <1>4, <1>6, <1>7 DEF MeantAt, Kept

(* One more instruction. *)
LEMMA OneMeans ==
  ASSUME NEW c, NEW P, NEW src, Mean(c, P, src), NEW d, NEW Q, Good(d, Q, Constant), Later(c, d),
         NEW opcode, NEW token,
         ~d.narrowing_error =>
           /\ Wrote(c, d, opcode, token)
           /\ opcode \in ConstantOpcode => MeantAt(d, src, Size(c))
  PROVE  Mean(d, Q, src)
<1>1. CASE d.narrowing_error
  BY <1>1 DEF Mean
<1>2. CASE ~d.narrowing_error
  <2>1. ~c.narrowing_error /\ Kept(c, d) /\ Size(c) \in Nat /\ Size(d) \in Nat
    BY <1>2 DEF Later, Wrote, Kept
  <2>2. ASSUME NEW p \in Size(c) .. Size(d) - 1, OpcodeAt(d, p) \in ConstantOpcode
        PROVE  MeantAt(d, src, p)
    <3>1. p = Size(c) \/ p \in Size(c) + 1 .. Size(d) - 1
      BY <2>1
    <3>2. p = Size(c)
      BY <1>2, <2>2, <3>1, ConstantOpcodes DEF Wrote
    <3>. QED
      BY <1>2, <2>2, <3>2 DEF Wrote
  <2>. QED
    BY <2>1, <2>2, KeptMeans
<1>. QED
  BY <1>1, <1>2

LEMMA PlainMeans ==
  ASSUME NEW c, NEW P, NEW src, Mean(c, P, src), NEW opcode \in PlainOpcode, NEW token \in Nat
  PROVE  Mean(EmitPlain(c, opcode, token), P, src)
<1> DEFINE d == EmitPlain(c, opcode, token)
<1>1. Good(c, P, Constant)
  BY DEF Mean
<1>2. Good(d, P, Constant) /\ Later(c, d)
  BY <1>1, EmitPlainGood, Zenon
<1>3. ~d.narrowing_error => Wrote(c, d, opcode, token)
  BY <1>1, PlainWrote
<1>. HIDE DEF d
<1>4. Mean(d, P, src)
  BY <1>2, <1>3, ConstantOpcodes, OneMeans
<1>. QED
  BY <1>4 DEF d

LEMMA IndexMeans ==
  ASSUME NEW c, NEW P, NEW src, Mean(c, P, src), NEW opcode \in {"get_local", "call"},
         NEW index \in Nat, NEW token \in Nat
  PROVE  Mean(EmitIndex(c, opcode, index, token), P, src)
<1> DEFINE d == EmitIndex(c, opcode, index, token)
<1>1. Good(c, P, Constant) /\ opcode \in IndexOpcode
  BY DEF Mean, IndexOpcode
<1>2. Good(d, P, Constant) /\ Later(c, d)
  BY <1>1, EmitIndexGood, Zenon
<1>3. ~d.narrowing_error => Wrote(c, d, opcode, token)
  BY <1>1, IndexWrote
<1>. HIDE DEF d
<1>4. Mean(d, P, src)
  BY <1>1, <1>2, <1>3, ConstantOpcodes, OneMeans
<1>. QED
  BY <1>4 DEF d

(* insert_constant finds the constant or adds it: the index is not cut. *)
LEMMA ConstantMeans ==
  ASSUME NEW c, NEW P, NEW src, Mean(c, P, src), NEW opcode \in ConstantOpcode,
         NEW value \in Constant, NEW token \in 1 .. Len(src), Spells(opcode, value, src[token])
  PROVE  Mean(EmitConstant(c, opcode, value, token), P, src)
<1> DEFINE d == EmitConstant(c, opcode, value, token)
           inserted == InsertConstant(c, value)
           index == ConstantIndex(inserted, value)
<1>1. Good(c, P, Constant) /\ token \in Nat
  BY DEF Mean
<1>2. Good(d, P, Constant) /\ Later(c, d)
  BY <1>1, EmitConstantGood, Zenon
<1>3. ASSUME ~d.narrowing_error
      PROVE  Wrote(c, d, opcode, token) /\ MeantAt(d, src, Size(c))
  <2>1. Wrote(c, d, opcode, token) /\ d.constants[OperandAt(d, Size(c)) + 1] = value
    BY <1>1, <1>3, ConstantWrote
  <2>2. OpcodeAt(d, Size(c)) = opcode /\ TokenAt(d, Size(c)) = token
    BY <2>1 DEF Wrote
  <2>3. OperandAt(d, Size(c)) + 1 \in DOMAIN d.constants
    <3>1. /\ Good(inserted, P, Constant) /\ ~inserted.narrowing_error
          /\ Size(inserted) = Size(c) /\ index \in Nat
      BY <1>1, <1>2, <1>3, InsertKept, Zenon DEF Later
    <3>2. index \in 0 .. Len(inserted.constants) - 1
      BY <1>1, <3>1, InsertGood
    <3>3. d = EmitIndex(inserted, opcode, index, token)
      BY DEF EmitConstant
    <3>4. inserted.constants \in Seq(Constant)
      BY <3>1, SoundChunk DEF Chunks
    <3>. HIDE DEF inserted, index, d
    <3>5. d.constants = inserted.constants /\ OperandAt(d, Size(c)) = index
      BY <1>1, <1>3, <3>1, <3>3, EmitIndexGood
    <3>. QED
      BY <3>2, <3>4, <3>5
  <2>. QED
    BY <2>1, <2>2, <2>3 DEF MeantAt
<1>. HIDE DEF d
<1>4. Mean(d, P, src)
  BY <1>2, <1>3, OneMeans
<1>. QED
  BY <1>4 DEF d

LEMMA ClosureMeans ==
  ASSUME NEW c, NEW P, NEW src, Mean(c, P, src), NEW fn \in Constant, NEW token \in Nat
  PROVE  Mean(EmitClosure(c, fn, <<>>, token), P, src)
<1>1. PICK d : d = EmitClosure(c, fn, <<>>, token)
  OBVIOUS
<1>2. Good(c, P, Constant)
  BY DEF Mean
<1>3. Good(d, P, Constant) /\ Later(c, d)
  <2>1. <<>> \in Seq({}) /\ \A u \in {} : u.index \in Nat
    OBVIOUS
  <2>. QED
    BY <1>1, <1>2, <2>1, EmitClosureGood
<1>4. ~d.narrowing_error => Wrote(c, d, "closure", token)
  BY <1>1, <1>2, ClosureWrote
<1>5. Mean(d, P, src)
  BY <1>3, <1>4, ConstantOpcodes, OneMeans
<1>. QED
  BY <1>1, <1>5

LEMMA JumpMeans ==
  ASSUME NEW c, NEW P, NEW src, Mean(c, P, src), NEW opcode \in {"jump", "jump_if_false"},
         NEW token \in Nat
  PROVE  LET d == EmitJump(c, opcode, token)
         IN  Mean(d, P \cup {Size(d)}, src)
<1> DEFINE d == EmitJump(c, opcode, token)
<1>1. Good(c, P, Constant) /\ opcode \in JumpOpcode
  BY DEF Mean, JumpOpcode
<1>2. Good(d, P \cup {Size(d)}, Constant) /\ Later(c, d)
  BY <1>1, EmitJumpGood, Zenon
<1>3. ~d.narrowing_error => Wrote(c, d, opcode, token)
  BY <1>1, <1>2, JumpWrote DEF Later
<1>. HIDE DEF d
<1>4. Mean(d, P \cup {Size(d)}, src)
  BY <1>1, <1>2, <1>3, ConstantOpcodes, OneMeans
<1>. QED
  BY <1>4 DEF d

LEMMA LoopMeans ==
  ASSUME NEW c, NEW P, NEW src, Mean(c, P, src), NEW token \in Nat,
         NEW b \in Nat, ~c.narrowing_error => IsStart(c, b)
  PROVE  Mean(EmitLoop(c, b, token), P, src)
<1> DEFINE d == EmitLoop(c, b, token)
<1>1. Good(c, P, Constant) /\ "loop" \in JumpOpcode
  BY DEF Mean, JumpOpcode
<1>2. Good(d, P, Constant) /\ Later(c, d)
  BY <1>1, EmitLoopGood
<1>3. ~d.narrowing_error => Wrote(c, d, "loop", token)
  BY <1>1, LoopWrote
<1>. HIDE DEF d
<1>4. Mean(d, P, src)
  BY <1>1, <1>2, <1>3, ConstantOpcodes, OneMeans
<1>. QED
  BY <1>4 DEF d

(* A patch writes no operand of another instruction. *)
LEMMA PatchMeans ==
  ASSUME NEW c, NEW P, NEW src, Mean(c, P, src), NEW j \in P
  PROVE  Mean(ToNextOpcode(c, j), P \ {j}, src)
<1> DEFINE d == ToNextOpcode(c, j)
<1>1. Good(c, P, Constant)
  BY DEF Mean
<1>2. Good(d, P \ {j}, Constant)
  BY <1>1, PatchGood
<1>3. ASSUME ~d.narrowing_error, NEW p \in 0 .. Size(d) - 1, OpcodeAt(d, p) \in ConstantOpcode
      PROVE  MeantAt(d, src, p)
  <2>1. /\ ~c.narrowing_error /\ Size(d) = Size(c) /\ d.constants = c.constants
        /\ d.source_map_tokens = c.source_map_tokens
        /\ OpcodeAt(d, p) = OpcodeAt(c, p)
        /\ OpcodeAt(c, p) # "operand" /\ OpcodeAt(c, p) \in ConstantOpcode =>
             OperandAt(d, p) = OperandAt(c, p)
    BY <1>1, <1>3, PatchSame
  <2>. HIDE DEF d
  <2>2. OperandAt(d, p) = OperandAt(c, p) /\ TokenAt(d, p) = TokenAt(c, p)
    BY <1>3, <2>1, ConstantOpcodes DEF TokenAt
  <2>3. MeantAt(c, src, p)
    BY <1>3, <2>1 DEF Mean, Meant
  <2>. QED
    BY <2>1, <2>2, <2>3 DEF MeantAt
<1>. HIDE DEF d
<1>4. Mean(d, P \ {j}, src)
  BY <1>2, <1>3 DEF Mean, Meant
<1>. QED
  BY <1>4 DEF d

LEMMA PlainsMean ==
  ASSUME NEW c, NEW P, NEW src, Mean(c, P, src), NEW opcodes \in Seq(PlainOpcode), NEW token \in Nat,
         NEW d, d = Emit(c, [i \in DOMAIN opcodes |-> Op(opcodes[i])], token)
  PROVE  Mean(d, P, src)
<1>1. PICK cells : cells = [i \in DOMAIN opcodes |-> Op(opcodes[i])]
  OBVIOUS
<1>2. Good(c, P, Constant)
  BY DEF Mean
<1>3. Good(d, P, Constant) /\ Later(c, d)
  BY <1>2, EmitPlainsGood, ZenonT(30)
<1>4. /\ cells \in Seq(Cell) /\ Len(cells) = Len(opcodes)
      /\ \A i \in 1 .. Len(opcodes) : cells[i].opcode = opcodes[i]
  BY <1>1, CellsOf, ZenonT(30)
<1>5. CASE d.narrowing_error
  BY <1>3, <1>5 DEF Mean
<1>6. CASE ~d.narrowing_error
  <2>1. ~c.narrowing_error
    BY <1>3, <1>6 DEF Later
  <2>2. c \in Chunks(Constant) /\ TokensParallel(c)
    BY <1>2, <2>1, SoundChunk
  <2>3. d = Emit(c, cells, token)
    BY <1>1
  <2>4. /\ Kept(c, d) /\ Size(d) = Size(c) + Len(cells)
        /\ \A i \in 1 .. Len(cells) : d.bytecode[Size(c) + i] = cells[i]
    <3>1. /\ Kept(c, Emit(c, cells, token)) /\ Size(Emit(c, cells, token)) = Size(c) + Len(cells)
          /\ \A i \in 1 .. Len(cells) : Emit(c, cells, token).bytecode[Size(c) + i] = cells[i]
      BY <1>4, <2>2, CellsWrote, ZenonT(30)
    <3>. QED
      BY <2>3, <3>1
  <2>5. ASSUME NEW p \in Size(c) .. Size(d) - 1
        PROVE  OpcodeAt(d, p) \notin ConstantOpcode
    <3>1. PICK i \in 1 .. Len(cells) : p + 1 = Size(c) + i
      <4>1. Size(c) \in Nat /\ Len(cells) \in Nat
        BY <1>4, <2>4 DEF Kept
      <4>2. p + 1 - Size(c) \in 1 .. Len(cells)
        BY <2>4, <2>5, <4>1
      <4>. QED
        BY <2>5, <4>1, <4>2
    <3>2. OpcodeAt(d, p) = opcodes[i] /\ opcodes[i] \in PlainOpcode
      BY <1>4, <2>4, <3>1 DEF OpcodeAt
    <3>. QED
      BY <3>2, ConstantOpcodes
  <2>. QED
    BY <1>3, <2>1, <2>4, <2>5, KeptMeans
<1>. QED
  BY <1>5, <1>6

-----------------------------------------------------------------------------
(* What the parts of the compiler refer to *)

(* The text is read on. *)
Grown(src, tt) ==
  /\ Len(src) \in Nat /\ Len(tt) \in Nat /\ Len(src) <= Len(tt)
  /\ \A i \in 1 .. Len(src) : tt[i] = src[i]

(* A waiting function knows the names it has read. *)
SpelledAt(names, token, src) ==
  \A j \in 1 .. Len(names) :
    token + j - 1 \in 1 .. Len(src) /\ src[token + j - 1].lexeme = names[j]
SpelledBy(k, src) == k.kind \in {"assignment", "var"} => SpelledAt(k.names, k.token, src)

LEMMA MeanGrows ==
  ASSUME NEW c, NEW P, NEW src, Mean(c, P, src), NEW tt, Grown(src, tt)
  PROVE  Mean(c, P, tt)
<1>1. ASSUME NEW p, MeantAt(c, src, p)
      PROVE  MeantAt(c, tt, p)
  <2>1. TokenAt(c, p) \in 1 .. Len(tt) /\ tt[TokenAt(c, p)] = src[TokenAt(c, p)]
    BY <1>1 DEF MeantAt, Grown
  <2>. QED
    BY <1>1, <2>1 DEF MeantAt
<1>. QED
  BY <1>1 DEF Mean, Meant

LEMMA SpelledGrows ==
  ASSUME NEW k, NEW src, SpelledBy(k, src), NEW tt, Grown(src, tt)
  PROVE  SpelledBy(k, tt)
<1>1. ASSUME NEW i \in 1 .. Len(src)
      PROVE  i \in 1 .. Len(tt) /\ tt[i] = src[i]
  BY DEF Grown
<1>. QED
  BY <1>1 DEF SpelledBy, SpelledAt

LEMMA EmitOperandMeans ==
  ASSUME NEW c, NEW P, NEW src, Mean(c, P, src),
         NEW t \in OperandTokens, NEW token \in 1 .. Len(src), src[token] = t
  PROVE  Mean(EmitOperand(c, t, token), P, src)
<1>1. t.kind \in {"number", "identifier", "fun", "nil", "true", "false"}
      /\ (t.kind = "identifier" => t.lexeme \in Lexeme)
  BY LexemeOK DEF OperandTokens
<1>2. /\ "constant" \in ConstantOpcode /\ "get_global" \in ConstantOpcode
      /\ "nil" \in PlainOpcode /\ "true_" \in PlainOpcode /\ "false_" \in PlainOpcode
  BY DEF ConstantOpcode, NameOpcode, PlainOpcode
<1>3. token \in Nat
  OBVIOUS
<1>4. CASE t.kind = "number"
  <2>1. Number \in Constant /\ Spells("constant", Number, src[token])
    BY <1>4, ConstantOK DEF Spells
  <2>2. EmitOperand(c, t, token) = EmitConstant(c, "constant", Number, token)
    BY <1>4 DEF EmitOperand
  <2>. QED
    BY <1>2, <2>1, <2>2, ConstantMeans
<1>5. CASE t.kind = "identifier"
  <2>1. Name(t.lexeme) \in Constant /\ Spells("get_global", Name(t.lexeme), src[token])
    BY <1>1, <1>5, ConstantOK DEF Spells
  <2>2. EmitOperand(c, t, token) = EmitConstant(c, "get_global", Name(t.lexeme), token)
    BY <1>5 DEF EmitOperand
  <2>. QED
    BY <1>2, <2>1, <2>2, ConstantMeans
<1>6. CASE t.kind = "fun"
  <2>1. NewFunction(token) \in Constant
    BY <1>3, ConstantOK
  <2>2. EmitOperand(c, t, token) = EmitClosure(c, NewFunction(token), <<>>, token)
    BY <1>6 DEF EmitOperand
  <2>. QED
    BY <1>3, <2>1, <2>2, ClosureMeans
<1>7. CASE t.kind \in {"nil", "true", "false"}
  <2>1. PICK opcode \in {"nil", "true_", "false_"} : EmitOperand(c, t, token) = EmitPlain(c, opcode, token)
    BY <1>7 DEF EmitOperand
  <2>. QED
    BY <1>2, <1>3, <2>1, PlainMeans
<1>. QED
  BY <1>1, <1>4, <1>5, <1>6, <1>7

LEMMA EmitAssignmentMeans ==
  ASSUME NEW c, NEW P, NEW src, Mean(c, P, src),
         NEW names \in Seq(Lexeme), Len(names) \in 1..3, NEW token \in Nat, SpelledAt(names, token, src)
  PROVE  Mean(EmitAssignment(c, names, token), P, src)
<1> DEFINE getter == EmitConstant(c, "get_global", Name(names[1]), token)
           last == Name(names[Len(names)])
           d == EmitAssignment(c, names, token)
<1>1. /\ "get_global" \in ConstantOpcode /\ "set_global" \in ConstantOpcode
      /\ "get_property" \in ConstantOpcode /\ "set_property" \in ConstantOpcode
  BY DEF ConstantOpcode, NameOpcode
<1>2. ASSUME NEW j \in 1 .. Len(names)
      PROVE  /\ token + j - 1 \in 1 .. Len(src) /\ Name(names[j]) \in Constant
             /\ \A opcode \in NameOpcode : Spells(opcode, Name(names[j]), src[token + j - 1])
  <2>1. "constant" \notin NameOpcode
    BY DEF NameOpcode
  <2>. QED
    BY <2>1, ConstantOK DEF SpelledAt, Spells
<1>3. \A opcode \in {"get_global", "set_global", "get_property", "set_property"} : opcode \in NameOpcode
  BY DEF NameOpcode
<1>4. /\ 1 \in 1 .. Len(names) /\ Len(names) \in 1 .. Len(names) /\ token + 1 - 1 = token
      /\ token + 2 - 1 = token + 1
  OBVIOUS
<1>5. /\ token \in 1 .. Len(src) /\ Name(names[1]) \in Constant
      /\ \A opcode \in NameOpcode : Spells(opcode, Name(names[1]), src[token])
  BY <1>2, <1>4
<1>6. /\ token + Len(names) - 1 \in 1 .. Len(src) /\ last \in Constant
      /\ \A opcode \in NameOpcode : Spells(opcode, last, src[token + Len(names) - 1])
  BY <1>2, <1>4
<1>7. Mean(getter, P, src)
  BY <1>1, <1>3, <1>5, ConstantMeans
<1>. HIDE DEF getter, last, d
<1>8. CASE Len(names) = 1
  <2>1. d = EmitConstant(c, "set_global", Name(names[1]), token)
    BY <1>8 DEF EmitAssignment, d
  <2>. QED
    BY <1>1, <1>3, <1>5, <2>1, ConstantMeans DEF d
<1>9. CASE Len(names) = 2
  <2>1. d = EmitConstant(getter, "set_property", last, token + Len(names) - 1)
    BY <1>9 DEF EmitAssignment, getter, last, d
  <2>. QED
    BY <1>1, <1>3, <1>6, <1>7, <2>1, ConstantMeans DEF d
<1>10. CASE Len(names) = 3
  <2> DEFINE property == EmitConstant(getter, "get_property", Name(names[2]), token + 1)
  <2>1. /\ token + 1 \in 1 .. Len(src) /\ Name(names[2]) \in Constant
        /\ Spells("get_property", Name(names[2]), src[token + 1])
    <3>1. 2 \in 1 .. Len(names)
      BY <1>10
    <3>. QED
      BY <1>2, <1>3, <1>4, <3>1
  <2>2. Mean(property, P, src)
    BY <1>1, <1>7, <2>1, ConstantMeans
  <2>3. d = EmitConstant(property, "set_property", last, token + Len(names) - 1)
    BY <1>10 DEF EmitAssignment, getter, last, d
  <2>. HIDE DEF property
  <2>. QED
    BY <1>1, <1>3, <1>6, <2>2, <2>3, ConstantMeans DEF d
<1>. QED
  BY <1>8, <1>9, <1>10

LEMMA EmitOperatorMeans ==
  ASSUME NEW c, NEW P, NEW src, Mean(c, P, src), NEW k, WaitingOK(k), k.kind \in OperatorKinds,
         JumpsOf(k) \subseteq P, SpelledBy(k, src)
  PROVE  \E R : Mean(EmitOperator(c, k), R, src)
<1>1. k.kind \in {"unary", "logical", "binary", "assignment"} /\ k.token \in Nat
  BY DEF OperatorKinds, WaitingOK
<1>2. CASE k.kind = "logical"
  <2>1. JumpsToPatch(k.kind, Len(k.parts)) = 1
    BY <1>2 DEF JumpsToPatch
  <2>2. JumpsOf(k) = {k.jumps[1]}
    BY <2>1, OneJump
  <2>3. EmitOperator(c, k) = ToNextOpcode(c, k.jumps[1])
    BY <1>2 DEF EmitOperator
  <2>. QED
    BY <2>2, <2>3, PatchMeans
<1>3. CASE k.kind = "unary"
  <2>1. PICK opcode \in {"negate", "not_"} : EmitOperator(c, k) = EmitPlain(c, opcode, k.token)
    BY <1>3 DEF EmitOperator
  <2>2. opcode \in PlainOpcode
    BY DEF PlainOpcode
  <2>. QED
    BY <1>1, <2>1, <2>2, PlainMeans
<1>4. CASE k.kind = "binary"
  <2>1. PICK opcodes : opcodes = Instructions[k.names[1]]
    OBVIOUS
  <2>2. EmitOperator(c, k) = Emit(c, [i \in DOMAIN opcodes |-> Op(opcodes[i])], k.token)
    BY <1>4, <2>1 DEF EmitOperator
  <2>3. opcodes \in Seq(PlainOpcode)
    <3>1. k.names[1] \in DOMAIN Instructions
      BY <1>4 DEF WaitingOK
    <3>2. PICK first \in {"equal", "less", "greater", "add", "subtract", "multiply", "divide"} :
            opcodes = <<first>> \/ opcodes = <<first, "not_">>
      BY <2>1, <3>1 DEF Instructions
    <3>3. first \in PlainOpcode /\ "not_" \in PlainOpcode
      BY DEF PlainOpcode
    <3>4. <<first>> \in Seq(PlainOpcode)
      BY <3>3
    <3>5. <<first, "not_">> \in Seq(PlainOpcode)
      BY <3>3
    <3>. QED
      BY <3>2, <3>4, <3>5
  <2>. QED
    BY <1>1, <2>2, <2>3, PlainsMean
<1>5. CASE k.kind = "assignment"
  <2>1. k.names \in Seq(Lexeme) /\ Len(k.names) \in 1..3 /\ SpelledAt(k.names, k.token, src)
    BY <1>5 DEF WaitingOK, SpelledBy
  <2>2. EmitOperator(c, k) = EmitAssignment(c, k.names, k.token)
    BY <1>5 DEF EmitOperator
  <2>. QED
    BY <1>1, <2>1, <2>2, EmitAssignmentMeans
<1>. QED
  BY <1>1, <1>2, <1>3, <1>4, <1>5

LEMMA ReturnMeans ==
  ASSUME NEW c, NEW P, NEW src, Mean(c, P, src), NEW token \in Nat
  PROVE  Mean(EmitPlain(EmitNothing(c, token), "return_", token), P, src)
<1>1. "return_" \in PlainOpcode /\ "nil" \in PlainOpcode /\ 0 \in Nat
  BY DEF PlainOpcode
<1>2. Mean(EmitNothing(c, token), P, src)
  BY <1>1, PlainMeans, IndexMeans DEF EmitNothing
<1>. QED
  BY <1>1, <1>2, PlainMeans

LEMMA EmitPopsMeans ==
  ASSUME tracked_locals \in Seq(Nat), NEW c, NEW P, NEW src, Mean(c, P, src), NEW token \in Nat
  PROVE  Mean(EmitPops(c, token), P, src)
<1>1. PICK m \in Nat : m = Len(tracked_locals) - Outer
  BY OuterType
<1>2. PICK opcodes : opcodes = [i \in 1 .. m |-> "pop"]
  OBVIOUS
<1>3. opcodes \in Seq(PlainOpcode) /\ DOMAIN opcodes = 1 .. m /\ \A i \in 1 .. m : opcodes[i] = "pop"
  BY <1>2 DEF PlainOpcode
<1>4. EmitPops(c, token) = Emit(c, [i \in DOMAIN opcodes |-> Op(opcodes[i])], token)
  BY <1>1, <1>3 DEF EmitPops
<1>. QED
  BY <1>3, <1>4, PlainsMean

-----------------------------------------------------------------------------
(* What the code and the waiting functions refer to *)

Spelled(ks, src) == \A i \in 1 .. Len(ks) : SpelledBy(ks[i], src)
Meanings == Meant(chunk, source) /\ Spelled(nesting, source)

MeaningStep == status = "compiling" /\ IInv /\ IInv' /\ Meanings

LEMMA MeaningFacts ==
  ASSUME MeaningStep
  PROVE  /\ Mean(chunk, PendingOf(nesting), source) /\ ~chunk.narrowing_error
         /\ Grown(source, source) /\ source \in Seq(TokenType) /\ Here \in Nat
         /\ IsSequence(nesting) /\ Len(nesting) \in Nat \ {0}
         /\ Compiles(chunk, nesting, expects.what) /\ tracked_locals \in Seq(Nat)
         /\ WaitingOK(Top) /\ Relies(chunk, Top) /\ JumpsOf(Top) \subseteq PendingOf(nesting)
         /\ Top.token \in Nat /\ SpelledBy(Top, source)
<1>1. /\ Compiles(chunk, nesting, expects.what) /\ source \in Seq(TokenType) /\ Here \in Nat
      /\ tracked_locals \in Seq(Nat)
  BY InvCompiles DEF MeaningStep, Rest
<1>2. /\ Good(chunk, PendingOf(nesting), Constant) /\ ~chunk.narrowing_error
      /\ IsSequence(nesting) /\ Len(nesting) \in Nat \ {0}
      /\ WaitingOK(Top) /\ Relies(chunk, Top) /\ JumpsOf(Top) \subseteq PendingOf(nesting)
      /\ Top.token \in Nat
  BY <1>1, CompilesFacts, TopFacts
<1>3. Mean(chunk, PendingOf(nesting), source)
  BY <1>2 DEF Mean, MeaningStep, Meanings
<1>4. Grown(source, source)
  BY <1>1 DEF Grown
<1>5. SpelledBy(Top, source)
  BY <1>2 DEF MeaningStep, Meanings, Spelled, Top
<1>. QED
  BY <1>1, <1>2, <1>3, <1>4, <1>5

LEMMA StepMeans ==
  ASSUME MeaningStep, Grown(source, source'), NEW R, Mean(chunk', R, source'),
         NEW m \in 0 .. Len(nesting), NEW k, SpelledBy(k, source'),
         nesting' = SubSeq(nesting, 1, m) \/ nesting' = Append(SubSeq(nesting, 1, m), k)
  PROVE  Meanings'
<1>1. IsSequence(nesting) /\ Len(nesting) \in Nat \ {0} /\ Spelled(nesting, source)
  BY MeaningFacts DEF MeaningStep, Meanings
<1>2. ~chunk'.narrowing_error
  BY DEF MeaningStep, IInv, CodeSound
<1>3. PICK T : nesting \in Seq(T)
  BY <1>1 DEF IsSequence
<1>4. PICK s : s = SubSeq(nesting, 1, m)
  OBVIOUS
<1>5. s \in Seq(T) /\ Len(s) = m /\ \A i \in 1 .. m : s[i] = nesting[i]
  BY <1>1, <1>3, <1>4
<1>6. Spelled(s, source')
  BY <1>1, <1>5, SpelledGrows DEF Spelled
<1>7. Spelled(nesting', source')
  <2>1. CASE nesting' = s
    BY <1>6, <2>1
  <2>2. CASE nesting' = Append(s, k)
    <3>1. Append(s, k) \in Seq(T \cup {k})
      BY <1>5
    <3>2. /\ Len(Append(s, k)) = m + 1 /\ Append(s, k)[m + 1] = k
          /\ \A i \in 1 .. m : Append(s, k)[i] = s[i]
      BY <1>5
    <3>3. \A i \in 1 .. m + 1 : i = m + 1 \/ i \in 1 .. m
      BY SMTT(40)
    <3>. QED
      BY <1>5, <1>6, <2>2, <3>2, <3>3 DEF Spelled
  <2>. QED
    BY <1>4, <2>1, <2>2
<1>. QED
  BY <1>2, <1>7 DEF Meanings, Mean

LEMMA SameMeans ==
  ASSUME MeaningStep, Grown(source, source'), NEW R, Mean(chunk', R, source'), nesting' = nesting
  PROVE  Meanings'
<1>1. IsSequence(nesting) /\ Len(nesting) \in Nat \ {0} /\ SpelledBy(Top, source)
  BY MeaningFacts
<1>2. SubSeq(nesting, 1, Len(nesting)) = nesting
  BY <1>1 DEF IsSequence
<1>3. Len(nesting) \in 0 .. Len(nesting) /\ SpelledBy(Top, source')
  BY <1>1, SpelledGrows
<1>. QED
  BY <1>2, <1>3, StepMeans

LEMMA PushMeans ==
  ASSUME MeaningStep, Grown(source, source'), NEW R, Mean(chunk', R, source'),
         NEW k, SpelledBy(k, source'), Push(k)
  PROVE  Meanings'
<1>1. IsSequence(nesting) /\ Len(nesting) \in Nat \ {0}
  BY MeaningFacts
<1>2. SubSeq(nesting, 1, Len(nesting)) = nesting
  BY <1>1 DEF IsSequence
<1>3. Len(nesting) \in 0 .. Len(nesting)
  BY <1>1
<1>. QED
  BY <1>2, <1>3, StepMeans DEF Push

LEMMA BelowMeans ==
  ASSUME MeaningStep, Grown(source, source'), NEW R, Mean(chunk', R, source'), nesting' = Below
  PROVE  Meanings'
<1>1. Len(nesting) - 1 \in 0 .. Len(nesting) /\ SpelledBy(Top, source')
  BY MeaningFacts, SpelledGrows
<1>. QED
  BY <1>1, StepMeans DEF Below

(* The innermost function goes on, with its names. *)
LEMMA ReplaceMeans ==
  ASSUME MeaningStep, Grown(source, source'), NEW R, Mean(chunk', R, source'),
         NEW k, k.kind = Top.kind, k.names = Top.names, k.token = Top.token, Replace(k)
  PROVE  Meanings'
<1>1. Len(nesting) - 1 \in 0 .. Len(nesting) /\ SpelledBy(Top, source')
  BY MeaningFacts, SpelledGrows
<1>2. SpelledBy(k, source')
  BY <1>1 DEF SpelledBy
<1>. QED
  BY <1>1, <1>2, StepMeans DEF Replace, Below

LEMMA ResumedSame ==
  ASSUME NEW k, WaitingOK(k), NEW node
  PROVE  LET r == Resumed(k, node)
         IN  r.kind = k.kind /\ r.names = k.names /\ r.token = k.token
<1>1. DOMAIN k = {"kind", "level", "token", "from", "parts", "names", "jumps", "begins", "count"}
  BY DEF WaitingOK
<1>. QED
  BY <1>1 DEF Resumed

LEMMA AddMeans ==
  ASSUME MeaningStep, Grown(source, source'), NEW R, Mean(chunk', R, source'), NEW node, Add(node)
  PROVE  Meanings'
<1>1. PICK r : r = Resumed(Top, node)
  OBVIOUS
<1>2. r.kind = Top.kind /\ r.names = Top.names /\ r.token = Top.token
  BY <1>1, MeaningFacts, ResumedSame
<1>. QED
  BY <1>1, <1>2, ReplaceMeans DEF Add

LEMMA CompleteMeans ==
  ASSUME MeaningStep, Grown(source, source'), NEW R, Mean(chunk', R, source'),
         NEW node, Complete(node), Len(nesting) > 1
  PROVE  Meanings'
<1>1. Compiles(chunk, nesting, expects.what) /\ Len(nesting) \in Nat
  BY MeaningFacts
<1>2. WaitingOK(Owner) /\ SpelledBy(Owner, source')
  <2>1. Len(nesting) - 1 \in 1 .. Len(nesting)
    BY <1>1
  <2>2. WaitingOK(Owner) /\ SpelledBy(Owner, source)
    BY <1>1, <2>1 DEF Compiles, Owner, MeaningStep, Meanings, Spelled
  <2>. QED
    BY <2>2, SpelledGrows
<1>3. PICK r : r = Resumed(Owner, node)
  OBVIOUS
<1>4. r.kind = Owner.kind /\ r.names = Owner.names /\ r.token = Owner.token
  BY <1>2, <1>3, ResumedSame
<1>5. SpelledBy(r, source')
  BY <1>2, <1>4 DEF SpelledBy
<1>6. Len(nesting) - 2 \in 0 .. Len(nesting)
  BY <1>1
<1>. QED
  BY <1>3, <1>5, <1>6, StepMeans DEF Complete

(* A statement that is over is no unit: another function waits for it. *)
LEMMA OwnerWaits ==
  ASSUME MeaningStep, Top.kind # "unit"
  PROVE  Len(nesting) > 1
<1>1. Compiles(chunk, nesting, expects.what) /\ Len(nesting) \in Nat \ {0}
  BY MeaningFacts
<1>2. Len(nesting) # 1
  BY <1>1 DEF Compiles, Top
<1>. QED
  BY <1>1, <1>2

LEMMA ReadGrows ==
  ASSUME source \in Seq(TokenType), NEW tokens, IsSequence(tokens), Read(tokens)
  PROVE  /\ Grown(source, source') /\ Len(source') = Len(source) + Len(tokens)
         /\ \A i \in 1 .. Len(tokens) : source'[Len(source) + i] = tokens[i]
<1>1. PICK T : tokens \in Seq(T)
  BY DEF IsSequence
<1>2. PICK U : U = TokenType \cup T
  OBVIOUS
<1>3. source \in Seq(U) /\ tokens \in Seq(U)
  BY <1>1, <1>2
<1>4. /\ Len(source) \in Nat /\ Len(tokens) \in Nat /\ Len(source \o tokens) = Len(source) + Len(tokens)
      /\ \A i \in 1 .. Len(source) : (source \o tokens)[i] = source[i]
      /\ \A i \in 1 .. Len(tokens) : (source \o tokens)[Len(source) + i] = tokens[i]
  BY <1>3, Concatenated
<1>5. source' = source \o tokens
  BY DEF Read
<1>6. Grown(source, source')
  BY <1>4, <1>5 DEF Grown
<1>. QED
  BY <1>4, <1>5, <1>6

LEMMA ReadOneGrows ==
  ASSUME source \in Seq(TokenType), NEW t, Read(<<t>>)
  PROVE  /\ Grown(source, source') /\ Here \in 1 .. Len(source') /\ source'[Here] = t
<1>1. PICK tokens : tokens = <<t>>
  OBVIOUS
<1>2. tokens \in Seq({t}) /\ Len(tokens) = 1 /\ tokens[1] = t
  BY <1>1
<1>3. IsSequence(tokens)
  BY <1>2, IsSequenceOf
<1>a. Read(tokens)
  BY <1>1
<1>b. /\ Grown(source, source') /\ Len(source') = Len(source) + Len(tokens)
      /\ \A i \in 1 .. Len(tokens) : source'[Len(source) + i] = tokens[i]
  BY <1>3, <1>a, ReadGrows
<1>c. 1 \in 1 .. Len(tokens)
  BY <1>2
<1>4. /\ Grown(source, source') /\ Len(source') = Len(source) + 1
      /\ source'[Len(source) + 1] = t
  BY <1>2, <1>b, <1>c
<1>5. Len(source) \in Nat
  OBVIOUS
<1>. QED
  BY <1>4, <1>5 DEF Here

-----------------------------------------------------------------------------
(* Expressions *)

LEMMA ReadOneMeans ==
  ASSUME MeaningStep, NEW t, Read(<<t>>)
  PROVE  /\ Grown(source, source') /\ Here \in 1 .. Len(source') /\ source'[Here] = t
         /\ Mean(chunk, PendingOf(nesting), source')
<1>1. Mean(chunk, PendingOf(nesting), source) /\ source \in Seq(TokenType)
  BY MeaningFacts
<1>2. Grown(source, source') /\ Here \in 1 .. Len(source') /\ source'[Here] = t
  BY <1>1, ReadOneGrows
<1>. QED
  BY <1>1, <1>2, MeanGrows

LEMMA SilentMeans ==
  ASSUME MeaningStep, source' = source
  PROVE  Grown(source, source') /\ Mean(chunk, PendingOf(nesting), source')
<1>. QED
  BY MeaningFacts

LEMMA OperandMeans ==
  ASSUME MeaningStep, Operand
  PROVE  Meanings'
<1>1. PICK t \in OperandTokens : Read(<<t>>) /\ chunk' = EmitOperand(chunk, t, Here)
  BY DEF Operand, Emitted
<1>2. nesting' = nesting
  BY DEF Operand
<1>3. PICK here : here = Here
  OBVIOUS
<1>4. /\ Grown(source, source') /\ here \in 1 .. Len(source') /\ source'[here] = t
      /\ Mean(chunk, PendingOf(nesting), source')
  BY <1>1, <1>3, ReadOneMeans
<1>5. Mean(chunk', PendingOf(nesting), source')
  BY <1>1, <1>3, <1>4, EmitOperandMeans
<1>. QED
  BY <1>2, <1>4, <1>5, SameMeans

LEMMA PrefixMeans ==
  ASSUME MeaningStep, Prefix
  PROVE  Meanings'
<1>1. PICK t, k : Read(<<t>>) /\ Push(k) /\ k.kind \in {"unary", "group"}
  <2>1. CASE \E lexeme \in {"minus", "bang"} :
               /\ Read(<<Token("unary", lexeme)>>)
               /\ Push(WaitingOperator("unary", UnaryLevel, <<lexeme>>))
    <3>1. PICK lexeme : /\ Read(<<Token("unary", lexeme)>>)
                        /\ Push(WaitingOperator("unary", UnaryLevel, <<lexeme>>))
      BY <2>1
    <3>2. WaitingOperator("unary", UnaryLevel, <<lexeme>>).kind = "unary"
      BY DEF WaitingOperator, Waiting
    <3>. QED
      BY <3>1, <3>2
  <2>2. CASE Read(<<Token("left_paren", "none")>>) /\ Push(Waiting("group", -1, Here, Here))
    <3>1. Waiting("group", -1, Here, Here).kind = "group"
      BY DEF Waiting
    <3>. QED
      BY <2>2, <3>1
  <2>. QED
    BY <2>1, <2>2 DEF Prefix
<1>2. chunk' = chunk
  BY DEF Prefix
<1>3. Grown(source, source') /\ Mean(chunk', PendingOf(nesting), source')
  BY <1>1, <1>2, ReadOneMeans
<1>4. SpelledBy(k, source')
  BY <1>1 DEF SpelledBy
<1>. QED
  BY <1>1, <1>3, <1>4, PushMeans

(* The names of a target are the lexemes of the tokens read. *)
LEMMA AssignmentMeans ==
  ASSUME MeaningStep, Assignment
  PROVE  Meanings'
<1>1. source \in Seq(TokenType) /\ Len(source) \in Nat /\ Here = Len(source) + 1
      /\ Mean(chunk, PendingOf(nesting), source)
  BY MeaningFacts DEF Here
<1>2. chunk' = chunk
  BY DEF Assignment
<1>3. CASE \E name \in Names :
             /\ Read(<<Token("set", name)>>)
             /\ Push(WaitingOperator("assignment", AssignmentLevel, <<name>>))
  <2>1. PICK name \in Names :
             /\ Read(<<Token("set", name)>>)
             /\ Push(WaitingOperator("assignment", AssignmentLevel, <<name>>))
    BY <1>3
  <2>2. PICK k : k = WaitingOperator("assignment", AssignmentLevel, <<name>>)
    OBVIOUS
  <2>3. k.names = <<name>> /\ k.token = Here
    BY <2>2 DEF WaitingOperator, Waiting
  <2>4. PICK t : t = Token("set", name)
    OBVIOUS
  <2>5. /\ Grown(source, source') /\ Here \in 1 .. Len(source') /\ source'[Here] = t
        /\ Mean(chunk, PendingOf(nesting), source')
    BY <2>1, <2>4, ReadOneMeans
  <2>6. t.lexeme = name
    BY <2>4 DEF Token
  <2>7. SpelledAt(<<name>>, Here, source')
    <3>1. Len(<<name>>) = 1 /\ <<name>>[1] = name /\ Here + 1 - 1 = Here
      BY <1>1
    <3>. QED
      BY <2>5, <2>6, <3>1 DEF SpelledAt
  <2>8. SpelledBy(k, source')
    BY <2>3, <2>7 DEF SpelledBy
  <2>. QED
    BY <1>2, <2>1, <2>2, <2>5, <2>8, PushMeans
<1>4. CASE \E fields \in 1..unit.max_fields, name, field \in Names :
             /\ Read(<<Token("put", name)>> \o [i \in 1..fields |-> Token("field", field)])
             /\ Push(WaitingOperator("assignment", AssignmentLevel,
                                     <<name>> \o [i \in 1..fields |-> field]))
  <2>1. PICK fields \in 1..unit.max_fields, name, field \in Names :
             /\ Read(<<Token("put", name)>> \o [i \in 1..fields |-> Token("field", field)])
             /\ Push(WaitingOperator("assignment", AssignmentLevel,
                                     <<name>> \o [i \in 1..fields |-> field]))
    BY <1>4
  <2>2. PICK names, tokens, k :
          /\ names = <<name>> \o [i \in 1..fields |-> field]
          /\ tokens = <<Token("put", name)>> \o [i \in 1..fields |-> Token("field", field)]
          /\ k = WaitingOperator("assignment", AssignmentLevel, names)
    OBVIOUS
  <2>3. k.names = names /\ k.token = Here
    BY <2>2 DEF WaitingOperator, Waiting
  <2>4. fields \in Nat
    BY FlowAssumption, <2>1 DEF MeaningStep, IInv, FlowTypeOK
  <2>5. /\ IsSequence(tokens) /\ Len(tokens) = fields + 1 /\ Len(names) = fields + 1
        /\ \A i \in 1 .. fields + 1 : tokens[i].lexeme = names[i]
    <3>1. PICK put, token : put = Token("put", name) /\ token = Token("field", field)
      OBVIOUS
    <3>2. put.lexeme = name /\ token.lexeme = field
      BY <3>1 DEF Token
    <3>3. PICK ts, ns : ts = [i \in 1..fields |-> token] /\ ns = [i \in 1..fields |-> field]
      OBVIOUS
    <3>4. /\ ts \in Seq({put, token}) /\ Len(ts) = fields /\ \A i \in 1..fields : ts[i] = token
          /\ ns \in Seq({name, field}) /\ Len(ns) = fields /\ \A i \in 1..fields : ns[i] = field
      BY <2>4, <3>3
    <3>5. <<put>> \in Seq({put, token}) /\ Len(<<put>>) = 1 /\ <<put>>[1] = put
      OBVIOUS
    <3>6. <<name>> \in Seq({name, field}) /\ Len(<<name>>) = 1 /\ <<name>>[1] = name
      OBVIOUS
    <3>7. tokens = <<put>> \o ts /\ names = <<name>> \o ns
      BY <2>2, <3>1, <3>3
    <3>8. /\ tokens \in Seq({put, token}) /\ Len(tokens) = fields + 1 /\ tokens[1] = put
          /\ \A i \in 1..fields : tokens[1 + i] = token
      <4>1. PICK one : one = <<put>>
        OBVIOUS
      <4>2. /\ Len(one \o ts) = Len(one) + Len(ts)
            /\ \A i \in 1 .. Len(one) : (one \o ts)[i] = one[i]
            /\ \A i \in 1 .. Len(ts) : (one \o ts)[Len(one) + i] = ts[i]
            /\ one \o ts \in Seq({put, token})
        BY <3>4, <3>5, <4>1, Concatenated
      <4>. QED
        BY <2>4, <3>4, <3>5, <3>7, <4>1, <4>2
    <3>9. /\ Len(names) = fields + 1 /\ names[1] = name
          /\ \A i \in 1..fields : names[1 + i] = field
      <4>1. PICK one : one = <<name>>
        OBVIOUS
      <4>2. /\ Len(one \o ns) = Len(one) + Len(ns)
            /\ \A i \in 1 .. Len(one) : (one \o ns)[i] = one[i]
            /\ \A i \in 1 .. Len(ns) : (one \o ns)[Len(one) + i] = ns[i]
        BY <3>4, <3>6, <4>1, Concatenated
      <4>. QED
        BY <2>4, <3>4, <3>6, <3>7, <4>1, <4>2
    <3>10. ASSUME NEW i \in 1 .. fields + 1
           PROVE  tokens[i].lexeme = names[i]
      <4>1. CASE i = 1
        BY <3>2, <3>8, <3>9, <4>1
      <4>2. CASE i # 1
        <5>1. i - 1 \in 1 .. fields /\ 1 + (i - 1) = i
          BY <2>4, <4>2
        <5>2. tokens[i] = token /\ names[i] = field
          BY <3>8, <3>9, <5>1
        <5>. QED
          BY <3>2, <5>2
      <4>. QED
        BY <4>1, <4>2
    <3>. QED
      BY <3>8, <3>9, <3>10, IsSequenceOf
  <2>6. Read(tokens) /\ Push(k)
    BY <2>1, <2>2
  <2>7. /\ Grown(source, source') /\ Len(source') = Len(source) + Len(tokens)
        /\ \A i \in 1 .. Len(tokens) : source'[Len(source) + i] = tokens[i]
    BY <1>1, <2>5, <2>6, ReadGrows
  <2>8. SpelledAt(names, Here, source')
    <3>1. ASSUME NEW j \in 1 .. Len(names)
          PROVE  Here + j - 1 \in 1 .. Len(source') /\ source'[Here + j - 1].lexeme = names[j]
      <4>1. j \in 1 .. fields + 1 /\ j \in 1 .. Len(tokens)
        BY <2>5
      <4>2. Here + j - 1 = Len(source) + j /\ Len(source) + j \in 1 .. Len(source')
        BY <1>1, <2>7, <4>1
      <4>3. source'[Len(source) + j] = tokens[j]
        BY <2>7, <4>1
      <4>. QED
        BY <2>5, <4>1, <4>2, <4>3
    <3>. QED
      BY <3>1 DEF SpelledAt
  <2>9. SpelledBy(k, source')
    BY <2>3, <2>8 DEF SpelledBy
  <2>10. Mean(chunk', PendingOf(nesting), source')
    BY <1>1, <1>2, <2>7, MeanGrows
  <2>. QED
    BY <2>6, <2>7, <2>9, <2>10, PushMeans
<1>. QED
  BY <1>3, <1>4 DEF Assignment

LEMMA FinishOperatorMeans ==
  ASSUME MeaningStep, FinishOperator
  PROVE  Meanings'
<1>1. /\ Top.level >= 0 /\ chunk' = EmitOperator(chunk, Top) /\ nesting' = Below /\ source' = source
  BY DEF FinishOperator, Emitted
<1>2. Grown(source, source') /\ Mean(chunk, PendingOf(nesting), source')
  BY <1>1, SilentMeans
<1>3. WaitingOK(Top) /\ JumpsOf(Top) \subseteq PendingOf(nesting) /\ SpelledBy(Top, source')
  BY <1>2, MeaningFacts, SpelledGrows
<1>4. Top.kind \in OperatorKinds
  BY <1>1, <1>3 DEF WaitingOK
<1>5. PICK R : Mean(chunk', R, source')
  BY <1>1, <1>2, <1>3, <1>4, EmitOperatorMeans
<1>. QED
  BY <1>1, <1>2, <1>5, BelowMeans

LEMMA AccessPropertyMeans ==
  ASSUME MeaningStep, AccessProperty
  PROVE  Meanings'
<1>1. PICK name \in Names :
        /\ Read(<<Token("property", name)>>)
        /\ chunk' = EmitConstant(chunk, "get_property", Name(name), Here)
  BY DEF AccessProperty, Emitted
<1>2. nesting' = nesting
  BY DEF AccessProperty
<1>3. PICK here, t : here = Here /\ t = Token("property", name)
  OBVIOUS
<1>4. /\ Grown(source, source') /\ here \in 1 .. Len(source') /\ source'[here] = t
      /\ Mean(chunk, PendingOf(nesting), source')
  BY <1>1, <1>3, ReadOneMeans
<1>5. t.lexeme = name
  BY <1>3 DEF Token
<1>6. Name(name) \in Constant /\ "get_property" \in ConstantOpcode
  BY LexemeOK, ConstantOK DEF ConstantOpcode, NameOpcode
<1>7. Spells("get_property", Name(name), source'[here])
  BY <1>4, <1>5 DEF Spells
<1>8. Mean(chunk', PendingOf(nesting), source')
  BY <1>1, <1>3, <1>4, <1>6, <1>7, ConstantMeans
<1>. QED
  BY <1>2, <1>4, <1>8, SameMeans

LEMMA ShortCircuitMeans ==
  ASSUME NEW c, NEW P, NEW src, Mean(c, P, src), NEW token \in Nat
  PROVE  LET tested == EmitJump(c, "jump_if_false", token)
             skipped == EmitJump(tested, "jump", token)
         IN  /\ \E R : Mean(EmitPlain(tested, "pop", token), R, src)
             /\ \E R : Mean(EmitPlain(ToNextOpcode(skipped, Size(tested)), "pop", token), R, src)
<1> DEFINE tested == EmitJump(c, "jump_if_false", token)
           skipped == EmitJump(tested, "jump", token)
           patched == ToNextOpcode(skipped, Size(tested))
           Q == P \cup {Size(tested)}
           R == Q \cup {Size(skipped)}
<1>1. Mean(tested, Q, src)
  BY JumpMeans
<1>2. "pop" \in PlainOpcode
  BY DEF PlainOpcode
<1>. HIDE DEF tested
<1>3. Mean(skipped, R, src)
  <2>. HIDE DEF Q
  <2>. QED
    BY <1>1, JumpMeans
<1>4. Size(tested) \in R
  OBVIOUS
<1>. HIDE DEF skipped, Q, R
<1>5. Mean(patched, R \ {Size(tested)}, src)
  BY <1>3, <1>4, PatchMeans
<1>. HIDE DEF patched
<1>6. Mean(EmitPlain(patched, "pop", token), R \ {Size(tested)}, src)
  BY <1>2, <1>5, PlainMeans
<1>7. Mean(EmitPlain(tested, "pop", token), Q, src)
  BY <1>1, <1>2, PlainMeans
<1>. QED
  BY <1>6, <1>7 DEF tested, skipped, patched

LEMMA BinaryOperatorMeans ==
  ASSUME MeaningStep, BinaryOperator
  PROVE  Meanings'
<1> DEFINE tested == EmitJump(chunk, "jump_if_false", Here)
           skipped == EmitJump(tested, "jump", Here)
           conjunction == EmitPlain(tested, "pop", Here)
           disjunction == EmitPlain(ToNextOpcode(skipped, Size(tested)), "pop", Here)
           operator(kind, lexeme) == WaitingOperator(kind, Level[lexeme], <<lexeme>>)
<1>1. PICK lexeme \in unit.operators :
        /\ Read(<<Token("binary", lexeme)>>)
        /\ CASE lexeme = "and" ->
                 /\ Emitted(conjunction)
                 /\ Push([operator("logical", lexeme) EXCEPT !.jumps = <<Size(tested)>>])
            [] lexeme = "or" ->
                 /\ Emitted(disjunction)
                 /\ Push([operator("logical", lexeme) EXCEPT !.jumps = <<Size(skipped)>>])
            [] lexeme \notin {"and", "or"} -> KeepsCode /\ Push(operator("binary", lexeme))
  BY DEF BinaryOperator
<1>2. /\ Grown(source, source') /\ Mean(chunk, PendingOf(nesting), source') /\ Here \in Nat
  BY <1>1, ReadOneMeans, MeaningFacts
<1>3. (\E R : Mean(conjunction, R, source')) /\ (\E R : Mean(disjunction, R, source'))
  BY <1>2, ShortCircuitMeans
<1>4. ASSUME NEW jumps
      PROVE  [operator("logical", lexeme) EXCEPT !.jumps = jumps].kind = "logical"
  BY DEF WaitingOperator, Waiting
<1>5. operator("binary", lexeme).kind = "binary"
  BY DEF WaitingOperator, Waiting
<1>. HIDE DEF conjunction, disjunction, operator
<1>6. PICK k : Push(k) /\ k.kind \in {"logical", "binary"}
  BY <1>1, <1>4, <1>5
<1>7. \E R : Mean(chunk', R, source')
  <2>1. CASE lexeme = "and"
    BY <1>1, <1>3, <2>1 DEF Emitted
  <2>2. CASE lexeme = "or"
    BY <1>1, <1>3, <2>2 DEF Emitted
  <2>3. CASE lexeme \notin {"and", "or"}
    BY <1>1, <1>2, <2>3 DEF KeepsCode
  <2>. QED
    BY <2>1, <2>2, <2>3
<1>8. SpelledBy(k, source')
  BY <1>6 DEF SpelledBy
<1>. QED
  BY <1>2, <1>6, <1>7, <1>8, PushMeans

LEMMA OpenCallMeans ==
  ASSUME MeaningStep, OpenCall
  PROVE  Meanings'
<1>1. CASE /\ Read(<<Token("call", "none"), Token("right_paren", "none")>>)
           /\ Emitted(EmitIndex(chunk, "call", 0, expects.callee))
           /\ UNCHANGED nesting
  <2>1. PICK tokens : tokens = <<Token("call", "none"), Token("right_paren", "none")>>
    OBVIOUS
  <2>2. IsSequence(tokens)
    <3>1. tokens \in Seq({Token("call", "none"), Token("right_paren", "none")})
      BY <2>1
    <3>. QED
      BY <3>1, IsSequenceOf
  <2>3. Read(tokens)
    BY <1>1, <2>1
  <2>4. Grown(source, source')
    BY <2>2, <2>3, ReadGrows, MeaningFacts
  <2>5. Mean(chunk, PendingOf(nesting), source')
    BY <2>4, MeanGrows, MeaningFacts
  <2>6. expects.callee \in Nat /\ 0 \in Nat
    BY DEF MeaningStep, IInv, FlowTypeOK
  <2>7. Mean(chunk', PendingOf(nesting), source')
    BY <1>1, <2>5, <2>6, IndexMeans DEF Emitted
  <2>. QED
    BY <1>1, <2>4, <2>7, SameMeans
<1>2. CASE /\ Read(<<Token("call", "none")>>)
           /\ Push([Waiting("call", -1, expects.callee, Here) EXCEPT !.count = 1])
           /\ KeepsCode
  <2>1. PICK k : k = [Waiting("call", -1, expects.callee, Here) EXCEPT !.count = 1]
    OBVIOUS
  <2>2. k.kind = "call"
    BY <2>1 DEF Waiting
  <2>3. SpelledBy(k, source')
    BY <2>2 DEF SpelledBy
  <2>4. Grown(source, source') /\ Mean(chunk', PendingOf(nesting), source')
    BY <1>2, ReadOneMeans DEF KeepsCode
  <2>. QED
    BY <1>2, <2>1, <2>3, <2>4, PushMeans
<1>. QED
  BY <1>1, <1>2 DEF OpenCall

LEMMA NextArgumentMeans ==
  ASSUME MeaningStep, NextArgument
  PROVE  Meanings'
<1>1. PICK k : k = [Top EXCEPT !.count = @ + 1]
  OBVIOUS
<1>2. Replace(k) /\ Read(<<Token("comma", "none")>>) /\ chunk' = chunk
  BY <1>1 DEF NextArgument, KeepsCode
<1>3. DOMAIN Top = {"kind", "level", "token", "from", "parts", "names", "jumps", "begins", "count"}
  BY MeaningFacts DEF WaitingOK
<1>4. k.kind = Top.kind /\ k.names = Top.names /\ k.token = Top.token
  BY <1>1, <1>3
<1>5. Grown(source, source') /\ Mean(chunk', PendingOf(nesting), source')
  BY <1>2, ReadOneMeans
<1>. QED
  BY <1>2, <1>4, <1>5, ReplaceMeans

LEMMA CloseParenthesisMeans ==
  ASSUME MeaningStep, CloseParenthesis
  PROVE  Meanings'
<1>1. /\ Read(<<Token("right_paren", "none")>>) /\ nesting' = Below
      /\ chunk' = chunk \/ chunk' = EmitIndex(chunk, "call", Top.count, Top.token)
  BY DEF CloseParenthesis, Emitted, KeepsCode
<1>2. Grown(source, source') /\ Mean(chunk, PendingOf(nesting), source')
  BY <1>1, ReadOneMeans
<1>3. Top.count \in Nat /\ Top.token \in Nat
  BY MeaningFacts DEF WaitingOK
<1>4. Mean(chunk', PendingOf(nesting), source')
  BY <1>1, <1>2, <1>3, IndexMeans
<1>. QED
  BY <1>1, <1>2, <1>4, BelowMeans

LEMMA ExpressionMeans ==
  ASSUME MeaningStep, CompileExpression
  PROVE  Meanings'
<1>. QED
  BY OperandMeans, PrefixMeans, AssignmentMeans, BinaryOperatorMeans, FinishOperatorMeans,
     AccessPropertyMeans, OpenCallMeans, NextArgumentMeans, CloseParenthesisMeans
  DEF CompileExpression

-----------------------------------------------------------------------------
(* Statements *)

LEMMA BeginWithExpressionMeans ==
  ASSUME MeaningStep, BeginWithExpression
  PROVE  Meanings'
<1>1. PICK kind \in {"expression", "print", "return", "var", "if", "while"},
           name \in Names \cup {"none"} :
        /\ Read(IF kind = "expression" THEN <<>> ELSE <<Token(kind, name)>>)
        /\ Push([Waiting(kind, -1, Here, Here + Len(IF kind = "expression" THEN <<>> ELSE <<Token(kind, name)>>))
                  EXCEPT !.names = <<name>>,
                         !.begins = IF kind = "while" THEN <<Size(chunk)>> ELSE <<>>])
  BY DEF BeginWithExpression
<1>2. chunk' = chunk
  BY DEF BeginWithExpression
<1>3. PICK k : /\ Push(k)
               /\ k.kind = kind /\ k.names = <<name>> /\ k.token = Here
  <2>1. PICK from, begins :
          /\ from = Here + Len(IF kind = "expression" THEN <<>> ELSE <<Token(kind, name)>>)
          /\ begins = IF kind = "while" THEN <<Size(chunk)>> ELSE <<>>
    OBVIOUS
  <2>2. PICK k : k = [Waiting(kind, -1, Here, from) EXCEPT !.names = <<name>>, !.begins = begins]
    OBVIOUS
  <2>3. Push(k)
    BY <1>1, <2>1, <2>2
  <2>4. k.kind = kind /\ k.names = <<name>> /\ k.token = Here
    BY <2>2 DEF Waiting
  <2>. QED
    BY <2>3, <2>4
<1>4. CASE kind = "expression"
  <2>1. Read(<<>>)
    BY <1>1, <1>4
  <2>2. IsSequence(<<>>)
    BY DEF IsSequence
  <2>3. Grown(source, source')
    <3>1. PICK tokens : tokens = <<>>
      OBVIOUS
    <3>2. IsSequence(tokens) /\ Read(tokens)
      BY <2>1, <2>2, <3>1
    <3>. QED
      BY <3>2, ReadGrows, MeaningFacts
  <2>4. Mean(chunk', PendingOf(nesting), source')
    BY <1>2, <2>3, MeanGrows, MeaningFacts
  <2>5. SpelledBy(k, source')
    BY <1>3, <1>4 DEF SpelledBy
  <2>. QED
    BY <1>3, <2>3, <2>4, <2>5, PushMeans
<1>5. CASE kind # "expression"
  <2>1. PICK t, here : t = Token(kind, name) /\ here = Here
    OBVIOUS
  <2>2. Read(<<t>>)
    BY <1>1, <1>5, <2>1
  <2>3. /\ Grown(source, source') /\ here \in 1 .. Len(source') /\ source'[here] = t
        /\ Mean(chunk, PendingOf(nesting), source')
    BY <2>1, <2>2, ReadOneMeans
  <2>4. t.lexeme = name
    BY <2>1 DEF Token
  <2>5. SpelledAt(<<name>>, here, source')
    <3>1. Len(<<name>>) = 1 /\ <<name>>[1] = name /\ here + 1 - 1 = here
      BY <2>3
    <3>. QED
      BY <2>3, <2>4, <3>1 DEF SpelledAt
  <2>6. SpelledBy(k, source')
    BY <1>3, <2>1, <2>5 DEF SpelledBy
  <2>. QED
    BY <1>2, <1>3, <2>3, <2>6, PushMeans
<1>. QED
  BY <1>4, <1>5

LEMMA EndWithExpressionMeans ==
  ASSUME MeaningStep, EndWithExpression
  PROVE  Meanings'
<1>1. /\ Top.kind \in {"expression", "print", "return", "var"} /\ source' = source
      /\ \E node : Complete(node)
      /\ \/ chunk' = chunk
         \/ chunk' = EmitPlain(chunk, "pop", Top.token)
         \/ chunk' = EmitPlain(chunk, "print", Top.token)
         \/ chunk' = EmitPlain(chunk, "return_", Top.token)
         \/ /\ Top.kind = "var"
            /\ chunk' = EmitConstant(chunk, "define_global", Name(Top.names[1]), Top.token)
  BY DEF EndWithExpression, Emitted, KeepsCode
<1>2. Grown(source, source') /\ Mean(chunk, PendingOf(nesting), source')
  BY <1>1, SilentMeans
<1>3. Top.token \in Nat /\ SpelledBy(Top, source') /\ WaitingOK(Top)
  BY <1>2, MeaningFacts, SpelledGrows
<1>4. "pop" \in PlainOpcode /\ "print" \in PlainOpcode /\ "return_" \in PlainOpcode
  BY DEF PlainOpcode
<1>5. Mean(chunk', PendingOf(nesting), source')
  <2>1. CASE Top.kind = "var" /\ chunk' = EmitConstant(chunk, "define_global", Name(Top.names[1]), Top.token)
    <3>1. PICK names, token : names = Top.names /\ token = Top.token
      OBVIOUS
    <3>2. /\ names \in Seq(Lexeme) /\ Len(names) = 1 /\ token \in Nat
          /\ SpelledAt(names, token, source')
      BY <1>3, <2>1, <3>1 DEF WaitingOK, SpelledBy
    <3>3. 1 \in 1 .. Len(names) /\ token + 1 - 1 = token /\ names[1] \in Lexeme
      BY <3>2
    <3>4. token \in 1 .. Len(source') /\ source'[token].lexeme = names[1]
      BY <3>2, <3>3 DEF SpelledAt
    <3>5. Name(names[1]) \in Constant /\ "define_global" \in ConstantOpcode
      BY <3>3, ConstantOK DEF ConstantOpcode, NameOpcode
    <3>6. Spells("define_global", Name(names[1]), source'[token])
      BY <3>4 DEF Spells
    <3>. QED
      BY <1>2, <2>1, <3>1, <3>4, <3>5, <3>6, ConstantMeans
  <2>. QED
    BY <1>1, <1>2, <1>3, <1>4, <2>1, PlainMeans
<1>6. Len(nesting) > 1
  BY <1>1, OwnerWaits
<1>. QED
  BY <1>1, <1>2, <1>5, <1>6, CompleteMeans

LEMMA DeclareMeans ==
  ASSUME MeaningStep, Declare
  PROVE  Meanings'
<1>1. PICK kind \in {"var", "function"}, name \in Names : \E made :
        /\ made = IF kind = "var" THEN EmitPlain(chunk, "nil", Here)
                  ELSE EmitClosure(chunk, NewFunction(Here), <<>>, Here)
        /\ Read(<<Token(IF kind = "var" THEN "var" ELSE "fun", name)>>)
        /\ chunk' = made \/ chunk' = EmitConstant(made, "define_global", Name(name), Here)
        /\ \E node : Add(node)
  BY DEF Declare, Emitted
<1>a. PICK made :
        /\ made = IF kind = "var" THEN EmitPlain(chunk, "nil", Here)
                  ELSE EmitClosure(chunk, NewFunction(Here), <<>>, Here)
        /\ Read(<<Token(IF kind = "var" THEN "var" ELSE "fun", name)>>)
        /\ chunk' = made \/ chunk' = EmitConstant(made, "define_global", Name(name), Here)
        /\ \E node : Add(node)
  BY <1>1
<1>2. PICK t, here : t = Token(IF kind = "var" THEN "var" ELSE "fun", name) /\ here = Here
  OBVIOUS
<1>3. /\ Grown(source, source') /\ here \in 1 .. Len(source') /\ source'[here] = t /\ here \in Nat
      /\ Mean(chunk, PendingOf(nesting), source')
  BY <1>a, <1>2, ReadOneMeans, MeaningFacts
<1>4. t.lexeme = name
  BY <1>2 DEF Token
<1>5. /\ Name(name) \in Constant /\ NewFunction(here) \in Constant
      /\ "define_global" \in ConstantOpcode /\ "nil" \in PlainOpcode
  BY <1>3, LexemeOK, ConstantOK DEF ConstantOpcode, NameOpcode, PlainOpcode
<1>6. Mean(made, PendingOf(nesting), source')
  BY <1>a, <1>2, <1>3, <1>5, PlainMeans, ClosureMeans
<1>7. Spells("define_global", Name(name), source'[here])
  BY <1>3, <1>4 DEF Spells
<1>8. Mean(chunk', PendingOf(nesting), source')
  BY <1>a, <1>2, <1>3, <1>5, <1>6, <1>7, ConstantMeans
<1>. QED
  BY <1>a, <1>3, <1>8, AddMeans

LEMMA ReturnNothingMeans ==
  ASSUME MeaningStep, ReturnNothing
  PROVE  Meanings'
<1>1. /\ Read(<<Token("return", "none")>>) /\ \E node : Add(node)
      /\ chunk' = EmitPlain(EmitNothing(chunk, Here), "return_", Here)
  BY DEF ReturnNothing, Emitted
<1>2. Grown(source, source') /\ Mean(chunk, PendingOf(nesting), source') /\ Here \in Nat
  BY <1>1, ReadOneMeans, MeaningFacts
<1>3. Mean(chunk', PendingOf(nesting), source')
  BY <1>1, <1>2, ReturnMeans
<1>. QED
  BY <1>1, <1>2, <1>3, AddMeans

LEMMA BeginScopeMeans ==
  ASSUME MeaningStep, BeginScope
  PROVE  Meanings'
<1>1. PICK kind \in {"block", "for"} :
        Read(<<Token(kind, "none")>>) /\ Push(Waiting(kind, -1, Here, Here + 1))
  BY DEF BeginScope
<1>2. chunk' = chunk
  BY DEF BeginScope
<1>3. Waiting(kind, -1, Here, Here + 1).kind = kind
  BY DEF Waiting
<1>4. SpelledBy(Waiting(kind, -1, Here, Here + 1), source')
  BY <1>3 DEF SpelledBy
<1>5. Grown(source, source') /\ Mean(chunk', PendingOf(nesting), source')
  BY <1>1, <1>2, ReadOneMeans
<1>. QED
  BY <1>1, <1>4, <1>5, PushMeans

LEMMA EndBlockMeans ==
  ASSUME MeaningStep, EndBlock
  PROVE  Meanings'
<1>1. /\ Top.kind = "block" /\ chunk' = EmitPops(chunk, Top.token) /\ source' = source
      /\ \E node : Complete(node)
  BY DEF EndBlock, Emitted
<1>2. Grown(source, source') /\ Mean(chunk, PendingOf(nesting), source')
  BY <1>1, SilentMeans
<1>3. Top.token \in Nat /\ tracked_locals \in Seq(Nat) /\ Len(nesting) > 1
  BY <1>1, MeaningFacts, OwnerWaits
<1>4. Mean(chunk', PendingOf(nesting), source')
  BY <1>1, <1>2, <1>3, EmitPopsMeans
<1>. QED
  BY <1>1, <1>2, <1>3, <1>4, CompleteMeans

-----------------------------------------------------------------------------
(* if, while and for *)

LEMMA OwnJump ==
  ASSUME MeaningStep, NEW i \in 1 .. JumpsToPatch(Top.kind, Len(Top.parts))
  PROVE  Top.jumps[i] \in PendingOf(nesting)
<1>1. PICK jumps : jumps = Top.jumps
  OBVIOUS
<1>2. jumps \in Seq(Nat) /\ Len(jumps) = JumpsToPatch(Top.kind, Len(Top.parts))
  BY <1>1, MeaningFacts DEF WaitingOK
<1>3. i \in DOMAIN jumps
  BY <1>2
<1>. QED
  BY <1>1, <1>3, MeaningFacts DEF JumpsOf

LEMMA OwnBeginning ==
  ASSUME MeaningStep, NEW i \in 1 .. Beginnings(Top.kind, Len(Top.parts))
  PROVE  Top.begins[i] \in Nat /\ IsStart(chunk, Top.begins[i])
<1>1. PICK begins : begins = Top.begins
  OBVIOUS
<1>2. begins \in Seq(Nat) /\ Len(begins) = Beginnings(Top.kind, Len(Top.parts))
  BY <1>1, MeaningFacts DEF WaitingOK
<1>3. i \in DOMAIN begins /\ begins[i] \in Nat
  BY <1>2
<1>. QED
  BY <1>1, <1>3, MeaningFacts DEF Relies

LEMMA PartsDone ==
  ASSUME MeaningStep, NEW n \in Nat, Phase = n + 1
  PROVE  Len(Top.parts) = n
<1>1. IsSequence(Top.parts)
  BY MeaningFacts DEF WaitingOK
<1>2. PICK l \in Nat : l = Len(Top.parts)
  BY <1>1, SequenceLength
<1>. QED
  BY <1>2 DEF Phase

LEMMA ThenMeans ==
  ASSUME NEW c, NEW P, NEW src, Mean(c, P, src), ~c.narrowing_error, NEW j \in P, NEW token \in Nat
  PROVE  LET jumped == EmitJump(c, "jump", token)
             otherwise == EmitPlain(ToNextOpcode(jumped, j), "pop", token)
         IN  /\ \E R : Mean(otherwise, R, src)
             /\ \E R : Mean(ToNextOpcode(otherwise, Size(jumped)), R, src)
<1> DEFINE jumped == EmitJump(c, "jump", token)
           patched == ToNextOpcode(jumped, j)
           otherwise == EmitPlain(patched, "pop", token)
           ended == ToNextOpcode(otherwise, Size(jumped))
           Q == P \cup {Size(jumped)}
           R == Q \ {j}
<1>1. Mean(jumped, Q, src)
  BY JumpMeans
<1>2. Good(c, P, Constant)
  BY DEF Mean
<1>3. Size(jumped) # j
  <2>1. ~jumped.narrowing_error
    BY <1>2, StillUnwound DEF EmitJump, Good
  <2>2. Size(jumped) = Size(c) + 3
    BY <1>2, <2>1, EmitJumpGood
  <2>3. Size(c) \in Nat /\ j \in 3 .. Size(c)
    BY <1>2, GoodSize DEF Good, SoundCode, IsPending
  <2>. QED
    BY <2>2, <2>3
<1>. HIDE DEF jumped
<1>4. j \in Q /\ Size(jumped) \in R /\ "pop" \in PlainOpcode
  BY <1>3 DEF PlainOpcode
<1>. HIDE DEF Q
<1>5. Mean(patched, R, src)
  BY <1>1, <1>4, PatchMeans
<1>. HIDE DEF patched, R
<1>6. Mean(otherwise, R, src)
  BY <1>4, <1>5, PlainMeans
<1>. HIDE DEF otherwise
<1>7. Mean(ended, R \ {Size(jumped)}, src)
  BY <1>4, <1>6, PatchMeans
<1>. QED
  BY <1>6, <1>7 DEF jumped, patched, otherwise, ended

LEMMA LoopEndMeans ==
  ASSUME NEW c, NEW P, NEW src, Mean(c, P, src), NEW b \in Nat, ~c.narrowing_error => IsStart(c, b),
         NEW j \in P, NEW token \in Nat
  PROVE  Mean(EmitPlain(ToNextOpcode(EmitLoop(c, b, token), j), "pop", token), P \ {j}, src)
<1> DEFINE looped == EmitLoop(c, b, token)
           patched == ToNextOpcode(looped, j)
<1>1. Mean(looped, P, src) /\ "pop" \in PlainOpcode
  BY LoopMeans DEF PlainOpcode
<1>. HIDE DEF looped
<1>2. Mean(patched, P \ {j}, src)
  BY <1>1, PatchMeans
<1>. HIDE DEF patched
<1>3. Mean(EmitPlain(patched, "pop", token), P \ {j}, src)
  BY <1>1, <1>2, PlainMeans
<1>. QED
  BY <1>3 DEF patched, looped

LEMMA EndConditionMeans ==
  ASSUME MeaningStep, EndCondition
  PROVE  Meanings'
<1> DEFINE tested == EmitJump(chunk, "jump_if_false", Top.token)
<1>1. PICK k : k = [Top EXCEPT !.parts = <<Simple(Top.token, Top.from, Len(source), <<>>)>>,
                               !.jumps = <<Size(tested)>>]
  OBVIOUS
<1>2. chunk' = EmitPlain(tested, "pop", Top.token) /\ Replace(k) /\ source' = source
  BY <1>1 DEF EndCondition, Emitted
<1>3. DOMAIN Top = {"kind", "level", "token", "from", "parts", "names", "jumps", "begins", "count"}
  BY MeaningFacts DEF WaitingOK
<1>4. k.kind = Top.kind /\ k.names = Top.names /\ k.token = Top.token
  BY <1>1, <1>3
<1>5. Grown(source, source') /\ Mean(chunk, PendingOf(nesting), source') /\ Top.token \in Nat
  BY <1>2, SilentMeans, MeaningFacts
<1>6. Mean(tested, PendingOf(nesting) \cup {Size(tested)}, source')
  BY <1>5, JumpMeans
<1>. HIDE DEF tested
<1>7. Mean(chunk', PendingOf(nesting) \cup {Size(tested)}, source')
  <2>1. "pop" \in PlainOpcode
    BY DEF PlainOpcode
  <2>. QED
    BY <1>2, <1>5, <1>6, <2>1, PlainMeans
<1>. QED
  BY <1>2, <1>4, <1>5, <1>7, ReplaceMeans

LEMMA AfterThenMeans ==
  ASSUME MeaningStep, AfterThen
  PROVE  Meanings'
<1> DEFINE jumped == EmitJump(chunk, "jump", Top.token)
           otherwise == EmitPlain(ToNextOpcode(jumped, Top.jumps[1]), "pop", Top.token)
           ended == ToNextOpcode(otherwise, Size(jumped))
<1>1. PICK k : k = [Top EXCEPT !.jumps = <<Size(jumped)>>]
  OBVIOUS
<1>2. /\ Top.kind = "if" /\ Phase = 2 + 1 /\ source' = source
      /\ \/ chunk' = otherwise /\ Replace(k)
         \/ chunk' = ended /\ \E node : Complete(node)
  BY <1>1 DEF AfterThen, Emitted
<1>3. DOMAIN Top = {"kind", "level", "token", "from", "parts", "names", "jumps", "begins", "count"}
  BY MeaningFacts DEF WaitingOK
<1>4. k.kind = Top.kind /\ k.names = Top.names /\ k.token = Top.token
  BY <1>1, <1>3
<1>5. Top.jumps[1] \in PendingOf(nesting)
  <2>1. 1 \in 1 .. JumpsToPatch(Top.kind, Len(Top.parts))
    BY <1>2, PartsDone DEF JumpsToPatch
  <2>. QED
    BY <2>1, OwnJump
<1>6. /\ Grown(source, source') /\ Mean(chunk, PendingOf(nesting), source')
      /\ Top.token \in Nat /\ ~chunk.narrowing_error
  BY <1>2, SilentMeans, MeaningFacts
<1>7. (\E R : Mean(otherwise, R, source')) /\ \E R : Mean(ended, R, source')
  BY <1>5, <1>6, ThenMeans
<1>. HIDE DEF otherwise, ended
<1>8. CASE chunk' = otherwise /\ Replace(k)
  BY <1>4, <1>6, <1>7, <1>8, ReplaceMeans
<1>9. CASE chunk' = ended /\ \E node : Complete(node)
  BY <1>2, <1>6, <1>7, <1>9, OwnerWaits, CompleteMeans
<1>. QED
  BY <1>2, <1>8, <1>9

LEMMA AfterElseMeans ==
  ASSUME MeaningStep, AfterElse
  PROVE  Meanings'
<1>1. /\ Top.kind = "if" /\ Phase = 3 + 1 /\ source' = source
      /\ chunk' = ToNextOpcode(chunk, Top.jumps[1]) /\ \E node : Complete(node)
  BY DEF AfterElse, Emitted
<1>2. Top.jumps[1] \in PendingOf(nesting)
  <2>1. 1 \in 1 .. JumpsToPatch(Top.kind, Len(Top.parts))
    BY <1>1, PartsDone DEF JumpsToPatch
  <2>. QED
    BY <2>1, OwnJump
<1>3. Grown(source, source') /\ Mean(chunk, PendingOf(nesting), source')
  BY <1>1, SilentMeans
<1>4. Mean(chunk', PendingOf(nesting) \ {Top.jumps[1]}, source')
  BY <1>1, <1>2, <1>3, PatchMeans
<1>. QED
  BY <1>1, <1>3, <1>4, OwnerWaits, CompleteMeans

LEMMA AfterWhileBodyMeans ==
  ASSUME MeaningStep, AfterWhileBody
  PROVE  Meanings'
<1>1. /\ expects.what = "done" /\ Top.kind = "while" /\ source' = source /\ \E node : Complete(node)
      /\ chunk' = EmitPlain(ToNextOpcode(EmitLoop(chunk, Top.begins[1], Top.token), Top.jumps[1]),
                            "pop", Top.token)
  BY DEF AfterWhileBody, Emitted, Compiling
<1>2. Len(Top.parts) = 2
  <2>1. Awaits(Top, "done")
    BY <1>1, MeaningFacts, TopFacts
  <2>. QED
    BY <1>1, <2>1 DEF Awaits
<1>3. /\ 1 \in 1 .. JumpsToPatch(Top.kind, Len(Top.parts))
      /\ 1 \in 1 .. Beginnings(Top.kind, Len(Top.parts))
  BY <1>1, <1>2 DEF JumpsToPatch, Beginnings
<1>4. /\ Top.jumps[1] \in PendingOf(nesting)
      /\ Top.begins[1] \in Nat /\ IsStart(chunk, Top.begins[1])
  BY <1>3, OwnJump, OwnBeginning
<1>5. Grown(source, source') /\ Mean(chunk, PendingOf(nesting), source') /\ Top.token \in Nat
  BY <1>1, SilentMeans, MeaningFacts
<1>6. Mean(chunk', PendingOf(nesting) \ {Top.jumps[1]}, source')
  BY <1>1, <1>4, <1>5, LoopEndMeans
<1>. QED
  BY <1>1, <1>5, <1>6, OwnerWaits, CompleteMeans

LEMMA NoInitializerMeans ==
  ASSUME MeaningStep, NoInitializer
  PROVE  Meanings'
<1>1. chunk' = chunk /\ source' = source /\ Add(Missing)
  BY DEF NoInitializer, KeepsCode
<1>2. Grown(source, source') /\ Mean(chunk', PendingOf(nesting), source')
  BY <1>1, SilentMeans
<1>. QED
  BY <1>1, <1>2, AddMeans

LEMMA AfterForBodyMeans ==
  ASSUME MeaningStep, AfterForBody
  PROVE  Meanings'
<1> DEFINE ended == EmitPlain(ToNextOpcode(EmitLoop(chunk, Top.begins[2], Top.token), Top.jumps[1]),
                              "pop", Top.token)
<1>1. /\ expects.what = "done" /\ Top.kind = "for" /\ source' = source /\ \E node : Complete(node)
      /\ chunk' = EmitPops(ended, Top.token)
  BY DEF AfterForBody, Emitted, Compiling
<1>2. Len(Top.parts) = 4
  <2>1. Awaits(Top, "done")
    BY <1>1, MeaningFacts, TopFacts
  <2>. QED
    BY <1>1, <2>1 DEF Awaits
<1>3. /\ 1 \in 1 .. JumpsToPatch(Top.kind, Len(Top.parts))
      /\ 2 \in 1 .. Beginnings(Top.kind, Len(Top.parts))
  BY <1>1, <1>2 DEF JumpsToPatch, Beginnings
<1>4. /\ Top.jumps[1] \in PendingOf(nesting)
      /\ Top.begins[2] \in Nat /\ IsStart(chunk, Top.begins[2])
  BY <1>3, OwnJump, OwnBeginning
<1>5. /\ Grown(source, source') /\ Mean(chunk, PendingOf(nesting), source') /\ Top.token \in Nat
      /\ tracked_locals \in Seq(Nat)
  BY <1>1, SilentMeans, MeaningFacts
<1>6. Mean(ended, PendingOf(nesting) \ {Top.jumps[1]}, source')
  BY <1>4, <1>5, LoopEndMeans
<1>. HIDE DEF ended
<1>7. Mean(chunk', PendingOf(nesting) \ {Top.jumps[1]}, source')
  BY <1>1, <1>5, <1>6, EmitPopsMeans
<1>. QED
  BY <1>1, <1>5, <1>7, OwnerWaits, CompleteMeans

LEMMA ForConditionMeans ==
  ASSUME MeaningStep, ForCondition
  PROVE  Meanings'
<1> DEFINE condition == IF expects.what = "operator" THEN chunk ELSE EmitPlain(chunk, "true_", Top.token)
           tested == EmitJump(condition, "jump_if_false", Top.token)
           skipped == EmitJump(tested, "jump", Top.token)
           Q == PendingOf(nesting) \cup {Size(tested)}
           part == IF expects.what = "operator" THEN IfGiven(<<>>)
                   ELSE Simple(Top.token, 1, 0, <<"true_">>)
<1>1. PICK k : k = [Top EXCEPT !.parts = Append(@, part), !.from = Here,
                               !.jumps = <<Size(tested), Size(skipped)>>,
                               !.begins = Append(@, Size(skipped))]
  OBVIOUS
<1>2. chunk' = skipped /\ source' = source /\ Replace(k)
  BY <1>1 DEF ForCondition, Emitted
<1>3. DOMAIN Top = {"kind", "level", "token", "from", "parts", "names", "jumps", "begins", "count"}
  BY MeaningFacts DEF WaitingOK
<1>4. k.kind = Top.kind /\ k.names = Top.names /\ k.token = Top.token
  <2>. HIDE DEF part, tested, skipped
  <2>. QED
    BY <1>1, <1>3
<1>5. Grown(source, source') /\ Mean(chunk, PendingOf(nesting), source') /\ Top.token \in Nat
  BY <1>2, SilentMeans, MeaningFacts
<1>6. Mean(condition, PendingOf(nesting), source')
  <2>1. "true_" \in PlainOpcode
    BY DEF PlainOpcode
  <2>. QED
    BY <1>5, <2>1, PlainMeans
<1>. HIDE DEF condition
<1>7. Mean(tested, Q, source')
  BY <1>5, <1>6, JumpMeans
<1>. HIDE DEF tested, Q
<1>8. Mean(skipped, Q \cup {Size(skipped)}, source')
  BY <1>5, <1>7, JumpMeans
<1>. HIDE DEF skipped
<1>. QED
  BY <1>2, <1>4, <1>5, <1>8, ReplaceMeans

LEMMA ForIncrementMeans ==
  ASSUME MeaningStep, ForIncrement
  PROVE  Meanings'
<1> DEFINE increment == IF expects.what = "operator" THEN EmitPlain(chunk, "pop", Top.token) ELSE chunk
           part == IF expects.what = "operator" THEN IfGiven(<<>>) ELSE Missing
<1>1. PICK k : k = [Top EXCEPT !.parts = Append(@, part), !.jumps = <<Top.jumps[1]>>]
  OBVIOUS
<1>2. /\ Top.kind = "for" /\ Phase = 2 + 1 /\ source' = source /\ Replace(k)
      /\ chunk' = EmitPlain(ToNextOpcode(EmitLoop(increment, Top.begins[1], Top.token), Top.jumps[2]),
                            "pop", Top.token)
  BY <1>1 DEF ForIncrement, Emitted
<1>3. DOMAIN Top = {"kind", "level", "token", "from", "parts", "names", "jumps", "begins", "count"}
  BY MeaningFacts DEF WaitingOK
<1>4. k.kind = Top.kind /\ k.names = Top.names /\ k.token = Top.token
  <2>. HIDE DEF part
  <2>. QED
    BY <1>1, <1>3
<1>5. /\ 2 \in 1 .. JumpsToPatch(Top.kind, Len(Top.parts))
      /\ 1 \in 1 .. Beginnings(Top.kind, Len(Top.parts))
  <2>1. Len(Top.parts) = 2
    BY <1>2, PartsDone
  <2>. QED
    BY <1>2, <2>1 DEF JumpsToPatch, Beginnings
<1>6. /\ Top.jumps[2] \in PendingOf(nesting)
      /\ Top.begins[1] \in Nat /\ IsStart(chunk, Top.begins[1])
  BY <1>5, OwnJump, OwnBeginning
<1>7. Grown(source, source') /\ Mean(chunk, PendingOf(nesting), source') /\ Top.token \in Nat
  BY <1>2, SilentMeans, MeaningFacts
<1>8. "pop" \in PlainOpcode
  BY DEF PlainOpcode
<1>9. Mean(increment, PendingOf(nesting), source')
  BY <1>7, <1>8, PlainMeans
<1>10. ~increment.narrowing_error => IsStart(increment, Top.begins[1])
  <2>1. Good(chunk, PendingOf(nesting), Constant) /\ Later(chunk, chunk)
    BY MeaningFacts, CompilesFacts
  <2>2. Later(chunk, increment)
    BY <1>7, <1>8, <2>1, EmitPlainGood
  <2>. HIDE DEF increment
  <2>. QED
    BY <1>6, <2>2 DEF Later, Extends
<1>. HIDE DEF increment
<1>11. Mean(chunk', PendingOf(nesting) \ {Top.jumps[2]}, source')
  BY <1>2, <1>6, <1>7, <1>9, <1>10, LoopEndMeans
<1>. QED
  BY <1>2, <1>4, <1>7, <1>11, ReplaceMeans

LEMMA EndUnitMeans ==
  ASSUME MeaningStep, EndUnit
  PROVE  Meanings'
<1>1. /\ chunk' = chunk \/ chunk' = EmitPlain(EmitNothing(chunk, 0), "return_", 0)
      /\ source' = source
  BY DEF EndUnit
<1>2. Grown(source, source') /\ Mean(chunk, PendingOf(nesting), source')
  BY <1>1, SilentMeans
<1>3. Mean(chunk', PendingOf(nesting), source')
  BY <1>1, <1>2, ReturnMeans
<1>4. nesting' = nesting \/ Add(Simple(0, 1, 0, <<Nothing, "return_">>))
                         \/ \E node : Replace(Resumed(Top, node))
  BY DEF EndUnit
<1>5. ASSUME NEW node, Replace(Resumed(Top, node))
      PROVE  Meanings'
  <2>1. PICK r : r = Resumed(Top, node)
    OBVIOUS
  <2>2. r.kind = Top.kind /\ r.names = Top.names /\ r.token = Top.token
    BY <2>1, MeaningFacts, ResumedSame
  <2>. QED
    BY <1>2, <1>3, <1>5, <2>1, <2>2, ReplaceMeans
<1>. QED
  BY <1>2, <1>3, <1>4, <1>5, SameMeans, AddMeans

LEMMA StatementMeans ==
  ASSUME MeaningStep, CompileStatement
  PROVE  Meanings'
<1>. QED
  BY BeginWithExpressionMeans, EndWithExpressionMeans, DeclareMeans, ReturnNothingMeans, BeginScopeMeans,
     EndBlockMeans, EndConditionMeans, AfterThenMeans, AfterElseMeans, AfterWhileBodyMeans,
     NoInitializerMeans, ForConditionMeans, ForIncrementMeans, AfterForBodyMeans, EndUnitMeans
  DEF CompileStatement

(* Of no text there is nothing to mean. *)
LEMMA StartMeans ==
  ASSUME NEW src
  PROVE  Meant(EmptyChunk, src) /\ Spelled(<<Waiting("unit", -1, 0, 1)>>, src)
<1>1. Meant(EmptyChunk, src)
  <2>1. Size(EmptyChunk) = 0
    BY DEF EmptyChunk, Size
  <2>2. 0 .. 0 - 1 = {}
    OBVIOUS
  <2>. QED
    BY <2>1, <2>2 DEF Meant
<1>2. Spelled(<<Waiting("unit", -1, 0, 1)>>, src)
  <2>1. PICK k, ks : k = Waiting("unit", -1, 0, 1) /\ ks = <<k>>
    OBVIOUS
  <2>2. k.kind = "unit" /\ Len(ks) = 1 /\ ks[1] = k
    BY <2>1 DEF Waiting
  <2>3. Spelled(ks, src)
    BY <2>2 DEF Spelled, SpelledBy
  <2>. QED
    BY <2>1, <2>3
<1>. QED
  BY <1>1, <1>2

LEMMA MeaningsStep == IInv /\ IInv' /\ Meanings /\ [FlowNext]_flowVars => Meanings'
<1>1. SUFFICES ASSUME IInv, IInv', Meanings, [FlowNext]_flowVars PROVE Meanings'
  OBVIOUS
<1>2. CASE CompileExpression \/ CompileStatement
  <2>1. status = "compiling"
    BY <1>2 DEF CompileExpression, CompileStatement, Operand, Prefix, Assignment, BinaryOperator,
       FinishOperator, AccessProperty, OpenCall, NextArgument, CloseParenthesis, BeginWithExpression,
       EndWithExpression, Declare, ReturnNothing, BeginScope, EndBlock, EndCondition, AfterThen, AfterElse,
       AfterWhileBody, NoInitializer, ForCondition, ForIncrement, AfterForBody, EndUnit, May, Compiling
  <2>2. MeaningStep
    BY <1>1, <2>1 DEF MeaningStep
  <2>. QED
    BY SMTT(40), <1>2, <2>2, ExpressionMeans, StatementMeans
<1>3. CASE CompileError \/ RuntimeError
  <2>1. chunk' = EmptyChunk /\ nesting' = <<Waiting("unit", -1, 0, 1)>>
    BY <1>3 DEF CompileError, RuntimeError, Forgotten
  <2>. QED
    BY <2>1, StartMeans DEF Meanings
<1>4. CASE Execute \/ Jump \/ Return \/ RunToEnd \/ UNCHANGED flowVars
  <2>1. chunk' = chunk /\ nesting' = nesting /\ source' = source
    BY <1>4 DEF Execute, Jump, Return, RunToEnd, KeepsText, flowVars
  <2>. QED
    BY <1>1, <2>1 DEF Meanings
<1>. QED
  BY <1>1, <1>2, <1>3, <1>4 DEF FlowNext, Run

LEMMA MeaningsInvariant == FlowSpec => []Meanings
<1>1. FlowInit => Meanings
  BY StartMeans DEF FlowInit, Meanings
<1>. QED
  BY <1>1, MeaningsStep, FlowInvariant, PTL DEF FlowSpec

(* An instruction with a constant that the machine comes to refers to the   *)
(* number or the name that the token its byte was reported with stands for: *)
(* Chunk::emit finds the equal constant or adds one, the index is never cut *)
(* to a byte, and no later patch writes over it.                            *)
THEOREM OperandsAreTheSource == FlowSpec => []OperandsMeanTheirSource
<1>1. IInv /\ Meanings => OperandsMeanTheirSource
  <2>1. SUFFICES ASSUME IInv, Meanings, Running, Now \in ConstantOpcode
                 PROVE  OperandsMeanTheirSource
    BY DEF OperandsMeanTheirSource
  <2>2. IsStart(chunk, pc) /\ pc # Size(chunk)
    BY <2>1, RunningFacts DEF Running
  <2>3. pc \in 0 .. Size(chunk) - 1 /\ OpcodeAt(chunk, pc) \in ConstantOpcode
    BY <2>1, <2>2 DEF IsStart, Now
  <2>4. MeantAt(chunk, source, pc)
    BY <2>1, <2>3 DEF Meanings, Meant
  <2>. QED
    BY <2>4 DEF MeantAt, Spells, OperandsMeanTheirSource, Now
<1>. QED
  BY <1>1, FlowInvariant, MeaningsInvariant, PTL
=============================================================================
