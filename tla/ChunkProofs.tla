---------------------------- MODULE ChunkProofs ----------------------------
(***************************************************************************)
(* What the emit functions of Chunk keep of sound code, whatever the width *)
(* of a byte: the lemmas ControlFlowProofs rests on.                       *)
(***************************************************************************)
EXTENDS Chunk, SequenceTheorems, TLAPS

(* A chunk with constants in S: sound, unless a narrowing has failed. *)
Good(c, pending, S) ==
  /\ "narrowing_error" \in DOMAIN c
  /\ ~c.narrowing_error => c \in Chunks(S) /\ SoundCode(c, pending)

(* What a compile function that waits relies on: its beginnings are still   *)
(* beginnings, its jumps still to be patched.                               *)
Extends(c, d) ==
  /\ Size(c) <= Size(d)
  /\ \A index \in Nat : IsStart(c, index) => IsStart(d, index)
  /\ \A j \in Nat : IsPending(c, j) => IsPending(d, j)
Later(c, d) == ~d.narrowing_error => ~c.narrowing_error /\ Extends(c, d)

(* Cells that are whole instructions. *)
Instructions_(cells) ==
  /\ cells \in Seq(Cell)
  /\ Len(cells) > 0 => cells[1].opcode # "operand"
  /\ \A i \in 1 .. Len(cells) :
       cells[i].opcode # "operand" =>
         LET next == i + WidthAt(cells, i)
         IN  /\ cells[i].opcode = "closure" => i + 2 <= Len(cells)
             /\ next \in 1 .. Len(cells) + 1
             /\ next <= Len(cells) => cells[next].opcode # "operand"
             /\ \A k \in i + 1 .. next - 1 : cells[k].opcode = "operand"

LEMMA DivMod ==
  ASSUME NEW b \in Nat \ {0}, NEW d \in Nat, d < b * b
  PROVE  /\ d \div b \in 0 .. b - 1 /\ d % b \in 0 .. b - 1
         /\ (d \div b) * b + (d % b) = d
<1> DEFINE q == d \div b
<1>1. q \in Nat /\ d % b \in 0 .. b - 1 /\ d = b * q + (d % b)
  OBVIOUS
<1>2. b * q <= d
  BY <1>1
<1>3. CASE q >= b
  <2>1. b * q >= b * b
    BY <1>1, <1>3
  <2>. QED
    BY <1>1, <1>2, <2>1
<1>. QED
  BY <1>1, <1>3

(* The width of an instruction of a chunk that lies within it. *)
LEMMA WidthType ==
  ASSUME NEW bytecode \in Seq(Cell), NEW i \in 1 .. Len(bytecode),
         bytecode[i].opcode # "operand",
         bytecode[i].opcode = "closure" => i + 2 <= Len(bytecode)
  PROVE  WidthAt(bytecode, i) \in Nat \ {0} /\
         (bytecode[i].opcode = "closure" => WidthAt(bytecode, i) >= 3) /\
         (bytecode[i].opcode \in JumpOpcode => WidthAt(bytecode, i) = 3)
<1>1. bytecode[i] \in Cell
  OBVIOUS
<1>2. bytecode[i].opcode \in Opcode
  BY <1>1 DEF Cell
<1>3. CASE bytecode[i].opcode = "closure"
  <2>1. bytecode[i + 2].byte \in Nat
    <3>1. bytecode[i + 2] \in Cell
      BY <1>3
    <3>. QED
      BY <3>1, ChunkAssumption DEF Cell, ByteValue
  <2>2. WidthAt(bytecode, i) = 3 + 2 * bytecode[i + 2].byte
    BY <1>3 DEF WidthAt, PlainOpcode, ConstantOpcode, NameOpcode, IndexOpcode, JumpOpcode
  <2>. QED
    BY <1>3, <2>1, <2>2 DEF JumpOpcode
<1>4. CASE bytecode[i].opcode # "closure"
  BY <1>2, <1>4 DEF Opcode, WidthAt, PlainOpcode, ConstantOpcode, NameOpcode, IndexOpcode, JumpOpcode
<1>. QED
  BY <1>3, <1>4

(* Appending whole instructions.  Their own jumps are the caller's concern. *)
LEMMA EmitAligned ==
  ASSUME NEW S, NEW c \in Chunks(S), NEW P, SoundCode(c, P),
         NEW cells, Instructions_(cells), NEW token \in Nat
  PROVE  LET d == Emit(c, cells, token)
         IN  /\ d \in Chunks(S) /\ d.narrowing_error = c.narrowing_error
             /\ d.constants = c.constants
             /\ Size(d) = Size(c) + Len(cells)
             /\ \A i \in 1 .. Size(c) : d.bytecode[i] = c.bytecode[i]
             /\ \A i \in 1 .. Len(cells) : d.bytecode[Size(c) + i] = cells[i]
             /\ IsStart(d, 0) /\ Aligned(d) /\ TokensParallel(d) /\ ConstantsUnique(d)
             /\ Extends(c, d)
             /\ \A index \in 0 .. Size(c) - 1 :
                  OpcodeAt(c, index) \in JumpOpcode /\ index + 3 \notin P =>
                    IsStart(d, JumpTarget(d, index))
<1> DEFINE d == Emit(c, cells, token)
           n == Size(c)
           m == Len(cells)
<1>1. /\ c.bytecode \in Seq(Cell) /\ c.source_map_tokens \in Seq(Nat)
      /\ cells \in Seq(Cell) /\ n \in Nat /\ m \in Nat
  BY DEF Chunks, Instructions_, Size
<1>2. /\ d.bytecode = c.bytecode \o cells /\ d.constants = c.constants
      /\ d.source_map_tokens = c.source_map_tokens \o [i \in 1..m |-> token]
      /\ d.narrowing_error = c.narrowing_error
      /\ d \in Chunks(S)
  <2>1. [i \in 1..m |-> token] \in Seq(Nat)
    BY <1>1
  <2>2. /\ c.bytecode \o cells \in Seq(Cell)
        /\ c.source_map_tokens \o [i \in 1..m |-> token] \in Seq(Nat)
    BY <1>1, <2>1
  <2> DEFINE bytecode == c.bytecode \o cells
             tokens == c.source_map_tokens \o [i \in 1..m |-> token]
  <2>3. d = [c EXCEPT !.bytecode = bytecode, !.source_map_tokens = tokens]
    BY DEF Emit
  <2>4. bytecode \in Seq(Cell) /\ tokens \in Seq(Nat)
    BY <2>2
  <2>. HIDE DEF d, bytecode, tokens
  <2>5. /\ d.bytecode = bytecode /\ d.source_map_tokens = tokens /\ d \in Chunks(S)
        /\ d.constants = c.constants /\ d.narrowing_error = c.narrowing_error
    BY <2>3, <2>4 DEF Chunks
  <2>. QED
    BY <2>5 DEF bytecode, tokens
<1>3. /\ Size(d) = n + m
      /\ \A i \in 1 .. n : d.bytecode[i] = c.bytecode[i]
      /\ \A i \in 1 .. m : d.bytecode[n + i] = cells[i]
  BY <1>1, <1>2 DEF Size
<1>. HIDE DEF d
<1>4. \A index \in 0 .. n - 1 : OpcodeAt(d, index) = OpcodeAt(c, index)
  <2>1. SUFFICES ASSUME NEW index \in 0 .. n - 1 PROVE OpcodeAt(d, index) = OpcodeAt(c, index)
    OBVIOUS
  <2>2. index + 1 \in 1 .. n
    <3>. HIDE DEF n
    <3>. QED
      BY <1>1
  <2>. QED
    BY <1>3, <2>2 DEF OpcodeAt
<1>5. \A index \in Nat : IsStart(c, index) => IsStart(d, index)
  <2>1. SUFFICES ASSUME NEW index \in Nat, IsStart(c, index) PROVE IsStart(d, index)
    OBVIOUS
  <2>2. CASE index = n /\ m = 0
    BY <1>3, <2>2, <1>1 DEF IsStart
  <2>3. CASE index = n /\ m > 0
    <3>1. d.bytecode[n + 1] = cells[1] /\ cells[1].opcode # "operand"
      BY <1>1, <1>3, <2>3 DEF Instructions_
    <3>. QED
      BY <1>1, <1>3, <2>3, <3>1 DEF IsStart, OpcodeAt
  <2>4. CASE index \in 0 .. n - 1
    BY <1>1, <1>3, <1>4, <2>1, <2>4 DEF IsStart
  <2>. QED
    BY <1>1, <2>1, <2>2, <2>3, <2>4 DEF IsStart
<1>6. \A j \in Nat : IsPending(c, j) => IsPending(d, j)
  BY <1>1, <1>3, <1>4 DEF IsPending, Size
<1>7. Extends(c, d)
  BY <1>1, <1>3, <1>5, <1>6 DEF Extends
<1>8. IsStart(d, 0)
  BY <1>5 DEF SoundCode
<1>9. TokensParallel(d) /\ ConstantsUnique(d)
  <2>1. Len(c.source_map_tokens) = n /\ ConstantsUnique(c)
    BY DEF SoundCode, TokensParallel, Size
  <2>2. Len(d.source_map_tokens) = n + m
    <3> DEFINE tokens == [i \in 1..m |-> token]
    <3>1. tokens \in Seq(Nat) /\ Len(tokens) = m
      BY <1>1
    <3>. HIDE DEF tokens
    <3>2. c.source_map_tokens \in Seq(Nat) /\ Len(c.source_map_tokens) = n
      BY <1>1, <2>1
    <3>3. Len(c.source_map_tokens \o tokens) = n + m
      <4>1. Len(c.source_map_tokens \o tokens) = Len(c.source_map_tokens) + Len(tokens)
        BY <3>1, <3>2, ConcatProperties
      <4>. QED
        BY <3>1, <3>2, <4>1
    <3>. QED
      BY <1>2, <3>3 DEF tokens
  <2>. QED
    BY <1>2, <1>3, <2>1, <2>2 DEF TokensParallel, ConstantsUnique, Size
<1>10. ASSUME NEW index \in 0 .. n - 1, OpcodeAt(c, index) # "operand"
       PROVE  /\ Width(d, index) = Width(c, index) /\ Width(c, index) \in Nat \ {0}
              /\ index + Width(c, index) <= n
              /\ OpcodeAt(c, index) = "closure" => index + 2 < n
              /\ IsStart(c, index + Width(c, index))
              /\ \A i \in index + 1 .. index + Width(c, index) - 1 : OpcodeAt(c, i) = "operand"
              /\ OpcodeAt(c, index) \in JumpOpcode => Width(c, index) = 3
  <2>1. /\ OpcodeAt(c, index) = "closure" => index + 2 < n
        /\ IsStart(c, index + Width(c, index))
        /\ \A i \in index + 1 .. index + Width(c, index) - 1 : OpcodeAt(c, i) = "operand"
    BY <1>10 DEF SoundCode, Aligned
  <2>2. /\ Width(c, index) \in Nat \ {0}
        /\ OpcodeAt(c, index) \in JumpOpcode => Width(c, index) = 3
    <3>1. index + 1 \in 1 .. Len(c.bytecode)
      BY <1>1 DEF Size
    <3>. QED
      BY <1>1, <1>10, <2>1, <3>1, WidthType DEF OpcodeAt, Width, Size
  <2>3. index + Width(c, index) <= n
    BY <1>1, <2>1, <2>2 DEF IsStart
  <2>4. Width(d, index) = Width(c, index)
    <3>1. d.bytecode[index + 1] = c.bytecode[index + 1]
      BY <1>1, <1>3
    <3>2. OpcodeAt(c, index) = "closure" => d.bytecode[index + 1 + 2] = c.bytecode[index + 1 + 2]
      BY <1>1, <1>3, <2>1
    <3>3. CASE OpcodeAt(c, index) = "closure"
      BY <3>1, <3>2, <3>3 DEF Width, WidthAt, OpcodeAt
    <3>4. CASE OpcodeAt(c, index) # "closure"
      <4>1. c.bytecode[index + 1] \in Cell
        BY <1>1, <1>3 DEF Size
      <4>2. OpcodeAt(c, index) \in Opcode
        BY <4>1, <1>10 DEF OpcodeAt, Cell
      <4>. QED
        BY <3>1, <3>4, <4>2 DEF Width, WidthAt, OpcodeAt, Opcode
    <3>. QED
      BY <3>3, <3>4
  <2>. QED
    BY <2>1, <2>2, <2>3, <2>4
<1>11. Aligned(d)
  <2>1. SUFFICES ASSUME NEW index \in 0 .. Size(d) - 1, OpcodeAt(d, index) # "operand"
                 PROVE  /\ OpcodeAt(d, index) = "closure" => index + 2 < Size(d)
                        /\ IsStart(d, index + Width(d, index))
                        /\ \A i \in index + 1 .. index + Width(d, index) - 1 :
                              OpcodeAt(d, i) = "operand"
    BY DEF Aligned
  <2>2. CASE index < n
    <3>1. index \in 0 .. n - 1 /\ OpcodeAt(c, index) # "operand"
      BY <1>1, <1>3, <1>4, <2>1, <2>2
    <3>2. \A i \in index + 1 .. index + Width(c, index) - 1 : OpcodeAt(d, i) = "operand"
      BY <1>1, <1>4, <1>10, <3>1
    <3>3. IsStart(d, index + Width(c, index))
      BY <1>5, <1>10, <3>1
    <3>. QED
      BY <1>1, <1>3, <1>4, <1>10, <3>1, <3>2, <3>3
  <2>3. CASE index >= n
    <3> DEFINE i == index - n + 1
               next == i + WidthAt(cells, i)
    <3>1. i \in 1 .. m /\ d.bytecode[index + 1] = cells[i] /\ n + i = index + 1
      <4>1. i \in 1 .. m /\ n + i = index + 1
        BY <1>1, <1>3, <2>1, <2>3
      <4>. QED
        BY <4>1, <1>3
    <3>. HIDE DEF i
    <3>2. cells[i].opcode # "operand"
      BY <3>1, <2>1 DEF OpcodeAt
    <3>3. /\ cells[i].opcode = "closure" => i + 2 <= m
          /\ next \in 1 .. m + 1
          /\ next <= m => cells[next].opcode # "operand"
          /\ \A k \in i + 1 .. next - 1 : cells[k].opcode = "operand"
      BY <3>1, <3>2 DEF Instructions_
    <3>4. WidthAt(cells, i) \in Nat
      BY <1>1, <3>1, <3>2, <3>3, WidthType
    <3>5. Width(d, index) = WidthAt(cells, i)
      <4>1. cells[i].opcode = "closure" => d.bytecode[index + 1 + 2] = cells[i + 2]
        <5>1. cells[i].opcode = "closure" => i + 2 \in 1 .. m
          <6>. HIDE DEF m, next
          <6>. QED
            BY <1>1, <3>1, <3>3
        <5>2. n + (i + 2) = index + 1 + 2
          <6>. HIDE DEF n, m
          <6>. QED
            BY <1>1, <2>1, <2>3, <3>1
        <5>. QED
          BY <1>3, <5>1, <5>2
      <4>2. CASE cells[i].opcode = "closure"
        BY <4>1, <4>2, <3>1 DEF Width, WidthAt
      <4>3. CASE cells[i].opcode # "closure"
        <5>1. cells[i] \in Cell
          BY <1>1, <3>1
        <5>2. cells[i].opcode \in Opcode
          BY <5>1, <3>2 DEF Cell
        <5>. QED
          BY <3>1, <4>3, <5>2 DEF Width, WidthAt, Opcode
      <4>. QED
        BY <4>2, <4>3
    <3>6. /\ index + Width(d, index) = n + next - 1 /\ index = n + i - 1
          /\ i \in Nat \ {0} /\ next \in Nat /\ next <= m + 1 /\ Width(d, index) \in Nat
      <4>1. index \in Int /\ i \in Nat \ {0} /\ index = n + i - 1
        <5>1. Size(d) = n + m
          BY <1>3
        <5>2. i \in 1 .. m /\ n + i = index + 1
          BY <3>1
        <5>. HIDE DEF n, m
        <5>. QED
          BY <1>1, <5>1, <5>2
      <4>2. next = i + Width(d, index) /\ Width(d, index) \in Nat
        BY <3>4, <3>5
      <4>3. next \in Nat /\ next <= m + 1
        BY <1>1, <3>3
      <4>. HIDE DEF next
      <4>. QED
        BY SMTT(40), <1>1, <4>1, <4>2, <4>3
    <3>7. IsStart(d, index + Width(d, index))
      <4>1. index + Width(d, index) = n + next - 1
        BY <3>6
      <4>2. CASE next = m + 1
        BY <1>1, <1>3, <4>1, <4>2 DEF IsStart
      <4>3. CASE next \in 1 .. m
        <5>1. d.bytecode[n + next] = cells[next] /\ cells[next].opcode # "operand"
          BY <1>3, <3>3, <4>3
        <5>2. OpcodeAt(d, n + next - 1) # "operand"
          <6>1. (n + next - 1) + 1 = n + next
            BY <1>1, <3>6
          <6>. QED
            BY <5>1, <6>1 DEF OpcodeAt
        <5>. QED
          BY SMTT(40), <1>1, <1>3, <4>1, <4>3, <5>2 DEF IsStart
      <4>. QED
        BY <1>1, <3>3, <4>2, <4>3
    <3>. HIDE DEF next
    <3>8. ASSUME NEW j \in n + i .. n + next - 2
          PROVE  OpcodeAt(d, j) = "operand"
      <4> DEFINE k == j - n + 1
      <4>1. k \in 1 .. m /\ k \in i + 1 .. next - 1 /\ n + k = j + 1
        <5>1. j \in Int /\ n + i <= j /\ j <= n + next - 2
          BY <1>1, <3>6
        <5>2. k \in Int /\ n + k = j + 1
          BY <1>1, <5>1
        <5>. HIDE DEF k, n, m
        <5>. QED
          BY <1>1, <3>6, <5>1, <5>2
      <4>2. d.bytecode[j + 1] = cells[k] /\ cells[k].opcode = "operand"
        BY <1>3, <3>3, <4>1
      <4>. QED
        BY <4>2 DEF OpcodeAt
    <3>9. /\ index + 1 = n + i /\ index + Width(d, index) - 1 = n + next - 2
      <4>. HIDE DEF n, m
      <4>. QED
        BY <1>1, <3>6
    <3>10. OpcodeAt(d, index) = "closure" => index + 2 < Size(d)
      <4>1. OpcodeAt(d, index) = "closure" => i + 2 <= m
        BY <3>1, <3>3 DEF OpcodeAt
      <4>2. Size(d) = n + m
        BY <1>3
      <4>. HIDE DEF n, m
      <4>. QED
        BY <1>1, <3>6, <4>1, <4>2
    <3>. QED
      BY <3>7, <3>8, <3>9, <3>10
  <2>. QED
    BY <1>1, <1>3, <2>2, <2>3
<1>12. ASSUME NEW index \in 0 .. n - 1, OpcodeAt(c, index) \in JumpOpcode, index + 3 \notin P
       PROVE  IsStart(d, JumpTarget(d, index))
  <2>1. IsStart(c, JumpTarget(c, index))
    BY <1>12 DEF SoundCode, JumpsLand
  <2>2. index + 3 <= n
    BY <1>1, <1>10, <1>12 DEF JumpOpcode
  <2>3. /\ d.bytecode[index + 2] = c.bytecode[index + 2]
        /\ d.bytecode[index + 3] = c.bytecode[index + 3]
    BY <1>1, <1>3, <2>2
  <2>4. JumpTarget(d, index) = JumpTarget(c, index)
    <3>1. ReadDistance(d.bytecode, index + 1) = ReadDistance(c.bytecode, index + 1)
      <4>1. index + 1 + 1 = index + 2 /\ index + 1 + 2 = index + 3
        BY <1>1
      <4>. QED
        BY <2>3, <4>1 DEF ReadDistance
    <3>. QED
      BY <1>4, <3>1 DEF JumpTarget
  <2>5. JumpTarget(c, index) \in Nat
    BY <1>1, <2>1 DEF IsStart
  <2>. QED
    BY <1>5, <2>1, <2>4, <2>5
<1>. QED
  BY <1>2, <1>3, <1>7, <1>8, <1>9, <1>11, <1>12 DEF d

(* Whole instructions without a jump keep the code sound. *)
(* Nothing that is written mends a chunk whose narrowing failed. *)
LEMMA StillUnwound ==
  ASSUME NEW c, "narrowing_error" \in DOMAIN c
  PROVE  /\ \A cells, token : /\ "narrowing_error" \in DOMAIN Emit(c, cells, token)
                              /\ Emit(c, cells, token).narrowing_error = c.narrowing_error
         /\ \A index, distance :
              /\ "narrowing_error" \in DOMAIN WriteDistance(c, index, distance)
              /\ WriteDistance(c, index, distance).narrowing_error = c.narrowing_error
         /\ \A value : /\ "narrowing_error" \in DOMAIN InsertConstant(c, value)
                       /\ InsertConstant(c, value).narrowing_error = c.narrowing_error
         /\ "narrowing_error" \in DOMAIN Unwound(c) /\ Unwound(c).narrowing_error
<1>. QED
  BY DEF Emit, WriteDistance, InsertConstant, Unwound

LEMMA EmitGood ==
  ASSUME NEW S, NEW c, NEW P, Good(c, P, S),
         NEW cells, Instructions_(cells),
         \A i \in 1 .. Len(cells) : cells[i].opcode \notin JumpOpcode,
         NEW token \in Nat
  PROVE  Good(Emit(c, cells, token), P, S) /\ Later(c, Emit(c, cells, token))
<1> DEFINE d == Emit(c, cells, token)
           n == Size(c)
           m == Len(cells)
<1>1. CASE c.narrowing_error
  BY <1>1, StillUnwound DEF Good, Later
<1>2. CASE ~c.narrowing_error
  <2>1. SoundCode(c, P)
    BY <1>2 DEF Good
  <2>0. c \in Chunks(S) /\ cells \in Seq(Cell) /\ n \in Nat /\ m \in Nat
    BY <1>2 DEF Good, Chunks, Size, Instructions_
  <2>2. /\ d \in Chunks(S) /\ d.narrowing_error = c.narrowing_error
        /\ Size(d) = n + m
        /\ \A i \in 1 .. n : d.bytecode[i] = c.bytecode[i]
        /\ \A i \in 1 .. m : d.bytecode[n + i] = cells[i]
        /\ IsStart(d, 0) /\ Aligned(d) /\ TokensParallel(d) /\ ConstantsUnique(d)
        /\ Extends(c, d)
        /\ \A index \in 0 .. n - 1 :
             OpcodeAt(c, index) \in JumpOpcode /\ index + 3 \notin P =>
               IsStart(d, JumpTarget(d, index))
    BY <2>0, <2>1, EmitAligned
  <2>. HIDE DEF d
  <2>3. JumpsLand(d, P)
    <3>1. SUFFICES ASSUME NEW index \in 0 .. Size(d) - 1,
                          OpcodeAt(d, index) \in JumpOpcode, index + 3 \notin P
                   PROVE  IsStart(d, JumpTarget(d, index))
      BY DEF JumpsLand
    <3>2. CASE index < n
      <4>1. index \in 0 .. n - 1
        BY <2>0, <2>2, <3>2
      <4>2. OpcodeAt(d, index) = OpcodeAt(c, index)
        <5>1. index + 1 \in 1 .. n
          BY <2>0, <4>1
        <5>. QED
          BY <2>2, <5>1 DEF OpcodeAt
      <4>. QED
        BY <2>2, <3>1, <4>1, <4>2
    <3>3. CASE index >= n
      <4>1. index - n + 1 \in 1 .. m /\ n + (index - n + 1) = index + 1
        <5>1. Size(d) = n + m
          BY <2>2
        <5>. HIDE DEF n, m
        <5>. QED
          BY <2>0, <3>3, <5>1
      <4>2. d.bytecode[index + 1] = cells[index - n + 1]
        BY <2>2, <4>1
      <4>. QED
        BY <3>1, <4>1, <4>2 DEF OpcodeAt
    <3>. QED
      <4>1. n \in Int /\ index \in Int
        BY <2>0, <2>2
      <4>. QED
        BY <3>2, <3>3, <4>1
  <2>4. \A j \in P : IsPending(d, j)
    <3>1. SUFFICES ASSUME NEW j \in P PROVE IsPending(d, j)
      OBVIOUS
    <3>2. IsPending(c, j)
      BY <2>1 DEF SoundCode
    <3>3. j \in Nat
      BY <3>2, <2>0 DEF IsPending
    <3>. QED
      BY <2>2, <3>2, <3>3 DEF Extends
  <2>. QED
    BY <1>2, <2>2, <2>3, <2>4, StillUnwound DEF Good, Later, SoundCode, d
<1>. QED
  BY <1>1, <1>2

(* A jump whose distance is still to be written. *)
LEMMA EmitJumpShape ==
  ASSUME NEW S, NEW c \in Chunks(S), NEW P, SoundCode(c, P),
         NEW opcode \in JumpOpcode, NEW token \in Nat
  PROVE  LET d == EmitJump(c, opcode, token)
             n == Size(c)
         IN  /\ d \in Chunks(S) /\ d.narrowing_error = c.narrowing_error
             /\ Size(d) = n + 3 /\ OpcodeAt(d, n) = opcode
             /\ OpcodeAt(d, n + 1) = "operand" /\ OpcodeAt(d, n + 2) = "operand"
             /\ IsStart(d, 0) /\ Aligned(d) /\ TokensParallel(d) /\ ConstantsUnique(d)
             /\ Extends(c, d)
             /\ JumpsLand(d, P \cup {n + 3})
             /\ \A j \in P : IsPending(d, j)
<1> DEFINE cells == <<Op(opcode), Byte(0), Byte(0)>>
           d == Emit(c, cells, token)
           n == Size(c)
<1>1. n \in Nat
  BY DEF Chunks, Size
<1>2. /\ cells \in Seq(Cell) /\ Len(cells) = 3
      /\ cells[1].opcode = opcode /\ cells[2].opcode = "operand" /\ cells[3].opcode = "operand"
  <2>1. Op(opcode) \in Cell /\ Byte(0) \in Cell
    BY ChunkAssumption DEF Op, Byte, Cell, ByteValue, Opcode, JumpOpcode
  <2>. QED
    BY <2>1 DEF Op, Byte
<1>3. Instructions_(cells)
  <2>. HIDE DEF cells
  <2>1. WidthAt(cells, 1) = 3
    BY <1>2 DEF WidthAt, PlainOpcode, ConstantOpcode, NameOpcode, IndexOpcode, JumpOpcode
  <2>2. cells[1].opcode # "operand" /\ cells[1].opcode # "closure"
    BY <1>2 DEF JumpOpcode
  <2>. QED
    BY <1>2, <2>1, <2>2 DEF Instructions_
<1>4. EmitJump(c, opcode, token) = d
  BY DEF EmitJump
<1>5. /\ d \in Chunks(S) /\ d.narrowing_error = c.narrowing_error
      /\ Size(d) = n + 3
      /\ \A i \in 1 .. n : d.bytecode[i] = c.bytecode[i]
      /\ \A i \in 1 .. 3 : d.bytecode[n + i] = cells[i]
      /\ IsStart(d, 0) /\ Aligned(d) /\ TokensParallel(d) /\ ConstantsUnique(d)
      /\ Extends(c, d)
      /\ \A index \in 0 .. n - 1 :
           OpcodeAt(c, index) \in JumpOpcode /\ index + 3 \notin P =>
             IsStart(d, JumpTarget(d, index))
  <2>. HIDE DEF cells
  <2>1. /\ d \in Chunks(S) /\ d.narrowing_error = c.narrowing_error
        /\ Size(d) = n + Len(cells)
        /\ \A i \in 1 .. n : d.bytecode[i] = c.bytecode[i]
        /\ \A i \in 1 .. Len(cells) : d.bytecode[n + i] = cells[i]
        /\ IsStart(d, 0) /\ Aligned(d) /\ TokensParallel(d) /\ ConstantsUnique(d)
        /\ Extends(c, d)
        /\ \A index \in 0 .. n - 1 :
             OpcodeAt(c, index) \in JumpOpcode /\ index + 3 \notin P =>
               IsStart(d, JumpTarget(d, index))
    BY <1>1, <1>3, EmitAligned
  <2>. HIDE DEF d
  <2>. QED
    BY <1>2, <2>1
<1>. HIDE DEF d, cells
<1>6. /\ OpcodeAt(d, n) = opcode /\ OpcodeAt(d, n + 1) = "operand" /\ OpcodeAt(d, n + 2) = "operand"
  <2>1. d.bytecode[n + 1] = cells[1] /\ d.bytecode[n + 2] = cells[2] /\ d.bytecode[n + 3] = cells[3]
    BY <1>5
  <2>2. n + 1 + 1 = n + 2 /\ n + 2 + 1 = n + 3
    BY <1>1
  <2>. QED
    BY <1>2, <2>1, <2>2 DEF OpcodeAt
<1>7. JumpsLand(d, P \cup {n + 3})
  <2>1. SUFFICES ASSUME NEW index \in 0 .. Size(d) - 1, OpcodeAt(d, index) \in JumpOpcode,
                        index + 3 \notin P, index + 3 # n + 3
                 PROVE  IsStart(d, JumpTarget(d, index))
    BY DEF JumpsLand
  <2>2. index \in 0 .. n - 1 \/ index = n + 1 \/ index = n + 2
    <3>. HIDE DEF n
    <3>. QED
      BY <1>1, <1>5, <2>1
  <2>3. index \in 0 .. n - 1
    BY <1>6, <2>1, <2>2 DEF JumpOpcode
  <2>4. OpcodeAt(d, index) = OpcodeAt(c, index)
    BY <1>1, <1>5, <2>3 DEF OpcodeAt
  <2>. QED
    BY <1>5, <2>1, <2>3, <2>4
<1>8. \A j \in P : IsPending(d, j)
  <2>1. SUFFICES ASSUME NEW j \in P PROVE IsPending(d, j)
    OBVIOUS
  <2>2. IsPending(c, j)
    BY DEF SoundCode
  <2>3. j \in Nat
    BY <2>2, <1>1 DEF IsPending
  <2>. QED
    BY <1>5, <2>2, <2>3 DEF Extends
<1>. QED
  BY <1>4, <1>5, <1>6, <1>7, <1>8

(* A jump to be patched is one more that is pending. *)
LEMMA EmitJumpGood ==
  ASSUME NEW S, NEW c, NEW P, Good(c, P, S), NEW opcode \in {"jump", "jump_if_false"},
         NEW token \in Nat
  PROVE  LET d == EmitJump(c, opcode, token)
         IN  /\ Good(d, P \cup {Size(d)}, S) /\ Later(c, d)
             /\ ~d.narrowing_error => Size(d) = Size(c) + 3 /\ IsPending(d, Size(d))
<1> DEFINE d == EmitJump(c, opcode, token)
           n == Size(c)
<1>1. d.narrowing_error = c.narrowing_error /\ "narrowing_error" \in DOMAIN d
  BY StillUnwound DEF EmitJump, Good
<1>2. CASE c.narrowing_error
  BY <1>1, <1>2 DEF Good, Later
<1>3. CASE ~c.narrowing_error
  <2>1. c \in Chunks(S) /\ SoundCode(c, P) /\ n \in Nat
    BY <1>3 DEF Good, Chunks, Size
  <2>2. opcode \in JumpOpcode
    BY DEF JumpOpcode
  <2>3. /\ d \in Chunks(S) /\ Size(d) = n + 3 /\ OpcodeAt(d, n) = opcode
        /\ OpcodeAt(d, n + 1) = "operand" /\ OpcodeAt(d, n + 2) = "operand"
        /\ IsStart(d, 0) /\ Aligned(d) /\ TokensParallel(d) /\ ConstantsUnique(d)
        /\ Extends(c, d) /\ JumpsLand(d, P \cup {n + 3}) /\ \A j \in P : IsPending(d, j)
    <3>1. c \in Chunks(S) /\ SoundCode(c, P)
      BY <2>1
    <3>2. LET e == EmitJump(c, opcode, token)
              m == Size(c)
          IN  /\ e \in Chunks(S) /\ e.narrowing_error = c.narrowing_error
              /\ Size(e) = m + 3 /\ OpcodeAt(e, m) = opcode
              /\ OpcodeAt(e, m + 1) = "operand" /\ OpcodeAt(e, m + 2) = "operand"
              /\ IsStart(e, 0) /\ Aligned(e) /\ TokensParallel(e) /\ ConstantsUnique(e)
              /\ Extends(c, e)
              /\ JumpsLand(e, P \cup {m + 3})
              /\ \A j \in P : IsPending(e, j)
      BY <2>2, <3>1, EmitJumpShape, Zenon
    <3>. QED
      BY <3>2
  <2>. HIDE DEF d, n
  <2>4. IsPending(d, n + 3)
    <3> DEFINE j == n + 3
    <3>1. j - 3 = n /\ j - 2 = n + 1 /\ j - 1 = n + 2 /\ j \in 3 .. Size(d)
      BY <2>1, <2>3
    <3>. HIDE DEF j
    <3>2. IsPending(d, j)
      BY <2>3, <3>1 DEF IsPending
    <3>. QED
      BY <3>2 DEF j
  <2>5. SoundCode(d, P \cup {n + 3})
    BY <2>3, <2>4 DEF SoundCode
  <2>. QED
    BY <1>1, <1>3, <2>3, <2>4, <2>5 DEF Good, Later, d, n
<1>. QED
  BY <1>2, <1>3

(* What an instruction of sound code looks like. *)
LEMMA InstructionShape ==
  ASSUME NEW S, NEW c \in Chunks(S), Aligned(c),
         NEW index \in 0 .. Size(c) - 1, OpcodeAt(c, index) # "operand"
  PROVE  /\ Width(c, index) \in Nat \ {0}
         /\ OpcodeAt(c, index) \in JumpOpcode => Width(c, index) = 3
         /\ OpcodeAt(c, index) = "closure" => index + 2 < Size(c) /\ Width(c, index) >= 3
         /\ IsStart(c, index + Width(c, index))
         /\ index + Width(c, index) <= Size(c)
         /\ \A i \in index + 1 .. index + Width(c, index) - 1 : OpcodeAt(c, i) = "operand"
<1>1. c.bytecode \in Seq(Cell) /\ Size(c) \in Nat /\ Size(c) = Len(c.bytecode)
  BY DEF Chunks, Size
<1>2. /\ OpcodeAt(c, index) = "closure" => index + 2 < Size(c)
      /\ IsStart(c, index + Width(c, index))
      /\ \A i \in index + 1 .. index + Width(c, index) - 1 : OpcodeAt(c, i) = "operand"
  BY DEF Aligned
<1>3. index + 1 \in 1 .. Len(c.bytecode)
  BY <1>1
<1>4. /\ Width(c, index) \in Nat \ {0}
      /\ OpcodeAt(c, index) \in JumpOpcode => Width(c, index) = 3
      /\ OpcodeAt(c, index) = "closure" => Width(c, index) >= 3
  BY <1>1, <1>2, <1>3, WidthType DEF OpcodeAt, Width
<1>. QED
  BY <1>1, <1>2, <1>4 DEF IsStart

(* Writing a distance after a jump changes where that jump leads, and       *)
(* nothing else.                                                            *)
THEOREM WriteDistanceExact ==
  ASSUME NEW S, NEW c \in Chunks(S), Aligned(c),
         NEW j \in 3 .. Size(c), OpcodeAt(c, j - 3) \in JumpOpcode,
         NEW distance \in Nat, FitsTwoBytes(distance)
  PROVE  LET d == WriteDistance(c, j - 2, distance)
         IN  /\ d \in Chunks(S) /\ d.narrowing_error = c.narrowing_error
             /\ d.constants = c.constants /\ d.source_map_tokens = c.source_map_tokens
             /\ Size(d) = Size(c)
             /\ \A index \in 0 .. Size(c) - 1 : OpcodeAt(d, index) = OpcodeAt(c, index)
             /\ \A index \in Nat : IsStart(c, index) <=> IsStart(d, index)
             /\ Aligned(d) /\ Extends(c, d)
             /\ JumpTarget(d, j - 3) =
                  IF OpcodeAt(c, j - 3) = "loop" THEN j - distance ELSE j + distance
             /\ \A index \in 0 .. Size(c) - 1 :
                  OpcodeAt(c, index) \in JumpOpcode /\ index # j - 3 =>
                    JumpTarget(d, index) = JumpTarget(c, index)
<1> DEFINE d == WriteDistance(c, j - 2, distance)
           high == distance \div ByteValues
           low == distance % ByteValues
           n == Size(c)
<1>1. c.bytecode \in Seq(Cell) /\ n \in Nat /\ n = Len(c.bytecode)
  BY DEF Chunks, Size
<1>2. /\ high \in ByteValue /\ low \in ByteValue
      /\ high * ByteValues + low = distance
  BY DivMod, ChunkAssumption DEF FitsTwoBytes, ByteValue
<1>. HIDE DEF high, low
<1>3. /\ OpcodeAt(c, j - 2) = "operand" /\ OpcodeAt(c, j - 1) = "operand"
      /\ Width(c, j - 3) = 3
  <2>1. j - 3 \in 0 .. n - 1 /\ OpcodeAt(c, j - 3) # "operand"
    BY <1>1 DEF JumpOpcode
  <2>2. Width(c, j - 3) = 3
    BY <1>1, <2>1, InstructionShape
  <2>3. \A i \in j - 3 + 1 .. j - 3 + 3 - 1 : OpcodeAt(c, i) = "operand"
    BY <1>1, <2>1, <2>2, InstructionShape
  <2>4. j - 2 \in j - 3 + 1 .. j - 3 + 3 - 1 /\ j - 1 \in j - 3 + 1 .. j - 3 + 3 - 1
    BY <1>1
  <2>. QED
    BY <2>2, <2>3, <2>4
<1>4. /\ d \in Chunks(S) /\ d.narrowing_error = c.narrowing_error
      /\ d.constants = c.constants /\ d.source_map_tokens = c.source_map_tokens
      /\ Size(d) = n
      /\ d.bytecode[j - 1] = Byte(high) /\ d.bytecode[j] = Byte(low)
      /\ \A i \in 1 .. n : i # j - 1 /\ i # j => d.bytecode[i] = c.bytecode[i]
  <2> DEFINE bytecode == [[c.bytecode EXCEPT ![j - 2 + 1] = Byte(high)] EXCEPT ![j - 2 + 2] = Byte(low)]
  <2>1. Byte(high) \in Cell /\ Byte(low) \in Cell
    BY <1>2 DEF Byte, Cell
  <2>2. j - 2 + 1 = j - 1 /\ j - 2 + 2 = j /\ j - 1 \in 1 .. n /\ j \in 1 .. n
    BY <1>1
  <2>3. /\ bytecode \in Seq(Cell) /\ Len(bytecode) = n
        /\ bytecode[j - 1] = Byte(high) /\ bytecode[j] = Byte(low)
        /\ \A i \in 1 .. n : i # j - 1 /\ i # j => bytecode[i] = c.bytecode[i]
    BY <1>1, <2>1, <2>2
  <2>4. d = [c EXCEPT !.bytecode = bytecode]
    BY DEF WriteDistance, high, low, Chunks
  <2>. HIDE DEF d, bytecode
  <2>5. /\ d \in Chunks(S) /\ d.bytecode = bytecode /\ d.narrowing_error = c.narrowing_error
        /\ d.constants = c.constants /\ d.source_map_tokens = c.source_map_tokens
    BY <2>3, <2>4 DEF Chunks
  <2>. QED
    BY <2>3, <2>5 DEF Size
<1>. HIDE DEF d
<1>5. \A index \in 0 .. n - 1 : OpcodeAt(d, index) = OpcodeAt(c, index)
  <2>1. SUFFICES ASSUME NEW index \in 0 .. n - 1 PROVE OpcodeAt(d, index) = OpcodeAt(c, index)
    OBVIOUS
  <2>2. CASE index + 1 = j - 1
    <3>1. index = j - 2
      BY <1>1, <2>2
    <3>. QED
      BY <1>3, <1>4, <2>2, <3>1 DEF OpcodeAt, Byte
  <2>3. CASE index + 1 = j
    <3>1. index = j - 1
      BY <1>1, <2>3
    <3>. QED
      BY <1>3, <1>4, <2>3, <3>1 DEF OpcodeAt, Byte
  <2>4. CASE index + 1 # j - 1 /\ index + 1 # j
    <3>1. index + 1 \in 1 .. n
      BY <1>1
    <3>. QED
      BY <1>4, <2>4, <3>1 DEF OpcodeAt
  <2>. QED
    BY <2>2, <2>3, <2>4
<1>6. \A index \in Nat : IsStart(c, index) <=> IsStart(d, index)
  BY <1>4, <1>5 DEF IsStart
<1>7. \A k \in Nat : IsPending(c, k) => IsPending(d, k)
  BY <1>1, <1>4, <1>5 DEF IsPending
<1>8. ASSUME NEW index \in 0 .. n - 1, OpcodeAt(c, index) # "operand"
      PROVE  /\ index + 1 # j - 1 /\ index + 1 # j
             /\ OpcodeAt(c, index) = "closure" => index + 3 # j - 1 /\ index + 3 # j
             /\ OpcodeAt(c, index) \in JumpOpcode /\ index # j - 3 =>
                  index + 2 # j - 1 /\ index + 2 # j /\ index + 3 # j - 1 /\ index + 3 # j
  <2>1. index # j - 2 /\ index # j - 1
    BY <1>3, <1>8
  <2>2. \A i \in index + 1 .. index + Width(c, index) - 1 : i # j - 3
    BY <1>8, InstructionShape DEF JumpOpcode
  <2>3. /\ OpcodeAt(c, index) \in JumpOpcode => Width(c, index) = 3
        /\ OpcodeAt(c, index) = "closure" => Width(c, index) >= 3
        /\ Width(c, index) \in Nat
    BY <1>8, InstructionShape
  <2>4. OpcodeAt(c, index) = "closure" => index # j - 3
    BY DEF JumpOpcode
  <2>5. CASE OpcodeAt(c, index) \in JumpOpcode \cup {"closure"}
    <3>1. Width(c, index) >= 3
      BY <2>3, <2>5
    <3>2. index + 1 # j - 3 /\ index + 2 # j - 3
      <4>1. /\ index + 1 \in index + 1 .. index + Width(c, index) - 1
            /\ index + 2 \in index + 1 .. index + Width(c, index) - 1
        BY <1>1, <2>3, <3>1
      <4>. QED
        BY <2>2, <4>1
    <3>. QED
      BY <1>1, <2>1, <2>4, <3>2
  <2>. QED
    BY <1>1, <2>1, <2>5
<1>9. Aligned(d)
  <2>1. SUFFICES ASSUME NEW index \in 0 .. n - 1, OpcodeAt(d, index) # "operand"
                 PROVE  /\ OpcodeAt(d, index) = "closure" => index + 2 < Size(d)
                        /\ IsStart(d, index + Width(d, index))
                        /\ \A i \in index + 1 .. index + Width(d, index) - 1 :
                              OpcodeAt(d, i) = "operand"
    BY <1>4 DEF Aligned
  <2>2. OpcodeAt(c, index) # "operand" /\ OpcodeAt(d, index) = OpcodeAt(c, index)
    BY <1>5, <2>1
  <2>3. /\ Width(c, index) \in Nat \ {0}
        /\ OpcodeAt(c, index) = "closure" => index + 2 < n
        /\ IsStart(c, index + Width(c, index))
        /\ index + Width(c, index) <= n
        /\ \A i \in index + 1 .. index + Width(c, index) - 1 : OpcodeAt(c, i) = "operand"
    BY <2>2, InstructionShape
  <2>4. Width(d, index) = Width(c, index)
    <3>1. d.bytecode[index + 1] = c.bytecode[index + 1]
      <4>1. index + 1 \in 1 .. n
        BY <1>1
      <4>. QED
        BY <1>4, <1>8, <2>2, <4>1
    <3>2. CASE OpcodeAt(c, index) = "closure"
      <4>1. index + 3 \in 1 .. n /\ index + 1 + 2 = index + 3
        BY <1>1, <2>3, <3>2
      <4>2. d.bytecode[index + 1 + 2] = c.bytecode[index + 1 + 2]
        BY <1>4, <1>8, <2>2, <3>2, <4>1
      <4>. QED
        BY <3>1, <3>2, <4>2 DEF Width, WidthAt, OpcodeAt
    <3>3. CASE OpcodeAt(c, index) # "closure"
      <4>1. index + 1 \in 1 .. n
        BY <1>1
      <4>2. c.bytecode[index + 1] \in Cell
        BY <1>1, <4>1
      <4>3. OpcodeAt(c, index) \in Opcode
        BY <4>2, <2>2 DEF OpcodeAt, Cell
      <4>. QED
        BY <3>1, <3>3, <4>3 DEF Width, WidthAt, OpcodeAt, Opcode
    <3>. QED
      BY <3>2, <3>3
  <2>5. IsStart(d, index + Width(c, index))
    <3>1. index + Width(c, index) \in Nat
      BY <1>1, <2>3
    <3>. QED
      BY <1>6, <2>3, <3>1
  <2>6. \A i \in index + 1 .. index + Width(c, index) - 1 : OpcodeAt(d, i) = "operand"
    BY <1>1, <1>5, <2>3
  <2>. QED
    BY <1>4, <2>2, <2>3, <2>4, <2>5, <2>6
<1>10. JumpTarget(d, j - 3) = IF OpcodeAt(c, j - 3) = "loop" THEN j - distance ELSE j + distance
  <2>1. j - 3 + 1 + 1 = j - 1 /\ j - 3 + 1 + 2 = j /\ j - 3 + 3 = j /\ j - 3 \in 0 .. n - 1
    BY <1>1
  <2>2. ReadDistance(d.bytecode, j - 3 + 1) = distance
    BY <1>2, <1>4, <2>1 DEF ReadDistance, Byte
  <2>. QED
    BY <1>5, <2>1, <2>2 DEF JumpTarget
<1>11. ASSUME NEW index \in 0 .. n - 1, OpcodeAt(c, index) \in JumpOpcode, index # j - 3
       PROVE  JumpTarget(d, index) = JumpTarget(c, index)
  <2>1. OpcodeAt(c, index) # "operand"
    BY <1>11 DEF JumpOpcode
  <2>2. index + 3 <= n
    BY <1>1, <1>11, <2>1, InstructionShape
  <2>3. index + 2 \in 1 .. n /\ index + 3 \in 1 .. n /\ index + 1 + 1 = index + 2 /\ index + 1 + 2 = index + 3
    BY <1>1, <2>2
  <2>4. /\ d.bytecode[index + 2] = c.bytecode[index + 2]
        /\ d.bytecode[index + 3] = c.bytecode[index + 3]
    BY <1>4, <1>8, <1>11, <2>1, <2>3
  <2>5. ReadDistance(d.bytecode, index + 1) = ReadDistance(c.bytecode, index + 1)
    BY <2>3, <2>4 DEF ReadDistance
  <2>. QED
    BY <1>5, <2>5 DEF JumpTarget
<1>12. Extends(c, d)
  BY <1>1, <1>4, <1>6, <1>7 DEF Extends
<1>. QED
  BY <1>4, <1>5, <1>6, <1>9, <1>10, <1>11, <1>12 DEF d

LEMMA ExtendsTransitive ==
  ASSUME NEW c, NEW d, NEW e, Later(c, d), Later(d, e),
         ~c.narrowing_error => Size(c) \in Nat,
         ~d.narrowing_error => Size(d) \in Nat,
         ~e.narrowing_error => Size(e) \in Nat
  PROVE  Later(c, e)
<1>. QED
  BY DEF Later, Extends

(* Jump_backpatch: the jump that was pending now leads to the end of the    *)
(* code, and no other jump has moved.                                       *)
THEOREM PatchGood ==
  ASSUME NEW S, NEW c, NEW P, Good(c, P, S), NEW j \in P
  PROVE  LET d == ToNextOpcode(c, j)
         IN  /\ Good(d, P \ {j}, S) /\ Later(c, d)
             /\ ~d.narrowing_error => Size(d) = Size(c) /\ JumpTarget(d, j - 3) = Size(d)
<1> DEFINE n == Size(c)
           distance == n - j
           d == ToNextOpcode(c, j)
<1>1. CASE ~FitsTwoBytes(distance)
  <2>1. d = Unwound(c)
    BY <1>1 DEF ToNextOpcode
  <2>. QED
    BY <2>1, StillUnwound DEF Good, Later
<1>2. CASE FitsTwoBytes(distance) /\ c.narrowing_error
  <2>1. d = WriteDistance(c, j - 2, distance)
    BY <1>2 DEF ToNextOpcode
  <2>. QED
    BY <1>2, <2>1, StillUnwound DEF Good, Later
<1>3. CASE FitsTwoBytes(distance) /\ ~c.narrowing_error
  <2>1. c \in Chunks(S) /\ SoundCode(c, P) /\ n \in Nat
    BY <1>3 DEF Good, Chunks, Size
  <2>2. IsPending(c, j) /\ j \in 3 .. n /\ OpcodeAt(c, j - 3) \in {"jump", "jump_if_false"}
    BY <2>1 DEF SoundCode, IsPending
  <2>3. distance \in Nat
    BY <2>1, <2>2
  <2>4. d = WriteDistance(c, j - 2, distance)
    BY <1>3 DEF ToNextOpcode
  <2>5. Aligned(c) /\ OpcodeAt(c, j - 3) \in JumpOpcode /\ OpcodeAt(c, j - 3) # "loop"
    BY <2>1, <2>2 DEF SoundCode, JumpOpcode
  <2>. HIDE DEF distance, d
  <2>6. LET e == WriteDistance(c, j - 2, distance)
        IN  /\ e \in Chunks(S) /\ e.narrowing_error = c.narrowing_error
            /\ e.constants = c.constants /\ e.source_map_tokens = c.source_map_tokens
            /\ Size(e) = Size(c)
            /\ \A index \in 0 .. Size(c) - 1 : OpcodeAt(e, index) = OpcodeAt(c, index)
            /\ \A index \in Nat : IsStart(c, index) <=> IsStart(e, index)
            /\ Aligned(e) /\ Extends(c, e)
            /\ JumpTarget(e, j - 3) =
                 IF OpcodeAt(c, j - 3) = "loop" THEN j - distance ELSE j + distance
            /\ \A index \in 0 .. Size(c) - 1 :
                 OpcodeAt(c, index) \in JumpOpcode /\ index # j - 3 =>
                   JumpTarget(e, index) = JumpTarget(c, index)
    BY <1>3, <2>1, <2>2, <2>3, <2>5, WriteDistanceExact
  <2>7. /\ d \in Chunks(S) /\ d.narrowing_error = c.narrowing_error
        /\ d.constants = c.constants /\ d.source_map_tokens = c.source_map_tokens
        /\ Size(d) = n
        /\ \A index \in 0 .. n - 1 : OpcodeAt(d, index) = OpcodeAt(c, index)
        /\ \A index \in Nat : IsStart(c, index) <=> IsStart(d, index)
        /\ Aligned(d) /\ Extends(c, d)
        /\ JumpTarget(d, j - 3) = j + distance
        /\ \A index \in 0 .. n - 1 :
             OpcodeAt(c, index) \in JumpOpcode /\ index # j - 3 =>
               JumpTarget(d, index) = JumpTarget(c, index)
    BY <2>4, <2>5, <2>6
  <2>8. j + distance = n
    BY <2>1, <2>2 DEF distance
  <2>9. JumpsLand(d, P \ {j})
    <3>1. SUFFICES ASSUME NEW index \in 0 .. n - 1, OpcodeAt(d, index) \in JumpOpcode,
                          index + 3 \notin P \ {j}
                   PROVE  IsStart(d, JumpTarget(d, index))
      BY <2>7 DEF JumpsLand
    <3>2. CASE index = j - 3
      BY <2>7, <2>8, <3>2 DEF IsStart
    <3>3. CASE index # j - 3
      <4>1. index + 3 \notin P /\ OpcodeAt(c, index) \in JumpOpcode
        BY <2>1, <2>2, <2>7, <3>1, <3>3
      <4>2. IsStart(c, JumpTarget(c, index))
        BY <2>1, <4>1 DEF SoundCode, JumpsLand
      <4>3. JumpTarget(c, index) \in Nat
        BY <2>1, <4>2 DEF IsStart
      <4>. QED
        BY <2>7, <3>3, <4>1, <4>2, <4>3
    <3>. QED
      BY <3>2, <3>3
  <2>10. \A k \in P : IsPending(d, k)
    <3>1. SUFFICES ASSUME NEW k \in P PROVE IsPending(d, k)
      OBVIOUS
    <3>2. IsPending(c, k)
      BY <2>1 DEF SoundCode
    <3>3. k \in Nat
      BY <2>1, <3>2 DEF IsPending
    <3>. QED
      BY <2>7, <3>2, <3>3 DEF Extends
  <2>11. IsStart(d, 0) /\ ConstantsUnique(d) /\ TokensParallel(d)
    BY <2>1, <2>7 DEF SoundCode, ConstantsUnique, TokensParallel, Size
  <2>. QED
    <3>1. SoundCode(d, P \ {j})
      BY <2>7, <2>9, <2>10, <2>11 DEF SoundCode
    <3>2. "narrowing_error" \in DOMAIN d
      BY <2>7 DEF Chunks
    <3>. QED
      BY <1>3, <2>7, <2>8, <3>1, <3>2 DEF Good, Later, d
<1>. QED
  BY <1>1, <1>2, <1>3

(* A loop leads back to the beginning it was given. *)
THEOREM EmitLoopGood ==
  ASSUME NEW S, NEW c, NEW P, Good(c, P, S), NEW token \in Nat,
         NEW b \in Nat, ~c.narrowing_error => IsStart(c, b)
  PROVE  LET d == EmitLoop(c, b, token)
         IN  /\ Good(d, P, S) /\ Later(c, d)
             /\ ~d.narrowing_error => Size(d) = Size(c) + 3 /\ JumpTarget(d, Size(c)) = b
<1> DEFINE n == Size(c)
           dummy == EmitJump(c, "loop", token)
           distance == Size(dummy) - b
           d == EmitLoop(c, b, token)
<1>1. /\ "narrowing_error" \in DOMAIN dummy /\ dummy.narrowing_error = c.narrowing_error
      /\ "narrowing_error" \in DOMAIN d /\ (c.narrowing_error => d.narrowing_error)
  <2>1. "narrowing_error" \in DOMAIN dummy /\ dummy.narrowing_error = c.narrowing_error
    BY StillUnwound DEF EmitJump, Good
  <2>. HIDE DEF dummy
  <2>2. d = WriteDistance(dummy, Size(dummy) - 2, distance) \/ d = Unwound(dummy)
    BY DEF EmitLoop, dummy
  <2>. QED
    BY <2>1, <2>2, StillUnwound
<1>2. CASE c.narrowing_error
  BY <1>1, <1>2 DEF Good, Later
<1>3. CASE ~c.narrowing_error
  <2>1. c \in Chunks(S) /\ SoundCode(c, P) /\ n \in Nat /\ b \in 0 .. n
    BY <1>3 DEF Good, Chunks, Size, IsStart
  <2>2. "loop" \in JumpOpcode
    BY DEF JumpOpcode
  <2>3. LET e == EmitJump(c, "loop", token)
            m == Size(c)
        IN  /\ e \in Chunks(S) /\ e.narrowing_error = c.narrowing_error
            /\ Size(e) = m + 3 /\ OpcodeAt(e, m) = "loop"
            /\ OpcodeAt(e, m + 1) = "operand" /\ OpcodeAt(e, m + 2) = "operand"
            /\ IsStart(e, 0) /\ Aligned(e) /\ TokensParallel(e) /\ ConstantsUnique(e)
            /\ Extends(c, e)
            /\ JumpsLand(e, P \cup {m + 3})
            /\ \A j \in P : IsPending(e, j)
    BY <2>1, <2>2, EmitJumpShape, Zenon
  <2>4. /\ dummy \in Chunks(S) /\ Size(dummy) = n + 3 /\ OpcodeAt(dummy, n) = "loop"
        /\ IsStart(dummy, 0) /\ Aligned(dummy) /\ TokensParallel(dummy)
        /\ ConstantsUnique(dummy) /\ Extends(c, dummy) /\ JumpsLand(dummy, P \cup {n + 3})
        /\ \A j \in P : IsPending(dummy, j)
    BY <2>3
  <2>. HIDE DEF dummy, d, n
  <2>5. CASE ~FitsTwoBytes(distance)
    <3>1. d = Unwound(dummy)
      BY <2>5 DEF d, EmitLoop, dummy
    <3>. QED
      BY <1>1, <3>1, StillUnwound DEF Good, Later, d
  <2>6. CASE FitsTwoBytes(distance)
    <3> DEFINE j == n + 3
    <3>1. j \in 3 .. Size(dummy) /\ j - 3 = n /\ Size(dummy) - 2 = j - 2 /\ distance \in Nat
          /\ j - distance = b
      BY <2>1, <2>4
    <3>2. d = WriteDistance(dummy, j - 2, distance)
      BY <2>6, <3>1 DEF d, EmitLoop, dummy
    <3>3. OpcodeAt(dummy, j - 3) \in JumpOpcode
      BY <2>2, <2>4, <3>1
    <3>. HIDE DEF distance, j
    <3>4. LET e == WriteDistance(dummy, j - 2, distance)
          IN  /\ e \in Chunks(S) /\ e.narrowing_error = dummy.narrowing_error
              /\ e.constants = dummy.constants /\ e.source_map_tokens = dummy.source_map_tokens
              /\ Size(e) = Size(dummy)
              /\ \A index \in 0 .. Size(dummy) - 1 : OpcodeAt(e, index) = OpcodeAt(dummy, index)
              /\ \A index \in Nat : IsStart(dummy, index) <=> IsStart(e, index)
              /\ Aligned(e) /\ Extends(dummy, e)
              /\ JumpTarget(e, j - 3) =
                   IF OpcodeAt(dummy, j - 3) = "loop" THEN j - distance ELSE j + distance
              /\ \A index \in 0 .. Size(dummy) - 1 :
                   OpcodeAt(dummy, index) \in JumpOpcode /\ index # j - 3 =>
                     JumpTarget(e, index) = JumpTarget(dummy, index)
      BY <2>4, <2>6, <3>1, <3>3, WriteDistanceExact
    <3>5. /\ d \in Chunks(S) /\ d.narrowing_error = dummy.narrowing_error
          /\ d.constants = dummy.constants /\ d.source_map_tokens = dummy.source_map_tokens
          /\ Size(d) = n + 3
          /\ \A index \in 0 .. n + 2 : OpcodeAt(d, index) = OpcodeAt(dummy, index)
          /\ \A index \in Nat : IsStart(dummy, index) <=> IsStart(d, index)
          /\ Aligned(d) /\ Extends(dummy, d)
          /\ JumpTarget(d, n) = b
          /\ \A index \in 0 .. n + 2 :
               OpcodeAt(dummy, index) \in JumpOpcode /\ index # n =>
                 JumpTarget(d, index) = JumpTarget(dummy, index)
      <4>1. Size(dummy) - 1 = n + 2
        BY <2>1, <2>4
      <4>. QED
        BY <2>4, <3>1, <3>2, <3>4, <4>1
    <3>6. IsStart(d, b)
      BY <1>3, <2>4, <3>5 DEF Extends
    <3>7. JumpsLand(d, P)
      <4>1. SUFFICES ASSUME NEW index \in 0 .. n + 2, OpcodeAt(d, index) \in JumpOpcode,
                            index + 3 \notin P
                     PROVE  IsStart(d, JumpTarget(d, index))
        <5>1. Size(d) - 1 = n + 2
          BY <2>1, <3>5
        <5>. QED
          BY <5>1 DEF JumpsLand
      <4>2. CASE index = n
        BY <3>5, <3>6, <4>2
      <4>3. CASE index # n
        <5>1. /\ index \in 0 .. Size(dummy) - 1 /\ OpcodeAt(dummy, index) \in JumpOpcode
              /\ index + 3 \notin P \cup {n + 3}
          BY <2>1, <2>4, <3>5, <4>1, <4>3
        <5>2. IsStart(dummy, JumpTarget(dummy, index))
          BY <2>4, <5>1 DEF JumpsLand
        <5>3. JumpTarget(dummy, index) \in Nat
          BY <2>1, <2>4, <5>2 DEF IsStart
        <5>. QED
          BY <3>5, <4>1, <4>3, <5>1, <5>2, <5>3
      <4>. QED
        BY <4>2, <4>3
    <3>8. \A k \in P : IsPending(d, k)
      <4>1. SUFFICES ASSUME NEW k \in P PROVE IsPending(d, k)
        OBVIOUS
      <4>2. IsPending(dummy, k)
        BY <2>4
      <4>3. k \in Nat
        BY <2>1, <2>4, <4>2 DEF IsPending
      <4>. QED
        BY <3>5, <4>2, <4>3 DEF Extends
    <3>9. IsStart(d, 0) /\ ConstantsUnique(d) /\ TokensParallel(d)
      BY <2>4, <3>5 DEF ConstantsUnique, TokensParallel, Size
    <3>10. SoundCode(d, P)
      BY <3>5, <3>7, <3>8, <3>9 DEF SoundCode
    <3>11. Extends(c, d)
      BY <2>1, <2>4, <3>5 DEF Extends
    <3>. QED
      BY <1>1, <1>3, <3>5, <3>10, <3>11 DEF Good, Later, d, n
  <2>. QED
    BY <2>5, <2>6
<1>. QED
  BY <1>2, <1>3

(* Inserting a constant leaves the code as it is; the index of a constant   *)
(* is the index of an equal one, and indexes given before stay good.        *)
LEMMA InsertGood ==
  ASSUME NEW S, NEW c, NEW P, Good(c, P, S), NEW value \in S
  PROVE  LET d == InsertConstant(c, value)
             index == ConstantIndex(d, value)
         IN  /\ Good(d, P, S) /\ Later(c, d)
             /\ ~d.narrowing_error =>
                  /\ d.bytecode = c.bytecode
                  /\ index \in 0 .. Len(d.constants) - 1 /\ d.constants[index + 1] = value
                  /\ \A i \in 1 .. Len(c.constants) : d.constants[i] = c.constants[i]
<1> DEFINE d == InsertConstant(c, value)
           index == ConstantIndex(d, value)
<1>1. "narrowing_error" \in DOMAIN d /\ d.narrowing_error = c.narrowing_error
  BY StillUnwound DEF Good
<1>2. CASE c.narrowing_error
  BY <1>1, <1>2 DEF Good, Later
<1>3. CASE ~c.narrowing_error
  <2>1. c \in Chunks(S) /\ SoundCode(c, P)
    BY <1>3 DEF Good
  <2>2. c.constants \in Seq(S) /\ Len(c.constants) \in Nat /\ ConstantsUnique(c)
    BY <2>1 DEF Chunks, SoundCode
  <2>3. /\ d \in Chunks(S) /\ d.bytecode = c.bytecode
        /\ d.source_map_tokens = c.source_map_tokens
        /\ ConstantsUnique(d)
        /\ \E i \in 1 .. Len(d.constants) : d.constants[i] = value
        /\ \A i \in 1 .. Len(c.constants) : d.constants[i] = c.constants[i]
    <3>1. CASE \E i \in DOMAIN c.constants : c.constants[i] = value
      <4>1. d = c
        BY <3>1 DEF InsertConstant
      <4>. QED
        BY <2>1, <2>2, <3>1, <4>1
    <3>2. CASE ~ \E i \in DOMAIN c.constants : c.constants[i] = value
      <4> DEFINE constants == Append(c.constants, value)
      <4>1. d = [c EXCEPT !.constants = constants]
        BY <3>2 DEF InsertConstant
      <4>2. /\ constants \in Seq(S) /\ Len(constants) = Len(c.constants) + 1
            /\ constants[Len(c.constants) + 1] = value
            /\ \A i \in 1 .. Len(c.constants) : constants[i] = c.constants[i]
        BY <2>2
      <4>. HIDE DEF constants, d
      <4>3. /\ d \in Chunks(S) /\ d.bytecode = c.bytecode
            /\ d.source_map_tokens = c.source_map_tokens /\ d.constants = constants
        BY <2>1, <4>1, <4>2 DEF Chunks
      <4>4. ConstantsUnique(d)
        BY <2>2, <3>2, <4>2, <4>3 DEF ConstantsUnique
      <4>. QED
        BY <2>2, <4>2, <4>3, <4>4
    <3>. QED
      BY <3>1, <3>2
  <2>. HIDE DEF d
  <2>4. index \in 0 .. Len(d.constants) - 1 /\ d.constants[index + 1] = value
    <3>1. d.constants \in Seq(S)
      BY <2>3 DEF Chunks
    <3>2. PICK i \in 1 .. Len(d.constants) : d.constants[i] = value
      BY <2>3
    <3>3. \A j \in DOMAIN d.constants : d.constants[j] = value => j = i
      BY <2>3, <3>1, <3>2 DEF ConstantsUnique
    <3>4. i \in DOMAIN d.constants /\ \A j \in 1 .. i - 1 : d.constants[j] # value
      BY <3>1, <3>2, <3>3
    <3> DEFINE first == CHOOSE k \in DOMAIN d.constants :
                          /\ d.constants[k] = value
                          /\ \A j \in 1 .. k - 1 : d.constants[j] # value
    <3>5. first = i
      BY <3>2, <3>3, <3>4
    <3>6. index = first - 1
      BY DEF ConstantIndex
    <3>. HIDE DEF first, index
    <3>. QED
      BY <3>1, <3>2, <3>5, <3>6
  <2>5. /\ \A i \in Nat : IsStart(c, i) <=> IsStart(d, i)
        /\ \A j \in Nat : IsPending(c, j) <=> IsPending(d, j)
        /\ Size(c) = Size(d) /\ Size(d) \in Nat
    BY <2>1, <2>3 DEF IsStart, IsPending, OpcodeAt, Size, Chunks
  <2>6. SoundCode(d, P)
    <3>1. /\ \A i : IsStart(d, i) <=> IsStart(c, i)
          /\ \A j : IsPending(d, j) <=> IsPending(c, j)
          /\ Aligned(d) <=> Aligned(c)
          /\ TokensParallel(d) <=> TokensParallel(c)
      BY <2>3 DEF IsStart, IsPending, Aligned, TokensParallel, OpcodeAt, Size, Width
    <3>2. JumpsLand(d, P) <=> JumpsLand(c, P)
      BY <2>3, <3>1 DEF JumpsLand, JumpTarget, OpcodeAt, Size
    <3>. QED
      BY <2>1, <2>3, <3>1, <3>2 DEF SoundCode
  <2>. QED
    BY <1>1, <1>3, <2>1, <2>3, <2>4, <2>5, <2>6 DEF Good, Later, Extends, d
<1>. QED
  BY <1>2, <1>3

(* Whole instructions without operands, as the operators and the pops of a  *)
(* scope are.                                                               *)
LEMMA EmitPlainsGood ==
  ASSUME NEW S, NEW c, NEW P, Good(c, P, S), NEW opcodes \in Seq(PlainOpcode), NEW token \in Nat
  PROVE  LET d == Emit(c, [i \in DOMAIN opcodes |-> Op(opcodes[i])], token)
         IN  Good(d, P, S) /\ Later(c, d)
<1> DEFINE cells == [i \in DOMAIN opcodes |-> Op(opcodes[i])]
<1>1. \A i \in 1 .. Len(opcodes) :
        /\ Op(opcodes[i]) \in Cell
        /\ opcodes[i] \in PlainOpcode
  BY ChunkAssumption DEF Op, Cell, ByteValue, Opcode
<1>2. /\ cells \in Seq(Cell) /\ Len(cells) = Len(opcodes) /\ Len(cells) \in Nat
      /\ \A i \in 1 .. Len(cells) : cells[i].opcode \in PlainOpcode
  BY <1>1 DEF Op
<1>. HIDE DEF cells
<1>3. \A i \in 1 .. Len(cells) :
        cells[i].opcode \notin JumpOpcode \cup {"operand", "closure"} /\ WidthAt(cells, i) = 1
  <2>1. SUFFICES ASSUME NEW i \in 1 .. Len(cells), cells[i].opcode \in PlainOpcode
                 PROVE  /\ cells[i].opcode \notin JumpOpcode \cup {"operand", "closure"}
                        /\ WidthAt(cells, i) = 1
    BY <1>2
  <2>2. cells[i].opcode \notin JumpOpcode \cup ConstantOpcode \cup IndexOpcode \cup {"operand", "closure"}
    BY <2>1 DEF PlainOpcode, JumpOpcode, ConstantOpcode, NameOpcode, IndexOpcode
  <2>. QED
    BY <2>1, <2>2 DEF WidthAt
<1>4. Instructions_(cells)
  BY <1>2, <1>3 DEF Instructions_
<1>5. Good(Emit(c, cells, token), P, S) /\ Later(c, Emit(c, cells, token))
  BY <1>3, <1>4, EmitGood
<1>. QED
  BY <1>5 DEF cells

LEMMA EmitPlainGood ==
  ASSUME NEW S, NEW c, NEW P, Good(c, P, S), NEW opcode \in PlainOpcode, NEW token \in Nat
  PROVE  LET d == EmitPlain(c, opcode, token)
         IN  /\ Good(d, P, S) /\ Later(c, d)
             /\ ~d.narrowing_error => Size(d) = Size(c) + 1
<1> DEFINE opcodes == <<opcode>>
           cells == [i \in DOMAIN opcodes |-> Op(opcodes[i])]
<1>1. opcodes \in Seq(PlainOpcode) /\ cells = <<Op(opcode)>>
  OBVIOUS
<1>2. EmitPlain(c, opcode, token) = Emit(c, cells, token)
  BY <1>1 DEF EmitPlain
<1>3. LET d == Emit(c, cells, token)
      IN  Good(d, P, S) /\ Later(c, d)
  BY <1>1, EmitPlainsGood
<1>4. Emit(c, cells, token).narrowing_error = c.narrowing_error
  BY StillUnwound DEF Good
<1>5. ASSUME ~c.narrowing_error
      PROVE  Size(Emit(c, cells, token)) = Size(c) + 1
  <2>1. c \in Chunks(S) /\ c.bytecode \in Seq(Cell)
    BY <1>5 DEF Good, Chunks
  <2>2. <<Op(opcode)>> \in Seq(Cell) /\ Len(<<Op(opcode)>>) = 1
    <3>1. Op(opcode) \in Cell
      BY ChunkAssumption DEF Op, Cell, ByteValue, Opcode
    <3>. QED
      BY <3>1
  <2>3. Emit(c, cells, token).bytecode = c.bytecode \o <<Op(opcode)>>
    BY <1>1, <2>1 DEF Emit, Chunks
  <2>. QED
    BY <2>1, <2>2, <2>3, ConcatProperties DEF Size
<1>. QED
  BY <1>2, <1>3, <1>4, <1>5

(* An instruction with a one-byte operand: the operand is the whole index. *)
LEMMA EmitIndexGood ==
  ASSUME NEW S, NEW c, NEW P, Good(c, P, S), NEW opcode \in ConstantOpcode \cup IndexOpcode,
         NEW index \in Nat, NEW token \in Nat
  PROVE  LET d == EmitIndex(c, opcode, index, token)
         IN  /\ Good(d, P, S) /\ Later(c, d)
             /\ ~d.narrowing_error =>
                  /\ Size(d) = Size(c) + 2 /\ d.constants = c.constants
                  /\ OpcodeAt(d, Size(c)) = opcode /\ OperandAt(d, Size(c)) = index
<1> DEFINE cells == <<Op(opcode), Byte(index)>>
           d == EmitIndex(c, opcode, index, token)
<1>1. CASE ~FitsByte(index)
  <2>1. d = Unwound(c)
    BY <1>1 DEF EmitIndex
  <2>. QED
    BY <2>1, StillUnwound DEF Good, Later
<1>2. CASE FitsByte(index) /\ c.narrowing_error
  BY <1>2, StillUnwound DEF Good, Later, EmitIndex
<1>3. CASE FitsByte(index) /\ ~c.narrowing_error
  <2>1. d = Emit(c, cells, token)
    BY <1>3 DEF EmitIndex
  <2>2. /\ cells \in Seq(Cell) /\ Len(cells) = 2
        /\ cells[1].opcode = opcode /\ cells[2].opcode = "operand" /\ cells[2].byte = index
    <3>1. Op(opcode) \in Cell /\ Byte(index) \in Cell
      BY <1>3, ChunkAssumption DEF Op, Byte, Cell, ByteValue, Opcode, FitsByte
    <3>. QED
      BY <3>1 DEF Op, Byte
  <2>. HIDE DEF cells, d
  <2>3. opcode \notin JumpOpcode \cup PlainOpcode \cup {"operand", "closure"}
    BY DEF JumpOpcode, PlainOpcode, ConstantOpcode, NameOpcode, IndexOpcode
  <2>4. WidthAt(cells, 1) = 2
    BY <2>2, <2>3 DEF WidthAt
  <2>5. Instructions_(cells)
    BY <2>2, <2>3, <2>4 DEF Instructions_
  <2>6. \A i \in 1 .. Len(cells) : cells[i].opcode \notin JumpOpcode
    BY <2>2, <2>3 DEF JumpOpcode
  <2>7. Good(Emit(c, cells, token), P, S) /\ Later(c, Emit(c, cells, token))
    BY <2>5, <2>6, EmitGood
  <2>8. c \in Chunks(S) /\ SoundCode(c, P) /\ Size(c) \in Nat
    BY <1>3 DEF Good, Chunks, Size
  <2>9. LET e == Emit(c, cells, token)
        IN  /\ e.constants = c.constants
            /\ Size(e) = Size(c) + Len(cells)
            /\ \A i \in 1 .. Len(cells) : e.bytecode[Size(c) + i] = cells[i]
    BY <2>5, <2>8, EmitAligned
  <2>10. /\ d.constants = c.constants /\ Size(d) = Size(c) + 2
         /\ d.bytecode[Size(c) + 1] = cells[1] /\ d.bytecode[Size(c) + 2] = cells[2]
    BY <2>1, <2>2, <2>9
  <2>. QED
    BY <2>1, <2>2, <2>7, <2>10 DEF OpcodeAt, OperandAt, d
<1>. QED
  BY <1>1, <1>2, <1>3

(* The instruction refers to the value itself, whatever was inserted before. *)
THEOREM EmitConstantGood ==
  ASSUME NEW S, NEW c, NEW P, Good(c, P, S), NEW opcode \in ConstantOpcode,
         NEW value \in S, NEW token \in Nat
  PROVE  LET d == EmitConstant(c, opcode, value, token)
         IN  /\ Good(d, P, S) /\ Later(c, d)
             /\ ~d.narrowing_error =>
                  /\ Size(d) = Size(c) + 2 /\ OpcodeAt(d, Size(c)) = opcode
                  /\ d.constants[OperandAt(d, Size(c)) + 1] = value
<1> DEFINE inserted == InsertConstant(c, value)
           index == ConstantIndex(inserted, value)
           d == EmitConstant(c, opcode, value, token)
<1>1. /\ Good(inserted, P, S) /\ Later(c, inserted)
      /\ ~inserted.narrowing_error =>
           /\ inserted.bytecode = c.bytecode
           /\ index \in 0 .. Len(inserted.constants) - 1 /\ inserted.constants[index + 1] = value
  BY InsertGood
<1>2. ~inserted.narrowing_error => index \in Nat
  BY <1>1
<1>3. d = EmitIndex(inserted, opcode, index, token)
  BY DEF EmitConstant
<1>. HIDE DEF inserted, index, d
<1>4. /\ Good(d, P, S) /\ Later(inserted, d)
      /\ ~d.narrowing_error =>
           /\ Size(d) = Size(inserted) + 2 /\ d.constants = inserted.constants
           /\ OpcodeAt(d, Size(inserted)) = opcode /\ OperandAt(d, Size(inserted)) = index
  <2>1. CASE inserted.narrowing_error
    <3>1. "narrowing_error" \in DOMAIN d /\ d.narrowing_error
      BY <1>1, <1>3, <2>1, StillUnwound DEF EmitIndex, Good
    <3>. QED
      BY <3>1 DEF Good, Later
  <2>2. CASE ~inserted.narrowing_error
    <3>1. opcode \in ConstantOpcode \cup IndexOpcode /\ index \in Nat
      BY <1>2, <2>2
    <3>2. Good(inserted, P, S)
      BY <1>1
    <3>3. LET e == EmitIndex(inserted, opcode, index, token)
          IN  /\ Good(e, P, S) /\ Later(inserted, e)
              /\ ~e.narrowing_error =>
                   /\ Size(e) = Size(inserted) + 2 /\ e.constants = inserted.constants
                   /\ OpcodeAt(e, Size(inserted)) = opcode /\ OperandAt(e, Size(inserted)) = index
      BY <3>1, <3>2, EmitIndexGood
    <3>. QED
      BY <1>3, <3>3
  <2>. QED
    BY <2>1, <2>2
<1>5. /\ ~c.narrowing_error => Size(c) \in Nat
      /\ ~inserted.narrowing_error => Size(inserted) \in Nat
      /\ ~d.narrowing_error => Size(d) \in Nat
  BY <1>1, <1>4 DEF Good, Chunks, Size
<1>6. Later(c, d)
  BY <1>1, <1>4, <1>5, ExtendsTransitive
<1>7. ~d.narrowing_error => ~inserted.narrowing_error
  BY <1>4 DEF Later
<1>. QED
  BY <1>1, <1>4, <1>6, <1>7 DEF d, Size

(* A closure and its captures, however many fit. *)
THEOREM EmitClosureGood ==
  ASSUME NEW S, NEW c, NEW P, Good(c, P, S), NEW fn \in S,
         NEW T, \A upvalue \in T : upvalue.index \in Nat,
         NEW tracked_upvalues \in Seq(T), NEW token \in Nat
  PROVE  LET d == EmitClosure(c, fn, tracked_upvalues, token)
         IN  Good(d, P, S) /\ Later(c, d)
<1> DEFINE inserted == InsertConstant(c, fn)
           index == ConstantIndex(inserted, fn)
           n == Len(tracked_upvalues)
           operand(k) == IF k % 2 = 0 THEN tracked_upvalues[(k + 1) \div 2].index
                         ELSE IF tracked_upvalues[(k + 1) \div 2].direct THEN 1 ELSE 0
           captures == [k \in 1..(2 * n) |-> Byte(operand(k))]
           cells == <<Op("closure"), Byte(index), Byte(n)>> \o captures
           fits == FitsByte(index) /\ FitsByte(n) /\ \A i \in 1..n : FitsByte(tracked_upvalues[i].index)
           d == EmitClosure(c, fn, tracked_upvalues, token)
<1>1. /\ Good(inserted, P, S) /\ Later(c, inserted)
      /\ ~inserted.narrowing_error => index \in 0 .. Len(inserted.constants) - 1
  BY InsertGood
<1>2. ~inserted.narrowing_error => index \in Nat /\ Size(inserted) \in Nat
  BY <1>1 DEF Good, Chunks, Size
<1>3. d = IF fits THEN Emit(inserted, cells, token) ELSE Unwound(inserted)
  BY DEF EmitClosure
<1>4. "narrowing_error" \in DOMAIN d /\ (inserted.narrowing_error => d.narrowing_error)
  <2>. HIDE DEF inserted, cells, fits, d
  <2>. QED
    BY <1>1, <1>3, StillUnwound DEF Good
<1>5. CASE inserted.narrowing_error \/ ~fits
  <2>. HIDE DEF inserted, cells, fits, d
  <2>1. d.narrowing_error
    BY <1>1, <1>3, <1>4, <1>5, StillUnwound DEF Good
  <2>. QED
    BY <1>4, <2>1 DEF Good, Later, d
<1>6. CASE ~inserted.narrowing_error /\ fits
  <2>. HIDE DEF inserted, index, d
  <2>1. n \in Nat /\ n < ByteValues /\ index \in Nat /\ index < ByteValues
    BY <1>2, <1>6 DEF FitsByte
  <2>2. ASSUME NEW k \in 1 .. 2 * n
        PROVE  Byte(operand(k)) \in Cell
    <3>. DEFINE i == (k + 1) \div 2
    <3>1. i \in 1 .. n
      BY <2>1
    <3>. HIDE DEF i
    <3>2. tracked_upvalues[i].index \in Nat /\ tracked_upvalues[i].index < ByteValues
      <4>1. tracked_upvalues[i].index \in Nat
        BY <3>1
      <4>2. FitsByte(tracked_upvalues[i].index)
        BY <1>6, <3>1
      <4>. QED
        BY <4>1, <4>2 DEF FitsByte
    <3>3. operand(k) \in 0 .. ByteValues - 1
      BY <3>2, ChunkAssumption DEF i
    <3>. QED
      BY <3>3 DEF Byte, Cell, ByteValue
  <2>3. captures \in Seq(Cell) /\ Len(captures) = 2 * n
    BY <2>1, <2>2
  <2>4. \A k \in 1 .. 2 * n : captures[k].opcode = "operand"
    BY DEF Byte
  <2>. HIDE DEF captures
  <2> DEFINE head == <<Op("closure"), Byte(index), Byte(n)>>
  <2>5. /\ head \in Seq(Cell) /\ Len(head) = 3
        /\ head[1].opcode = "closure" /\ head[2].opcode = "operand" /\ head[3].opcode = "operand"
        /\ head[3].byte = n
    <3>1. Op("closure") \in Cell /\ Byte(index) \in Cell /\ Byte(n) \in Cell
      BY <2>1, ChunkAssumption DEF Op, Byte, Cell, ByteValue, Opcode
    <3>. QED
      BY <3>1 DEF Op, Byte
  <2>6. cells = head \o captures
    OBVIOUS
  <2>. HIDE DEF head, cells
  <2>7. /\ cells \in Seq(Cell) /\ Len(cells) = 3 + 2 * n
        /\ \A i \in 1 .. 3 : cells[i] = head[i]
        /\ \A i \in 4 .. 3 + 2 * n : cells[i] = captures[i - 3]
    <3>. HIDE DEF n
    <3>1. /\ cells \in Seq(Cell) /\ Len(cells) = Len(head) + Len(captures)
          /\ \A i \in 1 .. Len(head) + Len(captures) :
               cells[i] = IF i <= Len(head) THEN head[i] ELSE captures[i - Len(head)]
      BY <2>3, <2>5, <2>6, ConcatProperties
    <3>. QED
      BY <2>1, <2>3, <2>5, <3>1
  <2>8. \A i \in 2 .. 3 + 2 * n : cells[i].opcode = "operand"
    <3>1. SUFFICES ASSUME NEW i \in 2 .. 3 + 2 * n PROVE cells[i].opcode = "operand"
      OBVIOUS
    <3>2. CASE i \in 2 .. 3
      BY <2>5, <2>7, <3>2
    <3>3. CASE i \in 4 .. 3 + 2 * n
      <4>1. i - 3 \in 1 .. 2 * n
        BY <2>1, <3>3
      <4>. QED
        BY <2>4, <2>7, <3>3, <4>1
    <3>. QED
      BY <2>1, <3>2, <3>3
  <2>9. cells[1].opcode = "closure" /\ WidthAt(cells, 1) = 3 + 2 * n
    <3>1. cells[1].opcode = "closure" /\ cells[1 + 2].byte = n
      BY <2>5, <2>7
    <3>. QED
      BY <3>1 DEF WidthAt, PlainOpcode, ConstantOpcode, NameOpcode, IndexOpcode, JumpOpcode
  <2>10. Instructions_(cells)
    <3>. HIDE DEF n
    <3>1. SUFFICES ASSUME NEW i \in 1 .. Len(cells), cells[i].opcode # "operand"
                   PROVE  LET next == i + WidthAt(cells, i)
                          IN  /\ cells[i].opcode = "closure" => i + 2 <= Len(cells)
                              /\ next \in 1 .. Len(cells) + 1
                              /\ next <= Len(cells) => cells[next].opcode # "operand"
                              /\ \A k \in i + 1 .. next - 1 : cells[k].opcode = "operand"
      BY <2>7, <2>9 DEF Instructions_
    <3>2. i = 1
      BY <2>1, <2>7, <2>8, <3>1
    <3>. QED
      BY <2>1, <2>7, <2>8, <2>9, <3>2
  <2>11. \A i \in 1 .. Len(cells) : cells[i].opcode \notin JumpOpcode
    <3>. HIDE DEF n
    <3>1. \A i \in 1 .. Len(cells) : cells[i].opcode \in {"operand", "closure"}
      BY <2>1, <2>7, <2>8, <2>9
    <3>. QED
      BY <3>1 DEF JumpOpcode
  <2>12. Good(d, P, S) /\ Later(inserted, d)
    BY <1>1, <1>3, <1>6, <2>10, <2>11, EmitGood
  <2>13. /\ ~c.narrowing_error => Size(c) \in Nat
         /\ ~d.narrowing_error => Size(d) \in Nat
    BY <2>12 DEF Good, Chunks, Size
  <2>. QED
    BY <1>1, <1>2, <2>12, <2>13, ExtendsTransitive DEF d
<1>. QED
  BY <1>5, <1>6

=============================================================================
