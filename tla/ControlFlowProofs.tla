------------------------- MODULE ControlFlowProofs -------------------------
(***************************************************************************)
(* ControlFlow keeps its code sound, whatever the text and the width of a  *)
(* byte: type correctness, CodeSound and PcAtInstruction.                  *)
(*                                                                         *)
(* A step of the compiler changes the chunk and the functions that wait in *)
(* one of four ways: a function begins to wait, waits for something else,  *)
(* returns, or returns a statement to the one it is part of.  The lemmas   *)
(* on Compiles are these four; each action is an instance of one of them,  *)
(* with the lemmas of ChunkProofs on what it emits.                        *)
(***************************************************************************)
EXTENDS ControlFlow, ChunkProofs, FiniteSetTheorems

JumpsOf(k) == {k.jumps[j] : j \in DOMAIN k.jumps}
PendingOf(ks) == UNION {JumpsOf(k) : k \in {ks[i] : i \in DOMAIN ks}}

(* What a waiting function relies on. *)
Relies(c, k) ==
  /\ \A j \in DOMAIN k.jumps : IsPending(c, k.jumps[j])
  /\ \A b \in DOMAIN k.begins : IsStart(c, k.begins[b])

(* What it waits for while this function is compiled. *)
For(k) == IF k.kind \in ExpressionKinds THEN "operand" ELSE "statement"

(* Sound code, and functions waiting for the next thing of the text. *)
Compiles(c, ks, what) ==
  /\ ~c.narrowing_error /\ Good(c, PendingOf(ks), Constant)
  /\ IsSequence(ks) /\ Len(ks) > 0
  /\ \A i \in 1 .. Len(ks) : WaitingOK(ks[i]) /\ Relies(c, ks[i]) /\ (ks[i].kind = "unit" <=> i = 1)
  /\ \A i \in 1 .. Len(ks) - 1 : Awaits(ks[i], For(ks[i + 1]))
  /\ Awaits(ks[Len(ks)], what)

-----------------------------------------------------------------------------
(* Sequences *)

LEMMA IsSequenceOf ==
  ASSUME NEW T, NEW s \in Seq(T)
  PROVE  IsSequence(s)
<1> DEFINE U == {s[i] : i \in DOMAIN s}
<1>1. Len(s) \in Nat /\ DOMAIN s = 1 .. Len(s) /\ s = [i \in 1 .. Len(s) |-> s[i]]
  OBVIOUS
<1>2. [i \in 1 .. Len(s) |-> s[i]] \in Seq(U)
  BY <1>1
<1>. QED
  BY <1>1, <1>2 DEF IsSequence

LEMMA SequenceLength ==
  ASSUME NEW s, IsSequence(s)
  PROVE  Len(s) \in Nat /\ DOMAIN s = 1 .. Len(s)
<1>. QED
  BY DEF IsSequence

LEMMA AppendSequence ==
  ASSUME NEW s, IsSequence(s), NEW e
  PROVE  /\ IsSequence(Append(s, e)) /\ Len(Append(s, e)) = Len(s) + 1
         /\ \A i \in 1 .. Len(s) : Append(s, e)[i] = s[i]
         /\ Append(s, e)[Len(s) + 1] = e
<1> DEFINE T == {s[i] : i \in DOMAIN s} \cup {e}
<1>1. s \in Seq(T) /\ e \in T
  <2>1. s \in Seq({s[i] : i \in DOMAIN s})
    BY DEF IsSequence
  <2>. QED
    BY <2>1
<1>. HIDE DEF T
<1>2. IsSequence(Append(s, e))
  <2>1. Append(s, e) \in Seq(T)
    BY <1>1
  <2>. QED
    BY <2>1, IsSequenceOf
<1>. QED
  BY <1>1, <1>2

LEMMA FrontSequence ==
  ASSUME NEW s, IsSequence(s), NEW n \in 0 .. Len(s)
  PROVE  /\ IsSequence(SubSeq(s, 1, n)) /\ Len(SubSeq(s, 1, n)) = n
         /\ \A i \in 1 .. n : SubSeq(s, 1, n)[i] = s[i]
<1> DEFINE T == {s[i] : i \in DOMAIN s}
<1>1. s \in Seq(T)
  BY DEF IsSequence
<1>. HIDE DEF T
<1>2. IsSequence(SubSeq(s, 1, n))
  <2>1. SubSeq(s, 1, n) \in Seq(T)
    BY <1>1
  <2>. QED
    BY <2>1, IsSequenceOf
<1>3. Len(s) \in Nat /\ n \in Nat
  BY <1>1
<1>. QED
  BY <1>1, <1>2, <1>3

-----------------------------------------------------------------------------
(* The four ways the waiting functions change *)

LEMMA LaterRelies ==
  ASSUME NEW c, NEW d, Later(c, d), ~d.narrowing_error, NEW k, WaitingOK(k), Relies(c, k)
  PROVE  Relies(d, k)
<1>1. /\ \A j \in DOMAIN k.jumps : k.jumps[j] \in Nat
      /\ \A b \in DOMAIN k.begins : k.begins[b] \in Nat
  <2>1. k.jumps \in Seq(Nat) /\ k.begins \in Seq(Nat)
    BY DEF WaitingOK
  <2>. QED
    BY <2>1
<1>. QED
  BY <1>1 DEF Later, Extends, Relies

LEMMA WidenGood ==
  ASSUME NEW S, NEW d, NEW R, Good(d, R, S), ~d.narrowing_error,
         NEW P, R \subseteq P, \A j \in P : IsPending(d, j)
  PROVE  Good(d, P, S)
<1>. QED
  BY DEF Good, SoundCode, JumpsLand

(* Every pending jump is one of the waiting function's. *)
LEMMA PendingOfSequence ==
  ASSUME NEW ks, IsSequence(ks)
  PROVE  \A j : j \in PendingOf(ks) <=> \E i \in 1 .. Len(ks) : j \in JumpsOf(ks[i])
<1>. QED
  BY SequenceLength DEF PendingOf

LEMMA PushKeeps ==
  ASSUME NEW c, NEW ks, NEW was, Compiles(c, ks, was),
         NEW k, WaitingOK(k), k.kind # "unit", NEW what, Awaits(k, what),
         Awaits(ks[Len(ks)], For(k)),
         NEW d, NEW R, Good(d, R, Constant), R \subseteq PendingOf(ks) \cup JumpsOf(k),
         Later(c, d), ~d.narrowing_error, Relies(d, k)
  PROVE  Compiles(d, Append(ks, k), what)
<1> DEFINE ls == Append(ks, k)
           n == Len(ks)
<1>1. /\ IsSequence(ls) /\ Len(ls) = n + 1 /\ n \in Nat /\ n > 0
      /\ \A i \in 1 .. n : ls[i] = ks[i]
      /\ ls[n + 1] = k
  BY AppendSequence, SequenceLength DEF Compiles
<1>. HIDE DEF ls, n
<1>2. \A i \in 1 .. Len(ls) : WaitingOK(ls[i]) /\ Relies(d, ls[i]) /\ (ls[i].kind = "unit" <=> i = 1)
  <2>1. SUFFICES ASSUME NEW i \in 1 .. n + 1
                 PROVE  WaitingOK(ls[i]) /\ Relies(d, ls[i]) /\ (ls[i].kind = "unit" <=> i = 1)
    BY <1>1
  <2>2. CASE i \in 1 .. n
    BY <1>1, <2>2, LaterRelies DEF Compiles, n
  <2>3. CASE i = n + 1
    BY <1>1, <2>3
  <2>. QED
    BY <1>1, <2>2, <2>3
<1>3. \A i \in 1 .. Len(ls) - 1 : Awaits(ls[i], For(ls[i + 1]))
  <2>1. SUFFICES ASSUME NEW i \in 1 .. n
                 PROVE  Awaits(ls[i], For(ls[i + 1]))
    BY <1>1
  <2>2. CASE i = n
    BY <1>1, <2>2 DEF n
  <2>3. CASE i # n
    <3>1. i \in 1 .. n - 1 /\ i + 1 \in 1 .. n
      BY <1>1, <2>3
    <3>. QED
      BY <1>1, <3>1 DEF Compiles, n
  <2>. QED
    BY <2>2, <2>3
<1>4. Awaits(ls[Len(ls)], what)
  BY <1>1
<1>5. Good(d, PendingOf(ls), Constant)
  <2>1. \A j \in PendingOf(ls) : IsPending(d, j)
    BY <1>1, <1>2, PendingOfSequence DEF JumpsOf, Relies
  <2>2. R \subseteq PendingOf(ls)
    <3>1. SUFFICES ASSUME NEW j \in R PROVE j \in PendingOf(ls)
      OBVIOUS
    <3>2. IsSequence(ks)
      BY DEF Compiles
    <3>3. CASE j \in PendingOf(ks)
      BY <1>1, <3>2, <3>3, PendingOfSequence DEF n
    <3>4. CASE j \in JumpsOf(k)
      BY <1>1, <3>4, PendingOfSequence
    <3>. QED
      BY <3>3, <3>4
  <2>. QED
    BY <2>1, <2>2, WidenGood
<1>. QED
  BY <1>1, <1>2, <1>3, <1>4, <1>5 DEF Compiles, ls

(* The code may be written while nobody but the last function minds. *)
LEMMA PopKeeps ==
  ASSUME NEW c, NEW ks, NEW was, Compiles(c, ks, was), Len(ks) > 1,
         NEW what, Awaits(ks[Len(ks) - 1], what),
         NEW d, NEW R, Good(d, R, Constant), R \subseteq PendingOf(ks) \ JumpsOf(ks[Len(ks)]),
         Later(c, d), ~d.narrowing_error
  PROVE  Compiles(d, SubSeq(ks, 1, Len(ks) - 1), what)
<1> DEFINE n == Len(ks)
           ls == SubSeq(ks, 1, n - 1)
<1>0. n \in Nat /\ n > 1
  BY SequenceLength DEF Compiles
<1>1. /\ IsSequence(ls) /\ Len(ls) = n - 1
      /\ \A i \in 1 .. n - 1 : ls[i] = ks[i]
  <2>1. n - 1 \in 0 .. Len(ks) /\ IsSequence(ks)
    BY <1>0 DEF Compiles
  <2>. HIDE DEF n
  <2>. QED
    BY <2>1, FrontSequence
<1>. HIDE DEF ls
<1>2. \A i \in 1 .. n - 1 : WaitingOK(ls[i]) /\ Relies(d, ls[i]) /\ (ls[i].kind = "unit" <=> i = 1)
  BY <1>0, <1>1, LaterRelies DEF Compiles
<1>3. \A i \in 1 .. n - 1 - 1 : Awaits(ls[i], For(ls[i + 1]))
  BY <1>0, <1>1 DEF Compiles
<1>4. Awaits(ls[n - 1], what)
  BY <1>0, <1>1
<1>5. Good(d, PendingOf(ls), Constant)
  <2>1. \A j \in PendingOf(ls) : IsPending(d, j)
    BY <1>1, <1>2, PendingOfSequence DEF JumpsOf, Relies
  <2>2. R \subseteq PendingOf(ls)
    <3>1. SUFFICES ASSUME NEW j \in R PROVE j \in PendingOf(ls)
      OBVIOUS
    <3>2. PICK i \in 1 .. n : j \in JumpsOf(ks[i])
      <4>1. IsSequence(ks)
        BY DEF Compiles
      <4>. QED
        BY <4>1, PendingOfSequence
    <3>3. i \in 1 .. n - 1
      BY <1>0, <3>2
    <3>. QED
      BY <1>1, <3>2, <3>3, PendingOfSequence
  <2>. QED
    BY <2>1, <2>2, WidenGood
<1>. QED
  BY <1>0, <1>1, <1>2, <1>3, <1>4, <1>5 DEF Compiles, ls

LEMMA ReplaceKeeps ==
  ASSUME NEW c, NEW ks, NEW was, Compiles(c, ks, was),
         NEW k, WaitingOK(k), k.kind = ks[Len(ks)].kind, NEW what, Awaits(k, what),
         NEW d, NEW R, Good(d, R, Constant),
         R \subseteq (PendingOf(ks) \ JumpsOf(ks[Len(ks)])) \cup JumpsOf(k),
         Later(c, d), ~d.narrowing_error, Relies(d, k)
  PROVE  Compiles(d, Append(SubSeq(ks, 1, Len(ks) - 1), k), what)
<1> DEFINE n == Len(ks)
           ls == Append(SubSeq(ks, 1, n - 1), k)
<1>0. n \in Nat /\ n > 0
  BY SequenceLength DEF Compiles
<1>1. /\ IsSequence(ls) /\ Len(ls) = n
      /\ \A i \in 1 .. n - 1 : ls[i] = ks[i]
      /\ ls[n] = k
  <2> DEFINE front == SubSeq(ks, 1, n - 1)
  <2>1. n - 1 \in 0 .. Len(ks) /\ IsSequence(ks)
    BY <1>0 DEF Compiles
  <2>2. IsSequence(front) /\ Len(front) = n - 1 /\ \A i \in 1 .. n - 1 : front[i] = ks[i]
    <3>. HIDE DEF n
    <3>. QED
      BY <2>1, FrontSequence
  <2>. HIDE DEF front, n
  <2>. QED
    BY <1>0, <2>2, AppendSequence DEF front
<1>. HIDE DEF ls
<1>2. \A i \in 1 .. n : WaitingOK(ls[i]) /\ Relies(d, ls[i]) /\ (ls[i].kind = "unit" <=> i = 1)
  <2>1. SUFFICES ASSUME NEW i \in 1 .. n
                 PROVE  WaitingOK(ls[i]) /\ Relies(d, ls[i]) /\ (ls[i].kind = "unit" <=> i = 1)
    OBVIOUS
  <2>2. CASE i # n
    <3>1. i \in 1 .. n - 1
      BY <1>0, <2>2
    <3>. QED
      BY <1>1, <3>1, LaterRelies DEF Compiles
  <2>3. CASE i = n
    BY <1>0, <1>1, <2>3 DEF Compiles
  <2>. QED
    BY <2>2, <2>3
<1>3. \A i \in 1 .. n - 1 : Awaits(ls[i], For(ls[i + 1]))
  <2>1. SUFFICES ASSUME NEW i \in 1 .. n - 1
                 PROVE  Awaits(ls[i], For(ls[i + 1]))
    OBVIOUS
  <2>2. Awaits(ks[i], For(ks[i + 1]))
    BY DEF Compiles
  <2>3. CASE i = n - 1
    BY <1>0, <1>1, <2>2, <2>3 DEF For
  <2>4. CASE i # n - 1
    <3>1. i + 1 \in 1 .. n - 1
      BY <1>0, <2>4
    <3>. QED
      BY <1>1, <2>2, <3>1
  <2>. QED
    BY <2>3, <2>4
<1>4. Awaits(ls[Len(ls)], what)
  BY <1>1
<1>5. Good(d, PendingOf(ls), Constant)
  <2>1. \A j \in PendingOf(ls) : IsPending(d, j)
    BY <1>1, <1>2, PendingOfSequence DEF JumpsOf, Relies
  <2>2. R \subseteq PendingOf(ls)
    <3>1. SUFFICES ASSUME NEW j \in R PROVE j \in PendingOf(ls)
      OBVIOUS
    <3>2. CASE j \in JumpsOf(k)
      BY <1>0, <1>1, <3>2, PendingOfSequence
    <3>3. CASE j \notin JumpsOf(k)
      <4>1. IsSequence(ks)
        BY DEF Compiles
      <4>2. PICK i \in 1 .. n : j \in JumpsOf(ks[i])
        BY <3>3, <4>1, PendingOfSequence
      <4>3. i \in 1 .. n - 1
        BY <1>0, <3>3, <4>2
      <4>. QED
        BY <1>0, <1>1, <4>2, <4>3, PendingOfSequence
    <3>. QED
      BY <3>2, <3>3
  <2>. QED
    BY <2>1, <2>2, WidenGood
<1>. QED
  BY <1>0, <1>1, <1>2, <1>3, <1>4, <1>5 DEF Compiles, ls

(* A chunk that stays as it is. *)
LEMMA LaterReflexive ==
  ASSUME NEW c, ~c.narrowing_error => Size(c) \in Nat
  PROVE  Later(c, c)
<1>. QED
  BY DEF Later, Extends

LEMMA CompilesFacts ==
  ASSUME NEW c, NEW ks, NEW what, Compiles(c, ks, what)
  PROVE  /\ Good(c, PendingOf(ks), Constant) /\ ~c.narrowing_error /\ Later(c, c)
         /\ c \in Chunks(Constant) /\ SoundCode(c, PendingOf(ks)) /\ Size(c) \in Nat
         /\ IsSequence(ks) /\ Len(ks) \in Nat \ {0} /\ DOMAIN ks = 1 .. Len(ks)
         /\ WaitingOK(ks[Len(ks)]) /\ Relies(c, ks[Len(ks)]) /\ Awaits(ks[Len(ks)], what)
         /\ \A i \in 1 .. Len(ks) : JumpsOf(ks[i]) \subseteq PendingOf(ks)
<1>1. c \in Chunks(Constant) /\ SoundCode(c, PendingOf(ks)) /\ Size(c) \in Nat
  BY DEF Compiles, Good, Chunks, Size
<1>2. IsSequence(ks) /\ Len(ks) \in Nat \ {0} /\ DOMAIN ks = 1 .. Len(ks)
  BY SequenceLength DEF Compiles
<1>. QED
  BY <1>1, <1>2, LaterReflexive, PendingOfSequence DEF Compiles

(* A function that was waiting returns a statement to the one it is part of. *)
LEMMA CompleteKeeps ==
  ASSUME NEW c, NEW ks, NEW was, Compiles(c, ks, was), Len(ks) > 1,
         NEW r, WaitingOK(r), r.kind = ks[Len(ks) - 1].kind, r.jumps = ks[Len(ks) - 1].jumps,
         NEW what, Awaits(r, what),
         NEW d, NEW R, Good(d, R, Constant), R \subseteq PendingOf(ks) \ JumpsOf(ks[Len(ks)]),
         Later(c, d), ~d.narrowing_error, Relies(d, r)
  PROVE  Compiles(d, Append(SubSeq(ks, 1, Len(ks) - 2), r), what)
<1> DEFINE n == Len(ks)
           ls == SubSeq(ks, 1, n - 1)
           top == ks[n]
<1>1. n \in Nat /\ n > 1 /\ IsSequence(ks)
  BY CompilesFacts
<1>2. Awaits(ks[n - 1], For(top))
  BY <1>1 DEF Compiles
<1>3. Compiles(d, ls, For(top))
  BY <1>2, PopKeeps
<1>4. IsSequence(ls) /\ Len(ls) = n - 1 /\ ls[n - 1] = ks[n - 1]
  <2>1. n - 1 \in 0 .. n
    BY <1>1
  <2>. QED
    BY <1>1, <2>1, FrontSequence
<1>5. SubSeq(ls, 1, n - 2) = SubSeq(ks, 1, n - 2)
  <2> DEFINE T == {ks[i] : i \in DOMAIN ks}
  <2>1. ks \in Seq(T)
    BY <1>1 DEF IsSequence
  <2>. HIDE DEF T, n
  <2>. QED
    BY <1>1, <2>1 DEF n
<1>. HIDE DEF ls
<1>6. PendingOf(ls) \subseteq (PendingOf(ls) \ JumpsOf(ls[Len(ls)])) \cup JumpsOf(r)
  BY <1>4 DEF JumpsOf
<1>7. Good(d, PendingOf(ls), Constant) /\ Later(d, d)
  BY <1>3, CompilesFacts
<1>8. Compiles(d, Append(SubSeq(ls, 1, Len(ls) - 1), r), what)
  BY <1>3, <1>4, <1>6, <1>7, ReplaceKeeps
<1>9. Len(ls) - 1 = n - 2
  BY <1>1, <1>4
<1>. QED
  BY <1>5, <1>8, <1>9

LEMMA StayKeeps ==
  ASSUME NEW c, NEW ks, NEW was, Compiles(c, ks, was),
         NEW what, Awaits(ks[Len(ks)], what),
         NEW d, Good(d, PendingOf(ks), Constant), Later(c, d), ~d.narrowing_error
  PROVE  Compiles(d, ks, what)
<1>. QED
  BY LaterRelies DEF Compiles

-----------------------------------------------------------------------------
(* A function that begins to wait, and one that has read more *)

New(kind, level, token, from, names, jumps, begins, count) ==
  [kind |-> kind, level |-> level, token |-> token, from |-> from, parts |-> <<>>,
   names |-> names, jumps |-> jumps, begins |-> begins, count |-> count]

MayBegin(kind, level, token, from, names, count) ==
  /\ kind \in Kinds /\ level \in -1 .. UnaryLevel /\ (level >= 0 <=> kind \in OperatorKinds)
  /\ token \in Nat /\ from \in Nat /\ names \in Seq(Lexeme) /\ count \in Nat
  /\ kind = "binary" => names[1] \in DOMAIN Instructions
  /\ kind = "assignment" => Len(names) \in 1..3
  /\ kind = "var" => Len(names) = 1

LEMMA NewOK ==
  ASSUME NEW kind, NEW level, NEW token, NEW from, NEW names, NEW count,
         MayBegin(kind, level, token, from, names, count),
         NEW jumps, jumps \in Seq(Nat), Len(jumps) = JumpsToPatch(kind, 0),
         NEW begins, begins \in Seq(Nat), Len(begins) = Beginnings(kind, 0)
  PROVE  WaitingOK(New(kind, level, token, from, names, jumps, begins, count))
<1> DEFINE k == New(kind, level, token, from, names, jumps, begins, count)
<1>1. /\ k.kind = kind /\ k.level = level /\ k.token = token /\ k.from = from /\ k.parts = <<>>
      /\ k.names = names /\ k.jumps = jumps /\ k.begins = begins /\ k.count = count
      /\ DOMAIN k = {"kind", "level", "token", "from", "parts", "names", "jumps", "begins", "count"}
  BY DEF New
<1>2. IsSequence(<<>>) /\ Len(<<>>) = 0
  <2>1. <<>> \in Seq({})
    OBVIOUS
  <2>. QED
    BY <2>1, IsSequenceOf
<1>. HIDE DEF k
<1>. QED
  BY <1>1, <1>2 DEF WaitingOK, MayBegin, k

(* All but two kinds begin without jumps to patch, and all but one without  *)
(* beginnings.                                                              *)
LEMMA NewPlain ==
  ASSUME NEW kind, NEW level, NEW token, NEW from, NEW names, NEW count,
         MayBegin(kind, level, token, from, names, count), kind \notin {"logical", "while"}
  PROVE  LET k == New(kind, level, token, from, names, <<>>, <<>>, count)
         IN  WaitingOK(k) /\ JumpsOf(k) = {} /\ \A c : Relies(c, k)
<1>1. JumpsToPatch(kind, 0) = 0 /\ Beginnings(kind, 0) = 0
  BY DEF JumpsToPatch, Beginnings
<1>2. ASSUME NEW none, none \in Seq(Nat), Len(none) = 0, DOMAIN none = {}
      PROVE  LET k == New(kind, level, token, from, names, none, none, count)
             IN  WaitingOK(k) /\ JumpsOf(k) = {} /\ \A c : Relies(c, k)
  <2> DEFINE k == New(kind, level, token, from, names, none, none, count)
  <2>1. Len(none) = JumpsToPatch(kind, 0) /\ Len(none) = Beginnings(kind, 0)
    BY <1>1, <1>2
  <2>2. WaitingOK(k)
    BY <1>2, <2>1, NewOK
  <2>3. k.jumps = none /\ k.begins = none
    BY DEF New
  <2>. HIDE DEF k
  <2>4. JumpsOf(k) = {} /\ \A c : Relies(c, k)
    BY <1>2, <2>3 DEF JumpsOf, Relies
  <2>. QED
    BY <2>2, <2>4 DEF k
<1>3. <<>> \in Seq(Nat) /\ Len(<<>>) = 0 /\ DOMAIN <<>> = {}
  OBVIOUS
<1>. QED
  BY <1>2, <1>3

LEMMA ChangeOK ==
  ASSUME NEW k, WaitingOK(k), NEW r, DOMAIN r = DOMAIN k,
         r.kind = k.kind, r.level = k.level, r.token = k.token, r.names = k.names, r.count = k.count,
         r.from \in Nat, IsSequence(r.parts),
         r.jumps \in Seq(Nat), Len(r.jumps) = JumpsToPatch(k.kind, Len(r.parts)),
         r.begins \in Seq(Nat), Len(r.begins) = Beginnings(k.kind, Len(r.parts))
  PROVE  WaitingOK(r)
<1>. QED
  BY DEF WaitingOK

-----------------------------------------------------------------------------
(* The invariant *)

TokenType == [kind : unit.tokens, lexeme : Lexeme]
Rest ==
  /\ unit \in Units
  /\ tracked_locals \in Seq(Nat) /\ scope_depth \in Int
  /\ expects \in [what : {"statement", "operand", "operator", "done"}, reach : Int, callee : Nat]
  /\ status \in {"compiling", "running", "over", "failed"}
  /\ source \in Seq(TokenType)

IInv == FlowTypeOK /\ CodeSound /\ PcAtInstruction

LEMMA PendingIs ==
  Pending = PendingOf(nesting)
<1>. QED
  BY DEF Pending, PendingOf, JumpsOf

LEMMA InvCompiles ==
  ASSUME IInv
  PROVE  /\ Rest /\ Compiles(chunk, nesting, IF status = "compiling" THEN expects.what ELSE "statement")
         /\ source \in Seq(TokenType) /\ Here \in Nat
         /\ (status = "compiling" => pc = 0)
<1>1. Rest /\ Here \in Nat
  BY DEF IInv, FlowTypeOK, Rest, TokenType, Here
<1>2. /\ chunk \in Chunks(Constant) /\ ~chunk.narrowing_error /\ SoundCode(chunk, PendingOf(nesting))
      /\ IsSequence(nesting) /\ Len(nesting) > 0 /\ DOMAIN nesting = 1 .. Len(nesting)
      /\ Len(nesting) \in Nat
  BY PendingIs, SequenceLength DEF IInv, FlowTypeOK, CodeSound
<1>3. Good(chunk, PendingOf(nesting), Constant)
  BY <1>2 DEF Good, Chunks
<1>4. ASSUME NEW i \in 1 .. Len(nesting)
      PROVE  WaitingOK(nesting[i]) /\ Relies(chunk, nesting[i]) /\ (nesting[i].kind = "unit" <=> i = 1)
  <2>1. WaitingOK(nesting[i]) /\ (nesting[i].kind = "unit" <=> i = 1)
    BY <1>2 DEF IInv, FlowTypeOK
  <2>2. \A j \in DOMAIN nesting[i].jumps : nesting[i].jumps[j] \in PendingOf(nesting)
    BY <1>2 DEF PendingOf, JumpsOf
  <2>3. \A b \in DOMAIN nesting[i].begins : IsStart(chunk, nesting[i].begins[b])
    BY <1>2 DEF IInv, CodeSound
  <2>. QED
    BY <1>2, <2>1, <2>2, <2>3 DEF Relies, SoundCode
<1>5. \A i \in 1 .. Len(nesting) - 1 : Awaits(nesting[i], For(nesting[i + 1]))
  BY DEF IInv, FlowTypeOK, For
<1>6. Awaits(nesting[Len(nesting)], IF status = "compiling" THEN expects.what ELSE "statement")
  <2>1. CASE status = "compiling"
    BY <2>1 DEF IInv, FlowTypeOK, Top
  <2>2. CASE status # "compiling"
    <3>1. Len(nesting) = 1 /\ nesting[1].kind = "unit"
      BY <1>2, <2>2 DEF IInv, FlowTypeOK
    <3>. QED
      BY <2>2, <3>1 DEF Awaits
  <2>. QED
    BY <2>1, <2>2
<1>7. status = "compiling" => pc = 0
  BY DEF IInv, PcAtInstruction
<1>. QED
  BY <1>1, <1>2, <1>3, <1>4, <1>5, <1>6, <1>7 DEF Compiles, Rest

(* What a step must show. *)
LEMMA HoldsInv ==
  ASSUME Rest', NEW what, Compiles(chunk', nesting', what), PcAtInstruction',
         IF status' = "compiling" THEN what = expects'.what ELSE Len(nesting') = 1
  PROVE  IInv'
<1>1. /\ chunk' \in Chunks(Constant) /\ ~chunk'.narrowing_error
      /\ SoundCode(chunk', PendingOf(nesting'))
      /\ IsSequence(nesting') /\ Len(nesting') > 0 /\ DOMAIN nesting' = 1 .. Len(nesting')
  BY SequenceLength DEF Compiles, Good
<1>2. Pending' = PendingOf(nesting')
  BY DEF Pending, PendingOf, JumpsOf
<1>3. CodeSound'
  <2>1. \A i \in DOMAIN nesting' : \A j \in DOMAIN nesting'[i].begins :
          IsStart(chunk', nesting'[i].begins[j])
    BY <1>1 DEF Compiles, Relies
  <2>. QED
    BY <1>1, <1>2, <2>1 DEF CodeSound
<1>4. FlowTypeOK'
  <2>1. \A i \in DOMAIN nesting' : WaitingOK(nesting'[i]) /\ (nesting'[i].kind = "unit" <=> i = 1)
    BY <1>1 DEF Compiles
  <2>2. \A i \in 1 .. Len(nesting') - 1 :
          Awaits(nesting'[i], IF nesting'[i + 1].kind \in ExpressionKinds THEN "operand" ELSE "statement")
    BY DEF Compiles, For
  <2>3. IF status' = "compiling" THEN Awaits(nesting'[Len(nesting')], expects'.what) ELSE Len(nesting') = 1
    BY DEF Compiles
  <2>. QED
    BY <1>1, <2>1, <2>2, <2>3 DEF FlowTypeOK, Rest, Top, TokenType
<1>. QED
  BY <1>3, <1>4 DEF IInv

LEMMA StillInv ==
  ASSUME Rest', Compiles(chunk', nesting', expects'.what), status' = "compiling", pc' = 0
  PROVE  IInv'
<1>1. PcAtInstruction'
  BY DEF PcAtInstruction
<1>. QED
  BY <1>1, HoldsInv

LEMMA ReadType ==
  ASSUME source \in Seq(TokenType), unit' = unit, NEW tokens, IsSequence(tokens), Read(tokens),
         \A i \in 1 .. Len(tokens) :
           \E kind, lexeme : lexeme \in Lexeme /\ tokens[i] = Token(kind, lexeme)
  PROVE  source' \in Seq(TokenType)' /\ source' = source \o tokens
<1>1. Len(tokens) \in Nat /\ DOMAIN tokens = 1 .. Len(tokens)
  BY SequenceLength
<1>2. \A i \in 1 .. Len(tokens) : tokens[i] \in TokenType
  <2>1. SUFFICES ASSUME NEW i \in 1 .. Len(tokens) PROVE tokens[i] \in TokenType
    OBVIOUS
  <2>2. PICK kind, lexeme : lexeme \in Lexeme /\ tokens[i] = Token(kind, lexeme)
    OBVIOUS
  <2>3. tokens[i].kind \in unit.tokens /\ tokens[i].kind = kind
    BY SMTT(40), <1>1, <2>2 DEF Read, Token
  <2>4. Token(kind, lexeme) \in [kind : unit.tokens, lexeme : Lexeme]
    BY <2>2, <2>3 DEF Token
  <2>. QED
    BY <2>2, <2>4 DEF TokenType
<1>3. tokens \in Seq(TokenType)
  <2>1. tokens \in Seq({tokens[i] : i \in DOMAIN tokens})
    BY DEF IsSequence
  <2>2. {tokens[i] : i \in DOMAIN tokens} \subseteq TokenType
    BY <1>1, <1>2
  <2>. QED
    BY <2>1, <2>2
<1>. QED
  BY <1>3 DEF Read, TokenType

(* The lexemes of the tokens that are read. *)
LEMMA LexemeOK ==
  Names \cup {"none", "minus", "bang"} \cup DOMAIN Level \subseteq Lexeme
<1>. QED
  BY DEF Lexeme

LEMMA ReadOne ==
  ASSUME source \in Seq(TokenType), unit' = unit, NEW kind, NEW lexeme \in Lexeme,
         Read(<<Token(kind, lexeme)>>)
  PROVE  source' \in Seq(TokenType)' /\ Len(source') = Len(source) + 1
<1> DEFINE tokens == <<Token(kind, lexeme)>>
<1>1. IsSequence(tokens) /\ Len(tokens) = 1 /\ tokens[1] = Token(kind, lexeme)
  <2>1. tokens \in Seq({Token(kind, lexeme)})
    OBVIOUS
  <2>. QED
    BY <2>1, IsSequenceOf
<1>2. Read(tokens)
  OBVIOUS
<1>. HIDE DEF tokens
<1>3. source' \in Seq(TokenType)' /\ source' = source \o tokens
  BY <1>1, <1>2, ReadType
<1>4. tokens \in Seq({tokens[i] : i \in DOMAIN tokens})
  BY <1>1 DEF IsSequence
<1>. QED
  BY SMTT(40), <1>1, <1>3, <1>4, ConcatProperties

LEMMA ConstantOK ==
  /\ Number \in Constant
  /\ \A name \in Lexeme : Name(name) \in Constant
  /\ \A token \in Nat : NewFunction(token) \in Constant
<1>. QED
  BY LexemeOK DEF Number, Name, NewFunction, Constant

-----------------------------------------------------------------------------
(* Expressions *)

LEMMA EmitOperandGood ==
  ASSUME NEW c, NEW P, Good(c, P, Constant), NEW t \in OperandTokens, NEW token \in Nat
  PROVE  LET d == EmitOperand(c, t, token)
         IN  Good(d, P, Constant) /\ Later(c, d)
<1>1. t.kind \in {"number", "identifier", "fun", "nil", "true", "false"}
      /\ (t.kind = "identifier" => t.lexeme \in Lexeme)
  BY LexemeOK DEF OperandTokens
<1>2. CASE t.kind = "number"
  <2>1. "constant" \in ConstantOpcode /\ Number \in Constant
    BY ConstantOK DEF ConstantOpcode
  <2>2. EmitOperand(c, t, token) = EmitConstant(c, "constant", Number, token)
    BY <1>2 DEF EmitOperand
  <2>. QED
    BY <2>1, <2>2, EmitConstantGood
<1>3. CASE t.kind = "identifier"
  <2>1. "get_global" \in ConstantOpcode /\ Name(t.lexeme) \in Constant
    BY <1>1, <1>3, ConstantOK DEF ConstantOpcode, NameOpcode
  <2>2. EmitOperand(c, t, token) = EmitConstant(c, "get_global", Name(t.lexeme), token)
    BY <1>3 DEF EmitOperand
  <2>. QED
    BY <2>1, <2>2, EmitConstantGood
<1>4. CASE t.kind = "fun"
  <2>1. NewFunction(token) \in Constant /\ <<>> \in Seq({}) /\ \A u \in {} : u.index \in Nat
    BY ConstantOK
  <2>2. EmitOperand(c, t, token) = EmitClosure(c, NewFunction(token), <<>>, token)
    BY <1>4 DEF EmitOperand
  <2>. QED
    BY <2>1, <2>2, EmitClosureGood
<1>5. CASE t.kind \in {"nil", "true", "false"}
  <2>1. /\ "nil" \in PlainOpcode /\ "true_" \in PlainOpcode /\ "false_" \in PlainOpcode
    BY DEF PlainOpcode
  <2>2. \E opcode \in PlainOpcode : EmitOperand(c, t, token) = EmitPlain(c, opcode, token)
    BY <1>5, <2>1 DEF EmitOperand
  <2>. QED
    BY <2>2, EmitPlainGood
<1>. QED
  BY <1>1, <1>2, <1>3, <1>4, <1>5

LEMMA OperandKeeps ==
  ASSUME IInv, Operand
  PROVE  IInv'
<1>1. /\ Rest /\ Compiles(chunk, nesting, "operand") /\ Here \in Nat /\ pc = 0
      /\ status = "compiling"
  BY InvCompiles DEF Operand, Compiling
<1>2. PICK t \in OperandTokens : Read(<<t>>) /\ Emitted(EmitOperand(chunk, t, Here))
  BY DEF Operand
<1>3. source' \in Seq(TokenType)'
  <2>1. t.lexeme \in Lexeme /\ t = Token(t.kind, t.lexeme)
    BY LexemeOK DEF OperandTokens, Token
  <2>. QED
    BY <1>1, <1>2, <2>1, ReadOne DEF Rest, Operand
<1>4. Compiles(chunk', nesting, "operator")
  <2>1. Good(chunk', PendingOf(nesting), Constant) /\ Later(chunk, chunk') /\ ~chunk'.narrowing_error
    BY <1>1, <1>2, CompilesFacts, EmitOperandGood DEF Emitted
  <2>2. Awaits(nesting[Len(nesting)], "operator")
    BY <1>1 DEF Compiles, Awaits
  <2>. QED
    BY <1>1, <2>1, <2>2, StayKeeps
<1>5. expects' = [what |-> "operator", reach |-> CallLevel, callee |-> Here]
  BY DEF Operand, ExpectOperator
<1>6. Rest'
  BY <1>1, <1>2, <1>3, <1>5 DEF Rest, Operand, Emitted, scopes, CallLevel
<1>. QED
  BY <1>1, <1>2, <1>4, <1>5, <1>6, StillInv DEF Operand, Emitted, machine

(* A function begins to wait, and writes nothing before. *)
LEMMA PushPlain ==
  ASSUME NEW c, NEW ks, NEW was, Compiles(c, ks, was),
         NEW kind, NEW level, NEW token, NEW from, NEW names, NEW count,
         MayBegin(kind, level, token, from, names, count), kind \notin {"unit", "logical", "while"},
         NEW k, k = New(kind, level, token, from, names, <<>>, <<>>, count),
         Awaits(ks[Len(ks)], IF kind \in ExpressionKinds THEN "operand" ELSE "statement"),
         NEW what, Awaits(k, what)
  PROVE  Compiles(c, Append(ks, k), what)
<1>1. WaitingOK(k) /\ JumpsOf(k) = {} /\ Relies(c, k)
  BY NewPlain
<1>2. k.kind = kind
  BY DEF New
<1>3. Awaits(ks[Len(ks)], For(k))
  BY <1>2 DEF For
<1>4. Good(c, PendingOf(ks), Constant) /\ Later(c, c) /\ ~c.narrowing_error
  BY CompilesFacts
<1>5. PendingOf(ks) \subseteq PendingOf(ks) \cup JumpsOf(k)
  OBVIOUS
<1>. QED
  BY <1>1, <1>2, <1>3, <1>4, <1>5, PushKeeps

LEMMA PrefixKeeps ==
  ASSUME IInv, Prefix
  PROVE  IInv'
<1>1. /\ Rest /\ Compiles(chunk, nesting, "operand") /\ Here \in Nat /\ pc = 0
      /\ status = "compiling" /\ expects.what = "operand" /\ source \in Seq(TokenType)
  BY InvCompiles DEF Prefix, Compiling
<1>2. Awaits(nesting[Len(nesting)], "operand")
  BY <1>1 DEF Compiles
<1>3. /\ chunk' = chunk /\ expects' = expects /\ status' = status /\ pc' = pc /\ unit' = unit
      /\ tracked_locals' = tracked_locals /\ scope_depth' = scope_depth
  BY DEF Prefix, scopes, machine
<1>4. source' \in Seq(TokenType)' /\ Compiles(chunk, nesting', "operand")
  <2>1. CASE \E lexeme \in {"minus", "bang"} :
               /\ Read(<<Token("unary", lexeme)>>)
               /\ Push(WaitingOperator("unary", UnaryLevel, <<lexeme>>))
    <3>1. PICK lexeme \in {"minus", "bang"} :
                 /\ Read(<<Token("unary", lexeme)>>)
                 /\ Push(WaitingOperator("unary", UnaryLevel, <<lexeme>>))
      BY <2>1
    <3> DEFINE k == New("unary", UnaryLevel, Here, Here, <<lexeme>>, <<>>, <<>>, 0)
    <3>2. lexeme \in Lexeme
      BY LexemeOK
    <3>3. WaitingOperator("unary", UnaryLevel, <<lexeme>>) = k
      BY DEF WaitingOperator, Waiting, New
    <3>4. MayBegin("unary", UnaryLevel, Here, Here, <<lexeme>>, 0)
      BY <1>1, <3>2 DEF MayBegin, UnaryLevel, Kinds, OperatorKinds
    <3>5. k.kind = "unary"
      BY DEF New
    <3>. HIDE DEF k
    <3>6. Awaits(k, "operand")
      BY <3>5 DEF Awaits, ExpressionKinds, OperatorKinds
    <3>7. "unary" \in ExpressionKinds
      BY DEF ExpressionKinds, OperatorKinds
    <3>8. Compiles(chunk, Append(nesting, k), "operand")
      BY <1>1, <1>2, <3>4, <3>6, <3>7, PushPlain DEF k
    <3>. QED
      BY <1>1, <1>3, <3>1, <3>2, <3>3, <3>8, ReadOne DEF Push
  <2>2. CASE Read(<<Token("left_paren", "none")>>) /\ Push(Waiting("group", -1, Here, Here))
    <3> DEFINE k == New("group", -1, Here, Here, <<>>, <<>>, <<>>, 0)
    <3>1. "none" \in Lexeme
      BY LexemeOK
    <3>2. Waiting("group", -1, Here, Here) = k
      BY DEF Waiting, New
    <3>3. MayBegin("group", -1, Here, Here, <<>>, 0)
      BY <1>1 DEF MayBegin, UnaryLevel, Kinds, OperatorKinds
    <3>4. k.kind = "group"
      BY DEF New
    <3>. HIDE DEF k
    <3>5. Awaits(k, "operand")
      BY <3>4 DEF Awaits, ExpressionKinds, OperatorKinds
    <3>6. "group" \in ExpressionKinds
      BY DEF ExpressionKinds
    <3>7. Compiles(chunk, Append(nesting, k), "operand")
      BY <1>1, <1>2, <3>3, <3>5, <3>6, PushPlain DEF k
    <3>. QED
      BY <1>1, <1>3, <2>2, <3>1, <3>2, <3>7, ReadOne DEF Push
  <2>. QED
    BY <2>1, <2>2 DEF Prefix
<1>5. Rest'
  BY <1>1, <1>3, <1>4 DEF Rest
<1>. QED
  BY <1>1, <1>3, <1>4, <1>5, StillInv

LEMMA AwaitsExpression ==
  \A k : Awaits(k, "operand") <=> Awaits(k, "operator")
<1>. QED
  BY DEF Awaits

LEMMA GoodSize ==
  ASSUME NEW S, NEW c, NEW P, Good(c, P, S), ~c.narrowing_error
  PROVE  Size(c) \in Nat
<1>. QED
  BY DEF Good, Chunks, Size

LEMMA LaterLater ==
  ASSUME NEW S, NEW c, NEW P, Good(c, P, S), NEW d, NEW Q, Good(d, Q, S),
         NEW e, NEW R, Good(e, R, S), Later(c, d), Later(d, e)
  PROVE  Later(c, e)
<1>. QED
  BY GoodSize, ExtendsTransitive

LEMMA LaterPending ==
  ASSUME NEW c, NEW d, Later(c, d), ~d.narrowing_error, NEW j \in Nat,
         ~c.narrowing_error => IsPending(c, j)
  PROVE  IsPending(d, j)
<1>. QED
  BY DEF Later, Extends

LEMMA AssignmentKeeps ==
  ASSUME IInv, Assignment
  PROVE  IInv'
<1>1. /\ Rest /\ Compiles(chunk, nesting, "operand") /\ Here \in Nat /\ pc = 0
      /\ status = "compiling" /\ expects.what = "operand" /\ source \in Seq(TokenType)
  BY InvCompiles DEF Assignment, Compiling
<1>2. Awaits(nesting[Len(nesting)], "operand") /\ "assignment" \in ExpressionKinds
  BY <1>1 DEF Compiles, ExpressionKinds, OperatorKinds
<1>3. /\ chunk' = chunk /\ expects' = expects /\ status' = status /\ pc' = pc /\ unit' = unit
      /\ tracked_locals' = tracked_locals /\ scope_depth' = scope_depth
  BY DEF Assignment, scopes, machine
<1>4. ASSUME NEW names \in Seq(Lexeme), Len(names) \in 1..3,
             Push(WaitingOperator("assignment", AssignmentLevel, names))
      PROVE  Compiles(chunk, nesting', "operand")
  <2> DEFINE k == New("assignment", AssignmentLevel, Here, Here, names, <<>>, <<>>, 0)
  <2>1. WaitingOperator("assignment", AssignmentLevel, names) = k
    BY DEF WaitingOperator, Waiting, New
  <2>2. MayBegin("assignment", AssignmentLevel, Here, Here, names, 0)
    BY <1>1, <1>4 DEF MayBegin, UnaryLevel, AssignmentLevel, Kinds, OperatorKinds
  <2>3. k.kind = "assignment"
    BY DEF New
  <2>. HIDE DEF k
  <2>4. Awaits(k, "operand")
    BY <1>2, <2>3 DEF Awaits
  <2>5. Compiles(chunk, Append(nesting, k), "operand")
    BY <1>1, <1>2, <2>2, <2>4, PushPlain DEF k
  <2>. QED
    BY <1>4, <2>1, <2>5 DEF Push
<1>5. source' \in Seq(TokenType)' /\ Compiles(chunk, nesting', "operand")
  <2>1. CASE \E name \in Names :
               /\ Read(<<Token("set", name)>>)
               /\ Push(WaitingOperator("assignment", AssignmentLevel, <<name>>))
    <3>1. PICK name \in Names :
                 /\ Read(<<Token("set", name)>>)
                 /\ Push(WaitingOperator("assignment", AssignmentLevel, <<name>>))
      BY <2>1
    <3>2. name \in Lexeme
      BY LexemeOK
    <3>3. <<name>> \in Seq(Lexeme) /\ Len(<<name>>) \in 1..3
      BY <3>2
    <3>. QED
      BY <1>1, <1>3, <1>4, <3>1, <3>2, <3>3, ReadOne
  <2>2. CASE \E fields \in 1..unit.max_fields, name, field \in Names :
               /\ Read(<<Token("put", name)>> \o [i \in 1..fields |-> Token("field", field)])
               /\ Push(WaitingOperator("assignment", AssignmentLevel,
                                       <<name>> \o [i \in 1..fields |-> field]))
    <3>1. PICK fields \in 1..unit.max_fields, name \in Names, field \in Names :
               /\ Read(<<Token("put", name)>> \o [i \in 1..fields |-> Token("field", field)])
               /\ Push(WaitingOperator("assignment", AssignmentLevel,
                                       <<name>> \o [i \in 1..fields |-> field]))
      BY <2>2
    <3>2. fields \in 1..2
      <4>1. unit.max_fields \in 1..2
        BY <1>1, FlowAssumption DEF Rest
      <4>. QED
        BY <4>1
    <3>3. name \in Lexeme /\ field \in Lexeme
      BY LexemeOK
    <3> DEFINE names == <<name>> \o [i \in 1..fields |-> field]
               tokens == <<Token("put", name)>> \o [i \in 1..fields |-> Token("field", field)]
               lexemes == {Token("put", name), Token("field", field)}
    <3>4. names \in Seq(Lexeme) /\ Len(names) = 1 + fields
      <4>1. /\ <<name>> \in Seq(Lexeme) /\ Len(<<name>>) = 1
            /\ [i \in 1..fields |-> field] \in Seq(Lexeme)
            /\ Len([i \in 1..fields |-> field]) = fields
        BY <3>2, <3>3
      <4>. QED
        BY <4>1, ConcatProperties
    <3>5. tokens \in Seq(lexemes)
      <4>1. <<Token("put", name)>> \in Seq(lexemes) /\ [i \in 1..fields |-> Token("field", field)] \in Seq(lexemes)
        BY <3>2
      <4>. QED
        BY <4>1, ConcatProperties
    <3>. HIDE DEF tokens, names
    <3>6. IsSequence(tokens) /\ \A i \in 1 .. Len(tokens) : tokens[i] \in lexemes
      BY <3>5, IsSequenceOf
    <3>7. \A i \in 1 .. Len(tokens) :
            \E kind, lexeme : lexeme \in Lexeme /\ tokens[i] = Token(kind, lexeme)
      BY <3>3, <3>6
    <3>8. Read(tokens) /\ Push(WaitingOperator("assignment", AssignmentLevel, names))
      BY <3>1 DEF tokens, names
    <3>9. Len(names) \in 1..3
      BY <3>2, <3>4
    <3>. QED
      BY <1>1, <1>3, <1>4, <3>4, <3>6, <3>7, <3>8, <3>9, ReadType
  <2>. QED
    BY <2>1, <2>2 DEF Assignment
<1>6. Rest'
  BY <1>1, <1>3, <1>5 DEF Rest
<1>. QED
  BY <1>1, <1>3, <1>5, <1>6, StillInv

(* The code before the second operand of `and' and `or', with the one jump  *)
(* that is left to patch.                                                   *)
LEMMA ShortCircuitGood ==
  ASSUME NEW c, NEW P, Good(c, P, Constant), NEW token \in Nat
  PROVE  LET tested == EmitJump(c, "jump_if_false", token)
             skipped == EmitJump(tested, "jump", token)
             conjunction == EmitPlain(tested, "pop", token)
             disjunction == EmitPlain(ToNextOpcode(skipped, Size(tested)), "pop", token)
         IN  /\ Good(conjunction, P \cup {Size(tested)}, Constant) /\ Later(c, conjunction)
             /\ ~conjunction.narrowing_error =>
                  Size(tested) \in Nat /\ IsPending(conjunction, Size(tested))
             /\ Good(disjunction, (P \cup {Size(tested)} \cup {Size(skipped)}) \ {Size(tested)}, Constant)
             /\ Later(c, disjunction)
             /\ ~disjunction.narrowing_error =>
                  Size(skipped) \in Nat /\ IsPending(disjunction, Size(skipped))
<1> DEFINE tested == EmitJump(c, "jump_if_false", token)
           skipped == EmitJump(tested, "jump", token)
           patched == ToNextOpcode(skipped, Size(tested))
           conjunction == EmitPlain(tested, "pop", token)
           disjunction == EmitPlain(patched, "pop", token)
           Q == P \cup {Size(tested)}
           R == Q \cup {Size(skipped)}
<1>1. /\ Good(tested, Q, Constant) /\ Later(c, tested)
      /\ ~tested.narrowing_error => IsPending(tested, Size(tested))
  BY EmitJumpGood
<1>. HIDE DEF tested
<1>2. /\ Good(skipped, R, Constant) /\ Later(tested, skipped)
      /\ ~skipped.narrowing_error => IsPending(skipped, Size(skipped))
  <2>. HIDE DEF Q
  <2>. QED
    BY <1>1, EmitJumpGood
<1>. HIDE DEF skipped
<1>3. "pop" \in PlainOpcode
  BY DEF PlainOpcode
<1>4. Good(conjunction, Q, Constant) /\ Later(tested, conjunction)
  BY <1>1, <1>3, EmitPlainGood
<1>5. Good(patched, R \ {Size(tested)}, Constant) /\ Later(skipped, patched)
  <2>1. Size(tested) \in R
    OBVIOUS
  <2>. HIDE DEF R
  <2>. QED
    BY <1>2, <2>1, PatchGood
<1>. HIDE DEF patched
<1>6. Good(disjunction, R \ {Size(tested)}, Constant) /\ Later(patched, disjunction)
  BY <1>3, <1>5, EmitPlainGood
<1>. HIDE DEF conjunction, disjunction, Q, R
<1>7. Later(c, conjunction) /\ Later(c, disjunction) /\ Later(skipped, disjunction)
  BY <1>1, <1>2, <1>4, <1>5, <1>6, LaterLater
<1>8. ~conjunction.narrowing_error =>
        Size(tested) \in Nat /\ IsPending(conjunction, Size(tested))
  <2>1. SUFFICES ASSUME ~conjunction.narrowing_error
                 PROVE  Size(tested) \in Nat /\ IsPending(conjunction, Size(tested))
    OBVIOUS
  <2>2. ~tested.narrowing_error
    BY <1>4, <2>1 DEF Later
  <2>. QED
    BY <1>1, <1>4, <2>1, <2>2, GoodSize, LaterPending
<1>9. ~disjunction.narrowing_error =>
        Size(skipped) \in Nat /\ IsPending(disjunction, Size(skipped))
  <2>1. SUFFICES ASSUME ~disjunction.narrowing_error
                 PROVE  Size(skipped) \in Nat /\ IsPending(disjunction, Size(skipped))
    OBVIOUS
  <2>2. ~skipped.narrowing_error
    BY <1>7, <2>1 DEF Later
  <2>. QED
    BY <1>2, <1>7, <2>1, <2>2, GoodSize, LaterPending
<1>. QED
  BY <1>4, <1>6, <1>7, <1>8, <1>9 DEF conjunction, disjunction, patched, skipped, tested, Q, R

LEMMA OperatorsOK ==
  \A u \in Units : \A lexeme \in u.operators :
    /\ lexeme \in DOMAIN Level /\ Level[lexeme] \in 1..6 /\ lexeme \in Lexeme
    /\ lexeme \notin {"and", "or"} => lexeme \in DOMAIN Instructions
<1> DEFINE lexemes == {"or", "and", "equal_equal", "bang_equal", "less", "less_equal", "greater",
                       "greater_equal", "plus", "minus", "star", "slash"}
<1>1. \A u \in Units : u.operators \subseteq lexemes
  BY FlowAssumption
<1>2. \A lexeme \in lexemes :
        /\ lexeme \in DOMAIN Level /\ Level[lexeme] \in 1..6
        /\ lexeme \notin {"and", "or"} => lexeme \in DOMAIN Instructions
  BY DEF Level, Instructions
<1>. HIDE DEF lexemes
<1>. QED
  BY <1>1, <1>2, LexemeOK

LEMMA BinaryOperatorKeeps ==
  ASSUME IInv, BinaryOperator
  PROVE  IInv'
<1>1. /\ Rest /\ Compiles(chunk, nesting, "operator") /\ Here \in Nat /\ pc = 0
      /\ status = "compiling" /\ source \in Seq(TokenType) /\ unit \in Units
  BY InvCompiles DEF BinaryOperator, Compiling, Rest
<1>2. Awaits(nesting[Len(nesting)], "operand")
  BY <1>1, AwaitsExpression DEF Compiles
<1>3. /\ pc' = pc /\ unit' = unit /\ tracked_locals' = tracked_locals /\ scope_depth' = scope_depth
      /\ expects' = [what |-> "operand", reach |-> 0, callee |-> 0]
  BY DEF BinaryOperator, scopes, machine, Expect
<1> DEFINE tested == EmitJump(chunk, "jump_if_false", Here)
           skipped == EmitJump(tested, "jump", Here)
           operator(kind, level, lexeme) == WaitingOperator(kind, level, <<lexeme>>)
<1>4. PICK lexeme \in unit.operators :
        /\ Read(<<Token("binary", lexeme)>>)
        /\ CASE lexeme = "and" ->
                 /\ Emitted(EmitPlain(tested, "pop", Here))
                 /\ Push([operator("logical", Level[lexeme], lexeme) EXCEPT !.jumps = <<Size(tested)>>])
            [] lexeme = "or" ->
                 /\ Emitted(EmitPlain(ToNextOpcode(skipped, Size(tested)), "pop", Here))
                 /\ Push([operator("logical", Level[lexeme], lexeme) EXCEPT !.jumps = <<Size(skipped)>>])
            [] lexeme \notin {"and", "or"} ->
                 KeepsCode /\ Push(operator("binary", Level[lexeme], lexeme))
  BY DEF BinaryOperator
<1>5. /\ lexeme \in Lexeme /\ Level[lexeme] \in 1..6
      /\ lexeme \notin {"and", "or"} => lexeme \in DOMAIN Instructions
  BY <1>1, <1>4, OperatorsOK
<1>6. source' \in Seq(TokenType)'
  BY <1>1, <1>3, <1>4, <1>5, ReadOne
<1> DEFINE P == PendingOf(nesting)
<1>7. ASSUME NEW j, NEW d, NEW R, Good(d, R, Constant), R \subseteq P \cup {j}, Later(chunk, d),
             ~d.narrowing_error => j \in Nat /\ IsPending(d, j),
             Emitted(d),
             Push([operator("logical", Level[lexeme], lexeme) EXCEPT !.jumps = <<j>>])
      PROVE  Compiles(chunk', nesting', "operand") /\ status' = status
  <2> DEFINE k == New("logical", Level[lexeme], Here, Here, <<lexeme>>, <<j>>, <<>>, 0)
  <2>1. [operator("logical", Level[lexeme], lexeme) EXCEPT !.jumps = <<j>>] = k
    <3>1. operator("logical", Level[lexeme], lexeme) =
            New("logical", Level[lexeme], Here, Here, <<lexeme>>, <<>>, <<>>, 0)
      BY DEF WaitingOperator, Waiting, New
    <3>2. ASSUME NEW names, NEW before, NEW after
          PROVE  [New("logical", Level[lexeme], Here, Here, names, before, before, 0) EXCEPT !.jumps = after] =
                 New("logical", Level[lexeme], Here, Here, names, after, before, 0)
      BY DEF New
    <3>. QED
      BY <3>1, <3>2
  <2>2. /\ chunk' = d /\ ~d.narrowing_error /\ status' = status /\ j \in Nat /\ IsPending(d, j)
    BY <1>7 DEF Emitted
  <2>3. MayBegin("logical", Level[lexeme], Here, Here, <<lexeme>>, 0)
    BY <1>1, <1>5 DEF MayBegin, UnaryLevel, Kinds, OperatorKinds
  <2>4. /\ <<j>> \in Seq(Nat) /\ Len(<<j>>) = 1 /\ JumpsToPatch("logical", 0) = 1
        /\ <<>> \in Seq(Nat) /\ Len(<<>>) = 0 /\ Beginnings("logical", 0) = 0
    BY <2>2 DEF JumpsToPatch, Beginnings
  <2>5. WaitingOK(k)
    BY <2>3, <2>4, NewOK
  <2>6. k.kind = "logical" /\ k.jumps = <<j>> /\ k.begins = <<>>
    BY DEF New
  <2>. HIDE DEF k
  <2>7. JumpsOf(k) = {j} /\ Relies(d, k)
    BY <2>2, <2>6 DEF JumpsOf, Relies
  <2>8. Awaits(k, "operand") /\ k.kind # "unit" /\ For(k) = "operand"
    BY <2>6 DEF Awaits, For, ExpressionKinds, OperatorKinds
  <2>9. Compiles(d, Append(nesting, k), "operand")
    BY <1>1, <1>2, <1>7, <2>2, <2>5, <2>7, <2>8, PushKeeps
  <2>. QED
    BY <1>7, <2>1, <2>2, <2>9 DEF Push
<1>8. Good(chunk, P, Constant)
  BY <1>1, CompilesFacts
<1>9. Compiles(chunk', nesting', "operand") /\ status' = status
  <2>1. CASE lexeme = "and"
    <3> DEFINE d == EmitPlain(tested, "pop", Here)
    <3>1. /\ Good(d, P \cup {Size(tested)}, Constant) /\ Later(chunk, d)
          /\ ~d.narrowing_error => Size(tested) \in Nat /\ IsPending(d, Size(tested))
      BY <1>1, <1>8, ShortCircuitGood
    <3>2. /\ Emitted(d)
          /\ Push([operator("logical", Level[lexeme], lexeme) EXCEPT !.jumps = <<Size(tested)>>])
      BY <1>4, <2>1
    <3>. HIDE DEF d, tested, P, operator
    <3>. QED
      BY <1>7, <3>1, <3>2
  <2>2. CASE lexeme = "or"
    <3> DEFINE d == EmitPlain(ToNextOpcode(skipped, Size(tested)), "pop", Here)
               R == (P \cup {Size(tested)} \cup {Size(skipped)}) \ {Size(tested)}
    <3>1. /\ Good(d, R, Constant) /\ Later(chunk, d)
          /\ ~d.narrowing_error => Size(skipped) \in Nat /\ IsPending(d, Size(skipped))
      BY <1>1, <1>8, ShortCircuitGood
    <3>2. /\ Emitted(d)
          /\ Push([operator("logical", Level[lexeme], lexeme) EXCEPT !.jumps = <<Size(skipped)>>])
      BY <1>4, <2>2
    <3>3. R \subseteq P \cup {Size(skipped)}
      OBVIOUS
    <3>. HIDE DEF d, R, tested, skipped, P, operator
    <3>. QED
      BY <1>7, <3>1, <3>2, <3>3
  <2>3. CASE lexeme \notin {"and", "or"}
    <3> DEFINE k == New("binary", Level[lexeme], Here, Here, <<lexeme>>, <<>>, <<>>, 0)
    <3>1. KeepsCode /\ Push(operator("binary", Level[lexeme], lexeme))
      BY <1>4, <2>3
    <3>2. operator("binary", Level[lexeme], lexeme) = k
      BY DEF WaitingOperator, Waiting, New
    <3>3. MayBegin("binary", Level[lexeme], Here, Here, <<lexeme>>, 0)
      BY <1>1, <1>5, <2>3 DEF MayBegin, UnaryLevel, Kinds, OperatorKinds
    <3>4. k.kind = "binary"
      BY DEF New
    <3>. HIDE DEF k
    <3>5. Awaits(k, "operand") /\ "binary" \in ExpressionKinds
      BY <3>4 DEF Awaits, ExpressionKinds, OperatorKinds
    <3>6. Compiles(chunk, Append(nesting, k), "operand")
      BY <1>1, <1>2, <3>3, <3>5, PushPlain DEF k
    <3>. QED
      BY <3>1, <3>2, <3>6 DEF Push, KeepsCode
  <2>. QED
    BY <2>1, <2>2, <2>3
<1>10. Rest'
  BY <1>1, <1>3, <1>6, <1>9 DEF Rest
<1>. QED
  BY <1>1, <1>3, <1>9, <1>10, StillInv

(* The names of an assignment, one constant after the other. *)
LEMMA EmitAssignmentGood ==
  ASSUME NEW c, NEW P, Good(c, P, Constant), NEW names \in Seq(Lexeme), Len(names) \in 1..3,
         NEW token \in Nat
  PROVE  LET d == EmitAssignment(c, names, token)
         IN  Good(d, P, Constant) /\ Later(c, d)
<1> DEFINE getter == EmitConstant(c, "get_global", Name(names[1]), token)
           last == Name(names[Len(names)])
           d == EmitAssignment(c, names, token)
<1>1. \A i \in 1 .. Len(names) : Name(names[i]) \in Constant
  BY ConstantOK
<1>2. /\ "get_global" \in ConstantOpcode /\ "set_global" \in ConstantOpcode
      /\ "get_property" \in ConstantOpcode /\ "set_property" \in ConstantOpcode
  BY DEF ConstantOpcode, NameOpcode
<1>3. /\ Name(names[1]) \in Constant /\ last \in Constant
      /\ token + 1 \in Nat /\ token + Len(names) - 1 \in Nat
  BY <1>1
<1>4. Good(getter, P, Constant) /\ Later(c, getter)
  BY <1>2, <1>3, EmitConstantGood
<1>. HIDE DEF getter, last
<1>5. ASSUME NEW middle, Good(middle, P, Constant), Later(c, middle),
             d = EmitConstant(middle, "set_property", last, token + Len(names) - 1)
      PROVE  Good(d, P, Constant) /\ Later(c, d)
  <2>. HIDE DEF d
  <2>1. Good(d, P, Constant) /\ Later(middle, d)
    BY <1>2, <1>3, <1>5, EmitConstantGood
  <2>. QED
    BY <1>5, <2>1, LaterLater
<1>6. CASE Len(names) = 1
  <2>1. d = EmitConstant(c, "set_global", Name(names[1]), token)
    BY <1>6 DEF EmitAssignment
  <2>. QED
    BY <1>2, <1>3, <2>1, EmitConstantGood
<1>7. CASE Len(names) = 2
  <2>1. d = EmitConstant(getter, "set_property", last, token + Len(names) - 1)
    BY <1>7 DEF EmitAssignment, getter, last
  <2>. QED
    BY <1>4, <1>5, <2>1
<1>8. CASE Len(names) = 3
  <2> DEFINE property == EmitConstant(getter, "get_property", Name(names[2]), token + 1)
  <2>1. Name(names[2]) \in Constant
    BY <1>1, <1>8
  <2>2. Good(property, P, Constant) /\ Later(getter, property)
    BY <1>2, <1>3, <1>4, <2>1, EmitConstantGood
  <2>3. d = EmitConstant(property, "set_property", last, token + Len(names) - 1)
    BY <1>8 DEF EmitAssignment, getter, last
  <2>. HIDE DEF property
  <2>4. Later(c, property)
    BY <1>4, <2>2, LaterLater
  <2>. QED
    BY <1>5, <2>2, <2>3, <2>4
<1>. QED
  BY <1>6, <1>7, <1>8

LEMMA NoJumps ==
  ASSUME NEW k, WaitingOK(k), JumpsToPatch(k.kind, Len(k.parts)) = 0
  PROVE  JumpsOf(k) = {}
<1>1. k.jumps \in Seq(Nat) /\ Len(k.jumps) = 0
  BY DEF WaitingOK
<1>2. DOMAIN k.jumps = {}
  BY <1>1
<1>. QED
  BY <1>2 DEF JumpsOf

LEMMA OneJump ==
  ASSUME NEW k, WaitingOK(k), JumpsToPatch(k.kind, Len(k.parts)) = 1
  PROVE  JumpsOf(k) = {k.jumps[1]} /\ k.jumps[1] \in Nat
<1>1. k.jumps \in Seq(Nat) /\ Len(k.jumps) = 1
  BY DEF WaitingOK
<1>2. DOMAIN k.jumps = {1} /\ k.jumps[1] \in Nat
  BY <1>1
<1>. QED
  BY <1>2 DEF JumpsOf

LEMMA EmitOperatorGood ==
  ASSUME NEW c, NEW P, Good(c, P, Constant), NEW k, WaitingOK(k), k.kind \in OperatorKinds,
         JumpsOf(k) \subseteq P
  PROVE  LET d == EmitOperator(c, k)
         IN  Good(d, P \ JumpsOf(k), Constant) /\ Later(c, d)
<1> DEFINE d == EmitOperator(c, k)
<1>1. k.kind \in {"unary", "logical", "binary", "assignment"} /\ k.token \in Nat
  BY DEF OperatorKinds, WaitingOK
<1>2. CASE k.kind = "logical"
  <2>1. JumpsToPatch(k.kind, Len(k.parts)) = 1
    BY <1>2 DEF JumpsToPatch
  <2>2. JumpsOf(k) = {k.jumps[1]} /\ k.jumps[1] \in P
    BY <2>1, OneJump
  <2>3. d = ToNextOpcode(c, k.jumps[1])
    BY <1>2 DEF EmitOperator
  <2>. QED
    BY <2>2, <2>3, PatchGood
<1>3. CASE k.kind # "logical"
  <2>1. JumpsToPatch(k.kind, Len(k.parts)) = 0
    BY <1>1, <1>3 DEF JumpsToPatch
  <2>2. P \ JumpsOf(k) = P
    BY <2>1, NoJumps
  <2>3. CASE k.kind = "unary"
    <3>1. "negate" \in PlainOpcode /\ "not_" \in PlainOpcode
      BY DEF PlainOpcode
    <3>2. \E opcode \in PlainOpcode : d = EmitPlain(c, opcode, k.token)
      BY <2>3, <3>1 DEF EmitOperator
    <3>. QED
      BY <1>1, <2>2, <3>2, EmitPlainGood
  <2>4. CASE k.kind = "binary"
    <3> DEFINE opcodes == Instructions[k.names[1]]
    <3>1. k.names[1] \in DOMAIN Instructions
      BY <2>4 DEF WaitingOK
    <3>2. opcodes \in Seq(PlainOpcode)
      <4>1. /\ "equal" \in PlainOpcode /\ "not_" \in PlainOpcode /\ "less" \in PlainOpcode
            /\ "greater" \in PlainOpcode /\ "add" \in PlainOpcode /\ "subtract" \in PlainOpcode
            /\ "multiply" \in PlainOpcode /\ "divide" \in PlainOpcode
        BY DEF PlainOpcode
      <4>2. /\ \A opcode \in PlainOpcode : <<opcode>> \in Seq(PlainOpcode)
            /\ \A first, second \in PlainOpcode : <<first, second>> \in Seq(PlainOpcode)
        OBVIOUS
      <4>3. \/ \E opcode \in PlainOpcode : opcodes = <<opcode>>
            \/ \E first, second \in PlainOpcode : opcodes = <<first, second>>
        BY <3>1, <4>1 DEF Instructions
      <4>. QED
        BY <4>2, <4>3
    <3>3. d = Emit(c, [i \in DOMAIN opcodes |-> Op(opcodes[i])], k.token)
      BY <2>4 DEF EmitOperator
    <3>. HIDE DEF opcodes
    <3>. QED
      BY <1>1, <2>2, <3>2, <3>3, EmitPlainsGood
  <2>5. CASE k.kind = "assignment"
    <3>1. k.names \in Seq(Lexeme) /\ Len(k.names) \in 1..3
      BY <2>5 DEF WaitingOK
    <3>2. d = EmitAssignment(c, k.names, k.token)
      BY <2>5 DEF EmitOperator
    <3>. QED
      BY <1>1, <2>2, <3>1, <3>2, EmitAssignmentGood
  <2>. QED
    BY <1>1, <1>3, <2>3, <2>4, <2>5
<1>. QED
  BY <1>2, <1>3

(* Below every waiting function but the unit there is one that waits for it. *)
LEMMA BelowAwaits ==
  ASSUME NEW c, NEW ks, NEW what, Compiles(c, ks, what), ks[Len(ks)].kind # "unit"
  PROVE  Len(ks) > 1 /\ Awaits(ks[Len(ks) - 1], For(ks[Len(ks)]))
<1>1. Len(ks) \in Nat /\ Len(ks) > 0
  BY CompilesFacts
<1>2. Len(ks) # 1
  BY <1>1 DEF Compiles
<1>. QED
  BY <1>1, <1>2 DEF Compiles

LEMMA FinishOperatorKeeps ==
  ASSUME IInv, FinishOperator
  PROVE  IInv'
<1> DEFINE d == EmitOperator(chunk, Top)
<1>1. /\ Rest /\ Compiles(chunk, nesting, "operator") /\ pc = 0 /\ status = "compiling"
  BY InvCompiles DEF FinishOperator, Compiling
<1>2. /\ pc' = pc /\ unit' = unit /\ tracked_locals' = tracked_locals /\ scope_depth' = scope_depth
      /\ source' = source /\ status' = status /\ chunk' = d /\ ~d.narrowing_error /\ nesting' = Below
      /\ expects' = [what |-> "operator", reach |-> Top.level, callee |-> expects.callee]
  BY DEF FinishOperator, scopes, machine, Emitted, ExpectOperator
<1>3. /\ WaitingOK(Top) /\ Top.kind \in OperatorKinds /\ Top.level \in Int
      /\ JumpsOf(Top) \subseteq PendingOf(nesting) /\ Good(chunk, PendingOf(nesting), Constant)
  <2>1. WaitingOK(Top) /\ JumpsOf(Top) \subseteq PendingOf(nesting)
    BY <1>1, CompilesFacts DEF Top
  <2>. QED
    BY <1>1, <2>1, CompilesFacts DEF WaitingOK, FinishOperator, UnaryLevel
<1>4. Top.kind # "unit" /\ For(Top) = "operand"
  BY <1>3 DEF OperatorKinds, For, ExpressionKinds
<1>5. Len(nesting) > 1 /\ Awaits(nesting[Len(nesting) - 1], "operator")
  BY <1>1, <1>4, BelowAwaits, AwaitsExpression DEF Top
<1>6. Good(d, PendingOf(nesting) \ JumpsOf(Top), Constant) /\ Later(chunk, d)
  BY <1>3, EmitOperatorGood
<1>. HIDE DEF d
<1>7. Compiles(d, Below, "operator")
  BY <1>1, <1>2, <1>5, <1>6, PopKeeps DEF Top, Below
<1>8. Rest'
  BY <1>1, <1>2, <1>3 DEF Rest, TokenType
<1>. QED
  BY <1>1, <1>2, <1>7, <1>8, StillInv

LEMMA AccessPropertyKeeps ==
  ASSUME IInv, AccessProperty
  PROVE  IInv'
<1>1. /\ Rest /\ Compiles(chunk, nesting, "operator") /\ Here \in Nat /\ pc = 0
      /\ status = "compiling" /\ source \in Seq(TokenType)
  BY InvCompiles DEF AccessProperty, Compiling
<1>2. /\ pc' = pc /\ unit' = unit /\ tracked_locals' = tracked_locals /\ scope_depth' = scope_depth
      /\ nesting' = nesting /\ expects' = [what |-> "operator", reach |-> CallLevel, callee |-> Here]
  BY DEF AccessProperty, scopes, machine, ExpectOperator
<1>3. PICK name \in Names :
        /\ Read(<<Token("property", name)>>)
        /\ Emitted(EmitConstant(chunk, "get_property", Name(name), Here))
  BY DEF AccessProperty
<1>4. "get_property" \in ConstantOpcode /\ name \in Lexeme /\ Name(name) \in Constant
  BY LexemeOK, ConstantOK DEF ConstantOpcode, NameOpcode
<1>5. /\ Good(chunk', PendingOf(nesting), Constant) /\ Later(chunk, chunk')
      /\ ~chunk'.narrowing_error /\ status' = status
  BY <1>1, <1>3, <1>4, CompilesFacts, EmitConstantGood DEF Emitted
<1>6. Compiles(chunk', nesting, "operator")
  <2>1. Awaits(nesting[Len(nesting)], "operator")
    BY <1>1 DEF Compiles
  <2>. QED
    BY <1>1, <1>5, <2>1, StayKeeps
<1>7. source' \in Seq(TokenType)'
  BY <1>1, <1>2, <1>3, <1>4, ReadOne
<1>8. Rest'
  BY <1>1, <1>2, <1>5, <1>7 DEF Rest, CallLevel
<1>. QED
  BY <1>1, <1>2, <1>5, <1>6, <1>8, StillInv

LEMMA OpenCallKeeps ==
  ASSUME IInv, OpenCall
  PROVE  IInv'
<1>1. /\ Rest /\ Compiles(chunk, nesting, "operator") /\ Here \in Nat /\ pc = 0
      /\ status = "compiling" /\ source \in Seq(TokenType) /\ expects.callee \in Nat
  BY InvCompiles DEF OpenCall, Compiling, Rest
<1>2. pc' = pc /\ unit' = unit /\ tracked_locals' = tracked_locals /\ scope_depth' = scope_depth
  BY DEF OpenCall, scopes, machine
<1>3. "none" \in Lexeme
  BY LexemeOK
<1>4. CASE /\ Read(<<Token("call", "none"), Token("right_paren", "none")>>)
           /\ Emitted(EmitIndex(chunk, "call", 0, expects.callee))
           /\ ExpectOperator(CallLevel, 0)
           /\ UNCHANGED nesting
  <2>1. "call" \in ConstantOpcode \cup IndexOpcode
    BY DEF IndexOpcode
  <2>2. /\ Good(chunk', PendingOf(nesting), Constant) /\ Later(chunk, chunk')
        /\ ~chunk'.narrowing_error /\ status' = status
    BY <1>1, <1>4, <2>1, CompilesFacts, EmitIndexGood DEF Emitted
  <2>3. Compiles(chunk', nesting, "operator")
    <3>1. Awaits(nesting[Len(nesting)], "operator")
      BY <1>1 DEF Compiles
    <3>. QED
      BY <1>1, <2>2, <3>1, StayKeeps
  <2> DEFINE tokens == <<Token("call", "none"), Token("right_paren", "none")>>
  <2>4. /\ IsSequence(tokens) /\ Len(tokens) = 2
        /\ tokens[1] = Token("call", "none") /\ tokens[2] = Token("right_paren", "none")
    <3>1. tokens \in Seq({Token("call", "none"), Token("right_paren", "none")})
      OBVIOUS
    <3>. QED
      BY <3>1, IsSequenceOf
  <2>5. Read(tokens)
    BY <1>4
  <2>. HIDE DEF tokens
  <2>6. \A i \in 1 .. Len(tokens) :
          \E kind, lexeme : lexeme \in Lexeme /\ tokens[i] = Token(kind, lexeme)
    BY <1>3, <2>4
  <2>7. source' \in Seq(TokenType)'
    BY <1>1, <1>2, <2>4, <2>5, <2>6, ReadType
  <2>8. expects' = [what |-> "operator", reach |-> CallLevel, callee |-> 0]
    BY <1>4 DEF ExpectOperator
  <2>9. Rest'
    BY <1>1, <1>2, <2>2, <2>7, <2>8 DEF Rest, CallLevel
  <2>. QED
    BY <1>1, <1>2, <1>4, <2>2, <2>3, <2>8, <2>9, StillInv
<1>5. CASE /\ Read(<<Token("call", "none")>>)
           /\ Push([Waiting("call", -1, expects.callee, Here) EXCEPT !.count = 1])
           /\ Expect("operand")
           /\ KeepsCode
  <2> DEFINE k == New("call", -1, expects.callee, Here, <<>>, <<>>, <<>>, 1)
  <2>1. [Waiting("call", -1, expects.callee, Here) EXCEPT !.count = 1] = k
    BY DEF Waiting, New
  <2>2. MayBegin("call", -1, expects.callee, Here, <<>>, 1)
    BY <1>1 DEF MayBegin, UnaryLevel, Kinds, OperatorKinds
  <2>3. k.kind = "call"
    BY DEF New
  <2>. HIDE DEF k
  <2>4. Awaits(k, "operand") /\ "call" \in ExpressionKinds
    BY <2>3 DEF Awaits, ExpressionKinds
  <2>5. Awaits(nesting[Len(nesting)], "operand")
    BY <1>1, AwaitsExpression DEF Compiles
  <2>6. Compiles(chunk, Append(nesting, k), "operand")
    BY <1>1, <2>2, <2>4, <2>5, PushPlain DEF k
  <2>7. expects' = [what |-> "operand", reach |-> 0, callee |-> 0] /\ chunk' = chunk /\ status' = status
    BY <1>5 DEF Expect, KeepsCode
  <2>8. source' \in Seq(TokenType)'
    BY <1>1, <1>2, <1>3, <1>5, ReadOne
  <2>9. Rest'
    BY <1>1, <1>2, <2>7, <2>8 DEF Rest
  <2>. QED
    BY <1>1, <1>2, <1>5, <2>1, <2>6, <2>7, <2>9, StillInv DEF Push
<1>. QED
  BY <1>4, <1>5 DEF OpenCall

LEMMA NextArgumentKeeps ==
  ASSUME IInv, NextArgument
  PROVE  IInv'
<1> DEFINE k == [Top EXCEPT !.count = @ + 1]
<1>1. /\ Rest /\ Compiles(chunk, nesting, "operator") /\ pc = 0
      /\ status = "compiling" /\ source \in Seq(TokenType)
  BY InvCompiles DEF NextArgument, Compiling
<1>2. /\ pc' = pc /\ unit' = unit /\ tracked_locals' = tracked_locals /\ scope_depth' = scope_depth
      /\ chunk' = chunk /\ status' = status /\ nesting' = Append(Below, k) /\ Top.kind = "call"
      /\ expects' = [what |-> "operand", reach |-> 0, callee |-> 0] /\ Read(<<Token("comma", "none")>>)
  BY DEF NextArgument, scopes, machine, KeepsCode, Replace, Expect
<1>3. WaitingOK(Top) /\ Relies(chunk, Top) /\ JumpsOf(Top) \subseteq PendingOf(nesting)
  BY <1>1, CompilesFacts DEF Top
<1>4. /\ WaitingOK(k) /\ k.kind = Top.kind /\ k.jumps = Top.jumps /\ k.begins = Top.begins
  <2>1. /\ DOMAIN Top = {"kind", "level", "token", "from", "parts", "names", "jumps", "begins", "count"}
        /\ Top.count \in Nat
    BY <1>3 DEF WaitingOK
  <2>2. /\ k.kind = Top.kind /\ k.level = Top.level /\ k.token = Top.token /\ k.from = Top.from
        /\ k.parts = Top.parts /\ k.names = Top.names /\ k.jumps = Top.jumps /\ k.begins = Top.begins
        /\ k.count \in Nat /\ DOMAIN k = DOMAIN Top
    BY <2>1
  <2>. HIDE DEF k
  <2>. QED
    BY <1>3, <2>1, <2>2 DEF WaitingOK
<1>. HIDE DEF k
<1>5. Relies(chunk, k) /\ JumpsOf(k) = JumpsOf(Top)
  BY <1>3, <1>4 DEF Relies, JumpsOf
<1>6. Awaits(k, "operand")
  BY <1>2, <1>4 DEF Awaits, ExpressionKinds
<1>7. Good(chunk, PendingOf(nesting), Constant) /\ Later(chunk, chunk) /\ ~chunk.narrowing_error
  BY <1>1, CompilesFacts
<1>8. PendingOf(nesting) \subseteq (PendingOf(nesting) \ JumpsOf(nesting[Len(nesting)])) \cup JumpsOf(k)
  BY <1>5 DEF Top
<1>9. Compiles(chunk, Append(Below, k), "operand")
  BY <1>1, <1>4, <1>5, <1>6, <1>7, <1>8, ReplaceKeeps DEF Top, Below
<1>10. source' \in Seq(TokenType)'
  BY <1>1, <1>2, LexemeOK, ReadOne
<1>11. Rest'
  BY <1>1, <1>2, <1>10 DEF Rest
<1>. QED
  BY <1>1, <1>2, <1>9, <1>11, StillInv

LEMMA CloseParenthesisKeeps ==
  ASSUME IInv, CloseParenthesis
  PROVE  IInv'
<1>1. /\ Rest /\ Compiles(chunk, nesting, "operator") /\ pc = 0
      /\ status = "compiling" /\ source \in Seq(TokenType)
  BY InvCompiles DEF CloseParenthesis, Compiling
<1>2. /\ pc' = pc /\ unit' = unit /\ tracked_locals' = tracked_locals /\ scope_depth' = scope_depth
      /\ nesting' = Below /\ Top.kind \in {"call", "group"} /\ Read(<<Token("right_paren", "none")>>)
  BY DEF CloseParenthesis, scopes, machine
<1>3. WaitingOK(Top) /\ Top.token \in Nat /\ Top.count \in Nat
  <2>1. WaitingOK(Top)
    BY <1>1, CompilesFacts DEF Top
  <2>. QED
    BY <2>1 DEF WaitingOK
<1>4. JumpsOf(Top) = {}
  BY <1>2, <1>3, NoJumps DEF JumpsToPatch
<1>5. Len(nesting) > 1 /\ Awaits(nesting[Len(nesting) - 1], "operator")
  <2>1. Top.kind # "unit" /\ For(Top) = "operand"
    BY <1>2 DEF For, ExpressionKinds
  <2>. QED
    BY <1>1, <2>1, BelowAwaits, AwaitsExpression DEF Top
<1>6. /\ Good(chunk', PendingOf(nesting), Constant) /\ Later(chunk, chunk') /\ ~chunk'.narrowing_error
      /\ status' = status
      /\ \E callee \in Nat : expects' = [what |-> "operator", reach |-> CallLevel, callee |-> callee]
  <2>1. Good(chunk, PendingOf(nesting), Constant) /\ Later(chunk, chunk) /\ ~chunk.narrowing_error
    BY <1>1, CompilesFacts
  <2>2. CASE Top.kind = "call"
    <3>1. Emitted(EmitIndex(chunk, "call", Top.count, Top.token)) /\ ExpectOperator(CallLevel, 0)
      BY <2>2 DEF CloseParenthesis
    <3>2. "call" \in ConstantOpcode \cup IndexOpcode
      BY DEF IndexOpcode
    <3>. QED
      BY <1>3, <2>1, <3>1, <3>2, EmitIndexGood DEF Emitted, ExpectOperator
  <2>3. CASE Top.kind # "call"
    BY <1>3, <2>1, <2>3 DEF CloseParenthesis, KeepsCode, ExpectOperator
  <2>. QED
    BY <2>2, <2>3
<1>7. Compiles(chunk', Below, "operator")
  <2>1. PendingOf(nesting) \subseteq PendingOf(nesting) \ JumpsOf(nesting[Len(nesting)])
    BY <1>4 DEF Top
  <2>. QED
    BY <1>1, <1>5, <1>6, <2>1, PopKeeps DEF Below
<1>8. source' \in Seq(TokenType)'
  BY <1>1, <1>2, LexemeOK, ReadOne
<1>9. expects'.what = "operator"
  BY <1>6
<1>10. Rest'
  BY <1>1, <1>2, <1>6, <1>8 DEF Rest, CallLevel
<1>. QED
  BY <1>1, <1>2, <1>6, <1>7, <1>9, <1>10, StillInv

-----------------------------------------------------------------------------
(* Statements that begin *)

LEMMA TrackOK ==
  ASSUME Rest, Track
  PROVE  tracked_locals' \in Seq(Nat)
<1>1. CASE scope_depth > 0
  <2>1. scope_depth \in Nat /\ tracked_locals \in Seq(Nat)
    BY <1>1 DEF Rest
  <2>2. tracked_locals' = Append(tracked_locals, scope_depth)
    BY <1>1 DEF Track
  <2>. QED
    BY <2>1, <2>2
<1>2. CASE ~(scope_depth > 0)
  BY <1>2 DEF Rest, Track
<1>. QED
  BY <1>1, <1>2

LEMMA BeginWithExpressionKeeps ==
  ASSUME IInv, BeginWithExpression
  PROVE  IInv'
<1> DEFINE kinds == {"expression", "print", "return", "var", "if", "while"}
           tokens(kind, name) == IF kind = "expression" THEN <<>> ELSE <<Token(kind, name)>>
           begins(kind) == IF kind = "while" THEN <<Size(chunk)>> ELSE <<>>
<1>1. PICK kind \in kinds, name \in Names \cup {"none"} :
        /\ Compiling("statement")
        /\ Read(tokens(kind, name))
        /\ Push([Waiting(kind, -1, Here, Here + Len(tokens(kind, name))) EXCEPT
                   !.names = <<name>>, !.begins = begins(kind)])
        /\ IF kind = "var" THEN Track ELSE UNCHANGED tracked_locals
  BY ZenonT(60) DEF BeginWithExpression, May
<1>2. /\ Rest /\ Compiles(chunk, nesting, "statement") /\ Here \in Nat /\ pc = 0
      /\ status = "compiling" /\ source \in Seq(TokenType) /\ unit' = unit
  BY <1>1, InvCompiles DEF BeginWithExpression, Compiling
<1>3. name \in Lexeme
  BY LexemeOK
<1>4. source' \in Seq(TokenType)' /\ Len(tokens(kind, name)) \in Nat
  <2>1. CASE kind = "expression"
    <3>1. tokens(kind, name) = <<>>
      BY <2>1
    <3>2. ASSUME NEW none, IsSequence(none), Len(none) = 0, Read(none)
          PROVE  source' \in Seq(TokenType)'
      BY <1>2, <3>2, ReadType
    <3>3. IsSequence(<<>>)
      <4>1. <<>> \in Seq({})
        OBVIOUS
      <4>. QED
        BY <4>1, IsSequenceOf
    <3>4. Len(<<>>) = 0
      OBVIOUS
    <3>5. Read(<<>>)
      BY <1>1, <3>1
    <3>6. source' \in Seq(TokenType)'
      BY <3>2, <3>3, <3>4, <3>5
    <3>. QED
      BY <3>1, <3>4, <3>6
  <2>2. CASE kind # "expression"
    BY <1>1, <1>2, <1>3, <2>2, ReadOne
  <2>. QED
    BY <2>1, <2>2
<1>5. tracked_locals' \in Seq(Nat)
  <2>1. CASE kind = "var"
    BY <1>1, <1>2, <2>1, TrackOK
  <2>2. CASE kind # "var"
    <3>1. tracked_locals' = tracked_locals
      BY <1>1, <2>2
    <3>. QED
      BY <1>2, <3>1 DEF Rest
  <2>. QED
    BY <2>1, <2>2
<1>6. /\ chunk' = chunk /\ status' = status /\ pc' = pc /\ scope_depth' = scope_depth
      /\ expects' = [what |-> "operand", reach |-> 0, callee |-> 0]
  BY DEF BeginWithExpression, Expect, machine
<1> DEFINE from == Here + Len(tokens(kind, name))
<1>7. from \in Nat
  BY <1>2, <1>4
<1>. HIDE DEF from, tokens
<1>8. MayBegin(kind, -1, Here, from, <<name>>, 0)
  BY <1>2, <1>3, <1>7 DEF MayBegin, UnaryLevel, Kinds, OperatorKinds
<1>9. Awaits(nesting[Len(nesting)], "statement") /\ kind \notin ExpressionKinds /\ kind # "unit"
  BY <1>2 DEF Compiles, ExpressionKinds, OperatorKinds
<1> DEFINE k == New(kind, -1, Here, from, <<name>>, <<>>, begins(kind), 0)
<1>10. [Waiting(kind, -1, Here, from) EXCEPT !.names = <<name>>, !.begins = begins(kind)] = k
  <2> DEFINE w == Waiting(kind, -1, Here, from)
             names == <<name>>
             after == begins(kind)
  <2>. HIDE DEF names, after, begins
  <2>1. [w EXCEPT !.names = names, !.begins = after] =
          [x \in DOMAIN w |-> IF x = "names" THEN names ELSE IF x = "begins" THEN after ELSE w[x]]
    BY DEF Waiting
  <2>2. [w EXCEPT !.names = names, !.begins = after] = New(kind, -1, Here, from, names, <<>>, after, 0)
    BY <2>1 DEF Waiting, New
  <2>. QED
    BY <2>2 DEF names, after
<1>11. k.kind = kind /\ Len(k.parts) = 0
  BY DEF New
<1>12. Awaits(k, "operand")
  <2>. HIDE DEF k
  <2>. QED
    BY <1>11 DEF Awaits
<1>13. Compiles(chunk, Append(nesting, k), "operand")
  <2>1. CASE kind # "while"
    <3>1. k = New(kind, -1, Here, from, <<name>>, <<>>, <<>>, 0) /\ kind # "logical"
      BY <2>1
    <3>. HIDE DEF k
    <3>. QED
      BY <1>2, <1>8, <1>9, <1>12, <2>1, <3>1, PushPlain
  <2>2. CASE kind = "while"
    <3>1. Size(chunk) \in Nat /\ Good(chunk, PendingOf(nesting), Constant) /\ Later(chunk, chunk)
          /\ ~chunk.narrowing_error
      BY <1>2, CompilesFacts
    <3>2. k.jumps = <<>> /\ k.begins = <<Size(chunk)>>
      BY <2>2 DEF New
    <3>3. /\ <<>> \in Seq(Nat) /\ Len(<<>>) = JumpsToPatch(kind, 0)
          /\ <<Size(chunk)>> \in Seq(Nat) /\ Len(<<Size(chunk)>>) = Beginnings(kind, 0)
      BY <2>2, <3>1 DEF JumpsToPatch, Beginnings
    <3>4. k = New(kind, -1, Here, from, <<name>>, <<>>, <<Size(chunk)>>, 0)
      BY <2>2
    <3>. HIDE DEF k
    <3>5. WaitingOK(k)
      BY <1>8, <3>3, <3>4, NewOK
    <3>6. Relies(chunk, k)
      BY <3>1, <3>2 DEF Relies, IsStart
    <3>7. Awaits(nesting[Len(nesting)], For(k)) /\ k.kind # "unit"
      BY <1>9, <1>11 DEF For
    <3>8. PendingOf(nesting) \subseteq PendingOf(nesting) \cup JumpsOf(k)
      OBVIOUS
    <3>. QED
      BY <1>2, <1>12, <3>1, <3>5, <3>6, <3>7, <3>8, PushKeeps
  <2>. QED
    BY <2>1, <2>2
<1>14. nesting' = Append(nesting, k)
  <2>1. Push([Waiting(kind, -1, Here, from) EXCEPT !.names = <<name>>, !.begins = begins(kind)])
    BY <1>1 DEF from
  <2>. QED
    BY <1>10, <2>1 DEF Push
<1>15. Rest'
  BY <1>2, <1>4, <1>5, <1>6 DEF Rest
<1>. QED
  BY <1>2, <1>6, <1>13, <1>14, <1>15, StillInv

-----------------------------------------------------------------------------
(* A statement that is over *)

After(k) ==
  CASE k.kind \in {"unit", "block"} -> "statement"
    [] k.kind = "for" /\ k.parts = <<>> -> "operand"
    [] OTHER -> "done"

LEMMA EmptySequence ==
  ASSUME NEW s, IsSequence(s)
  PROVE  s = <<>> <=> Len(s) = 0
<1>1. s \in Seq({s[i] : i \in DOMAIN s})
  BY DEF IsSequence
<1>. QED
  BY <1>1, EmptySeq

LEMMA ResumedOK ==
  ASSUME NEW k, WaitingOK(k), Awaits(k, "statement"), Relies(chunk', k), NEW node,
         Size(chunk') \in Nat, Len(source') \in Nat
  PROVE  LET r == Resumed(k, node)
         IN  /\ WaitingOK(r) /\ Relies(chunk', r) /\ Awaits(r, After(k))
             /\ r.kind = k.kind /\ r.jumps = k.jumps
<1> DEFINE parts == Append(k.parts, node)
           n == Len(k.parts)
           r == Resumed(k, node)
<1>1. /\ DOMAIN k = {"kind", "level", "token", "from", "parts", "names", "jumps", "begins", "count"}
      /\ IsSequence(k.parts) /\ n \in Nat /\ (k.parts = <<>> <=> n = 0)
  BY SequenceLength, EmptySequence DEF WaitingOK
<1>2. IsSequence(parts) /\ Len(parts) = n + 1
  BY <1>1, AppendSequence
<1>3. \/ k.kind \in {"unit", "block"}
      \/ k.kind = "if" /\ n \in 1..2
      \/ k.kind = "while" /\ n = 1
      \/ k.kind = "for" /\ n \in {0, 3}
  BY DEF Awaits
<1>4. JumpsToPatch(k.kind, n + 1) = JumpsToPatch(k.kind, n)
  BY <1>3 DEF JumpsToPatch
<1>. HIDE DEF parts, n, r
<1>5. CASE k.kind = "for" /\ n = 0
  <2> DEFINE begins == <<Size(chunk')>>
  <2>1. begins \in Seq(Nat) /\ Len(begins) = 1 /\ begins[1] = Size(chunk') /\ DOMAIN begins = {1}
    OBVIOUS
  <2>. HIDE DEF begins
  <2>2. r = [[k EXCEPT !.parts = parts] EXCEPT !.from = Len(source') + 1, !.begins = begins]
    BY <1>1, <1>5 DEF r, Resumed, parts, begins
  <2>3. /\ r.kind = k.kind /\ r.level = k.level /\ r.token = k.token /\ r.from = Len(source') + 1
        /\ r.parts = parts /\ r.names = k.names /\ r.jumps = k.jumps /\ r.begins = begins
        /\ r.count = k.count /\ DOMAIN r = DOMAIN k
    BY <1>1, <2>2
  <2>4. Beginnings(k.kind, n + 1) = 1
    BY <1>5 DEF Beginnings
  <2>5. WaitingOK(r)
    BY SMTT(40), <1>1, <1>2, <1>4, <2>1, <2>3, <2>4 DEF WaitingOK, n
  <2>6. Relies(chunk', r)
    <3>1. \A j \in DOMAIN r.jumps : IsPending(chunk', r.jumps[j])
      BY <2>3 DEF Relies
    <3>2. IsStart(chunk', Size(chunk'))
      BY DEF IsStart
    <3>3. \A b \in DOMAIN r.begins : r.begins[b] = Size(chunk')
      BY <2>1, <2>3
    <3>. HIDE DEF parts, n, r
    <3>. QED
      BY <3>1, <3>2, <3>3 DEF Relies
  <2>7. After(k) = "operand"
    BY <1>1, <1>5 DEF After
  <2>8. Awaits(r, "operand")
    BY <1>2, <1>5, <2>3 DEF Awaits
  <2>. QED
    BY <2>3, <2>5, <2>6, <2>7, <2>8 DEF r
<1>6. CASE ~(k.kind = "for" /\ n = 0)
  <2>1. r = [k EXCEPT !.parts = parts]
    BY <1>1, <1>6 DEF r, Resumed, parts
  <2>2. /\ r.kind = k.kind /\ r.level = k.level /\ r.token = k.token /\ r.from = k.from
        /\ r.parts = parts /\ r.names = k.names /\ r.jumps = k.jumps /\ r.begins = k.begins
        /\ r.count = k.count /\ DOMAIN r = DOMAIN k
    BY <1>1, <2>1
  <2>3. Beginnings(k.kind, n + 1) = Beginnings(k.kind, n)
    BY <1>3, <1>6 DEF Beginnings
  <2>4. WaitingOK(r)
    BY <1>1, <1>2, <1>4, <2>2, <2>3 DEF WaitingOK, n
  <2>5. Relies(chunk', r)
    BY <2>2 DEF Relies
  <2>6. Awaits(r, After(k))
    <3>1. CASE k.kind \in {"unit", "block"}
      BY <2>2, <3>1 DEF After, Awaits
    <3>2. CASE k.kind \notin {"unit", "block"}
      <4>1. After(k) = "done"
        BY <1>1, <1>6, <3>2 DEF After
      <4>2. Awaits(r, "done")
        BY <1>1, <1>2, <1>3, <1>6, <2>2, <3>2 DEF Awaits
      <4>. QED
        BY <4>1, <4>2
    <3>. QED
      BY <3>1, <3>2
  <2>. QED
    BY <2>2, <2>4, <2>5, <2>6 DEF r
<1>. QED
  BY <1>5, <1>6

LEMMA ResumeExpects ==
  ASSUME NEW k, Resume(k)
  PROVE  /\ expects' = [what |-> After(k), reach |-> 0, callee |-> 0]
         /\ expects'.what = After(k)
         /\ expects' \in [what : {"statement", "operand", "operator", "done"}, reach : Int, callee : Nat]
<1>1. After(k) \in {"statement", "operand", "operator", "done"}
  BY DEF After
<1>2. expects' = [what |-> After(k), reach |-> 0, callee |-> 0]
  BY DEF Resume, Expect, After
<1>. HIDE DEF After
<1>. QED
  BY <1>1, <1>2

(* A statement that was read in one step. *)
LEMMA AddKeeps ==
  ASSUME Compiles(chunk, nesting, "statement"), NEW node, Add(node), Len(source') \in Nat,
         Good(chunk', PendingOf(nesting), Constant), Later(chunk, chunk'), ~chunk'.narrowing_error
  PROVE  /\ Compiles(chunk', nesting', expects'.what)
         /\ expects' \in [what : {"statement", "operand", "operator", "done"}, reach : Int, callee : Nat]
<1> DEFINE r == Resumed(Top, node)
<1>1. nesting' = Append(Below, r) /\ Resume(Top)
  BY DEF Add, Replace
<1>2. WaitingOK(Top) /\ Relies(chunk', Top) /\ Awaits(Top, "statement") /\ Size(chunk') \in Nat
  BY CompilesFacts, LaterRelies, GoodSize DEF Top
<1>3. WaitingOK(r) /\ Relies(chunk', r) /\ Awaits(r, After(Top)) /\ r.kind = Top.kind /\ r.jumps = Top.jumps
  BY <1>2, ResumedOK
<1>. HIDE DEF r
<1>4. PendingOf(nesting) \subseteq (PendingOf(nesting) \ JumpsOf(nesting[Len(nesting)])) \cup JumpsOf(r)
  BY <1>3 DEF Top, JumpsOf
<1>5. Compiles(chunk', Append(Below, r), After(Top))
  BY <1>3, <1>4, ReplaceKeeps DEF Top, Below
<1>. QED
  BY <1>1, <1>5, ResumeExpects

(* A statement that was waiting. *)
LEMMA CompleteStep ==
  ASSUME NEW was, Compiles(chunk, nesting, was), Top.kind \notin ExpressionKinds \cup {"unit"},
         NEW node, Complete(node), Len(source') \in Nat,
         NEW R, Good(chunk', R, Constant), R \subseteq PendingOf(nesting) \ JumpsOf(Top),
         Later(chunk, chunk'), ~chunk'.narrowing_error
  PROVE  /\ Compiles(chunk', nesting', expects'.what)
         /\ expects' \in [what : {"statement", "operand", "operator", "done"}, reach : Int, callee : Nat]
<1> DEFINE r == Resumed(Owner, node)
<1>1. nesting' = Append(SubSeq(nesting, 1, Len(nesting) - 2), r) /\ Resume(Owner)
  BY DEF Complete
<1>2. Len(nesting) \in Nat /\ Len(nesting) > 1 /\ Awaits(Owner, "statement")
  BY BelowAwaits, CompilesFacts DEF Top, Owner, For
<1>3. WaitingOK(Owner) /\ Relies(chunk', Owner) /\ Size(chunk') \in Nat
  <2>1. WaitingOK(Owner) /\ Relies(chunk, Owner)
    BY <1>2 DEF Compiles, Owner
  <2>. QED
    BY <2>1, LaterRelies, GoodSize
<1>4. /\ WaitingOK(r) /\ Relies(chunk', r) /\ Awaits(r, After(Owner))
      /\ r.kind = Owner.kind /\ r.jumps = Owner.jumps
  BY <1>2, <1>3, ResumedOK
<1>. HIDE DEF r
<1>5. Compiles(chunk', Append(SubSeq(nesting, 1, Len(nesting) - 2), r), After(Owner))
  BY <1>2, <1>4, CompleteKeeps DEF Top, Owner
<1>. QED
  BY <1>1, <1>5, ResumeExpects

LEMMA SourceLength ==
  ASSUME source' \in Seq(TokenType)'
  PROVE  Len(source') \in Nat
<1>. QED
  BY DEF TokenType

LEMMA EmitNothingGood ==
  ASSUME NEW c, NEW P, Good(c, P, Constant), NEW token \in Nat
  PROVE  LET d == EmitNothing(c, token)
         IN  Good(d, P, Constant) /\ Later(c, d)
<1>1. CASE unit.kind = "init"
  <2>1. "get_local" \in ConstantOpcode \cup IndexOpcode
    BY DEF IndexOpcode
  <2>2. EmitNothing(c, token) = EmitIndex(c, "get_local", 0, token)
    BY <1>1 DEF EmitNothing
  <2>. QED
    BY <2>1, <2>2, EmitIndexGood
<1>2. CASE unit.kind # "init"
  <2>1. "nil" \in PlainOpcode
    BY DEF PlainOpcode
  <2>2. EmitNothing(c, token) = EmitPlain(c, "nil", token)
    BY <1>2 DEF EmitNothing
  <2>. QED
    BY <2>1, <2>2, EmitPlainGood
<1>. QED
  BY <1>1, <1>2

LEMMA ReturnGood ==
  ASSUME NEW c, NEW P, Good(c, P, Constant), NEW token \in Nat
  PROVE  LET d == EmitPlain(EmitNothing(c, token), "return_", token)
         IN  Good(d, P, Constant) /\ Later(c, d)
<1> DEFINE nothing == EmitNothing(c, token)
           d == EmitPlain(nothing, "return_", token)
<1>1. Good(nothing, P, Constant) /\ Later(c, nothing)
  BY EmitNothingGood
<1>2. "return_" \in PlainOpcode
  BY DEF PlainOpcode
<1>. HIDE DEF nothing
<1>3. Good(d, P, Constant) /\ Later(nothing, d)
  BY <1>1, <1>2, EmitPlainGood
<1>. HIDE DEF d
<1>4. Later(c, d)
  BY <1>1, <1>3, LaterLater
<1>. QED
  BY <1>3, <1>4 DEF d, nothing

LEMMA ReturnNothingKeeps ==
  ASSUME IInv, ReturnNothing
  PROVE  IInv'
<1>1. /\ Rest /\ Compiles(chunk, nesting, "statement") /\ Here \in Nat /\ pc = 0
      /\ status = "compiling" /\ source \in Seq(TokenType)
  BY InvCompiles DEF ReturnNothing, May, Compiling
<1>2. pc' = pc /\ unit' = unit /\ tracked_locals' = tracked_locals /\ scope_depth' = scope_depth
  BY DEF ReturnNothing, scopes, machine
<1>3. /\ Good(chunk', PendingOf(nesting), Constant) /\ Later(chunk, chunk')
      /\ ~chunk'.narrowing_error /\ status' = status
  BY <1>1, CompilesFacts, ReturnGood DEF ReturnNothing, Emitted
<1>4. source' \in Seq(TokenType)'
  BY <1>1, <1>2, LexemeOK, ReadOne DEF ReturnNothing
<1>5. \E node : Add(node)
  BY DEF ReturnNothing
<1>6. /\ Compiles(chunk', nesting', expects'.what)
      /\ expects' \in [what : {"statement", "operand", "operator", "done"}, reach : Int, callee : Nat]
  BY <1>1, <1>3, <1>4, <1>5, SourceLength, AddKeeps
<1>7. Rest'
  BY <1>1, <1>2, <1>3, <1>4, <1>6 DEF Rest
<1>. QED
  BY <1>1, <1>2, <1>3, <1>6, <1>7, StillInv

LEMMA DeclareKeeps ==
  ASSUME IInv, Declare
  PROVE  IInv'
<1> DEFINE token(kind, name) == Token(IF kind = "var" THEN "var" ELSE "fun", name)
           value(kind) == IF kind = "var" THEN "nil" ELSE "closure"
           made(kind) == IF kind = "var" THEN EmitPlain(chunk, "nil", Here)
                         ELSE EmitClosure(chunk, NewFunction(Here), <<>>, Here)
<1>1. PICK kind \in {"var", "function"}, name \in Names :
        /\ May(kind) /\ Read(<<token(kind, name)>>)
        /\ IF scope_depth = 0
           THEN /\ Emitted(EmitConstant(made(kind), "define_global", Name(name), Here))
                /\ Add(Simple(Here, 1, 0, <<value(kind), "define_global">>))
           ELSE Emitted(made(kind)) /\ Add(Simple(Here, 1, 0, <<value(kind)>>))
  BY DEF Declare
<1>2. /\ Rest /\ Compiles(chunk, nesting, "statement") /\ Here \in Nat /\ pc = 0
      /\ status = "compiling" /\ source \in Seq(TokenType)
  BY <1>1, InvCompiles DEF May, Compiling
<1>3. pc' = pc /\ unit' = unit /\ scope_depth' = scope_depth /\ tracked_locals' \in Seq(Nat)
  BY <1>2, TrackOK DEF Declare, machine
<1> DEFINE P == PendingOf(nesting)
<1>4. Good(chunk, P, Constant)
  BY <1>2, CompilesFacts
<1>5. Good(made(kind), P, Constant) /\ Later(chunk, made(kind))
  <2>1. CASE kind = "var"
    <3>1. "nil" \in PlainOpcode
      BY DEF PlainOpcode
    <3>. QED
      BY <1>2, <1>4, <2>1, <3>1, EmitPlainGood
  <2>2. CASE kind # "var"
    <3>1. NewFunction(Here) \in Constant /\ <<>> \in Seq({}) /\ \A u \in {} : u.index \in Nat
      BY <1>2, ConstantOK
    <3>. QED
      BY <1>2, <1>4, <2>2, <3>1, EmitClosureGood
  <2>. QED
    BY <2>1, <2>2
<1>6. name \in Lexeme /\ Name(name) \in Constant /\ "define_global" \in ConstantOpcode
  BY LexemeOK, ConstantOK DEF ConstantOpcode, NameOpcode
<1>7. source' \in Seq(TokenType)'
  BY <1>1, <1>2, <1>3, <1>6, ReadOne
<1>. HIDE DEF made, value, P
<1>8. /\ Good(chunk', P, Constant) /\ Later(chunk, chunk') /\ ~chunk'.narrowing_error
      /\ status' = status /\ \E node : Add(node)
  <2>1. CASE scope_depth = 0
    <3> DEFINE d == EmitConstant(made(kind), "define_global", Name(name), Here)
    <3>1. Good(d, P, Constant) /\ Later(made(kind), d)
      BY <1>2, <1>5, <1>6, EmitConstantGood
    <3>2. Emitted(d) /\ \E node : Add(node)
      BY <1>1, <2>1
    <3>. HIDE DEF d
    <3>3. Later(chunk, d)
      BY <1>4, <1>5, <3>1, LaterLater
    <3>. QED
      BY <3>1, <3>2, <3>3 DEF Emitted
  <2>2. CASE scope_depth # 0
    BY <1>1, <1>5, <2>2 DEF Emitted
  <2>. QED
    BY <2>1, <2>2
<1>9. /\ Compiles(chunk', nesting', expects'.what)
      /\ expects' \in [what : {"statement", "operand", "operator", "done"}, reach : Int, callee : Nat]
  BY <1>2, <1>7, <1>8, SourceLength, AddKeeps DEF P
<1>10. Rest'
  BY <1>2, <1>3, <1>7, <1>8, <1>9 DEF Rest
<1>. QED
  BY <1>2, <1>3, <1>8, <1>9, <1>10, StillInv

LEMMA BeginScopeKeeps ==
  ASSUME IInv, BeginScope
  PROVE  IInv'
<1>1. PICK kind \in {"block", "for"} :
        /\ May(kind) /\ Read(<<Token(kind, "none")>>) /\ Push(Waiting(kind, -1, Here, Here + 1))
  BY DEF BeginScope
<1>2. /\ Rest /\ Compiles(chunk, nesting, "statement") /\ Here \in Nat /\ pc = 0
      /\ status = "compiling" /\ source \in Seq(TokenType) /\ expects.what = "statement"
  BY <1>1, InvCompiles DEF May, Compiling
<1>3. /\ pc' = pc /\ unit' = unit /\ scope_depth' = scope_depth + 1 /\ tracked_locals' = tracked_locals
      /\ chunk' = chunk /\ expects' = expects /\ status' = status
  BY DEF BeginScope, machine
<1> DEFINE k == New(kind, -1, Here, Here + 1, <<>>, <<>>, <<>>, 0)
<1>4. Waiting(kind, -1, Here, Here + 1) = k
  BY DEF Waiting, New
<1>5. MayBegin(kind, -1, Here, Here + 1, <<>>, 0)
  BY <1>2 DEF MayBegin, UnaryLevel, Kinds, OperatorKinds
<1>6. k.kind = kind /\ Len(k.parts) = 0
  BY DEF New
<1>. HIDE DEF k
<1>7. Awaits(k, "statement")
  BY <1>6 DEF Awaits
<1>8. Awaits(nesting[Len(nesting)], "statement") /\ kind \notin ExpressionKinds
  BY <1>2 DEF Compiles, ExpressionKinds, OperatorKinds
<1>9. Compiles(chunk, Append(nesting, k), "statement")
  BY <1>2, <1>5, <1>7, <1>8, PushPlain DEF k
<1>10. source' \in Seq(TokenType)'
  BY <1>1, <1>2, <1>3, LexemeOK, ReadOne
<1>11. Rest'
  BY <1>2, <1>3, <1>10 DEF Rest
<1>. QED
  BY <1>1, <1>2, <1>3, <1>4, <1>9, <1>11, StillInv DEF Push

-----------------------------------------------------------------------------
(* Statements that go on or end *)

LEMMA EndWithExpressionKeeps ==
  ASSUME IInv, EndWithExpression
  PROVE  IInv'
<1> DEFINE kinds == {"expression", "print", "return", "var"}
           ending == CASE Top.kind = "expression" -> "pop"
                       [] Top.kind = "print" -> "print"
                       [] Top.kind = "return" -> "return_"
                       [] Top.kind = "var" -> "define_global"
<1>1. /\ Rest /\ Compiles(chunk, nesting, "operator") /\ pc = 0
      /\ status = "compiling" /\ source \in Seq(TokenType) /\ Len(source) \in Nat
  BY InvCompiles DEF EndWithExpression, Compiling
<1>2. /\ pc' = pc /\ unit' = unit /\ scope_depth' = scope_depth /\ tracked_locals' = tracked_locals
      /\ source' = source /\ Top.kind \in kinds /\ \E node : Complete(node)
      /\ CASE Top.kind # "var" -> Emitted(EmitPlain(chunk, ending, Top.token))
           [] Top.kind = "var" /\ scope_depth = 0 ->
                Emitted(EmitConstant(chunk, ending, Name(Top.names[1]), Top.token))
           [] OTHER -> KeepsCode
  BY DEF EndWithExpression, scopes, machine
<1>3. WaitingOK(Top) /\ Top.token \in Nat
  <2>1. WaitingOK(Top)
    BY <1>1, CompilesFacts DEF Top
  <2>. QED
    BY <2>1 DEF WaitingOK
<1> DEFINE P == PendingOf(nesting)
<1>4. Good(chunk, P, Constant) /\ Later(chunk, chunk) /\ ~chunk.narrowing_error
  BY <1>1, CompilesFacts
<1>5. /\ Good(chunk', P, Constant) /\ Later(chunk, chunk') /\ ~chunk'.narrowing_error
      /\ status' = status
  <2>1. CASE Top.kind # "var"
    <3>1. "pop" \in PlainOpcode /\ "print" \in PlainOpcode /\ "return_" \in PlainOpcode
      BY DEF PlainOpcode
    <3>2. ending \in PlainOpcode
      BY <1>2, <2>1, <3>1
    <3>3. Emitted(EmitPlain(chunk, ending, Top.token))
      BY <1>2, <2>1
    <3>. HIDE DEF ending
    <3>. QED
      BY <1>3, <1>4, <3>2, <3>3, EmitPlainGood DEF Emitted
  <2>2. CASE Top.kind = "var" /\ scope_depth = 0
    <3>1. ending = "define_global" /\ "define_global" \in ConstantOpcode
      BY <2>2 DEF ConstantOpcode, NameOpcode
    <3>2. Emitted(EmitConstant(chunk, "define_global", Name(Top.names[1]), Top.token))
      BY <1>2, <2>2, <3>1
    <3>3. Name(Top.names[1]) \in Constant
      <4>1. Top.names[1] \in Lexeme
        BY <1>3, <2>2 DEF WaitingOK
      <4>. QED
        BY <4>1, ConstantOK
    <3>. QED
      BY <1>3, <1>4, <3>1, <3>2, <3>3, EmitConstantGood DEF Emitted
  <2>3. CASE Top.kind = "var" /\ scope_depth # 0
    <3>1. KeepsCode
      BY <1>2, <2>3
    <3>. QED
      BY <1>4, <3>1 DEF KeepsCode
  <2>. QED
    BY <2>1, <2>2, <2>3
<1>6. JumpsOf(Top) = {}
  BY <1>2, <1>3, NoJumps DEF JumpsToPatch
<1>7. Top.kind \notin ExpressionKinds \cup {"unit"} /\ P \subseteq P \ JumpsOf(Top)
  BY <1>2, <1>6 DEF ExpressionKinds, OperatorKinds
<1>. HIDE DEF P
<1>8. /\ Compiles(chunk', nesting', expects'.what)
      /\ expects' \in [what : {"statement", "operand", "operator", "done"}, reach : Int, callee : Nat]
  BY <1>1, <1>2, <1>5, <1>7, CompleteStep DEF P
<1>9. Rest'
  BY <1>1, <1>2, <1>5, <1>8 DEF Rest, TokenType
<1>. QED
  BY <1>1, <1>2, <1>5, <1>8, <1>9, StillInv

LEMMA TopFacts ==
  ASSUME NEW what, Compiles(chunk, nesting, what)
  PROVE  /\ WaitingOK(Top) /\ Relies(chunk, Top) /\ Awaits(Top, what)
         /\ DOMAIN Top = {"kind", "level", "token", "from", "parts", "names", "jumps", "begins", "count"}
         /\ Top.token \in Nat /\ Top.from \in Nat
         /\ IsSequence(Top.parts) /\ Len(Top.parts) \in Nat
         /\ Top.jumps \in Seq(Nat) /\ Len(Top.jumps) = JumpsToPatch(Top.kind, Len(Top.parts))
         /\ Top.begins \in Seq(Nat) /\ Len(Top.begins) = Beginnings(Top.kind, Len(Top.parts))
         /\ Good(chunk, PendingOf(nesting), Constant) /\ Later(chunk, chunk) /\ ~chunk.narrowing_error
         /\ JumpsOf(Top) \subseteq PendingOf(nesting)
<1>1. WaitingOK(Top) /\ Relies(chunk, Top) /\ Awaits(Top, what) /\ JumpsOf(Top) \subseteq PendingOf(nesting)
  BY CompilesFacts DEF Top
<1>2. /\ DOMAIN Top = {"kind", "level", "token", "from", "parts", "names", "jumps", "begins", "count"}
      /\ Top.token \in Nat /\ Top.from \in Nat
      /\ IsSequence(Top.parts)
      /\ Top.jumps \in Seq(Nat) /\ Len(Top.jumps) = JumpsToPatch(Top.kind, Len(Top.parts))
      /\ Top.begins \in Seq(Nat) /\ Len(Top.begins) = Beginnings(Top.kind, Len(Top.parts))
  BY <1>1 DEF WaitingOK
<1>. QED
  BY <1>1, <1>2, SequenceLength, CompilesFacts

LEMMA EndConditionKeeps ==
  ASSUME IInv, EndCondition
  PROVE  IInv'
<1> DEFINE tested == EmitJump(chunk, "jump_if_false", Top.token)
           d == EmitPlain(tested, "pop", Top.token)
           node == Simple(Top.token, Top.from, Len(source), <<>>)
           parts == <<node>>
           jumps == <<Size(tested)>>
           r == [Top EXCEPT !.parts = parts, !.jumps = jumps]
           P == PendingOf(nesting)
<1>1. /\ Rest /\ Compiles(chunk, nesting, "operator") /\ pc = 0
      /\ status = "compiling" /\ source \in Seq(TokenType)
  BY InvCompiles DEF EndCondition, Compiling
<1>2. /\ pc' = pc /\ unit' = unit /\ scope_depth' = scope_depth /\ tracked_locals' = tracked_locals
      /\ source' = source /\ Top.kind \in {"if", "while"} /\ Emitted(d) /\ nesting' = Append(Below, r)
      /\ expects' = [what |-> "statement", reach |-> 0, callee |-> 0]
  BY DEF EndCondition, scopes, machine, Replace, Expect
<1>3. /\ WaitingOK(Top) /\ Relies(chunk, Top) /\ Len(Top.parts) = 0 /\ Top.token \in Nat
      /\ Good(chunk, P, Constant) /\ Top.from \in Nat
      /\ Top.begins \in Seq(Nat) /\ Len(Top.begins) = Beginnings(Top.kind, 0)
      /\ DOMAIN Top = {"kind", "level", "token", "from", "parts", "names", "jumps", "begins", "count"}
  <2>1. Len(Top.parts) = 0
    BY <1>1, <1>2, TopFacts DEF Awaits, ExpressionKinds, OperatorKinds
  <2>. QED
    BY <1>1, <2>1, TopFacts
<1>4. /\ Good(d, P \cup {Size(tested)}, Constant) /\ Later(chunk, d)
      /\ ~d.narrowing_error => Size(tested) \in Nat /\ IsPending(d, Size(tested))
  BY <1>3, ShortCircuitGood
<1>. HIDE DEF tested, d, node
<1>5. chunk' = d /\ ~d.narrowing_error /\ status' = status
  BY <1>2 DEF Emitted
<1>6. /\ IsSequence(parts) /\ Len(parts) = 1
      /\ jumps \in Seq(Nat) /\ Len(jumps) = 1 /\ DOMAIN jumps = {1} /\ jumps[1] = Size(tested)
  <2>1. parts \in Seq({node}) /\ Len(parts) = 1
    OBVIOUS
  <2>2. IsSequence(parts)
    <3>. HIDE DEF parts
    <3>. QED
      BY <2>1, IsSequenceOf
  <2>3. Size(tested) \in Nat
    BY <1>4, <1>5
  <2>4. jumps \in Seq(Nat) /\ Len(jumps) = 1 /\ DOMAIN jumps = {1} /\ jumps[1] = Size(tested)
    BY <2>3
  <2>. HIDE DEF parts, jumps
  <2>. QED
    BY <2>1, <2>2, <2>4
<1>. HIDE DEF parts, jumps
<1>7. /\ DOMAIN r = DOMAIN Top /\ r.kind = Top.kind /\ r.level = Top.level /\ r.token = Top.token
      /\ r.from = Top.from /\ r.parts = parts /\ r.names = Top.names /\ r.jumps = jumps
      /\ r.begins = Top.begins /\ r.count = Top.count
  BY <1>3
<1>. HIDE DEF r
<1>8. WaitingOK(r)
  <2>1. JumpsToPatch(Top.kind, 1) = 1 /\ Beginnings(Top.kind, 1) = Beginnings(Top.kind, 0)
    BY <1>2 DEF JumpsToPatch, Beginnings
  <2>. QED
    BY <1>3, <1>6, <1>7, <2>1, ChangeOK
<1>9. Relies(d, r) /\ JumpsOf(r) = {Size(tested)}
  <2>1. Relies(d, Top)
    BY <1>3, <1>4, <1>5, LaterRelies
  <2>. QED
    BY <1>4, <1>5, <1>6, <1>7, <2>1 DEF Relies, JumpsOf
<1>10. Awaits(r, "statement")
  BY <1>2, <1>6, <1>7 DEF Awaits
<1>11. JumpsOf(Top) = {}
  BY <1>2, <1>3, NoJumps DEF JumpsToPatch
<1>12. P \cup {Size(tested)} \subseteq (P \ JumpsOf(nesting[Len(nesting)])) \cup JumpsOf(r)
  BY <1>9, <1>11 DEF Top
<1>. HIDE DEF P
<1>13. Compiles(d, Append(Below, r), "statement")
  BY <1>1, <1>4, <1>5, <1>7, <1>8, <1>9, <1>10, <1>12, ReplaceKeeps DEF Top, Below, P
<1>14. Rest'
  BY <1>1, <1>2, <1>5 DEF Rest, TokenType
<1>. QED
  BY <1>1, <1>2, <1>5, <1>13, <1>14, StillInv

(* The end of the first branch of an if, with and without an else. *)
LEMMA ThenGood ==
  ASSUME NEW c, NEW P, Good(c, P, Constant), ~c.narrowing_error, NEW j \in P, NEW token \in Nat
  PROVE  LET jumped == EmitJump(c, "jump", token)
             otherwise == EmitPlain(ToNextOpcode(jumped, j), "pop", token)
             ended == ToNextOpcode(otherwise, Size(jumped))
             R == (P \cup {Size(jumped)}) \ {j}
         IN  /\ Good(otherwise, R, Constant) /\ Later(c, otherwise)
             /\ ~otherwise.narrowing_error =>
                  Size(jumped) \in Nat /\ IsPending(otherwise, Size(jumped))
             /\ Good(ended, R \ {Size(jumped)}, Constant) /\ Later(c, ended)
<1> DEFINE jumped == EmitJump(c, "jump", token)
           patched == ToNextOpcode(jumped, j)
           otherwise == EmitPlain(patched, "pop", token)
           ended == ToNextOpcode(otherwise, Size(jumped))
           Q == P \cup {Size(jumped)}
           R == Q \ {j}
<1>1. /\ Good(jumped, Q, Constant) /\ Later(c, jumped)
      /\ ~jumped.narrowing_error => Size(jumped) = Size(c) + 3 /\ IsPending(jumped, Size(jumped))
  BY EmitJumpGood
<1>2. ~jumped.narrowing_error
  BY StillUnwound DEF EmitJump, Good
<1>3. Size(jumped) # j
  <2>1. Size(c) \in Nat /\ j \in 3 .. Size(c)
    BY GoodSize DEF Good, SoundCode, IsPending
  <2>. QED
    BY <1>1, <1>2, <2>1
<1>. HIDE DEF jumped
<1>4. Good(patched, R, Constant) /\ Later(jumped, patched)
  <2>1. j \in Q
    OBVIOUS
  <2>. HIDE DEF Q
  <2>. QED
    BY <1>1, <2>1, PatchGood
<1>. HIDE DEF patched
<1>5. Good(otherwise, R, Constant) /\ Later(patched, otherwise)
  <2>1. "pop" \in PlainOpcode
    BY DEF PlainOpcode
  <2>. QED
    BY <1>4, <2>1, EmitPlainGood
<1>. HIDE DEF otherwise
<1>6. Good(ended, R \ {Size(jumped)}, Constant) /\ Later(otherwise, ended)
  <2>1. Size(jumped) \in R
    BY <1>3
  <2>. HIDE DEF R
  <2>. QED
    BY <1>5, <2>1, PatchGood
<1>. HIDE DEF ended, Q, R
<1>7. Later(jumped, otherwise) /\ Later(c, otherwise) /\ Later(c, ended)
  BY <1>1, <1>4, <1>5, <1>6, LaterLater
<1>8. ~otherwise.narrowing_error => Size(jumped) \in Nat /\ IsPending(otherwise, Size(jumped))
  BY <1>1, <1>2, <1>7, GoodSize, LaterPending
<1>. QED
  BY <1>5, <1>6, <1>7, <1>8 DEF ended, otherwise, patched, jumped, Q, R

LEMMA AfterThenKeeps ==
  ASSUME IInv, AfterThen
  PROVE  IInv'
<1> DEFINE jumped == EmitJump(chunk, "jump", Top.token)
           otherwise == EmitPlain(ToNextOpcode(jumped, Top.jumps[1]), "pop", Top.token)
           ended == ToNextOpcode(otherwise, Size(jumped))
           P == PendingOf(nesting)
           R == (P \cup {Size(jumped)}) \ {Top.jumps[1]}
<1>1. /\ Rest /\ Compiles(chunk, nesting, "done") /\ pc = 0
      /\ status = "compiling" /\ source \in Seq(TokenType) /\ Len(source) \in Nat
  BY InvCompiles DEF AfterThen, Compiling
<1>2. /\ pc' = pc /\ unit' = unit /\ scope_depth' = scope_depth /\ tracked_locals' = tracked_locals
      /\ source' = source /\ Top.kind = "if"
      /\ \/ /\ Emitted(otherwise)
            /\ Replace([Top EXCEPT !.jumps = <<Size(jumped)>>])
            /\ Expect("statement")
         \/ Emitted(ended) /\ \E node : Complete(node)
  BY DEF AfterThen, scopes, machine
<1>3. Len(Top.parts) = 2
  <2>1. Phase = 3 /\ Len(Top.parts) \in Nat
    BY <1>1, TopFacts DEF AfterThen
  <2>2. Len(Top.parts) + 1 = 3
    BY <2>1 DEF Phase
  <2>3. \A n \in Nat : n + 1 = 3 => n = 2
    OBVIOUS
  <2>. QED
    BY <2>1, <2>2, <2>3
<1>4. JumpsOf(Top) = {Top.jumps[1]}
  <2>1. JumpsToPatch(Top.kind, Len(Top.parts)) = 1
    BY <1>2, <1>3 DEF JumpsToPatch
  <2>. QED
    BY <1>1, <2>1, TopFacts, OneJump
<1>5. /\ Good(otherwise, R, Constant) /\ Later(chunk, otherwise)
      /\ ~otherwise.narrowing_error => Size(jumped) \in Nat /\ IsPending(otherwise, Size(jumped))
      /\ Good(ended, R \ {Size(jumped)}, Constant) /\ Later(chunk, ended)
  <2>1. Top.jumps[1] \in P /\ Good(chunk, P, Constant) /\ ~chunk.narrowing_error /\ Top.token \in Nat
    BY <1>1, <1>4, TopFacts
  <2>. HIDE DEF P
  <2>. QED
    BY <2>1, ThenGood
<1>. HIDE DEF otherwise, ended, jumped
<1>6. CASE Emitted(otherwise) /\ Replace([Top EXCEPT !.jumps = <<Size(jumped)>>]) /\ Expect("statement")
  <2> DEFINE jumps == <<Size(jumped)>>
             r == [Top EXCEPT !.jumps = jumps]
  <2>1. /\ chunk' = otherwise /\ ~otherwise.narrowing_error /\ status' = status
        /\ nesting' = Append(Below, r) /\ expects' = [what |-> "statement", reach |-> 0, callee |-> 0]
    BY <1>6 DEF Emitted, Replace, Expect
  <2>2. jumps \in Seq(Nat) /\ Len(jumps) = 1 /\ DOMAIN jumps = {1} /\ jumps[1] = Size(jumped)
    BY <1>5, <2>1
  <2>. HIDE DEF jumps
  <2>3. /\ DOMAIN r = DOMAIN Top /\ r.kind = Top.kind /\ r.level = Top.level /\ r.token = Top.token
        /\ r.from = Top.from /\ r.parts = Top.parts /\ r.names = Top.names /\ r.jumps = jumps
        /\ r.begins = Top.begins /\ r.count = Top.count
    BY <1>1, TopFacts
  <2>. HIDE DEF r
  <2>4. WaitingOK(r)
    <3>1. JumpsToPatch(Top.kind, Len(Top.parts)) = 1
      BY <1>2, <1>3 DEF JumpsToPatch
    <3>. QED
      BY <1>1, <2>2, <2>3, <3>1, TopFacts, ChangeOK
  <2>5. Relies(otherwise, r) /\ JumpsOf(r) = {Size(jumped)}
    <3>1. Relies(otherwise, Top)
      BY <1>1, <1>5, <2>1, TopFacts, LaterRelies
    <3>. QED
      BY <1>5, <2>1, <2>2, <2>3, <3>1 DEF Relies, JumpsOf
  <2>6. Awaits(r, "statement")
    BY <1>2, <1>3, <2>3 DEF Awaits
  <2>7. R \subseteq (P \ JumpsOf(nesting[Len(nesting)])) \cup JumpsOf(r)
    BY <1>4, <2>5 DEF Top
  <2>8. Compiles(otherwise, Append(Below, r), "statement")
    <3>. HIDE DEF R
    <3>. QED
      BY <1>1, <1>5, <2>1, <2>3, <2>4, <2>5, <2>6, <2>7, ReplaceKeeps DEF Top, Below
  <2>9. Rest'
    BY <1>1, <1>2, <2>1 DEF Rest, TokenType
  <2>. QED
    BY <1>1, <1>2, <2>1, <2>8, <2>9, StillInv
<1>7. CASE Emitted(ended) /\ \E node : Complete(node)
  <2>1. chunk' = ended /\ ~ended.narrowing_error /\ status' = status /\ source' = source
    BY <1>2, <1>7 DEF Emitted
  <2>2. R \ {Size(jumped)} \subseteq P \ JumpsOf(Top)
    BY <1>4
  <2>3. Top.kind \notin ExpressionKinds \cup {"unit"}
    BY <1>2 DEF ExpressionKinds, OperatorKinds
  <2>4. Good(chunk', R \ {Size(jumped)}, Constant) /\ Later(chunk, chunk') /\ Len(source') \in Nat
    BY <1>1, <1>5, <2>1
  <2>. HIDE DEF R, P
  <2>5. /\ Compiles(chunk', nesting', expects'.what)
        /\ expects' \in [what : {"statement", "operand", "operator", "done"}, reach : Int, callee : Nat]
    BY <1>1, <1>7, <2>1, <2>2, <2>3, <2>4, CompleteStep DEF P
  <2>6. Rest'
    BY <1>1, <1>2, <2>1, <2>5 DEF Rest, TokenType
  <2>. QED
    BY <1>1, <1>2, <2>1, <2>5, <2>6, StillInv
<1>. QED
  BY <1>2, <1>6, <1>7

(* A waiting statement ends with this code, and with its one jump patched. *)
LEMMA EndsKeeps ==
  ASSUME IInv, status = "compiling", NEW d, Good(d, PendingOf(nesting) \ JumpsOf(Top), Constant),
         Later(chunk, d), Emitted(d), Top.kind \notin ExpressionKinds \cup {"unit"},
         \E node : Complete(node),
         tracked_locals' \in Seq(Nat), scope_depth' \in Int, UNCHANGED <<unit, source, machine>>
  PROVE  IInv'
<1>1. /\ Rest /\ Compiles(chunk, nesting, expects.what) /\ pc = 0
      /\ source \in Seq(TokenType) /\ Len(source) \in Nat
  BY InvCompiles
<1>2. /\ chunk' = d /\ ~d.narrowing_error /\ status' = status /\ source' = source
      /\ pc' = pc /\ unit' = unit
  BY DEF Emitted, machine
<1>3. PICK node : Complete(node)
  OBVIOUS
<1>4. /\ Compiles(chunk', nesting', expects'.what)
      /\ expects' \in [what : {"statement", "operand", "operator", "done"}, reach : Int, callee : Nat]
  BY <1>1, <1>2, <1>3, CompleteStep
<1>5. Rest'
  BY <1>1, <1>2, <1>4 DEF Rest, TokenType
<1>. QED
  BY <1>1, <1>2, <1>4, <1>5, StillInv

LEMMA ScopesTyped ==
  ASSUME IInv, UNCHANGED scopes
  PROVE  tracked_locals' \in Seq(Nat) /\ scope_depth' \in Int
<1>. QED
  BY InvCompiles DEF Rest, scopes

LEMMA AfterElseKeeps ==
  ASSUME IInv, AfterElse
  PROVE  IInv'
<1>1. Compiles(chunk, nesting, "done") /\ status = "compiling" /\ Top.kind = "if"
  BY InvCompiles DEF AfterElse, Compiling
<1>2. Len(Top.parts) = 3
  <2>1. Phase = 4 /\ Len(Top.parts) \in Nat
    BY <1>1, TopFacts DEF AfterElse
  <2>2. Len(Top.parts) + 1 = 4
    BY <2>1 DEF Phase
  <2>3. \A n \in Nat : n + 1 = 4 => n = 3
    OBVIOUS
  <2>. QED
    BY <2>1, <2>2, <2>3
<1>3. JumpsOf(Top) = {Top.jumps[1]}
  <2>1. JumpsToPatch(Top.kind, Len(Top.parts)) = 1
    BY <1>1, <1>2 DEF JumpsToPatch
  <2>. QED
    BY <1>1, <2>1, TopFacts, OneJump
<1> DEFINE P == PendingOf(nesting)
           d == ToNextOpcode(chunk, Top.jumps[1])
<1>4. Good(d, P \ JumpsOf(Top), Constant) /\ Later(chunk, d)
  <2>1. Good(chunk, P, Constant) /\ Top.jumps[1] \in P
    BY <1>1, <1>3, TopFacts
  <2>. HIDE DEF P
  <2>. QED
    BY <1>3, <2>1, PatchGood
<1>5. Top.kind \notin ExpressionKinds \cup {"unit"}
  BY <1>1 DEF ExpressionKinds, OperatorKinds
<1>6. Emitted(d) /\ (\E node : Complete(node)) /\ UNCHANGED <<unit, source, machine, scopes>>
  BY DEF AfterElse
<1>. HIDE DEF d, P
<1>. QED
  BY <1>1, <1>4, <1>5, <1>6, ScopesTyped, EndsKeeps DEF P

(* The end of a loop: back to b, and the jump j out of it leads here. *)
LEMMA LoopEndGood ==
  ASSUME NEW c, NEW P, Good(c, P, Constant), NEW b \in Nat, ~c.narrowing_error => IsStart(c, b),
         NEW j \in P, NEW token \in Nat
  PROVE  LET d == EmitPlain(ToNextOpcode(EmitLoop(c, b, token), j), "pop", token)
         IN  Good(d, P \ {j}, Constant) /\ Later(c, d)
<1> DEFINE looped == EmitLoop(c, b, token)
           patched == ToNextOpcode(looped, j)
           d == EmitPlain(patched, "pop", token)
<1>1. Good(looped, P, Constant) /\ Later(c, looped)
  BY EmitLoopGood
<1>. HIDE DEF looped
<1>2. Good(patched, P \ {j}, Constant) /\ Later(looped, patched)
  BY <1>1, PatchGood
<1>. HIDE DEF patched
<1>3. Good(d, P \ {j}, Constant) /\ Later(patched, d)
  <2>1. "pop" \in PlainOpcode
    BY DEF PlainOpcode
  <2>. QED
    BY <1>2, <2>1, EmitPlainGood
<1>. HIDE DEF d
<1>4. Later(c, patched)
  BY <1>1, <1>2, LaterLater
<1>5. Later(c, d)
  BY <1>2, <1>3, <1>4, LaterLater
<1>. QED
  BY <1>3, <1>5 DEF d, patched, looped

LEMMA AfterWhileBodyKeeps ==
  ASSUME IInv, AfterWhileBody
  PROVE  IInv'
<1>1. Compiles(chunk, nesting, "done") /\ status = "compiling" /\ Top.kind = "while"
  BY InvCompiles DEF AfterWhileBody, Compiling
<1>2. Len(Top.parts) = 2
  BY <1>1, TopFacts DEF Awaits
<1>3. JumpsOf(Top) = {Top.jumps[1]} /\ Top.begins[1] \in Nat /\ IsStart(chunk, Top.begins[1])
  <2>1. JumpsToPatch(Top.kind, Len(Top.parts)) = 1 /\ Beginnings(Top.kind, Len(Top.parts)) = 1
    BY <1>1, <1>2 DEF JumpsToPatch, Beginnings
  <2>2. Top.begins \in Seq(Nat) /\ Len(Top.begins) = 1 /\ Relies(chunk, Top) /\ WaitingOK(Top)
    BY <1>1, <2>1, TopFacts
  <2>. QED
    BY <2>1, <2>2, OneJump DEF Relies
<1> DEFINE P == PendingOf(nesting)
           d == EmitPlain(ToNextOpcode(EmitLoop(chunk, Top.begins[1], Top.token), Top.jumps[1]), "pop", Top.token)
<1>4. Good(d, P \ JumpsOf(Top), Constant) /\ Later(chunk, d)
  <2>1. Good(chunk, P, Constant) /\ Top.jumps[1] \in P /\ Top.token \in Nat
    BY <1>1, <1>3, TopFacts
  <2>. HIDE DEF P
  <2>. QED
    BY <1>3, <2>1, LoopEndGood
<1>5. Top.kind \notin ExpressionKinds \cup {"unit"}
  BY <1>1 DEF ExpressionKinds, OperatorKinds
<1>6. Emitted(d) /\ (\E node : Complete(node)) /\ UNCHANGED <<unit, source, machine, scopes>>
  BY DEF AfterWhileBody
<1>. HIDE DEF d, P
<1>. QED
  BY <1>1, <1>4, <1>5, <1>6, ScopesTyped, EndsKeeps DEF P

(* The locals of a scope. *)
LEMMA OuterType ==
  ASSUME tracked_locals \in Seq(Nat)
  PROVE  Outer \in 0 .. Len(tracked_locals)
<1> DEFINE n == Len(tracked_locals)
           S == {i \in DOMAIN tracked_locals : tracked_locals[i] # scope_depth}
<1>1. n \in Nat /\ DOMAIN tracked_locals = 1 .. n
  OBVIOUS
<1>3. S \subseteq 1 .. n
  BY <1>1
<1>. HIDE DEF S, n
<1>2. IsFiniteSet(1 .. n) /\ Cardinality(1 .. n) = n
  BY <1>1, FS_Interval
<1>4. IsFiniteSet(S) /\ Cardinality(S) <= n
  BY <1>2, <1>3, FS_Subset
<1>5. Cardinality(S) \in Nat
  BY <1>4, FS_CardinalityType
<1>. QED
  BY <1>1, <1>4, <1>5 DEF Outer, S, n

LEMMA EmitPopsGood ==
  ASSUME tracked_locals \in Seq(Nat), NEW c, NEW P, Good(c, P, Constant), NEW token \in Nat
  PROVE  LET d == EmitPops(c, token)
         IN  Good(d, P, Constant) /\ Later(c, d)
<1> DEFINE m == Len(tracked_locals) - Outer
           opcodes == [i \in 1 .. m |-> "pop"]
<1>1. m \in Nat
  BY OuterType
<1>. HIDE DEF m
<1>2. "pop" \in PlainOpcode
  BY DEF PlainOpcode
<1>3. opcodes \in Seq(PlainOpcode) /\ DOMAIN opcodes = 1 .. m /\ \A i \in 1 .. m : opcodes[i] = "pop"
  BY <1>1, <1>2
<1>. HIDE DEF opcodes
<1>4. EmitPops(c, token) = Emit(c, [i \in DOMAIN opcodes |-> Op(opcodes[i])], token)
  BY <1>3 DEF EmitPops, m
<1>. QED
  BY <1>3, <1>4, EmitPlainsGood

LEMMA PopScopeTyped ==
  ASSUME Rest, PopScope
  PROVE  tracked_locals' \in Seq(Nat) /\ scope_depth' \in Int
<1>1. tracked_locals \in Seq(Nat) /\ scope_depth \in Int /\ Outer \in 0 .. Len(tracked_locals)
  BY OuterType DEF Rest
<1>. QED
  BY <1>1 DEF PopScope

LEMMA EndBlockKeeps ==
  ASSUME IInv, EndBlock
  PROVE  IInv'
<1>1. /\ Compiles(chunk, nesting, "statement") /\ status = "compiling" /\ Top.kind = "block" /\ Rest
      /\ tracked_locals \in Seq(Nat)
  BY InvCompiles DEF EndBlock, Compiling, Rest
<1> DEFINE P == PendingOf(nesting)
           d == EmitPops(chunk, Top.token)
<1>2. JumpsOf(Top) = {}
  BY <1>1, TopFacts, NoJumps DEF JumpsToPatch
<1>3. Good(d, P \ JumpsOf(Top), Constant) /\ Later(chunk, d)
  <2>1. Good(chunk, P, Constant) /\ Top.token \in Nat /\ P \ JumpsOf(Top) = P
    BY <1>1, <1>2, TopFacts
  <2>. HIDE DEF P
  <2>. QED
    BY <1>1, <2>1, EmitPopsGood
<1>4. Top.kind \notin ExpressionKinds \cup {"unit"}
  BY <1>1 DEF ExpressionKinds, OperatorKinds
<1>5. Emitted(d) /\ (\E node : Complete(node)) /\ UNCHANGED <<unit, source, machine>> /\ PopScope
  BY DEF EndBlock
<1>. HIDE DEF d, P
<1>. QED
  BY <1>1, <1>3, <1>4, <1>5, PopScopeTyped, EndsKeeps DEF P

-----------------------------------------------------------------------------
(* for *)

LEMMA NoInitializerKeeps ==
  ASSUME IInv, NoInitializer
  PROVE  IInv'
<1>1. /\ Rest /\ Compiles(chunk, nesting, "statement") /\ pc = 0
      /\ status = "compiling" /\ source \in Seq(TokenType) /\ Len(source) \in Nat
  BY InvCompiles DEF NoInitializer, Compiling
<1>2. /\ pc' = pc /\ unit' = unit /\ scope_depth' = scope_depth /\ tracked_locals' = tracked_locals
      /\ source' = source /\ chunk' = chunk /\ status' = status /\ Add(Missing)
  BY DEF NoInitializer, KeepsCode, scopes, machine
<1>3. Good(chunk, PendingOf(nesting), Constant) /\ Later(chunk, chunk) /\ ~chunk.narrowing_error
  BY <1>1, CompilesFacts
<1>4. /\ Compiles(chunk', nesting', expects'.what)
      /\ expects' \in [what : {"statement", "operand", "operator", "done"}, reach : Int, callee : Nat]
  BY <1>1, <1>2, <1>3, AddKeeps
<1>5. Rest'
  BY <1>1, <1>2, <1>4 DEF Rest, TokenType
<1>. QED
  BY <1>1, <1>2, <1>4, <1>5, StillInv

(* A for goes on: what is waiting has a part more, and this code.           *)
LEMMA ForKeeps ==
  ASSUME IInv, status = "compiling", Top.kind = "for", NEW d, NEW R, Good(d, R, Constant),
         Later(chunk, d), Emitted(d), NEW r, Replace(r),
         DOMAIN r = DOMAIN Top, r.kind = Top.kind, r.level = Top.level, r.token = Top.token,
         r.names = Top.names, r.count = Top.count, r.from \in Nat, IsSequence(r.parts),
         r.jumps \in Seq(Nat), Len(r.jumps) = JumpsToPatch("for", Len(r.parts)),
         r.begins \in Seq(Nat), Len(r.begins) = Beginnings("for", Len(r.parts)),
         Relies(d, r), R \subseteq (PendingOf(nesting) \ JumpsOf(Top)) \cup JumpsOf(r),
         NEW what \in {"statement", "operand"}, Expect(what), Awaits(r, what),
         UNCHANGED <<unit, scopes, source, machine>>
  PROVE  IInv'
<1>1. /\ Rest /\ Compiles(chunk, nesting, expects.what) /\ pc = 0 /\ source \in Seq(TokenType)
  BY InvCompiles
<1>2. /\ chunk' = d /\ ~d.narrowing_error /\ status' = status /\ source' = source
      /\ pc' = pc /\ unit' = unit /\ scope_depth' = scope_depth /\ tracked_locals' = tracked_locals
      /\ nesting' = Append(Below, r) /\ expects' = [what |-> what, reach |-> 0, callee |-> 0]
  BY DEF Emitted, machine, scopes, Replace, Expect
<1>3. WaitingOK(r)
  BY <1>1, TopFacts, ChangeOK
<1>4. Compiles(d, Append(Below, r), what)
  BY <1>1, <1>2, <1>3, ReplaceKeeps DEF Top, Below
<1>5. expects'.what = what /\ expects' \in [what : {"statement", "operand", "operator", "done"}, reach : Int, callee : Nat]
  BY <1>2
<1>6. Rest'
  BY <1>1, <1>2, <1>5 DEF Rest, TokenType
<1>. QED
  BY <1>1, <1>2, <1>4, <1>5, <1>6, StillInv

(* The condition of a for, or the one that stands for it, and two jumps. *)
LEMMA ForConditionGood ==
  ASSUME NEW c, NEW P, Good(c, P, Constant), NEW token \in Nat
  PROVE  LET tested == EmitJump(c, "jump_if_false", token)
             skipped == EmitJump(tested, "jump", token)
         IN  /\ Good(skipped, P \cup {Size(tested), Size(skipped)}, Constant) /\ Later(c, skipped)
             /\ ~skipped.narrowing_error =>
                  /\ Size(tested) \in Nat /\ IsPending(skipped, Size(tested))
                  /\ Size(skipped) \in Nat /\ IsPending(skipped, Size(skipped))
<1> DEFINE tested == EmitJump(c, "jump_if_false", token)
           skipped == EmitJump(tested, "jump", token)
           Q == P \cup {Size(tested)}
<1>1. /\ Good(tested, Q, Constant) /\ Later(c, tested)
      /\ ~tested.narrowing_error => IsPending(tested, Size(tested))
  BY EmitJumpGood
<1>. HIDE DEF tested, Q
<1>2. /\ Good(skipped, Q \cup {Size(skipped)}, Constant) /\ Later(tested, skipped)
      /\ ~skipped.narrowing_error => IsPending(skipped, Size(skipped))
  BY <1>1, EmitJumpGood
<1>. HIDE DEF skipped
<1>3. Later(c, skipped)
  BY <1>1, <1>2, LaterLater
<1>4. ASSUME ~skipped.narrowing_error
      PROVE  /\ Size(tested) \in Nat /\ IsPending(skipped, Size(tested)) /\ Size(skipped) \in Nat
  <2>1. ~tested.narrowing_error
    BY <1>2, <1>4 DEF Later
  <2>. QED
    BY <1>1, <1>2, <1>4, <2>1, GoodSize, LaterPending
<1>5. Q \cup {Size(skipped)} = P \cup {Size(tested), Size(skipped)}
  BY DEF Q
<1>. QED
  BY <1>2, <1>3, <1>4, <1>5 DEF skipped, tested

LEMMA SecondOf ==
  ASSUME NEW T, NEW b \in Seq(T), Len(b) = 1, NEW n \in T
  PROVE  /\ Append(b, n) \in Seq(T) /\ Len(Append(b, n)) = 2 /\ DOMAIN Append(b, n) = {1, 2}
         /\ Append(b, n)[1] = b[1] /\ Append(b, n)[2] = n
<1>1. Append(b, n) \in Seq(T)
  OBVIOUS
<1>2. /\ Len(Append(b, n)) = Len(b) + 1
      /\ Append(b, n)[Len(b) + 1] = n /\ \A i \in 1 .. Len(b) : Append(b, n)[i] = b[i]
  <2>1. IsSequence(b)
    BY IsSequenceOf
  <2>. QED
    BY <2>1, AppendSequence
<1>. QED
  <2>1. Len(Append(b, n)) = 2 /\ Append(b, n)[2] = n /\ Append(b, n)[1] = b[1]
    BY <1>2
  <2>2. DOMAIN Append(b, n) = 1 .. 2
    BY <1>1, <2>1
  <2>. QED
    BY <1>1, <2>1, <2>2

LEMMA Pair ==
  ASSUME NEW T, NEW b \in Seq(T), Len(b) = 2
  PROVE  DOMAIN b = {1, 2} /\ b[1] \in T /\ b[2] \in T
<1>1. DOMAIN b = 1 .. 2
  OBVIOUS
<1>2. \A i \in DOMAIN b : b[i] \in T
  OBVIOUS
<1>. QED
  BY <1>1, <1>2

LEMMA ForConditionKeeps ==
  ASSUME IInv, ForCondition
  PROVE  IInv'
<1> DEFINE given == expects.what = "operator"
           condition == IF given THEN chunk ELSE EmitPlain(chunk, "true_", Top.token)
           tested == EmitJump(condition, "jump_if_false", Top.token)
           skipped == EmitJump(tested, "jump", Top.token)
           part == IF given THEN IfGiven(<<>>) ELSE Simple(Top.token, 1, 0, <<"true_">>)
           parts == Append(Top.parts, part)
           jumps == <<Size(tested), Size(skipped)>>
           begins == Append(Top.begins, Size(skipped))
           r == [Top EXCEPT !.parts = parts, !.from = Here, !.jumps = jumps, !.begins = begins]
           P == PendingOf(nesting)
<1>1. Compiles(chunk, nesting, expects.what) /\ Here \in Nat
  BY InvCompiles DEF ForCondition
<1>2. /\ status = "compiling" /\ Top.kind = "for" /\ Phase = 2
      /\ Emitted(skipped) /\ Expect("operand") /\ UNCHANGED <<unit, scopes, source, machine>>
  BY DEF ForCondition
<1>3. Replace(r)
  BY DEF ForCondition, Replace
<1>4. Len(Top.parts) = 1
  <2>1. Len(Top.parts) \in Nat /\ Len(Top.parts) + 1 = 2
    BY <1>1, <1>2, TopFacts DEF Phase
  <2>2. \A n \in Nat : n + 1 = 2 => n = 1
    OBVIOUS
  <2>. QED
    BY <2>1, <2>2
<1>5. Good(condition, P, Constant) /\ Later(chunk, condition)
  <2>1. "true_" \in PlainOpcode
    BY DEF PlainOpcode
  <2>. QED
    BY <1>1, <2>1, TopFacts, EmitPlainGood
<1>. HIDE DEF condition, part
<1>6. /\ Good(skipped, P \cup {Size(tested), Size(skipped)}, Constant) /\ Later(condition, skipped)
      /\ ~skipped.narrowing_error =>
            /\ Size(tested) \in Nat /\ IsPending(skipped, Size(tested))
            /\ Size(skipped) \in Nat /\ IsPending(skipped, Size(skipped))
  <2>1. Top.token \in Nat
    BY <1>1, TopFacts
  <2>. HIDE DEF P
  <2>. QED
    BY <1>5, <2>1, ForConditionGood
<1>. HIDE DEF tested, skipped, given
<1>7. Later(chunk, skipped)
  <2>1. Good(chunk, P, Constant)
    BY <1>1, TopFacts
  <2>. QED
    BY <1>5, <1>6, <2>1, LaterLater
<1>8. ~skipped.narrowing_error
  BY <1>2 DEF Emitted
<1>9. Relies(skipped, Top)
  BY <1>1, <1>7, <1>8, TopFacts, LaterRelies
<1>10. IsSequence(parts) /\ Len(parts) = 2
  <2>1. IsSequence(Top.parts)
    BY <1>1, TopFacts
  <2>2. IsSequence(Append(Top.parts, part)) /\ Len(Append(Top.parts, part)) = Len(Top.parts) + 1
    BY <2>1, AppendSequence
  <2>3. Len(Append(Top.parts, part)) = 2
    BY <1>4, <2>2
  <2>. QED
    BY <2>2, <2>3
<1>11. /\ jumps \in Seq(Nat) /\ Len(jumps) = 2 /\ DOMAIN jumps = {1, 2}
       /\ jumps[1] = Size(tested) /\ jumps[2] = Size(skipped)
  BY <1>6, <1>8
<1>12. /\ begins \in Seq(Nat) /\ Len(begins) = 2 /\ DOMAIN begins = {1, 2}
       /\ begins[1] = Top.begins[1] /\ begins[2] = Size(skipped)
  <2>1. Beginnings("for", 1) = 1
    BY DEF Beginnings
  <2>2. Top.begins \in Seq(Nat) /\ Len(Top.begins) = 1
    BY <1>1, <1>2, <1>4, <2>1, TopFacts
  <2>3. Size(skipped) \in Nat
    BY <1>6, <1>8
  <2>4. ASSUME NEW b \in Seq(Nat), Len(b) = 1, NEW n \in Nat
        PROVE  /\ Append(b, n) \in Seq(Nat) /\ Len(Append(b, n)) = 2 /\ DOMAIN Append(b, n) = {1, 2}
               /\ Append(b, n)[1] = b[1] /\ Append(b, n)[2] = n
    BY <2>4, SecondOf
  <2>. QED
    BY <2>2, <2>3, <2>4
<1>. HIDE DEF parts, jumps, begins
<1>13. /\ DOMAIN r = DOMAIN Top /\ r.kind = Top.kind /\ r.level = Top.level /\ r.token = Top.token
       /\ r.from = Here /\ r.parts = parts /\ r.names = Top.names /\ r.jumps = jumps
       /\ r.begins = begins /\ r.count = Top.count
  BY <1>1, TopFacts
<1>. HIDE DEF r
<1>14. Relies(skipped, r)
  <2>1. IsStart(skipped, Top.begins[1])
    <3>1. Beginnings("for", 1) = 1
      BY DEF Beginnings
    <3>2. DOMAIN Top.begins = {1}
      BY <1>1, <1>2, <1>4, <3>1, TopFacts
    <3>. QED
      BY <1>9, <3>2 DEF Relies
  <2>2. IsStart(skipped, Size(skipped))
    BY DEF IsStart
  <2>. QED
    BY <1>6, <1>8, <1>11, <1>12, <1>13, <2>1, <2>2 DEF Relies
<1>15. JumpsOf(r) = {Size(tested), Size(skipped)} /\ JumpsOf(Top) = {}
  <2>1. JumpsToPatch(Top.kind, Len(Top.parts)) = 0
    BY <1>2, <1>4 DEF JumpsToPatch
  <2>2. JumpsOf(Top) = {}
    BY <1>1, <2>1, TopFacts, NoJumps
  <2>. QED
    BY <1>11, <1>13, <2>2 DEF JumpsOf
<1>16. /\ Len(r.jumps) = JumpsToPatch("for", Len(r.parts))
       /\ Len(r.begins) = Beginnings("for", Len(r.parts))
  <2>1. JumpsToPatch("for", 2) = 2
    BY DEF JumpsToPatch
  <2>2. Beginnings("for", 2) = 2
    BY DEF Beginnings
  <2>. QED
    BY <1>10, <1>11, <1>12, <1>13, <2>1, <2>2
<1>17. Awaits(r, "operand")
  BY <1>2, <1>10, <1>13 DEF Awaits
<1>18. P \cup {Size(tested), Size(skipped)} \subseteq (P \ JumpsOf(Top)) \cup JumpsOf(r)
  BY <1>15
<1>. HIDE DEF P
<1>. QED
  BY <1>1, <1>2, <1>3, <1>6, <1>7, <1>10, <1>11, <1>12, <1>13, <1>14, <1>16, <1>17, <1>18, ForKeeps DEF P

LEMMA ForIncrementKeeps ==
  ASSUME IInv, ForIncrement
  PROVE  IInv'
<1> DEFINE given == expects.what = "operator"
           increment == IF given THEN EmitPlain(chunk, "pop", Top.token) ELSE chunk
           d == EmitPlain(ToNextOpcode(EmitLoop(increment, Top.begins[1], Top.token), Top.jumps[2]),
                          "pop", Top.token)
           part == IF given THEN IfGiven(<<>>) ELSE Missing
           parts == Append(Top.parts, part)
           jumps == <<Top.jumps[1]>>
           r == [Top EXCEPT !.parts = parts, !.jumps = jumps]
           P == PendingOf(nesting)
<1>1. Compiles(chunk, nesting, expects.what)
  BY InvCompiles DEF ForIncrement
<1>2. /\ status = "compiling" /\ Top.kind = "for" /\ Phase = 3
      /\ Emitted(d) /\ Expect("statement") /\ UNCHANGED <<unit, scopes, source, machine>>
  BY DEF ForIncrement
<1>3. Replace(r)
  BY DEF ForIncrement, Replace
<1>4. Len(Top.parts) = 2
  <2>1. Len(Top.parts) \in Nat /\ Len(Top.parts) + 1 = 3
    BY <1>1, <1>2, TopFacts DEF Phase
  <2>2. \A n \in Nat : n + 1 = 3 => n = 2
    OBVIOUS
  <2>. QED
    BY <2>1, <2>2
<1>5. /\ JumpsOf(Top) = {Top.jumps[1], Top.jumps[2]} /\ DOMAIN Top.jumps = {1, 2}
      /\ Top.jumps[1] \in Nat /\ Top.jumps[2] \in Nat /\ Top.jumps[2] \in P
      /\ DOMAIN Top.begins = {1, 2} /\ Top.begins[1] \in Nat
      /\ Top.begins \in Seq(Nat) /\ Len(Top.begins) = 2
  <2>1. JumpsToPatch("for", 2) = 2 /\ Beginnings("for", 2) = 2
    BY DEF JumpsToPatch, Beginnings
  <2>2. /\ Top.jumps \in Seq(Nat) /\ Len(Top.jumps) = 2
        /\ Top.begins \in Seq(Nat) /\ Len(Top.begins) = 2
    BY <1>1, <1>2, <1>4, <2>1, TopFacts
  <2>3. ASSUME NEW b \in Seq(Nat), Len(b) = 2
        PROVE  DOMAIN b = {1, 2} /\ b[1] \in Nat /\ b[2] \in Nat
    BY <2>3, Pair
  <2>4. JumpsOf(Top) \subseteq P
    BY <1>1, TopFacts
  <2>. QED
    BY <2>2, <2>3, <2>4 DEF JumpsOf
<1>6. Good(increment, P, Constant) /\ Later(chunk, increment)
  <2>1. "pop" \in PlainOpcode
    BY DEF PlainOpcode
  <2>. QED
    BY <1>1, <2>1, TopFacts, EmitPlainGood
<1>7. Relies(chunk, Top) /\ WaitingOK(Top) /\ Top.token \in Nat /\ Good(chunk, P, Constant)
  BY <1>1, TopFacts
<1>. HIDE DEF increment, part, P
<1>8. Good(d, P \ {Top.jumps[2]}, Constant) /\ Later(increment, d)
  <2>1. ~increment.narrowing_error => IsStart(increment, Top.begins[1])
    BY <1>5, <1>6, <1>7, LaterRelies DEF Relies
  <2>. QED
    BY <1>5, <1>6, <1>7, <2>1, LoopEndGood
<1>. HIDE DEF d
<1>9. Later(chunk, d)
  BY <1>6, <1>7, <1>8, LaterLater
<1>10. ~d.narrowing_error
  BY <1>2 DEF Emitted
<1>11. Relies(d, Top)
  BY <1>7, <1>9, <1>10, LaterRelies
<1>12. IsSequence(parts) /\ Len(parts) = 3
  <2>1. IsSequence(Top.parts)
    BY <1>1, TopFacts
  <2>2. IsSequence(Append(Top.parts, part)) /\ Len(Append(Top.parts, part)) = Len(Top.parts) + 1
    BY <2>1, AppendSequence
  <2>3. Len(Append(Top.parts, part)) = 3
    BY <1>4, <2>2
  <2>. QED
    BY <2>2, <2>3
<1>13. jumps \in Seq(Nat) /\ Len(jumps) = 1 /\ DOMAIN jumps = {1} /\ jumps[1] = Top.jumps[1]
  BY <1>5
<1>. HIDE DEF parts, jumps
<1>14. /\ DOMAIN r = DOMAIN Top /\ r.kind = Top.kind /\ r.level = Top.level /\ r.token = Top.token
       /\ r.from = Top.from /\ r.parts = parts /\ r.names = Top.names /\ r.jumps = jumps
       /\ r.begins = Top.begins /\ r.count = Top.count
  BY <1>1, TopFacts
<1>. HIDE DEF r
<1>15. Relies(d, r) /\ JumpsOf(r) = {Top.jumps[1]}
  BY <1>5, <1>11, <1>13, <1>14 DEF Relies, JumpsOf
<1>16. /\ Len(r.jumps) = JumpsToPatch("for", Len(r.parts))
       /\ Len(r.begins) = Beginnings("for", Len(r.parts))
  <2>1. JumpsToPatch("for", 3) = 1
    BY DEF JumpsToPatch
  <2>2. Beginnings("for", 3) = 2
    BY DEF Beginnings
  <2>. QED
    BY <1>5, <1>12, <1>13, <1>14, <2>1, <2>2
<1>17. Awaits(r, "statement")
  BY <1>2, <1>12, <1>14 DEF Awaits
<1>18. P \ {Top.jumps[2]} \subseteq (P \ JumpsOf(Top)) \cup JumpsOf(r)
  BY <1>5, <1>15
<1>19. r.jumps \in Seq(Nat) /\ r.begins \in Seq(Nat) /\ IsSequence(r.parts) /\ r.from \in Nat
  BY <1>1, <1>5, <1>12, <1>13, <1>14, TopFacts
<1>. QED
  BY <1>2, <1>3, <1>8, <1>9, <1>14, <1>15, <1>16, <1>17, <1>18, <1>19, ForKeeps DEF P

LEMMA AfterForBodyKeeps ==
  ASSUME IInv, AfterForBody
  PROVE  IInv'
<1>1. /\ Compiles(chunk, nesting, "done") /\ status = "compiling" /\ Top.kind = "for" /\ Rest
      /\ tracked_locals \in Seq(Nat)
  BY InvCompiles DEF AfterForBody, Compiling, Rest
<1>2. Len(Top.parts) = 4
  BY <1>1, TopFacts DEF Awaits
<1>3. JumpsOf(Top) = {Top.jumps[1]} /\ Top.begins[2] \in Nat /\ IsStart(chunk, Top.begins[2])
  <2>1. JumpsToPatch("for", 4) = 1 /\ Beginnings("for", 4) = 2
    BY DEF JumpsToPatch, Beginnings
  <2>2. Top.begins \in Seq(Nat) /\ Len(Top.begins) = 2 /\ Relies(chunk, Top) /\ WaitingOK(Top)
    BY <1>1, <1>2, <2>1, TopFacts
  <2>3. 2 \in DOMAIN Top.begins /\ Top.begins[2] \in Nat
    BY <2>2, Pair
  <2>. QED
    BY <1>1, <1>2, <2>1, <2>2, <2>3, OneJump DEF Relies
<1> DEFINE P == PendingOf(nesting)
           e == EmitPlain(ToNextOpcode(EmitLoop(chunk, Top.begins[2], Top.token), Top.jumps[1]), "pop", Top.token)
           d == EmitPops(e, Top.token)
<1>4. Good(d, P \ JumpsOf(Top), Constant) /\ Later(chunk, d)
  <2>1. Good(chunk, P, Constant) /\ Top.jumps[1] \in P /\ Top.token \in Nat
    BY <1>1, <1>3, TopFacts
  <2>. HIDE DEF P
  <2>2. Good(e, P \ {Top.jumps[1]}, Constant) /\ Later(chunk, e)
    BY <1>3, <2>1, LoopEndGood
  <2>. HIDE DEF e
  <2>3. Good(d, P \ {Top.jumps[1]}, Constant) /\ Later(e, d)
    BY <1>1, <2>1, <2>2, EmitPopsGood
  <2>. HIDE DEF d
  <2>. QED
    BY <1>3, <2>1, <2>2, <2>3, LaterLater
<1>5. Top.kind \notin ExpressionKinds \cup {"unit"}
  BY <1>1 DEF ExpressionKinds, OperatorKinds
<1>6. Emitted(d) /\ (\E node : Complete(node)) /\ UNCHANGED <<unit, source, machine>> /\ PopScope
  BY DEF AfterForBody
<1>. HIDE DEF d, P
<1>. QED
  BY <1>1, <1>4, <1>5, <1>6, PopScopeTyped, EndsKeeps DEF P

(* The unit is over: nothing waits but the unit. *)
LEMMA EndUnitKeeps ==
  ASSUME IInv, EndUnit
  PROVE  IInv'
<1> DEFINE P == PendingOf(nesting)
           default == IF unit.kind = "script" THEN chunk
                      ELSE EmitPlain(EmitNothing(chunk, 0), "return_", 0)
           node == Simple(0, 1, 0, <<Nothing, "return_">>)
<1>1. /\ Compiles(chunk, nesting, "statement") /\ status = "compiling" /\ Top.kind = "unit" /\ Rest
      /\ pc = 0 /\ source \in Seq(TokenType)
  BY InvCompiles DEF EndUnit, Compiling
<1>2. Len(nesting) = 1
  <2>1. Len(nesting) \in Nat /\ Len(nesting) > 0
    BY <1>1, SequenceLength DEF Compiles
  <2>2. \A i \in 1 .. Len(nesting) : nesting[i].kind = "unit" <=> i = 1
    BY <1>1 DEF Compiles
  <2>3. nesting[Len(nesting)].kind = "unit"
    BY <1>1 DEF Top
  <2>4. Len(nesting) \in 1 .. Len(nesting)
    BY <2>1
  <2>. QED
    BY <2>2, <2>3, <2>4
<1>3. /\ ~default.narrowing_error /\ chunk' = default /\ status' = "running"
      /\ IF unit.kind = "script" THEN nesting' = nesting ELSE Replace(Resumed(Top, node))
      /\ UNCHANGED <<unit, scopes, expects, source, machine>>
  BY DEF EndUnit
<1>4. Good(default, P, Constant) /\ Later(chunk, default)
  <2>1. Good(chunk, P, Constant) /\ Later(chunk, chunk)
    BY <1>1, TopFacts
  <2>. HIDE DEF P
  <2>. QED
    BY <2>1, ReturnGood
<1>. HIDE DEF default, node
<1>5. Len(source') \in Nat /\ Size(chunk') \in Nat
  BY <1>1, <1>3, <1>4, GoodSize
<1>6. Compiles(chunk', nesting', "statement") /\ Len(nesting') = 1
  <2>1. CASE unit.kind = "script"
    <3>1. P = (P \ JumpsOf(nesting[Len(nesting)])) \cup JumpsOf(Top)
      BY <1>1, TopFacts DEF Top
    <3>2. Append(SubSeq(nesting, 1, Len(nesting) - 1), Top) = nesting
      BY <1>1, <1>2 DEF Compiles, Top, IsSequence
    <3>3. WaitingOK(Top) /\ Relies(chunk', Top) /\ Awaits(Top, "statement")
      BY <1>1, <1>3, <1>4, TopFacts, LaterRelies
    <3>. HIDE DEF P
    <3>4. Compiles(chunk', Append(SubSeq(nesting, 1, Len(nesting) - 1), Top), "statement")
      BY <1>1, <1>3, <1>4, <3>1, <3>3, ReplaceKeeps DEF Top, P
    <3>. QED
      BY <1>2, <1>3, <2>1, <3>2, <3>4
  <2>2. CASE unit.kind # "script"
    <3> DEFINE r == Resumed(Top, node)
    <3>1. WaitingOK(Top) /\ Relies(chunk', Top) /\ Awaits(Top, "statement")
      BY <1>1, <1>3, <1>4, TopFacts, LaterRelies
    <3>2. WaitingOK(r) /\ Relies(chunk', r) /\ Awaits(r, After(Top)) /\ r.kind = Top.kind /\ r.jumps = Top.jumps
      BY <1>5, <3>1, ResumedOK
    <3>. HIDE DEF r
    <3>3. After(Top) = "statement"
      BY <1>1 DEF After
    <3>4. P \subseteq (P \ JumpsOf(nesting[Len(nesting)])) \cup JumpsOf(r)
      BY <3>2 DEF Top, JumpsOf
    <3>5. nesting' = Append(Below, r)
      BY <1>3, <2>2 DEF Replace, r
    <3>. HIDE DEF P
    <3>6. Compiles(chunk', Append(SubSeq(nesting, 1, Len(nesting) - 1), r), "statement")
      BY <1>1, <1>3, <1>4, <3>2, <3>3, <3>4, ReplaceKeeps DEF Top, P
    <3>7. Len(Append(SubSeq(nesting, 1, Len(nesting) - 1), r)) = 1
      BY <1>1, <1>2 DEF Compiles, IsSequence
    <3>. QED
      BY <3>5, <3>6, <3>7 DEF Below
  <2>. QED
    BY <2>1, <2>2
<1>7. Rest'
  BY <1>1, <1>3 DEF Rest, TokenType, scopes
<1>8. PcAtInstruction'
  <2>1. pc' = 0 /\ IsStart(chunk', 0)
    BY <1>1, <1>3, <1>6 DEF machine, Compiles, Good, SoundCode
  <2>. QED
    BY <1>3, <2>1 DEF PcAtInstruction
<1>. QED
  BY <1>3, <1>6, <1>7, <1>8, HoldsInv

-----------------------------------------------------------------------------
(* Errors and the machine *)

LEMMA NoneOf ==
  ASSUME NEW T
  PROVE  <<>> \in Seq(T) /\ Len(<<>>) = 0 /\ DOMAIN <<>> = {}
<1>. QED
  OBVIOUS

(* The compiler before the first token. *)
LEMMA StartCompiles ==
  Compiles(EmptyChunk, <<Waiting("unit", -1, 0, 1)>>, "statement")
<1> DEFINE k == Waiting("unit", -1, 0, 1)
           ks == <<k>>
<1>1. /\ DOMAIN k = {"kind", "level", "token", "from", "parts", "names", "jumps", "begins", "count"}
      /\ k.kind = "unit" /\ k.level = -1 /\ k.token = 0 /\ k.from = 1 /\ k.count = 0
      /\ k.parts = <<>> /\ k.names = <<>> /\ k.jumps = <<>> /\ k.begins = <<>>
  BY DEF Waiting
<1>. HIDE DEF k
<1>2. k.jumps \in Seq(Nat) /\ Len(k.jumps) = 0 /\ DOMAIN k.jumps = {}
  BY <1>1, NoneOf
<1>3. k.begins \in Seq(Nat) /\ Len(k.begins) = 0 /\ DOMAIN k.begins = {}
  BY <1>1, NoneOf
<1>4. IsSequence(k.parts) /\ k.names \in Seq(Lexeme)
  BY <1>1, NoneOf, IsSequenceOf
<1>5. ks \in Seq({k}) /\ Len(ks) = 1 /\ ks[1] = k /\ DOMAIN ks = {1}
  OBVIOUS
<1>6. WaitingOK(k)
  <2>1. JumpsToPatch("unit", Len(k.parts)) = 0 /\ Beginnings("unit", Len(k.parts)) = 0
    BY DEF JumpsToPatch, Beginnings
  <2>2. k.kind \in Kinds /\ k.level \in -1 .. UnaryLevel /\ (k.level >= 0 <=> k.kind \in OperatorKinds)
    BY <1>1 DEF Kinds, OperatorKinds, UnaryLevel
  <2>. QED
    BY <1>1, <1>2, <1>3, <1>4, <2>1, <2>2 DEF WaitingOK
<1>7. Awaits(k, "statement")
  BY <1>1 DEF Awaits
<1>8. JumpsOf(k) = {} /\ Relies(EmptyChunk, k)
  BY <1>2, <1>3 DEF JumpsOf, Relies
<1>9. IsSequence(ks)
  BY <1>5, IsSequenceOf
<1>. HIDE DEF ks
<1>10. PendingOf(ks) = {}
  BY <1>5, <1>8 DEF PendingOf
<1>11. Good(EmptyChunk, {}, Constant) /\ ~EmptyChunk.narrowing_error
  <2>1. EmptyChunk \in Chunks(Constant)
    BY DEF EmptyChunk, Chunks
  <2>2. SoundCode(EmptyChunk, {})
    <3>1. Size(EmptyChunk) = 0 /\ DOMAIN EmptyChunk.constants = {} /\ 0 .. 0 - 1 = {}
      BY DEF EmptyChunk, Size
    <3>2. TokensParallel(EmptyChunk)
      BY DEF EmptyChunk, TokensParallel
    <3>. QED
      BY <3>1, <3>2 DEF SoundCode, IsStart, Aligned, JumpsLand, ConstantsUnique
  <2>. QED
    BY <2>1, <2>2 DEF Good, EmptyChunk
<1>12. \A i \in 1 .. Len(ks) : WaitingOK(ks[i]) /\ Relies(EmptyChunk, ks[i]) /\ (ks[i].kind = "unit" <=> i = 1)
  BY <1>1, <1>5, <1>6, <1>8
<1>13. Compiles(EmptyChunk, ks, "statement")
  BY <1>5, <1>7, <1>9, <1>10, <1>11, <1>12 DEF Compiles
<1>. QED
  BY <1>13 DEF k, ks

LEMMA ForgottenKeeps ==
  ASSUME unit' \in Units, Forgotten, pc' = 0, status' \in {"compiling", "failed"}
  PROVE  IInv'
<1>1. /\ chunk' = EmptyChunk /\ nesting' = <<Waiting("unit", -1, 0, 1)>> /\ Expect("statement")
      /\ tracked_locals' = <<>> /\ scope_depth' = 0 /\ source' = <<>>
  BY DEF Forgotten
<1>2. /\ expects'.what = "statement"
      /\ expects' \in [what : {"statement", "operand", "operator", "done"}, reach : Int, callee : Nat]
  BY <1>1 DEF Expect
<1>3. Compiles(chunk', nesting', "statement") /\ Len(nesting') = 1
  BY <1>1, StartCompiles
<1>4. Rest'
  BY <1>1, <1>2 DEF Rest, TokenType
<1>5. PcAtInstruction'
  BY DEF PcAtInstruction
<1>. QED
  BY <1>2, <1>3, <1>4, <1>5, HoldsInv

LEMMA CompileErrorKeeps ==
  ASSUME IInv, CompileError
  PROVE  IInv'
<1>. QED
  BY InvCompiles, ForgottenKeeps DEF CompileError, machine, Rest

LEMMA RuntimeErrorKeeps ==
  ASSUME IInv, RuntimeError
  PROVE  IInv'
<1>. QED
  BY InvCompiles, ForgottenKeeps DEF RuntimeError, Rest

(* The code does not change while it runs, and no jump waits to be patched. *)
LEMMA RunningFacts ==
  ASSUME IInv, status = "running"
  PROVE  /\ chunk \in Chunks(Constant) /\ Aligned(chunk) /\ IsStart(chunk, pc)
         /\ \A index \in 0 .. Size(chunk) - 1 :
              OpcodeAt(chunk, index) \in JumpOpcode => IsStart(chunk, JumpTarget(chunk, index))
         /\ Size(chunk) \in Nat
<1>1. /\ Compiles(chunk, nesting, "statement") /\ Len(nesting) = 1 /\ IsStart(chunk, pc)
      /\ CodeSound /\ chunk \in Chunks(Constant)
  BY InvCompiles DEF IInv, FlowTypeOK, PcAtInstruction
<1>2. PendingOf(nesting) = {}
  <2>1. WaitingOK(nesting[1]) /\ nesting[1].kind = "unit" /\ DOMAIN nesting = {1}
    BY <1>1, SequenceLength DEF Compiles
  <2>2. JumpsOf(nesting[1]) = {}
    BY <2>1, NoJumps DEF JumpsToPatch
  <2>. QED
    BY <2>1, <2>2 DEF PendingOf
<1>3. Aligned(chunk) /\ JumpsLand(chunk, {})
  BY <1>1, <1>2, PendingIs DEF CodeSound, SoundCode
<1>4. Size(chunk) \in Nat
  BY <1>1 DEF Chunks, Size
<1>. QED
  BY <1>1, <1>3, <1>4 DEF JumpsLand

(* A step of the machine leaves the text and its code alone. *)
LEMMA MachineKeeps ==
  ASSUME IInv, status = "running", KeepsText, status' \in {"running", "over"},
         status' = "running" => IsStart(chunk, pc')
  PROVE  IInv'
<1>1. Rest /\ Compiles(chunk, nesting, "statement") /\ Len(nesting) = 1
  BY InvCompiles DEF IInv, FlowTypeOK
<1>2. /\ unit' = unit /\ chunk' = chunk /\ nesting' = nesting /\ source' = source
      /\ tracked_locals' = tracked_locals /\ scope_depth' = scope_depth /\ expects' = expects
  BY DEF KeepsText, scopes
<1>3. Rest'
  BY <1>1, <1>2 DEF Rest, TokenType
<1>4. PcAtInstruction'
  BY <1>2 DEF PcAtInstruction
<1>. QED
  BY <1>1, <1>2, <1>3, <1>4, HoldsInv

LEMMA RunningKeeps ==
  ASSUME IInv, Execute \/ Jump \/ Return \/ RunToEnd
  PROVE  IInv'
<1>1. status = "running" /\ KeepsText
  BY DEF Execute, Jump, Return, RunToEnd, Running
<1>2. ASSUME Running
      PROVE  pc \in 0 .. Size(chunk) - 1 /\ Now # "operand"
  <2>1. pc # Size(chunk)
    BY <1>1, <1>2, RunningFacts DEF Running
  <2>. QED
    BY <1>1, <2>1, RunningFacts DEF IsStart, Now
<1>3. ASSUME Running
      PROVE  IsStart(chunk, pc + Width(chunk, pc)) /\ (Now \in JumpOpcode => Width(chunk, pc) = 3)
  BY <1>1, <1>2, <1>3, RunningFacts, InstructionShape DEF Now
<1>4. CASE Execute
  <2>1. Running /\ pc' = pc + Width(chunk, pc) /\ status' = "running"
    BY <1>1, <1>4 DEF Execute
  <2>. QED
    BY <1>1, <1>3, <2>1, MachineKeeps
<1>5. CASE Jump
  <2>1. /\ Running /\ status' = "running" /\ Now \in JumpOpcode
        /\ pc' = pc + 3 \/ pc' = JumpTarget(chunk, pc)
    BY <1>1, <1>5 DEF Jump
  <2>2. IsStart(chunk, pc + 3)
    BY <1>3, <2>1
  <2>3. IsStart(chunk, JumpTarget(chunk, pc))
    BY <1>1, <1>2, <2>1, RunningFacts DEF Now
  <2>. QED
    BY <1>1, <2>1, <2>2, <2>3, MachineKeeps
<1>6. CASE Return \/ RunToEnd
  <2>1. status' = "over"
    BY <1>6 DEF Return, RunToEnd
  <2>. QED
    BY <1>1, <2>1, MachineKeeps
<1>. QED
  BY <1>4, <1>5, <1>6

LEMMA StutterKeeps ==
  ASSUME IInv, UNCHANGED flowVars
  PROVE  IInv'
<1>1. /\ unit' = unit /\ chunk' = chunk /\ nesting' = nesting /\ source' = source
      /\ tracked_locals' = tracked_locals /\ scope_depth' = scope_depth /\ expects' = expects
      /\ status' = status /\ pc' = pc
  BY DEF flowVars, scopes, machine
<1>2. Pending' = Pending /\ Top' = Top /\ CodeSound' = CodeSound /\ PcAtInstruction' = PcAtInstruction
  BY <1>1 DEF Pending, Top, CodeSound, PcAtInstruction
<1>. QED
  BY <1>1, <1>2 DEF IInv, FlowTypeOK

-----------------------------------------------------------------------------
(* The theorems *)

LEMMA InitInv == FlowInit => IInv
<1>1. SUFFICES ASSUME FlowInit PROVE IInv
  OBVIOUS
<1>2. /\ unit \in Units /\ chunk = EmptyChunk /\ nesting = <<Waiting("unit", -1, 0, 1)>>
      /\ expects = [what |-> "statement", reach |-> 0, callee |-> 0]
      /\ status = "compiling" /\ source = <<>> /\ pc = 0
      /\ tracked_locals \in {<<>>, <<1>>} /\ scope_depth \in {0, 1}
  BY <1>1 DEF FlowInit
<1>3. Compiles(chunk, nesting, "statement")
  BY <1>2, StartCompiles
<1>4. /\ chunk \in Chunks(Constant) /\ ~chunk.narrowing_error /\ SoundCode(chunk, PendingOf(nesting))
      /\ IsSequence(nesting) /\ Len(nesting) > 0 /\ DOMAIN nesting = 1 .. Len(nesting)
  BY <1>3, SequenceLength DEF Compiles, Good
<1>5. CodeSound
  <2>1. \A i \in DOMAIN nesting : \A j \in DOMAIN nesting[i].begins :
          IsStart(chunk, nesting[i].begins[j])
    BY <1>3, <1>4 DEF Compiles, Relies
  <2>. QED
    BY <1>4, <2>1, PendingIs DEF CodeSound
<1>6. tracked_locals \in Seq(Nat) /\ source \in Seq(TokenType)
  <2>1. <<1>> \in Seq(Nat)
    OBVIOUS
  <2>2. source \in Seq(TokenType)
    BY <1>2, NoneOf
  <2>3. CASE tracked_locals = <<>>
    BY <2>2, <2>3, NoneOf
  <2>4. CASE tracked_locals = <<1>>
    BY <2>1, <2>2, <2>4
  <2>. QED
    BY <1>2, <2>3, <2>4
<1>7. FlowTypeOK
  <2>1. \A i \in DOMAIN nesting : WaitingOK(nesting[i]) /\ (nesting[i].kind = "unit" <=> i = 1)
    BY <1>3, <1>4 DEF Compiles
  <2>2. \A i \in 1 .. Len(nesting) - 1 :
          Awaits(nesting[i], IF nesting[i + 1].kind \in ExpressionKinds THEN "operand" ELSE "statement")
    BY <1>3 DEF Compiles, For
  <2>3. Awaits(nesting[Len(nesting)], expects.what)
    BY <1>2, <1>3 DEF Compiles
  <2>4. expects \in [what : {"statement", "operand", "operator", "done"}, reach : Int, callee : Nat]
    BY <1>2
  <2>. QED
    BY <1>2, <1>4, <1>6, <2>1, <2>2, <2>3, <2>4 DEF FlowTypeOK, Top, TokenType
<1>8. PcAtInstruction
  BY <1>2 DEF PcAtInstruction
<1>. QED
  BY <1>5, <1>7, <1>8 DEF IInv

LEMMA NextInv == IInv /\ [FlowNext]_flowVars => IInv'
<1>1. SUFFICES ASSUME IInv, [FlowNext]_flowVars PROVE IInv'
  OBVIOUS
<1>2. CASE CompileExpression
  BY <1>1, <1>2, OperandKeeps, PrefixKeeps, AssignmentKeeps, BinaryOperatorKeeps, FinishOperatorKeeps,
     AccessPropertyKeeps, OpenCallKeeps, NextArgumentKeeps, CloseParenthesisKeeps
  DEF CompileExpression
<1>3. CASE CompileStatement
  <2>1. CASE \/ BeginWithExpression \/ EndWithExpression \/ Declare \/ ReturnNothing \/ BeginScope \/ EndBlock
    BY <1>1, <2>1, BeginWithExpressionKeeps, EndWithExpressionKeeps, DeclareKeeps, ReturnNothingKeeps,
       BeginScopeKeeps, EndBlockKeeps
  <2>2. CASE EndCondition \/ AfterThen \/ AfterElse \/ AfterWhileBody
    BY <1>1, <2>2, EndConditionKeeps, AfterThenKeeps, AfterElseKeeps, AfterWhileBodyKeeps
  <2>3. CASE NoInitializer \/ ForCondition \/ ForIncrement \/ AfterForBody \/ EndUnit
    BY <1>1, <2>3, NoInitializerKeeps, ForConditionKeeps, ForIncrementKeeps, AfterForBodyKeeps, EndUnitKeeps
  <2>. QED
    BY <1>3, <2>1, <2>2, <2>3 DEF CompileStatement
<1>4. CASE CompileError \/ Run
  BY <1>1, <1>4, CompileErrorKeeps, RunningKeeps, RuntimeErrorKeeps DEF Run
<1>5. CASE UNCHANGED flowVars
  BY <1>1, <1>5, StutterKeeps
<1>. QED
  BY <1>1, <1>2, <1>3, <1>4, <1>5 DEF FlowNext

LEMMA FlowInvariant == FlowSpec => []IInv
<1>. QED
  BY InitInv, NextInv, PTL DEF FlowSpec

(* Every compile function that waits for another has exactly the jumps to   *)
(* patch and the loop beginnings that what it compiled so far calls for.    *)
THEOREM FlowTypeCorrect == FlowSpec => []FlowTypeOK
<1>1. IInv => FlowTypeOK
  BY DEF IInv
<1>. QED
  BY <1>1, FlowInvariant, PTL

(* At every moment of the compilation, of any text: instructions follow one *)
(* another, a jump leads to an instruction unless a compile function still  *)
(* has to patch it, constants are unique, every byte has its token.         *)
THEOREM CodeIsSound == FlowSpec => []CodeSound
<1>1. IInv => CodeSound
  BY DEF IInv
<1>. QED
  BY <1>1, FlowInvariant, PTL

(* VM::run never takes an operand for an opcode, nor leaves the bytecode.   *)
THEOREM MachineAtInstructions == FlowSpec => []PcAtInstruction
<1>1. IInv => PcAtInstruction
  BY DEF IInv
<1>. QED
  BY <1>1, FlowInvariant, PTL
=============================================================================
