--------------------------- MODULE ClosuresProofs ---------------------------
(***************************************************************************)
(* Proofs about Closures for any bounds, any globals and any arities.      *)
(***************************************************************************)
EXTENDS Closures, ReachabilityProofs, SequenceTheorems, FiniteSetTheorems, WellFoundedInduction

-----------------------------------------------------------------------------
(* Sets of numbers, functions, sequences *)

LEMMA LeastElement ==
  ASSUME NEW B \in SUBSET Nat, B # {}
  PROVE  \E m \in B : \A n \in B : m <= n
<1> DEFINE R == {ss \in Nat \X Nat : ss[1] < ss[2]}
<1>1. IsWellFoundedOn(R, Nat)
  BY NatLessThanWellFounded DEF OpToRel
<1>2. \A m, n \in Nat : n < m => <<n, m>> \in R
  OBVIOUS
<1>. HIDE DEF R
<1>3. \E m \in B : \A n \in B : ~ (<<n, m>> \in R)
  BY <1>1, WFMin
<1>4. PICK m \in B : \A n \in B : ~ (<<n, m>> \in R)
  BY <1>3
<1>5. ASSUME NEW n \in B
      PROVE  m <= n
  <2>1. m \in Nat /\ n \in Nat /\ ~ (<<n, m>> \in R)
    BY <1>4, <1>5
  <2>2. ~ (n < m)
    BY <1>2, <2>1
  <2>. QED
    BY <2>1, <2>2
<1>. QED
  BY <1>5

LEMMA MinFacts ==
  ASSUME NEW B \in SUBSET Nat, B # {}
  PROVE  Min(B) \in B /\ \A n \in B : Min(B) <= n
BY LeastElement DEF Min

LEMMA SelectFacts ==
  ASSUME NEW n \in Nat, NEW I \in SUBSET (1 .. n),
         NEW k, k = IF I # {} THEN Min(I) ELSE 0
  PROVE  /\ k \in 0 .. n
         /\ k = 0 <=> I = {}
         /\ k # 0 => k \in I /\ \A i \in I : k <= i
<1>1. I \in SUBSET Nat
  OBVIOUS
<1>2. CASE I = {}
  BY <1>2
<1>3. CASE I # {}
  <2>1. k \in I /\ \A i \in I : k <= i
    BY <1>1, <1>3, MinFacts
  <2>. QED
    BY <1>3, <2>1
<1>. QED
  BY <1>2, <1>3

LEMMA FrontLast ==
  ASSUME NEW S, NEW s \in Seq(S), s # <<>>
  PROVE  /\ Len(s) \in Nat \ {0}
         /\ Last(s) = s[Len(s)] /\ Last(s) \in S
         /\ Front(s) \in Seq(S) /\ Len(Front(s)) = Len(s) - 1
         /\ \A i \in 1 .. Len(s) - 1 : Front(s)[i] = s[i]
<1>1. Len(s) \in Nat \ {0}
  BY EmptySeq
<1>2. PICK n \in Nat : n = Len(s) - 1
  BY <1>1
<1>3. n \in 0 .. Len(s) /\ Front(s) = SubSeq(s, 1, n)
  BY <1>1, <1>2 DEF Front
<1>4. Front(s) \in Seq(S) /\ Len(Front(s)) = n /\ \A i \in 1 .. n : Front(s)[i] = s[i]
  BY <1>3
<1>5. Last(s) = s[Len(s)] /\ s[Len(s)] \in S
  BY <1>1 DEF Last
<1>. QED
  BY <1>1, <1>2, <1>4, <1>5

LEMMA InsertFacts ==
  ASSUME NEW S, NEW s \in Seq(S), NEW e \in S, NEW p \in 1 .. Len(s) + 1
  PROVE  /\ InsertAt(s, p, e) \in Seq(S) /\ Len(InsertAt(s, p, e)) = Len(s) + 1
         /\ \A i \in 1 .. p - 1 : InsertAt(s, p, e)[i] = s[i]
         /\ InsertAt(s, p, e)[p] = e
         /\ \A i \in p + 1 .. Len(s) + 1 : InsertAt(s, p, e)[i] = s[i - 1]
<1> DEFINE a == SubSeq(s, 1, p - 1)
           b == SubSeq(s, p, Len(s))
<1>1. /\ a \in Seq(S) /\ Len(a) = p - 1 /\ \A i \in 1 .. p - 1 : a[i] = s[i]
      /\ b \in Seq(S) /\ Len(b) = Len(s) + 1 - p /\ \A i \in 1 .. Len(s) + 1 - p : b[i] = s[p + i - 1]
  OBVIOUS
<1>. HIDE DEF a, b
<1>2. /\ a \o <<e>> \in Seq(S) /\ Len(a \o <<e>>) = p
      /\ \A i \in 1 .. p - 1 : (a \o <<e>>)[i] = s[i]
      /\ (a \o <<e>>)[p] = e
  BY <1>1
<1>3. PICK c : c = a \o <<e>>
  OBVIOUS
<1>4. /\ c \o b \in Seq(S) /\ Len(c \o b) = Len(s) + 1
      /\ \A i \in 1 .. p : (c \o b)[i] = c[i]
      /\ \A i \in p + 1 .. Len(s) + 1 : (c \o b)[i] = b[i - p]
  <2>1. c \in Seq(S) /\ Len(c) = p /\ b \in Seq(S) /\ Len(s) \in Nat
    BY <1>1, <1>2, <1>3
  <2>2. /\ c \o b \in Seq(S) /\ Len(c \o b) = Len(c) + Len(b)
        /\ \A i \in 1 .. Len(c) + Len(b) :
             (c \o b)[i] = IF i <= Len(c) THEN c[i] ELSE b[i - Len(c)]
    BY <2>1, ConcatProperties
  <2>3. Len(c) + Len(b) = Len(s) + 1
    BY <1>1, <2>1
  <2>. QED
    BY <2>1, <2>2, <2>3
<1>5. \A i \in p + 1 .. Len(s) + 1 : b[i - p] = s[i - 1]
  BY <1>1
<1>6. InsertAt(s, p, e) = c \o b
  BY <1>3 DEF InsertAt, a, b
<1>. QED
  BY <1>2, <1>3, <1>4, <1>5, <1>6

LEMMA SetAt ==
  ASSUME NEW S, NEW s \in Seq(S), NEW j \in 1 .. Len(s), NEW e \in S
  PROVE  /\ [s EXCEPT ![j] = e] \in Seq(S) /\ Len([s EXCEPT ![j] = e]) = Len(s)
         /\ \A i \in 1 .. Len(s) : [s EXCEPT ![j] = e][i] = IF i = j THEN e ELSE s[i]
OBVIOUS

LEMMA AppendFacts ==
  ASSUME NEW S, NEW s \in Seq(S), NEW e \in S
  PROVE  /\ Append(s, e) \in Seq(S) /\ Len(Append(s, e)) = Len(s) + 1 /\ Len(s) \in Nat
         /\ \A i \in 1 .. Len(s) : Append(s, e)[i] = s[i]
         /\ Append(s, e)[Len(s) + 1] = e
OBVIOUS

LEMMA ToSetFacts ==
  ASSUME NEW S, NEW s \in Seq(S)
  PROVE  ToSet(s) = {s[i] : i \in 1 .. Len(s)} /\ ToSet(s) \subseteq S
BY DEF ToSet

-----------------------------------------------------------------------------
(* What the machine relies on, whatever the program does.  FramesOK: the    *)
(* activations lie on the stack end to end, and each reaches as high as the *)
(* compiler counted.                                                        *)

Above(f) == f.base + Len(f.locals) + f.temps

(* cs and us are the closures and the upvalues that exist. *)
Live(v, cs) == v = Plain \/ v \in cs

FrameOK(f, cs) ==
  /\ f \in Frame /\ f.closure \in cs
  /\ f.begin >= 1 /\ f.base >= f.begin

FramesOK ==
  /\ call_frames_ \in Seq(Frame) /\ Len(call_frames_) <= MaxFrames
  /\ \A n \in 1 .. Len(call_frames_) : FrameOK(call_frames_[n], DOMAIN closures)
  /\ \A n \in 1 .. Len(call_frames_) - 1 : call_frames_[n + 1].begin = Above(call_frames_[n])
  /\ call_frames_ # <<>> => Len(stack_) + 1 = Above(Top)

StackOK ==
  /\ stack_ \in Seq(Value) /\ Len(stack_) <= MaxStack
  /\ \A i \in 1 .. Len(stack_) : Live(stack_[i], DOMAIN closures)

GlobalsOK ==
  globals_ \in [Globals -> Value] /\ \A g \in Globals : Live(globals_[g], DOMAIN closures)

UpvalueOK(w, cs) ==
  /\ w \in Upvalue
  /\ w.open => w.stack_index >= 1 /\ w.value = Plain
  /\ Live(w.value, cs)

UpvaluesOK ==
  /\ DOMAIN upvalues \subseteq 1 .. NUpvalues
  /\ \A u \in DOMAIN upvalues : UpvalueOK(upvalues[u], DOMAIN closures)

ClosureOK(d, us) ==
  /\ d \in Closure /\ Len(d.vars) = Len(d.upvalues)
  /\ \A i \in 1 .. Len(d.upvalues) : d.upvalues[i] \in us
  /\ \A i \in 1 .. Len(d.open_upvalues) : d.open_upvalues[i] \in us

ClosuresOK ==
  /\ DOMAIN closures \subseteq 1 .. NClosures
  /\ \A c \in DOMAIN closures : ClosureOK(closures[c], DOMAIN upvalues)

CountersOK == crashed \in Exceptions /\ scripts \in 0 .. MaxScripts /\ errors \in 0 .. MaxErrors

MachineIInv == FramesOK /\ StackOK /\ GlobalsOK /\ UpvaluesOK /\ ClosuresOK /\ CountersOK

LEMMA FrameFields ==
  ASSUME NEW f \in Frame
  PROVE  /\ f.closure \in 1 .. NClosures
         /\ f.begin \in Nat /\ f.base \in Nat /\ f.fixed \in Nat /\ f.temps \in Nat /\ Len(f.locals) \in Nat
         /\ f.locals \in Seq(BOOLEAN)
BY DEF Frame

LEMMA TopFacts ==
  ASSUME MachineIInv, Running
  PROVE  /\ Len(call_frames_) \in Nat \ {0} /\ Len(stack_) \in Nat /\ stack_ \in Seq(Value)
         /\ call_frames_ # <<>> /\ crashed = "none"
         /\ Top = call_frames_[Len(call_frames_)] /\ Top \in Frame /\ FrameOK(Top, DOMAIN closures)
         /\ Top.closure \in DOMAIN closures
         /\ Top.begin \in Nat /\ Top.base \in Nat /\ Top.fixed \in Nat /\ Top.temps \in Nat
         /\ Len(Top.locals) \in Nat
         /\ Top.begin >= 1 /\ Top.base >= Top.begin
         /\ Top.locals \in Seq(BOOLEAN)
         /\ Len(stack_) + 1 = Top.base + Len(Top.locals) + Top.temps
         /\ \A i \in 1 .. Len(Top.locals) :
              SlotOf(i) \in 1 .. Len(stack_) /\ Top.base + i - 1 \in 1 .. Len(stack_)
<1>1. call_frames_ \in Seq(Frame) /\ call_frames_ # <<>> /\ crashed = "none"
  BY DEF MachineIInv, FramesOK, Running
<1>2. Len(call_frames_) \in Nat \ {0}
  BY <1>1, EmptySeq
<1>3. Top = call_frames_[Len(call_frames_)] /\ FrameOK(Top, DOMAIN closures) /\ Top \in Frame
  BY <1>1, <1>2 DEF Top, MachineIInv, FramesOK
<1>4. /\ Top.closure \in DOMAIN closures
      /\ Top.begin >= 1 /\ Top.base >= Top.begin
  BY <1>3 DEF FrameOK
<1>5. /\ Top.begin \in Nat /\ Top.base \in Nat /\ Top.fixed \in Nat /\ Top.temps \in Nat
      /\ Len(Top.locals) \in Nat
      /\ Top.locals \in Seq(BOOLEAN)
  BY <1>3, FrameFields
<1>6. stack_ \in Seq(Value) /\ Len(stack_) \in Nat
  BY DEF MachineIInv, StackOK
<1>7. Len(stack_) + 1 = Top.base + Len(Top.locals) + Top.temps
  BY <1>1 DEF MachineIInv, FramesOK, Above
<1>8. \A i \in 1 .. Len(Top.locals) :
        SlotOf(i) \in 1 .. Len(stack_) /\ Top.base + i - 1 \in 1 .. Len(stack_)
  <2>1. PICK b, e, n, t, h : b = Top.begin /\ e = Top.base /\ n = Len(Top.locals)
                             /\ t = Top.temps /\ h = Len(stack_)
    OBVIOUS
  <2>2. {b, e, n, t, h} \subseteq Nat /\ b >= 1 /\ e >= b /\ h + 1 = e + n + t
    BY <1>4, <1>5, <1>6, <1>7, <2>1
  <2>3. \A i \in 1 .. n : b + i - 1 \in 1 .. h /\ e + i - 1 \in 1 .. h
    BY <2>2
  <2>. QED
    BY <2>1, <2>3 DEF SlotOf
<1>. QED
  BY <1>1, <1>2, <1>3, <1>4, <1>5, <1>6, <1>7, <1>8

LEMMA Counts ==
  ASSUME MachineIInv, Running
  PROVE  /\ Top.begin \in Nat /\ Top.base \in Nat /\ Top.temps \in Nat /\ Len(Top.locals) \in Nat
         /\ Len(stack_) \in Nat
         /\ Len(stack_) + 1 = Top.base + Len(Top.locals) + Top.temps
BY TopFacts

-----------------------------------------------------------------------------
(* How a step can change the activations *)

LEMMA TopReplaced ==
  ASSUME MachineIInv, Running, NEW g \in Frame, call_frames_' = WithTop(g),
         g.closure = Top.closure, g.begin = Top.begin, g.base = Top.base,
         Len(stack_') + 1 = Above(g),
         \A n \in 1 .. Len(call_frames_) : call_frames_[n].closure \in DOMAIN closures'
  PROVE  FramesOK'
<1>1. PICK m \in Nat \ {0} : m = Len(call_frames_)
  BY TopFacts
<1>2. call_frames_ \in Seq(Frame) /\ m <= MaxFrames /\ Top = call_frames_[m]
  BY <1>1, TopFacts DEF MachineIInv, FramesOK
<1>3. call_frames_' = [call_frames_ EXCEPT ![m] = g]
  BY <1>1 DEF WithTop
<1>4. /\ call_frames_' \in Seq(Frame) /\ Len(call_frames_') = m
      /\ \A n \in 1 .. m : call_frames_'[n] = IF n = m THEN g ELSE call_frames_[n]
  BY <1>1, <1>2, <1>3
<1>5. Top' = g /\ call_frames_' # <<>>
  BY <1>1, <1>4 DEF Top
<1>6. \A n \in 1 .. m : FrameOK(call_frames_'[n], DOMAIN closures')
  <2>1. ASSUME NEW n \in 1 .. m
        PROVE  FrameOK(call_frames_'[n], DOMAIN closures')
    <3>1. PICK f : f = call_frames_[n]
      OBVIOUS
    <3>2. FrameOK(f, DOMAIN closures) /\ f.closure \in DOMAIN closures'
      BY <1>1, <3>1 DEF MachineIInv, FramesOK
    <3>3. PICK h : h = call_frames_'[n]
      OBVIOUS
    <3>4. h \in Frame /\ h.closure = f.closure /\ h.begin = f.begin /\ h.base = f.base
      BY <1>1, <1>2, <1>4, <3>1, <3>2, <3>3 DEF FrameOK
    <3>5. FrameOK(h, DOMAIN closures')
      BY <3>2, <3>4 DEF FrameOK
    <3>. QED
      BY <3>3, <3>5
  <2>. QED
    BY <2>1
<1>7. ASSUME NEW n \in 1 .. m - 1
      PROVE  call_frames_'[n + 1].begin = Above(call_frames_'[n])
  <2>1. call_frames_'[n] = call_frames_[n] /\ call_frames_'[n + 1].begin = call_frames_[n + 1].begin
    BY <1>1, <1>2, <1>4
  <2>. QED
    BY <1>1, <2>1 DEF MachineIInv, FramesOK
<1>. QED
  BY <1>1, <1>2, <1>4, <1>5, <1>6, <1>7 DEF FramesOK

LEMMA SameFrames ==
  ASSUME MachineIInv, UNCHANGED call_frames_, Len(stack_') = Len(stack_),
         \A n \in 1 .. Len(call_frames_) : call_frames_[n].closure \in DOMAIN closures'
  PROVE  FramesOK'
BY DEF MachineIInv, FramesOK, FrameOK, Top

LEMMA NoFrames ==
  ASSUME call_frames_' = <<>>
  PROVE  FramesOK'
<1>1. call_frames_' \in Seq(Frame) /\ Len(call_frames_') = 0
  OBVIOUS
<1>2. 0 <= MaxFrames
  BY ClosuresAssumption
<1>. QED
  BY <1>1, <1>2 DEF FramesOK

-----------------------------------------------------------------------------
(* How a step can change the stack *)

LEMMA StackPushed ==
  ASSUME MachineIInv, NEW v \in Value, Push(v), Live(v, DOMAIN closures'),
         DOMAIN closures \subseteq DOMAIN closures'
  PROVE  /\ StackOK' /\ Len(stack_') = Len(stack_) + 1
         /\ \A i \in 1 .. Len(stack_) : stack_'[i] = stack_[i]
         /\ stack_'[Len(stack_) + 1] = v
<1>1. stack_ \in Seq(Value) /\ Len(stack_) < MaxStack /\ stack_' = Append(stack_, v)
  BY DEF MachineIInv, StackOK, Push
<1>2. /\ stack_' \in Seq(Value) /\ Len(stack_') = Len(stack_) + 1
      /\ \A i \in 1 .. Len(stack_) : stack_'[i] = stack_[i]
      /\ stack_'[Len(stack_) + 1] = v
      /\ Len(stack_) \in Nat
  BY <1>1
<1>3. \A i \in 1 .. Len(stack_) : Live(stack_'[i], DOMAIN closures')
  BY <1>2 DEF MachineIInv, StackOK, Live
<1>4. \A i \in 1 .. Len(stack_') : Live(stack_'[i], DOMAIN closures')
  BY <1>2, <1>3
<1>5. MaxStack \in Nat
  BY ClosuresAssumption
<1>. QED
  BY <1>1, <1>2, <1>4, <1>5 DEF StackOK

LEMMA StackPopped ==
  ASSUME MachineIInv, stack_ # <<>>, stack_' = Front(stack_),
         DOMAIN closures \subseteq DOMAIN closures'
  PROVE  /\ StackOK' /\ Len(stack_') = Len(stack_) - 1 /\ Len(stack_) \in Nat \ {0}
         /\ \A i \in 1 .. Len(stack_) - 1 : stack_'[i] = stack_[i]
<1>1. stack_ \in Seq(Value) /\ Len(stack_) <= MaxStack
  BY DEF MachineIInv, StackOK
<1>2. /\ stack_' \in Seq(Value) /\ Len(stack_') = Len(stack_) - 1 /\ Len(stack_) \in Nat \ {0}
      /\ \A i \in 1 .. Len(stack_) - 1 : stack_'[i] = stack_[i]
  BY <1>1, FrontLast
<1>3. \A i \in 1 .. Len(stack_) - 1 : Live(stack_'[i], DOMAIN closures')
  BY <1>2 DEF MachineIInv, StackOK, Live
<1>4. MaxStack \in Nat
  BY ClosuresAssumption
<1>. QED
  BY <1>1, <1>2, <1>3, <1>4 DEF StackOK

LEMMA StackSet ==
  ASSUME MachineIInv, NEW j \in 1 .. Len(stack_), NEW v \in Value, Live(v, DOMAIN closures),
         stack_' = [stack_ EXCEPT ![j] = v], UNCHANGED closures
  PROVE  /\ StackOK' /\ Len(stack_') = Len(stack_)
         /\ \A i \in 1 .. Len(stack_) : stack_'[i] = IF i = j THEN v ELSE stack_[i]
<1>1. stack_ \in Seq(Value) /\ Len(stack_) <= MaxStack
  BY DEF MachineIInv, StackOK
<1>2. /\ stack_' \in Seq(Value) /\ Len(stack_') = Len(stack_)
      /\ \A i \in 1 .. Len(stack_) : stack_'[i] = IF i = j THEN v ELSE stack_[i]
  BY <1>1
<1>3. \A i \in 1 .. Len(stack_) : Live(stack_'[i], DOMAIN closures')
  BY <1>2 DEF MachineIInv, StackOK, Live
<1>. QED
  BY <1>1, <1>2, <1>3 DEF StackOK

LEMMA LastOperand ==
  ASSUME MachineIInv, Running, Top.temps > 0
  PROVE  /\ stack_ # <<>> /\ Last(stack_) = stack_[Len(stack_)]
         /\ Last(stack_) \in Value /\ Live(Last(stack_), DOMAIN closures)
         /\ Len(stack_) \in Nat \ {0}
<1>1. /\ Len(stack_) + 1 = Top.base + Len(Top.locals) + Top.temps
      /\ Top.base \in Nat /\ Top.temps \in Nat /\ Len(Top.locals) \in Nat
      /\ Top.begin >= 1 /\ Top.base >= Top.begin /\ Top.begin \in Nat
      /\ stack_ \in Seq(Value) /\ Len(stack_) \in Nat
  BY TopFacts
<1>2. Len(stack_) > 0
  BY <1>1
<1>3. stack_ # <<>>
  BY <1>2
<1>4. Last(stack_) = stack_[Len(stack_)] /\ Last(stack_) \in Value
  BY <1>1, <1>3, FrontLast
<1>5. Live(stack_[Len(stack_)], DOMAIN closures)
  BY <1>1, <1>2 DEF MachineIInv, StackOK
<1>. QED
  BY <1>1, <1>2, <1>3, <1>4, <1>5

-----------------------------------------------------------------------------
(* Instructions that change no object *)

LEMMA SameObjects ==
  ASSUME MachineIInv, UNCHANGED <<closures, upvalues>>
  PROVE  UpvaluesOK' /\ ClosuresOK' /\ DOMAIN closures' = DOMAIN closures
BY DEF MachineIInv, UpvaluesOK, ClosuresOK

LEMMA SameGlobals ==
  ASSUME MachineIInv, UNCHANGED globals_, DOMAIN closures \subseteq DOMAIN closures'
  PROVE  GlobalsOK'
BY DEF MachineIInv, GlobalsOK, Live

LEMMA LiveFrames ==
  ASSUME MachineIInv
  PROVE  \A n \in 1 .. Len(call_frames_) : call_frames_[n].closure \in DOMAIN closures
BY DEF MachineIInv, FramesOK, FrameOK

LEMMA OperandsKeep ==
  ASSUME MachineIInv, NoObjectChanges, StackOK', FramesOK'
  PROVE  MachineIInv'
<1>1. UpvaluesOK' /\ ClosuresOK' /\ GlobalsOK'
  BY SameObjects, SameGlobals DEF NoObjectChanges
<1>2. CountersOK'
  BY DEF NoObjectChanges, MachineIInv, CountersOK
<1>. QED
  BY <1>1, <1>2 DEF MachineIInv

LEMMA TempsReplaced ==
  ASSUME MachineIInv, Running, NEW t \in Nat,
         call_frames_' = WithTop([Top EXCEPT !.temps = t]),
         Len(stack_') = Len(stack_) + t - Top.temps,
         DOMAIN closures \subseteq DOMAIN closures'
  PROVE  FramesOK'
<1>1. PICK g : g = [Top EXCEPT !.temps = t]
  OBVIOUS
<1>2. g \in Frame /\ g.closure = Top.closure /\ g.begin = Top.begin /\ g.base = Top.base
      /\ g.locals = Top.locals /\ g.temps = t
  BY <1>1, TopFacts DEF Frame
<1>3. Len(stack_') + 1 = Above(g)
  <2>1. Above(g) = Top.base + Len(Top.locals) + t
    BY <1>2 DEF Above
  <2>2. PICK h, b, n, k : h = Len(stack_) /\ b = Top.base /\ n = Len(Top.locals) /\ k = Top.temps
    OBVIOUS
  <2>3. h \in Nat /\ b \in Nat /\ n \in Nat /\ k \in Nat /\ h + 1 = b + n + k
    BY <2>2, Counts
  <2>4. h + t - k + 1 = b + n + t
    BY <2>3
  <2>. QED
    BY <2>1, <2>2, <2>4
<1>4. \A n \in 1 .. Len(call_frames_) : call_frames_[n].closure \in DOMAIN closures'
  BY LiveFrames
<1>. QED
  BY <1>1, <1>2, <1>3, <1>4, TopReplaced

LEMMA PushKeeps ==
  ASSUME MachineIInv, Running, NEW v \in Value, Live(v, DOMAIN closures), Push(v),
         call_frames_' = WithTop(Pushed), NoObjectChanges
  PROVE  MachineIInv'
<1>1. closures' = closures
  BY DEF NoObjectChanges
<1>2. StackOK' /\ Len(stack_') = Len(stack_) + 1
  BY <1>1, StackPushed
<1>3. PICK t \in Nat : t = Top.temps + 1
  BY TopFacts
<1>4. call_frames_' = WithTop([Top EXCEPT !.temps = t])
  BY <1>3 DEF Pushed
<1>5. Len(stack_') = Len(stack_) + t - Top.temps
  BY <1>1, <1>2, <1>3, Counts
<1>6. FramesOK'
  BY <1>1, <1>4, <1>5, TempsReplaced
<1>. QED
  BY <1>2, <1>6, OperandsKeep

LEMMA ConstantKeeps ==
  ASSUME MachineIInv, Constant
  PROVE  MachineIInv'
BY PushKeeps DEF Constant, Value, Live

LEMMA PopKeeps ==
  ASSUME MachineIInv, Pop
  PROVE  MachineIInv'
<1>1. Running /\ Top.temps > 0 /\ NoObjectChanges /\ closures' = closures /\ stack_' = Front(stack_)
  BY DEF Pop, NoObjectChanges
<1>2. StackOK' /\ Len(stack_') = Len(stack_) - 1
  BY <1>1, LastOperand, StackPopped
<1>3. PICK t \in Nat : t = Top.temps - 1
  BY <1>1, TopFacts
<1>4. call_frames_' = WithTop([Top EXCEPT !.temps = t])
  BY <1>3 DEF Pop
<1>5. Len(stack_') = Len(stack_) + t - Top.temps
  BY <1>1, <1>2, <1>3, Counts
<1>6. FramesOK'
  BY <1>1, <1>4, <1>5, TempsReplaced
<1>. QED
  BY <1>1, <1>2, <1>6, OperandsKeep

LEMMA DeclareLocalKeeps ==
  ASSUME MachineIInv, DeclareLocal
  PROVE  MachineIInv'
<1>1. /\ Running /\ Top.temps = 1 /\ NoObjectChanges /\ closures' = closures /\ stack_' = stack_
      /\ call_frames_' = WithTop([Top EXCEPT !.locals = Append(@, FALSE), !.temps = 0])
  BY DEF DeclareLocal, NoObjectChanges
<1>2. PICK g : g = [Top EXCEPT !.locals = Append(Top.locals, FALSE), !.temps = 0]
  OBVIOUS
<1>3. Append(Top.locals, FALSE) \in Seq(BOOLEAN) /\ Len(Append(Top.locals, FALSE)) = Len(Top.locals) + 1
  BY <1>1, TopFacts
<1>4. g \in Frame /\ g.closure = Top.closure /\ g.begin = Top.begin /\ g.base = Top.base
      /\ g.locals = Append(Top.locals, FALSE) /\ g.temps = 0
  BY <1>1, <1>2, <1>3, TopFacts DEF Frame
<1>5. Len(stack_') + 1 = Above(g)
  <2>1. Above(g) = Top.base + (Len(Top.locals) + 1) + 0
    BY <1>3, <1>4 DEF Above
  <2>. QED
    BY <1>1, <2>1, Counts
<1>6. FramesOK'
  BY <1>1, <1>2, <1>4, <1>5, LiveFrames, TopReplaced
<1>7. StackOK'
  BY <1>1 DEF MachineIInv, StackOK
<1>. QED
  BY <1>1, <1>6, <1>7, OperandsKeep

LEMMA GetLocalKeeps ==
  ASSUME MachineIInv, NEW i, GetLocal(i)
  PROVE  MachineIInv'
<1>1. Running /\ i \in DOMAIN Top.locals
  BY DEF GetLocal
<1>2. SlotOf(i) \in 1 .. Len(stack_) /\ stack_ \in Seq(Value)
  BY <1>1, TopFacts
<1>3. PICK v : v = stack_[SlotOf(i)]
  OBVIOUS
<1>4. v \in Value /\ Live(v, DOMAIN closures)
  BY <1>2, <1>3 DEF MachineIInv, StackOK
<1>. QED
  BY <1>1, <1>3, <1>4, PushKeeps DEF GetLocal

LEMMA SetLocalKeeps ==
  ASSUME MachineIInv, NEW i, SetLocal(i)
  PROVE  MachineIInv'
<1>1. /\ Running /\ i \in DOMAIN Top.locals /\ Top.temps > 0 /\ NoObjectChanges
      /\ closures' = closures /\ call_frames_' = call_frames_
      /\ stack_' = [stack_ EXCEPT ![SlotOf(i)] = Last(stack_)]
  BY DEF SetLocal, NoObjectChanges
<1>2. PICK j, v : j = SlotOf(i) /\ v = Last(stack_)
  OBVIOUS
<1>3. j \in 1 .. Len(stack_) /\ v \in Value /\ Live(v, DOMAIN closures)
  BY <1>1, <1>2, TopFacts, LastOperand
<1>4. StackOK' /\ Len(stack_') = Len(stack_)
  BY <1>1, <1>2, <1>3, StackSet
<1>5. FramesOK'
  BY <1>1, <1>4, LiveFrames, SameFrames
<1>. QED
  BY <1>1, <1>4, <1>5, OperandsKeep

LEMMA GetGlobalKeeps ==
  ASSUME MachineIInv, NEW g \in Globals, GetGlobal(g)
  PROVE  MachineIInv'
<1>1. Running
  BY DEF GetGlobal
<1>2. PICK v : v = globals_[g]
  OBVIOUS
<1>3. v \in Value /\ Live(v, DOMAIN closures)
  BY <1>2 DEF MachineIInv, GlobalsOK
<1>. QED
  BY <1>1, <1>2, <1>3, PushKeeps DEF GetGlobal

LEMMA SetGlobalKeeps ==
  ASSUME MachineIInv, NEW g \in Globals, SetGlobal(g)
  PROVE  MachineIInv'
<1>1. /\ Running /\ Top.temps > 0
      /\ globals_' = [globals_ EXCEPT ![g] = Last(stack_)]
      /\ UNCHANGED <<stack_, call_frames_, closures, upvalues, crashed, scripts, errors>>
  BY DEF SetGlobal
<1>2. PICK v : v = Last(stack_)
  OBVIOUS
<1>3. v \in Value /\ Live(v, DOMAIN closures)
  BY <1>1, <1>2, LastOperand
<1>4. GlobalsOK'
  BY <1>1, <1>2, <1>3 DEF MachineIInv, GlobalsOK, Live
<1>5. FramesOK' /\ StackOK'
  BY <1>1, LiveFrames, SameFrames DEF MachineIInv, StackOK
<1>6. UpvaluesOK' /\ ClosuresOK'
  BY <1>1, SameObjects
<1>7. CountersOK'
  BY <1>1 DEF MachineIInv, CountersOK
<1>. QED
  BY <1>4, <1>5, <1>6, <1>7 DEF MachineIInv

-----------------------------------------------------------------------------
(* Renaming variables, closing upvalues *)

LEMMA LeavingType ==
  ASSUME MachineIInv, NEW slots, NEW v \in Var
  PROVE  Leaving(slots, v) \in Var
<1> DEFINE holders == {u \in DOMAIN upvalues : upvalues[u].var = v}
<1>1. MaxStack \in Nat /\ NUpvalues \in Nat
  BY ClosuresAssumption
<1>2. Lost \in Var
  BY <1>1 DEF Lost, Var
<1>3. holders \in SUBSET Nat /\ holders \subseteq 1 .. NUpvalues
  BY DEF MachineIInv, UpvaluesOK
<1>. HIDE DEF holders
<1>4. ASSUME holders # {}
      PROVE  Escaped(Min(holders)) \in Var
  <2>1. PICK u : u = Min(holders)
    OBVIOUS
  <2>2. u \in 1 .. NUpvalues
    BY <1>3, <1>4, <2>1, MinFacts
  <2>3. Escaped(u) \in Var
    BY <1>1, <2>2 DEF Escaped, Var, Lost
  <2>. QED
    BY <2>1, <2>3
<1>. QED
  BY <1>2, <1>4 DEF Leaving, holders

LEMMA RenamedUpvaluesType ==
  ASSUME MachineIInv, NEW slots, NEW us, NEW cs,
         \A u \in DOMAIN us : UpvalueOK(us[u], cs)
  PROVE  LET ws == RenamedUpvalues(slots, us)
         IN  /\ DOMAIN ws = DOMAIN us
             /\ \A u \in DOMAIN us :
                  /\ UpvalueOK(ws[u], cs)
                  /\ ws[u].open = us[u].open /\ ws[u].stack_index = us[u].stack_index
                  /\ ws[u].value = us[u].value /\ ws[u].var = Leaving(slots, us[u].var)
<1>1. PICK ws : ws = RenamedUpvalues(slots, us)
  OBVIOUS
<1>2. DOMAIN ws = DOMAIN us /\ \A u \in DOMAIN us : ws[u] = [us[u] EXCEPT !.var = Leaving(slots, @)]
  BY <1>1 DEF RenamedUpvalues
<1>3. ASSUME NEW u \in DOMAIN us
      PROVE  /\ UpvalueOK(ws[u], cs)
             /\ ws[u].open = us[u].open /\ ws[u].stack_index = us[u].stack_index
             /\ ws[u].value = us[u].value /\ ws[u].var = Leaving(slots, us[u].var)
  <2>1. PICK w, v : w = us[u] /\ v = Leaving(slots, us[u].var)
    OBVIOUS
  <2>2. UpvalueOK(w, cs) /\ w \in Upvalue
    BY <1>3, <2>1 DEF UpvalueOK
  <2>3. v \in Var
    BY <2>1, <2>2, LeavingType DEF Upvalue
  <2>4. ws[u] = [w EXCEPT !.var = v]
    BY <1>2, <1>3, <2>1
  <2>. QED
    BY <2>1, <2>2, <2>3, <2>4 DEF UpvalueOK, Upvalue
<1>. QED
  BY <1>1, <1>2, <1>3

LEMMA RenamedVars ==
  ASSUME MachineIInv, NEW slots, NEW vs \in Seq(Var)
  PROVE  LET ws == [k \in DOMAIN vs |-> Leaving(slots, vs[k])]
         IN  ws \in Seq(Var) /\ Len(ws) = Len(vs) /\ DOMAIN ws = 1 .. Len(vs)
<1>1. \A k \in 1 .. Len(vs) : Leaving(slots, vs[k]) \in Var
  BY LeavingType
<1>2. PICK n \in Nat : n = Len(vs)
  OBVIOUS
<1>3. PICK ws : ws = [k \in 1 .. n |-> Leaving(slots, vs[k])]
  OBVIOUS
<1>4. ws \in [1 .. n -> Var]
  BY <1>1, <1>2, <1>3
<1>5. ws \in Seq(Var) /\ Len(ws) = n
  BY <1>4
<1>6. DOMAIN vs = 1 .. n
  BY <1>2
<1>. QED
  BY <1>2, <1>3, <1>5, <1>6

LEMMA RenamedClosuresType ==
  ASSUME MachineIInv, NEW slots, NEW ds, NEW us,
         \A c \in DOMAIN ds : ClosureOK(ds[c], us)
  PROVE  LET es == RenamedClosures(slots, ds)
         IN  /\ DOMAIN es = DOMAIN ds
             /\ \A c \in DOMAIN ds :
                  /\ ClosureOK(es[c], us)
                  /\ es[c].upvalues = ds[c].upvalues /\ es[c].open_upvalues = ds[c].open_upvalues
                  /\ es[c].arity = ds[c].arity /\ es[c].anonymous = ds[c].anonymous
                  /\ DOMAIN es[c].vars = DOMAIN ds[c].vars
                  /\ \A k \in DOMAIN ds[c].vars : es[c].vars[k] = Leaving(slots, ds[c].vars[k])
<1>1. PICK es : es = RenamedClosures(slots, ds)
  OBVIOUS
<1>2. /\ DOMAIN es = DOMAIN ds
      /\ \A c \in DOMAIN ds :
           es[c] = [ds[c] EXCEPT !.vars = [k \in DOMAIN @ |-> Leaving(slots, @[k])]]
  BY <1>1 DEF RenamedClosures
<1>3. ASSUME NEW c \in DOMAIN ds
      PROVE  /\ ClosureOK(es[c], us)
             /\ es[c].upvalues = ds[c].upvalues /\ es[c].open_upvalues = ds[c].open_upvalues
             /\ es[c].arity = ds[c].arity /\ es[c].anonymous = ds[c].anonymous
             /\ DOMAIN es[c].vars = DOMAIN ds[c].vars
             /\ \A k \in DOMAIN ds[c].vars : es[c].vars[k] = Leaving(slots, ds[c].vars[k])
  <2>1. PICK d, vs : d = ds[c] /\ vs = ds[c].vars
    OBVIOUS
  <2>2. ClosureOK(d, us) /\ d \in Closure /\ vs \in Seq(Var)
    BY <1>3, <2>1 DEF ClosureOK, Closure
  <2>3. PICK ws : ws = [k \in DOMAIN vs |-> Leaving(slots, vs[k])]
    OBVIOUS
  <2>4. ws \in Seq(Var) /\ Len(ws) = Len(vs) /\ DOMAIN ws = 1 .. Len(vs)
    BY <2>2, <2>3, RenamedVars
  <2>5. es[c] = [d EXCEPT !.vars = ws]
    BY <1>2, <1>3, <2>1, <2>3
  <2>6. /\ es[c] \in Closure /\ es[c].vars = ws
        /\ es[c].upvalues = d.upvalues /\ es[c].open_upvalues = d.open_upvalues
        /\ es[c].arity = d.arity /\ es[c].anonymous = d.anonymous
    BY <2>2, <2>4, <2>5 DEF Closure
  <2>7. ClosureOK(es[c], us)
    BY <2>1, <2>2, <2>4, <2>6 DEF ClosureOK
  <2>8. DOMAIN ws = DOMAIN vs /\ \A k \in DOMAIN vs : ws[k] = Leaving(slots, vs[k])
    BY <2>3
  <2>. QED
    BY <2>1, <2>6, <2>7, <2>8
<1>. QED
  BY <1>1, <1>2, <1>3

LEMMA ValueFacts ==
  ASSUME MachineIInv, NEW u \in DOMAIN upvalues, InRange(u)
  PROVE  ValueOf(u) \in Value /\ Live(ValueOf(u), DOMAIN closures)
<1>1. PICK w : w = upvalues[u]
  OBVIOUS
<1>2. UpvalueOK(w, DOMAIN closures) /\ w \in Upvalue
  BY <1>1 DEF MachineIInv, UpvaluesOK, UpvalueOK
<1>3. CASE w.open
  <2>1. w.stack_index \in 1 .. Len(stack_) /\ ValueOf(u) = stack_[w.stack_index]
    BY <1>1, <1>2, <1>3 DEF UpvalueOK, Upvalue, InRange, ValueOf
  <2>. QED
    BY <2>1 DEF MachineIInv, StackOK
<1>4. CASE ~w.open
  BY <1>1, <1>2, <1>4 DEF UpvalueOK, Upvalue, ValueOf
<1>. QED
  BY <1>3, <1>4

LEMMA ClosingType ==
  ASSUME MachineIInv, NEW us, \A u \in us \cap DOMAIN upvalues : InRange(u)
  PROVE  LET ws == Closing(us)
         IN  /\ DOMAIN ws = DOMAIN upvalues
             /\ \A u \in DOMAIN upvalues :
                  /\ UpvalueOK(ws[u], DOMAIN closures)
                  /\ ws[u].var = upvalues[u].var
                  /\ u \in us => ~ws[u].open /\ ws[u].value = ValueOf(u)
                  /\ u \notin us => ws[u] = upvalues[u]
<1>1. PICK ws : ws = Closing(us)
  OBVIOUS
<1>2. /\ DOMAIN ws = DOMAIN upvalues
      /\ \A u \in DOMAIN upvalues :
           ws[u] = IF u \in us
                   THEN [upvalues[u] EXCEPT !.open = FALSE, !.stack_index = 0, !.value = ValueOf(u)]
                   ELSE upvalues[u]
  BY <1>1 DEF Closing
<1>3. ASSUME NEW u \in DOMAIN upvalues
      PROVE  /\ UpvalueOK(ws[u], DOMAIN closures)
             /\ ws[u].var = upvalues[u].var
             /\ u \in us => ~ws[u].open /\ ws[u].value = ValueOf(u)
             /\ u \notin us => ws[u] = upvalues[u]
  <2>1. PICK w, v : w = upvalues[u] /\ v = ValueOf(u)
    OBVIOUS
  <2>2. UpvalueOK(w, DOMAIN closures) /\ w \in Upvalue
    BY <2>1 DEF MachineIInv, UpvaluesOK, UpvalueOK
  <2>3. CASE u \notin us
    BY <1>2, <2>1, <2>2, <2>3
  <2>4. CASE u \in us
    <3>1. v \in Value /\ Live(v, DOMAIN closures)
      BY <2>1, <2>4, ValueFacts
    <3>2. ws[u] = [w EXCEPT !.open = FALSE, !.stack_index = 0, !.value = v]
      BY <1>2, <2>1, <2>4
    <3>3. 0 \in 0 .. MaxStack
      BY ClosuresAssumption
    <3>. QED
      BY <2>1, <2>2, <2>4, <3>1, <3>2, <3>3 DEF UpvalueOK, Upvalue
  <2>. QED
    BY <2>3, <2>4
<1>. QED
  BY <1>1, <1>2, <1>3

-----------------------------------------------------------------------------
(* Scripts and the ends of them *)

LEMMA CrashKeeps ==
  ASSUME MachineIInv, NEW e \in Exceptions, Crash(e)
  PROVE  MachineIInv'
<1>1. /\ UNCHANGED <<stack_, globals_, closures, upvalues, scripts, errors>>
      /\ crashed' = e /\ call_frames_' = <<>>
  BY DEF Crash
<1>2. UpvaluesOK' /\ ClosuresOK' /\ GlobalsOK'
  BY <1>1, SameObjects, SameGlobals
<1>3. FramesOK'
  BY <1>1, NoFrames
<1>4. StackOK' /\ CountersOK'
  BY <1>1 DEF MachineIInv, StackOK, CountersOK
<1>. QED
  BY <1>2, <1>3, <1>4 DEF MachineIInv

LEMMA EndScriptKeeps ==
  ASSUME MachineIInv, EndScript
  PROVE  MachineIInv'
<1>1. /\ UNCHANGED <<stack_, globals_, closures, upvalues, crashed, scripts, errors>>
      /\ call_frames_' = <<>>
  BY DEF EndScript
<1>2. FramesOK' /\ StackOK' /\ NoObjectChanges
  BY <1>1, NoFrames DEF MachineIInv, StackOK, NoObjectChanges
<1>. QED
  BY <1>2, OperandsKeep

LEMMA RenamedKeeps ==
  ASSUME MachineIInv, NEW slots, NEW us, NEW ds,
         DOMAIN us = DOMAIN upvalues, DOMAIN ds = DOMAIN closures,
         \A u \in DOMAIN upvalues : UpvalueOK(us[u], DOMAIN closures),
         \A c \in DOMAIN closures : ClosureOK(ds[c], DOMAIN upvalues),
         upvalues' = RenamedUpvalues(slots, us), closures' = RenamedClosures(slots, ds)
  PROVE  /\ UpvaluesOK' /\ ClosuresOK'
         /\ DOMAIN closures' = DOMAIN closures /\ DOMAIN upvalues' = DOMAIN upvalues
<1>1. /\ DOMAIN upvalues' = DOMAIN upvalues
      /\ \A u \in DOMAIN upvalues : UpvalueOK(upvalues'[u], DOMAIN closures)
  BY RenamedUpvaluesType
<1>2. /\ DOMAIN closures' = DOMAIN closures
      /\ \A c \in DOMAIN closures : ClosureOK(closures'[c], DOMAIN upvalues)
  <2>1. PICK es : es = RenamedClosures(slots, ds)
    OBVIOUS
  <2>2. DOMAIN es = DOMAIN ds /\ \A c \in DOMAIN ds : ClosureOK(es[c], DOMAIN upvalues)
    BY <2>1, RenamedClosuresType
  <2>. QED
    BY <2>1, <2>2
<1>. QED
  BY <1>1, <1>2 DEF MachineIInv, UpvaluesOK, ClosuresOK

LEMMA RuntimeErrorKeeps ==
  ASSUME MachineIInv, RuntimeError
  PROVE  MachineIInv'
<1>1. /\ errors < MaxErrors /\ errors' = errors + 1 /\ call_frames_' = <<>>
      /\ UNCHANGED <<stack_, globals_, crashed, scripts>>
      /\ upvalues' = RenamedUpvalues(InScope, upvalues)
      /\ closures' = RenamedClosures(InScope, closures)
  BY DEF RuntimeError
<1>2. /\ \A u \in DOMAIN upvalues : UpvalueOK(upvalues[u], DOMAIN closures)
      /\ \A c \in DOMAIN closures : ClosureOK(closures[c], DOMAIN upvalues)
  BY DEF MachineIInv, UpvaluesOK, ClosuresOK
<1>3. UpvaluesOK' /\ ClosuresOK' /\ DOMAIN closures' = DOMAIN closures
  BY <1>1, <1>2, RenamedKeeps
<1>4. GlobalsOK' /\ FramesOK'
  BY <1>1, <1>3, SameGlobals, NoFrames
<1>5. StackOK'
  BY <1>1, <1>3 DEF MachineIInv, StackOK
<1>6. CountersOK'
  BY <1>1, ClosuresAssumption DEF MachineIInv, CountersOK
<1>. QED
  BY <1>3, <1>4, <1>5, <1>6 DEF MachineIInv

LEMMA FreeAddress ==
  ASSUME MachineIInv, DOMAIN closures # 1 .. NClosures
  PROVE  NewClosure \in (1 .. NClosures) \ DOMAIN closures
<1>1. (1 .. NClosures) \ DOMAIN closures # {}
  BY DEF MachineIInv, ClosuresOK
<1>2. (1 .. NClosures) \ DOMAIN closures \in SUBSET Nat
  BY ClosuresAssumption
<1>. QED
  BY <1>1, <1>2, MinFacts DEF NewClosure

LEMMA RunScriptKeeps ==
  ASSUME MachineIInv, RunScript
  PROVE  MachineIInv'
<1>1. /\ call_frames_ = <<>> /\ scripts < MaxScripts /\ scripts' = scripts + 1
      /\ DOMAIN closures # 1 .. NClosures
      /\ UNCHANGED <<stack_, globals_, upvalues, crashed, errors>>
  BY DEF RunScript
<1>2. PICK c, d, f :
        /\ c = NewClosure
        /\ d = [arity |-> 0, anonymous |-> FALSE, upvalues |-> <<>>, open_upvalues |-> <<>>,
                vars |-> <<>>]
        /\ f = [closure |-> c, begin |-> 1, base |-> Len(stack_) + 1,
                fixed |-> 0, locals |-> <<>>, temps |-> 0]
  OBVIOUS
<1>3. closures' = With(closures, c, d) /\ call_frames_' = <<f>>
  BY <1>2 DEF RunScript
<1>4. c \in 1 .. NClosures /\ c \notin DOMAIN closures
  BY <1>1, <1>2, FreeAddress
<1>5. /\ DOMAIN closures' = DOMAIN closures \cup {c} /\ closures'[c] = d
      /\ \A x \in DOMAIN closures : closures'[x] = closures[x]
  BY <1>3, <1>4 DEF With
<1>6. ClosureOK(d, DOMAIN upvalues)
  BY <1>2 DEF ClosureOK, Closure
<1>7. ClosuresOK'
  BY <1>1, <1>4, <1>5, <1>6 DEF MachineIInv, ClosuresOK
<1>8. Len(stack_) \in Nat
  BY DEF MachineIInv, StackOK
<1>9. /\ f \in Frame /\ f.closure = c /\ f.begin = 1 /\ f.base = Len(stack_) + 1
      /\ Len(f.locals) = 0 /\ f.temps = 0
  BY <1>2, <1>4, <1>8 DEF Frame
<1>10. FramesOK'
  <2>1. FrameOK(f, DOMAIN closures')
    BY <1>5, <1>8, <1>9 DEF FrameOK
  <2>2. Len(stack_) + 1 = Above(f)
    BY <1>8, <1>9 DEF Above
  <2>3. call_frames_' \in Seq(Frame) /\ Len(call_frames_') = 1 /\ call_frames_'[1] = f
    BY <1>3, <1>9
  <2>4. 1 <= MaxFrames
    BY ClosuresAssumption
  <2>5. Top' = f
    BY <2>3 DEF Top
  <2>. QED
    BY <1>1, <2>1, <2>2, <2>3, <2>4, <2>5 DEF FramesOK
<1>11. StackOK' /\ UpvaluesOK'
  BY <1>1, <1>5 DEF MachineIInv, StackOK, UpvaluesOK, UpvalueOK, Live
<1>12. GlobalsOK'
  BY <1>1, <1>5, SameGlobals
<1>13. CountersOK'
  BY <1>1, ClosuresAssumption DEF MachineIInv, CountersOK
<1>. QED
  BY <1>7, <1>10, <1>11, <1>12, <1>13 DEF MachineIInv

-----------------------------------------------------------------------------
(* Instructions on upvalues *)

LEMMA RunningClosure ==
  ASSUME MachineIInv, Running
  PROVE  /\ Captured \in Seq(1 .. NUpvalues) /\ Open \in Seq(1 .. NUpvalues)
         /\ closures[Top.closure].vars \in Seq(Var) /\ Len(closures[Top.closure].vars) = Len(Captured)
         /\ \A k \in 1 .. Len(Captured) : Captured[k] \in DOMAIN upvalues
         /\ \A k \in 1 .. Len(Open) : Open[k] \in DOMAIN upvalues
         /\ Open = closures[Top.closure].open_upvalues /\ ToSet(Open) \subseteq DOMAIN upvalues
<1>1. PICK d : d = closures[Top.closure]
  OBVIOUS
<1>2. ClosureOK(d, DOMAIN upvalues)
  BY <1>1, TopFacts DEF MachineIInv, ClosuresOK
<1>3. Captured = d.upvalues /\ Open = d.open_upvalues
  BY <1>1 DEF Captured, Open
<1>4. d.open_upvalues \in Seq(1 .. NUpvalues)
  BY <1>2 DEF ClosureOK, Closure
<1>5. ToSet(d.open_upvalues) \subseteq DOMAIN upvalues
  BY <1>2, <1>4, ToSetFacts DEF ClosureOK
<1>. QED
  BY <1>1, <1>2, <1>3, <1>5 DEF ClosureOK, Closure

LEMMA GetUpvalueKeeps ==
  ASSUME MachineIInv, NEW k, GetUpvalue(k)
  PROVE  MachineIInv'
<1>1. PICK u : u = Captured[k]
  OBVIOUS
<1>2. /\ Running /\ k \in DOMAIN Captured
      /\ \/ ~InRange(u) /\ Crash("out_of_range")
         \/ /\ InRange(u) /\ Push(ValueOf(u))
            /\ call_frames_' = WithTop(Pushed) /\ NoObjectChanges
  BY <1>1 DEF GetUpvalue
<1>3. u \in DOMAIN upvalues
  BY <1>1, <1>2, RunningClosure
<1>4. ASSUME Crash("out_of_range")
      PROVE  MachineIInv'
  BY <1>4, CrashKeeps DEF Exceptions
<1>5. ASSUME InRange(u), Push(ValueOf(u)), call_frames_' = WithTop(Pushed), NoObjectChanges
      PROVE  MachineIInv'
  BY <1>2, <1>3, <1>5, ValueFacts, PushKeeps
<1>. QED
  BY <1>2, <1>4, <1>5

LEMMA UpvalueSet ==
  ASSUME MachineIInv, NEW u \in DOMAIN upvalues, ~upvalues[u].open,
         NEW v \in Value, Live(v, DOMAIN closures),
         upvalues' = [upvalues EXCEPT ![u].value = v], UNCHANGED closures
  PROVE  /\ UpvaluesOK' /\ DOMAIN upvalues' = DOMAIN upvalues
         /\ \A w \in DOMAIN upvalues :
              /\ upvalues'[w].open = upvalues[w].open
              /\ upvalues'[w].stack_index = upvalues[w].stack_index
              /\ upvalues'[w].var = upvalues[w].var
              /\ w # u => upvalues'[w] = upvalues[w]
<1>1. /\ DOMAIN upvalues' = DOMAIN upvalues
      /\ \A w \in DOMAIN upvalues :
           upvalues'[w] = IF w = u THEN [upvalues[w] EXCEPT !.value = v] ELSE upvalues[w]
  OBVIOUS
<1>2. ASSUME NEW w \in DOMAIN upvalues
      PROVE  /\ UpvalueOK(upvalues'[w], DOMAIN closures)
             /\ upvalues'[w].open = upvalues[w].open
             /\ upvalues'[w].stack_index = upvalues[w].stack_index
             /\ upvalues'[w].var = upvalues[w].var
             /\ w # u => upvalues'[w] = upvalues[w]
  <2>1. PICK x : x = upvalues[w]
    OBVIOUS
  <2>2. UpvalueOK(x, DOMAIN closures) /\ x \in Upvalue
    BY <2>1 DEF MachineIInv, UpvaluesOK, UpvalueOK
  <2>3. CASE w = u
    <3>1. upvalues'[w] = [x EXCEPT !.value = v]
      BY <1>1, <2>1, <2>3
    <3>. QED
      BY <2>1, <2>2, <2>3, <3>1 DEF UpvalueOK, Upvalue
  <2>4. CASE w # u
    BY <1>1, <2>1, <2>2, <2>4
  <2>. QED
    BY <2>3, <2>4
<1>. QED
  BY <1>1, <1>2 DEF MachineIInv, UpvaluesOK

LEMMA SetUpvalueKeeps ==
  ASSUME MachineIInv, NEW k, SetUpvalue(k)
  PROVE  MachineIInv'
<1>1. PICK u, v : u = Captured[k] /\ v = Last(stack_)
  OBVIOUS
<1>2. /\ Running /\ k \in DOMAIN Captured /\ Top.temps > 0
      /\ \/ ~InRange(u) /\ Crash("out_of_range")
         \/ /\ InRange(u)
            /\ IF upvalues[u].open
               THEN /\ stack_' = [stack_ EXCEPT ![upvalues[u].stack_index] = v]
                    /\ UNCHANGED upvalues
               ELSE /\ upvalues' = [upvalues EXCEPT ![u].value = v]
                    /\ UNCHANGED stack_
            /\ UNCHANGED <<call_frames_, globals_, closures, crashed, scripts, errors>>
  BY <1>1 DEF SetUpvalue
<1>3. u \in DOMAIN upvalues /\ v \in Value /\ Live(v, DOMAIN closures)
  BY <1>1, <1>2, RunningClosure, LastOperand
<1>4. ASSUME Crash("out_of_range")
      PROVE  MachineIInv'
  BY <1>4, CrashKeeps DEF Exceptions
<1>5. ASSUME InRange(u), UNCHANGED <<call_frames_, globals_, closures, crashed, scripts, errors>>,
             upvalues[u].open, UNCHANGED upvalues,
             stack_' = [stack_ EXCEPT ![upvalues[u].stack_index] = v]
      PROVE  MachineIInv'
  <2>1. PICK j : j = upvalues[u].stack_index
    OBVIOUS
  <2>2. j \in 1 .. Len(stack_)
    BY <1>3, <1>5, <2>1 DEF MachineIInv, UpvaluesOK, UpvalueOK, Upvalue, InRange
  <2>3. StackOK' /\ Len(stack_') = Len(stack_)
    BY <1>3, <1>5, <2>1, <2>2, StackSet
  <2>4. FramesOK'
    BY <1>5, <2>3, LiveFrames, SameFrames
  <2>. QED
    BY <1>5, <2>3, <2>4, OperandsKeep DEF NoObjectChanges
<1>6. ASSUME UNCHANGED <<call_frames_, globals_, closures, crashed, scripts, errors>>,
             ~upvalues[u].open, upvalues' = [upvalues EXCEPT ![u].value = v], UNCHANGED stack_
      PROVE  MachineIInv'
  <2>1. UpvaluesOK' /\ DOMAIN upvalues' = DOMAIN upvalues
    BY <1>3, <1>6, UpvalueSet
  <2>2. FramesOK' /\ StackOK' /\ GlobalsOK'
    BY <1>6, LiveFrames, SameFrames, SameGlobals DEF MachineIInv, StackOK
  <2>3. ClosuresOK' /\ CountersOK'
    BY <1>6, <2>1 DEF MachineIInv, ClosuresOK, CountersOK
  <2>. QED
    BY <2>1, <2>2, <2>3 DEF MachineIInv
<1>. QED
  BY <1>2, <1>4, <1>5, <1>6

-----------------------------------------------------------------------------
(* Ends of blocks *)

LEMMA EndLocalKeeps ==
  ASSUME MachineIInv, EndLocal, NEW us, NEW ds,
         DOMAIN us = DOMAIN upvalues, DOMAIN ds = DOMAIN closures,
         \A u \in DOMAIN upvalues : UpvalueOK(us[u], DOMAIN closures),
         \A c \in DOMAIN closures : ClosureOK(ds[c], DOMAIN upvalues),
         upvalues' = RenamedUpvalues(Ending, us), closures' = RenamedClosures(Ending, ds)
  PROVE  MachineIInv'
<1>1. /\ Running /\ Top.temps = 0 /\ Len(Top.locals) > Top.fixed
      /\ stack_' = Front(stack_)
      /\ call_frames_' = WithTop([Top EXCEPT !.locals = Front(@)])
      /\ UNCHANGED <<globals_, crashed, scripts, errors>>
  BY DEF EndLocal, AtStatement
<1>2. UpvaluesOK' /\ ClosuresOK' /\ DOMAIN closures' = DOMAIN closures
  BY RenamedKeeps
<1>3. Top.fixed \in Nat /\ Top.locals \in Seq(BOOLEAN) /\ Top.base \in Nat /\ Top.base >= 1
      /\ Len(Top.locals) \in Nat /\ Len(stack_) \in Nat /\ stack_ \in Seq(Value)
      /\ Len(stack_) + 1 = Top.base + Len(Top.locals) + Top.temps
  BY <1>1, TopFacts
<1>4. Len(Top.locals) > 0 /\ Len(stack_) > 0
  BY <1>1, <1>3
<1>5. stack_ # <<>> /\ Top.locals # <<>>
  BY <1>3, <1>4
<1>6. StackOK' /\ Len(stack_') = Len(stack_) - 1
  BY <1>1, <1>2, <1>5, StackPopped
<1>7. PICK l : l = Front(Top.locals)
  OBVIOUS
<1>8. l \in Seq(BOOLEAN) /\ Len(l) = Len(Top.locals) - 1
  BY <1>3, <1>5, <1>7, FrontLast
<1>9. PICK g : g = [Top EXCEPT !.locals = l]
  OBVIOUS
<1>10. g \in Frame /\ g.closure = Top.closure /\ g.begin = Top.begin /\ g.base = Top.base
       /\ g.locals = l /\ g.temps = Top.temps
  BY <1>1, <1>8, <1>9, TopFacts DEF Frame
<1>11. Len(stack_') + 1 = Above(g)
  <2>1. Above(g) = Top.base + Len(l) + Top.temps
    BY <1>10 DEF Above
  <2>. QED
    BY SMTT(40), <1>1, <1>3, <1>6, <1>8, <2>1
<1>12. \A n \in 1 .. Len(call_frames_) : call_frames_[n].closure \in DOMAIN closures'
  BY <1>2, LiveFrames
<1>13. call_frames_' = WithTop(g)
  BY <1>1, <1>7, <1>9
<1>14. FramesOK'
  BY <1>1, <1>10, <1>11, <1>12, <1>13, TopReplaced
<1>15. GlobalsOK' /\ CountersOK'
  BY <1>1, <1>2, SameGlobals DEF MachineIInv, CountersOK
<1>. QED
  BY <1>2, <1>6, <1>14, <1>15 DEF MachineIInv

LEMMA ObjectFacts ==
  ASSUME MachineIInv
  PROVE  /\ \A u \in DOMAIN upvalues : UpvalueOK(upvalues[u], DOMAIN closures)
         /\ \A c \in DOMAIN closures : ClosureOK(closures[c], DOMAIN upvalues)
BY DEF MachineIInv, UpvaluesOK, ClosuresOK

LEMMA PopLocalKeeps ==
  ASSUME MachineIInv, PopLocal
  PROVE  MachineIInv'
BY ObjectFacts, EndLocalKeeps DEF PopLocal

LEMMA OpenListSet ==
  ASSUME MachineIInv, NEW a \in DOMAIN closures, NEW s \in Seq(1 .. NUpvalues), NEW us,
         DOMAIN upvalues \subseteq us, \A i \in 1 .. Len(s) : s[i] \in us
  PROVE  LET ds == [closures EXCEPT ![a].open_upvalues = s]
         IN  /\ DOMAIN ds = DOMAIN closures
             /\ \A c \in DOMAIN closures :
                  /\ ClosureOK(ds[c], us)
                  /\ ds[c].upvalues = closures[c].upvalues /\ ds[c].vars = closures[c].vars
                  /\ ds[c].arity = closures[c].arity /\ ds[c].anonymous = closures[c].anonymous
                  /\ ds[c].open_upvalues = IF c = a THEN s ELSE closures[c].open_upvalues
<1>1. PICK ds : ds = [closures EXCEPT ![a].open_upvalues = s]
  OBVIOUS
<1>2. /\ DOMAIN ds = DOMAIN closures
      /\ \A c \in DOMAIN closures :
           ds[c] = IF c = a THEN [closures[c] EXCEPT !.open_upvalues = s] ELSE closures[c]
  BY <1>1
<1>3. ASSUME NEW c \in DOMAIN closures
      PROVE  /\ ClosureOK(ds[c], us)
             /\ ds[c].upvalues = closures[c].upvalues /\ ds[c].vars = closures[c].vars
             /\ ds[c].arity = closures[c].arity /\ ds[c].anonymous = closures[c].anonymous
             /\ ds[c].open_upvalues = IF c = a THEN s ELSE closures[c].open_upvalues
  <2>1. PICK d : d = closures[c]
    OBVIOUS
  <2>2. ClosureOK(d, DOMAIN upvalues) /\ d \in Closure
    BY <2>1, ObjectFacts DEF ClosureOK
  <2>3. ClosureOK(d, us)
    BY <2>2 DEF ClosureOK
  <2>4. CASE c = a
    <3>1. ds[c] = [d EXCEPT !.open_upvalues = s]
      BY <1>2, <2>1, <2>4
    <3>2. /\ ds[c] \in Closure /\ ds[c].open_upvalues = s
          /\ ds[c].upvalues = d.upvalues /\ ds[c].vars = d.vars
          /\ ds[c].arity = d.arity /\ ds[c].anonymous = d.anonymous
      BY <2>2, <3>1 DEF Closure
    <3>3. ClosureOK(ds[c], us)
      BY <2>3, <3>2 DEF ClosureOK
    <3>. QED
      BY <2>1, <2>4, <3>2, <3>3
  <2>5. CASE c # a
    BY <1>2, <2>1, <2>3, <2>5
  <2>. QED
    BY <2>4, <2>5
<1>. QED
  BY <1>1, <1>2, <1>3

LEMMA CloseUpvalueKeeps ==
  ASSUME MachineIInv, CloseUpvalue
  PROVE  MachineIInv'
<1> DEFINE openToo == Open # <<>> => upvalues[Last(Open)].open
           closing == IF Open # <<>> /\ openToo /\ upvalues[Last(Open)].stack_index = Len(stack_)
                      THEN {Last(Open)} ELSE {}
           list == IF closing = {} THEN Open ELSE Front(Open)
<1>1. Running
  BY DEF CloseUpvalue
<1>2. ASSUME Crash("bad_variant_access")
      PROVE  MachineIInv'
  BY <1>2, CrashKeeps DEF Exceptions
<1>3. ASSUME EndLocal, upvalues' = RenamedUpvalues(Ending, Closing(closing)),
             closures' = RenamedClosures(Ending, [closures EXCEPT ![Top.closure].open_upvalues = list])
      PROVE  MachineIInv'
  <2>1. /\ Open \in Seq(1 .. NUpvalues) /\ Top.closure \in DOMAIN closures
        /\ \A k \in 1 .. Len(Open) : Open[k] \in DOMAIN upvalues
    BY <1>1, RunningClosure, TopFacts
  <2>2. closing = {} \/ Open # <<>>
    OBVIOUS
  <2>3. list \in Seq(1 .. NUpvalues) /\ \A i \in 1 .. Len(list) : list[i] \in DOMAIN upvalues
    <3>1. CASE closing = {}
      BY <2>1, <3>1
    <3>2. CASE closing # {}
      <4>1. /\ Front(Open) \in Seq(1 .. NUpvalues) /\ Len(Front(Open)) = Len(Open) - 1
            /\ \A i \in 1 .. Len(Open) - 1 : Front(Open)[i] = Open[i]
            /\ Len(Open) \in Nat
        BY <2>1, <2>2, <3>2, FrontLast
      <4>. QED
        BY <2>1, <3>2, <4>1
    <3>. QED
      BY <3>1, <3>2
  <2>4. \A u \in closing \cap DOMAIN upvalues : InRange(u)
    BY <1>1, TopFacts DEF InRange
  <2>. HIDE DEF closing, list
  <2>5. PICK us, ds : us = Closing(closing) /\ ds = [closures EXCEPT ![Top.closure].open_upvalues = list]
    OBVIOUS
  <2>6. DOMAIN us = DOMAIN upvalues /\ \A u \in DOMAIN upvalues : UpvalueOK(us[u], DOMAIN closures)
    BY <2>4, <2>5, ClosingType
  <2>7. DOMAIN ds = DOMAIN closures /\ \A c \in DOMAIN closures : ClosureOK(ds[c], DOMAIN upvalues)
    BY <2>1, <2>3, <2>5, OpenListSet
  <2>. QED
    BY <1>3, <2>5, <2>6, <2>7, EndLocalKeeps
<1>4. \/ Crash("bad_variant_access")
      \/ /\ EndLocal /\ upvalues' = RenamedUpvalues(Ending, Closing(closing))
         /\ closures' = RenamedClosures(Ending,
              [closures EXCEPT ![Top.closure].open_upvalues = IF closing = {} THEN @ ELSE Front(@)])
  BY DEF CloseUpvalue
<1>5. [closures EXCEPT ![Top.closure].open_upvalues = IF closing = {} THEN @ ELSE Front(@)]
      = [closures EXCEPT ![Top.closure].open_upvalues = list]
  <2>. HIDE DEF closing
  <2>. QED
    BY DEF Open
<1>. HIDE DEF closing, list
<1>. QED
  BY <1>2, <1>3, <1>4, <1>5

-----------------------------------------------------------------------------
(* Calls and returns *)

LEMMA CallKeeps ==
  ASSUME MachineIInv, NEW n \in Arities, Call(n)
  PROVE  MachineIInv'
<1>1. PICK b, c, t : /\ b = Len(stack_) - n /\ c = stack_[b]
                     /\ t = IF closures[c].anonymous THEN n ELSE n + 1
  OBVIOUS
<1>2. PICK g, f : /\ g = [Top EXCEPT !.temps = @ - (n + 1)]
                  /\ f = [closure |-> c, begin |-> b, base |-> Len(stack_) - t + 1, fixed |-> t,
                          locals |-> [i \in 1 .. t |-> FALSE], temps |-> 0]
  OBVIOUS
<1>3. /\ Running /\ Top.temps > n /\ c # Plain /\ Len(call_frames_) < MaxFrames
      /\ call_frames_' = Append(WithTop(g), f)
      /\ UNCHANGED stack_ /\ NoObjectChanges
  BY <1>1, <1>2 DEF Call
<1>4. n \in 0 .. 1
  BY ClosuresAssumption
<1>5. /\ Top.begin \in Nat /\ Top.base \in Nat /\ Top.temps \in Nat /\ Len(Top.locals) \in Nat
      /\ Len(stack_) \in Nat /\ Top.base >= 1 /\ Top.begin >= 1 /\ Top.base >= Top.begin
      /\ Len(stack_) + 1 = Top.base + Len(Top.locals) + Top.temps
  BY <1>3, TopFacts
<1>6. b \in 1 .. Len(stack_) /\ b >= Top.base /\ t \in n .. n + 1 /\ t \in Nat
  <2>1. PICK h, k, m, e : h = Len(stack_) /\ k = Top.temps /\ m = Len(Top.locals) /\ e = Top.base
    OBVIOUS
  <2>2. {h, k, m, e, n} \subseteq Nat /\ e >= 1 /\ k > n /\ h + 1 = e + m + k
    <3>1. n \in Nat
      BY <1>4
    <3>. QED
      BY <1>3, <1>5, <2>1, <3>1
  <2>3. h - n \in 1 .. h /\ h - n >= e
    BY <2>2
  <2>. QED
    BY <1>1, <1>4, <2>1, <2>2, <2>3
<1>7. c \in DOMAIN closures /\ c \in 1 .. NClosures
  <2>1. Live(c, DOMAIN closures)
    BY <1>1, <1>6 DEF MachineIInv, StackOK
  <2>. QED
    BY <1>3, <2>1 DEF Live, MachineIInv, ClosuresOK
<1>8. /\ g \in Frame /\ g.closure = Top.closure /\ g.begin = Top.begin /\ g.base = Top.base
      /\ g.locals = Top.locals /\ g.temps = Top.temps - (n + 1) /\ g.temps \in Nat
  <2>1. Top.temps - (n + 1) \in Nat
    BY <1>3, <1>4, <1>5
  <2>. QED
    BY <1>2, <1>3, <2>1, TopFacts DEF Frame
<1>9. /\ f \in Frame /\ f.closure = c /\ f.begin = b /\ f.base = Len(stack_) - t + 1
      /\ Len(f.locals) = t /\ f.temps = 0
  <2>1. [i \in 1 .. t |-> FALSE] \in Seq(BOOLEAN) /\ Len([i \in 1 .. t |-> FALSE]) = t
    <3>1. t \in Nat
      BY <1>6
    <3>2. [i \in 1 .. t |-> FALSE] \in [1 .. t -> BOOLEAN]
      OBVIOUS
    <3>. QED
      BY <3>1, <3>2
  <2>2. Len(stack_) - t + 1 \in Nat /\ b \in Nat
    <3>1. PICK h : h = Len(stack_)
      OBVIOUS
    <3>2. h \in Nat /\ t \in Nat /\ n \in Nat /\ b \in 1 .. h /\ b = h - n /\ t <= n + 1
      BY <1>1, <1>4, <1>5, <1>6, <3>1
    <3>3. h - t + 1 \in Nat
      BY <3>2
    <3>. QED
      BY <3>1, <3>2, <3>3
  <2>. QED
    BY <1>2, <1>6, <1>7, <2>1, <2>2 DEF Frame
<1>10. PICK m \in Nat \ {0} : m = Len(call_frames_)
  BY <1>3, TopFacts
<1>11. /\ call_frames_ \in Seq(Frame) /\ Top = call_frames_[m]
  BY <1>3, <1>10, TopFacts DEF MachineIInv, FramesOK
<1>12. PICK ws : ws = WithTop(g)
  OBVIOUS
<1>13. /\ ws \in Seq(Frame) /\ Len(ws) = m
       /\ \A i \in 1 .. m : ws[i] = IF i = m THEN g ELSE call_frames_[i]
  BY <1>8, <1>10, <1>11, <1>12 DEF WithTop
<1>14. /\ call_frames_' \in Seq(Frame) /\ Len(call_frames_') = m + 1
       /\ \A i \in 1 .. m : call_frames_'[i] = ws[i]
       /\ call_frames_'[m + 1] = f
  BY <1>3, <1>9, <1>12, <1>13
<1>15. DOMAIN closures' = DOMAIN closures
  BY <1>3 DEF NoObjectChanges
<1>16. FrameOK(f, DOMAIN closures) /\ FrameOK(g, DOMAIN closures)
  <2>1. b >= 1 /\ Len(stack_) - t + 1 >= b /\ b \in Nat
    BY <1>1, <1>4, <1>5, <1>6
  <2>2. FrameOK(Top, DOMAIN closures)
    BY <1>3, TopFacts
  <2>. QED
    BY <1>7, <1>8, <1>9, <2>1, <2>2 DEF FrameOK
<1>17. Above(g) = b /\ Above(f) = Len(stack_) + 1
  <2>1. Above(g) = Top.base + Len(Top.locals) + (Top.temps - (n + 1))
    BY <1>8 DEF Above
  <2>2. Above(f) = (Len(stack_) - t + 1) + t + 0
    BY <1>9 DEF Above
  <2>3. PICK h, k, l, e : h = Len(stack_) /\ k = Top.temps /\ l = Len(Top.locals) /\ e = Top.base
    OBVIOUS
  <2>4. n \in Nat /\ t \in Nat
    BY <1>4, <1>6
  <2>5. {h, k, l, e, n, t} \subseteq Nat /\ h + 1 = e + l + k /\ b = h - n
    BY <1>1, <1>5, <2>3, <2>4
  <2>6. e + l + (k - (n + 1)) = h - n /\ (h - t + 1) + t + 0 = h + 1
    BY <2>5
  <2>. QED
    BY <2>1, <2>2, <2>3, <2>5, <2>6
<1>18. FramesOK'
  <2>1. \A i \in 1 .. m + 1 : FrameOK(call_frames_'[i], DOMAIN closures)
    <3>1. \A i \in 1 .. m : FrameOK(call_frames_[i], DOMAIN closures)
      BY <1>10 DEF MachineIInv, FramesOK
    <3>. QED
      BY <1>10, <1>13, <1>14, <1>16, <3>1
  <2>2. \A i \in 1 .. m : call_frames_'[i + 1].begin = Above(call_frames_'[i])
    <3>1. ASSUME NEW i \in 1 .. m, i # m
          PROVE  call_frames_'[i + 1].begin = Above(call_frames_'[i])
      <4>1. call_frames_[i + 1].begin = Above(call_frames_[i])
        BY <1>10, <3>1 DEF MachineIInv, FramesOK
      <4>2. call_frames_'[i] = call_frames_[i] /\ call_frames_'[i + 1].begin = call_frames_[i + 1].begin
        BY <1>8, <1>10, <1>11, <1>13, <1>14, <3>1
      <4>. QED
        BY <4>1, <4>2
    <3>2. call_frames_'[m + 1].begin = Above(call_frames_'[m])
      BY <1>9, <1>10, <1>13, <1>14, <1>17
    <3>. QED
      BY <3>1, <3>2
  <2>3. Top' = f
    BY <1>14 DEF Top
  <2>4. m + 1 <= MaxFrames
    BY <1>3, <1>10, ClosuresAssumption
  <2>. QED
    BY <1>3, <1>10, <1>14, <1>15, <1>17, <2>1, <2>2, <2>3, <2>4 DEF FramesOK
<1>19. StackOK'
  BY <1>3, <1>15 DEF MachineIInv, StackOK
<1>. QED
  BY <1>3, <1>18, <1>19, OperandsKeep

(* The activation of the caller, which goes on. *)
LEMMA CallerFacts ==
  ASSUME MachineIInv, Running, Len(call_frames_) > 1
  PROVE  LET caller == call_frames_[Len(call_frames_) - 1]
         IN  /\ caller \in Frame /\ FrameOK(caller, DOMAIN closures)
             /\ Top.begin = caller.base + Len(caller.locals) + caller.temps
             /\ caller.base \in Nat /\ caller.temps \in Nat /\ Len(caller.locals) \in Nat
<1>1. PICK m \in Nat \ {0} : m = Len(call_frames_)
  BY TopFacts
<1>2. PICK f : f = call_frames_[m - 1]
  OBVIOUS
<1>3. m - 1 \in 1 .. m /\ m - 1 \in 1 .. m - 1
  BY <1>1
<1>4. f \in Frame /\ FrameOK(f, DOMAIN closures)
  BY <1>1, <1>2, <1>3 DEF MachineIInv, FramesOK, FrameOK
<1>5. call_frames_[m - 1 + 1].begin = Above(f)
  BY <1>1, <1>2, <1>3 DEF MachineIInv, FramesOK
<1>6. call_frames_[m - 1 + 1] = Top
  BY <1>1, TopFacts
<1>7. f.base \in Nat /\ f.temps \in Nat /\ Len(f.locals) \in Nat
  BY <1>4, FrameFields
<1>. QED
  BY <1>1, <1>2, <1>4, <1>5, <1>6, <1>7 DEF Above

LEMMA FramesReturned ==
  ASSUME MachineIInv, Running, Len(call_frames_) > 1, NEW g,
         g = [call_frames_[Len(call_frames_) - 1] EXCEPT !.temps = @ + 1],
         call_frames_' = [Front(call_frames_) EXCEPT ![Len(call_frames_) - 1] = g]
  PROVE  /\ call_frames_' \in Seq(Frame) /\ Len(call_frames_') = Len(call_frames_) - 1
         /\ \A n \in 1 .. Len(call_frames_) - 2 : call_frames_'[n] = call_frames_[n]
         /\ call_frames_'[Len(call_frames_) - 1] = g /\ Top' = g
         /\ g \in Frame
         /\ g.closure = call_frames_[Len(call_frames_) - 1].closure
         /\ g.begin = call_frames_[Len(call_frames_) - 1].begin
         /\ g.base = call_frames_[Len(call_frames_) - 1].base
         /\ g.locals = call_frames_[Len(call_frames_) - 1].locals
         /\ g.temps = call_frames_[Len(call_frames_) - 1].temps + 1
<1>1. PICK m \in Nat \ {0} : m = Len(call_frames_) - 1
  BY TopFacts
<1>2. PICK f : f = call_frames_[m]
  OBVIOUS
<1>3. f \in Frame /\ f.temps \in Nat
  BY <1>1, <1>2, CallerFacts
<1>4. /\ g \in Frame /\ g.closure = f.closure /\ g.begin = f.begin /\ g.base = f.base
      /\ g.locals = f.locals /\ g.temps = f.temps + 1
  BY <1>1, <1>2, <1>3 DEF Frame
<1>5. PICK s : s = Front(call_frames_)
  OBVIOUS
<1>6. s \in Seq(Frame) /\ Len(s) = m /\ \A n \in 1 .. m : s[n] = call_frames_[n]
  BY <1>1, <1>5, TopFacts, FrontLast DEF MachineIInv, FramesOK
<1>7. call_frames_' = [s EXCEPT ![m] = g]
  BY <1>1, <1>5
<1>8. /\ call_frames_' \in Seq(Frame) /\ Len(call_frames_') = m
      /\ \A n \in 1 .. m : call_frames_'[n] = IF n = m THEN g ELSE s[n]
  <2>1. m \in 1 .. Len(s)
    BY <1>6
  <2>. QED
    <3>1. s \in Seq(Frame) /\ g \in Frame
      BY <1>4, <1>6
    <3>2. /\ [s EXCEPT ![m] = g] \in Seq(Frame) /\ Len([s EXCEPT ![m] = g]) = Len(s)
          /\ \A i \in 1 .. Len(s) : [s EXCEPT ![m] = g][i] = IF i = m THEN g ELSE s[i]
      BY <2>1, <3>1, SetAt
    <3>. QED
      BY <1>6, <1>7, <3>2
<1>9. Top' = g
  BY <1>8 DEF Top
<1>10. \A n \in 1 .. m - 1 : call_frames_'[n] = call_frames_[n]
  <2>1. ASSUME NEW n \in 1 .. m - 1
        PROVE  call_frames_'[n] = call_frames_[n]
    <3>1. n \in 1 .. m /\ n # m
      OBVIOUS
    <3>. QED
      BY <1>6, <1>8, <3>1
  <2>. QED
    BY <2>1
<1>. QED
  BY <1>1, <1>2, <1>4, <1>8, <1>9, <1>10

LEMMA StackReturned ==
  ASSUME MachineIInv, Running, Len(call_frames_) > 1, Top.temps = 1,
         stack_' = Append(SubSeq(stack_, 1, Top.begin - 1), Last(stack_)),
         DOMAIN closures' = DOMAIN closures
  PROVE  /\ StackOK' /\ Len(stack_') = Top.begin /\ Top.begin \in 1 .. Len(stack_)
         /\ \A i \in 1 .. Top.begin - 1 : stack_'[i] = stack_[i]
<1>1. /\ Top.begin \in Nat /\ Top.begin >= 1 /\ Top.begin <= Len(stack_)
      /\ stack_ \in Seq(Value) /\ Len(stack_) \in Nat
  <2>1. /\ Top.begin \in Nat /\ Top.begin >= 1 /\ Top.base >= Top.begin /\ Top.base \in Nat
        /\ Len(Top.locals) \in Nat /\ Len(stack_) + 1 = Top.base + Len(Top.locals) + Top.temps
        /\ stack_ \in Seq(Value) /\ Len(stack_) \in Nat
    BY TopFacts
  <2>. QED
    BY <2>1
<1>2. PICK v : v = Last(stack_)
  OBVIOUS
<1>3. v \in Value /\ Live(v, DOMAIN closures)
  BY <1>2, LastOperand
<1>4. PICK h \in Nat : h = Top.begin - 1
  BY <1>1
<1>5. h \in 0 .. Len(stack_) /\ h < Len(stack_)
  BY <1>1, <1>4
<1>6. PICK s : s = SubSeq(stack_, 1, h)
  OBVIOUS
<1>7. s \in Seq(Value) /\ Len(s) = h /\ \A i \in 1 .. h : s[i] = stack_[i]
  BY <1>1, <1>5, <1>6
<1>8. /\ stack_' \in Seq(Value) /\ Len(stack_') = h + 1
      /\ \A i \in 1 .. h : stack_'[i] = stack_[i]
      /\ stack_'[h + 1] = v
  <2>1. stack_' = Append(s, v)
    BY <1>2, <1>4, <1>6
  <2>. QED
    <3>1. s \in Seq(Value) /\ v \in Value
      BY <1>3, <1>7
    <3>2. /\ Append(s, v) \in Seq(Value) /\ Len(Append(s, v)) = Len(s) + 1
          /\ \A i \in 1 .. Len(s) : Append(s, v)[i] = s[i]
          /\ Append(s, v)[Len(s) + 1] = v
      BY <3>1, AppendFacts
    <3>. QED
      BY <1>7, <2>1, <3>2
<1>9. \A i \in 1 .. h : Live(stack_'[i], DOMAIN closures)
  <2>1. \A i \in 1 .. h : i \in 1 .. Len(stack_)
    BY <1>1, <1>5
  <2>. QED
    BY <1>8, <2>1 DEF MachineIInv, StackOK
<1>10. \A i \in 1 .. h + 1 : Live(stack_'[i], DOMAIN closures)
  BY <1>3, <1>8, <1>9
<1>11. h + 1 <= MaxStack
  BY <1>1, <1>5, ClosuresAssumption DEF MachineIInv, StackOK
<1>12. StackOK'
  BY <1>8, <1>10, <1>11 DEF StackOK
<1>. QED
  BY <1>1, <1>4, <1>8, <1>12

LEMMA ReturnKeeps ==
  ASSUME MachineIInv, Return
  PROVE  MachineIInv'
<1>1. /\ Running /\ Len(call_frames_) > 1 /\ Top.temps = 1
      /\ \/ Crash("out_of_range")
         \/ /\ \A u \in ToSet(Open) : InRange(u)
            /\ LeaveActivation(Top.begin - 1, ToSet(Open))
  BY DEF Return
<1>2. ASSUME Crash("out_of_range")
      PROVE  MachineIInv'
  BY <1>2, CrashKeeps DEF Exceptions
<1>3. ASSUME \A u \in ToSet(Open) : InRange(u), LeaveActivation(Top.begin - 1, ToSet(Open))
      PROVE  MachineIInv'
  <2>0. Running /\ Len(call_frames_) > 1 /\ Top.temps = 1
    BY <1>1
  <2>1. PICK f, g : /\ f = call_frames_[Len(call_frames_) - 1]
                    /\ g = [call_frames_[Len(call_frames_) - 1] EXCEPT !.temps = @ + 1]
    OBVIOUS
  <2>2. /\ upvalues' = RenamedUpvalues(Locals(Top), Closing(ToSet(Open)))
        /\ closures' = RenamedClosures(Locals(Top), closures)
        /\ stack_' = Append(SubSeq(stack_, 1, Top.begin - 1), Last(stack_))
        /\ call_frames_' = [Front(call_frames_) EXCEPT ![Len(call_frames_) - 1] = g]
        /\ UNCHANGED <<globals_, crashed, scripts, errors>>
    BY <1>3, <2>1 DEF LeaveActivation
  <2>3. PICK us : us = Closing(ToSet(Open))
    OBVIOUS
  <2>4. DOMAIN us = DOMAIN upvalues /\ \A u \in DOMAIN upvalues : UpvalueOK(us[u], DOMAIN closures)
    BY <1>3, <2>3, ClosingType
  <2>5. UpvaluesOK' /\ ClosuresOK' /\ DOMAIN closures' = DOMAIN closures
    BY <2>2, <2>3, <2>4, ObjectFacts, RenamedKeeps
  <2>6. StackOK' /\ Len(stack_') = Top.begin
    BY <2>0, <2>2, <2>5, StackReturned
  <2>7. PICK m \in Nat \ {0} : m = Len(call_frames_) - 1
    BY <2>0, TopFacts
  <2>8. /\ call_frames_' \in Seq(Frame) /\ Len(call_frames_') = m
        /\ \A n \in 1 .. m - 1 : call_frames_'[n] = call_frames_[n]
        /\ call_frames_'[m] = g /\ Top' = g
        /\ g \in Frame /\ g.closure = f.closure /\ g.begin = f.begin /\ g.base = f.base
        /\ g.locals = f.locals /\ g.temps = f.temps + 1
    <3>1. \A n \in 1 .. m - 1 : n \in 1 .. Len(call_frames_) - 2
      BY <2>7
    <3>. QED
      BY <2>0, <2>1, <2>2, <2>7, <3>1, FramesReturned
  <2>9. /\ f = call_frames_[m] /\ f \in Frame /\ FrameOK(f, DOMAIN closures)
        /\ Top.begin = f.base + Len(f.locals) + f.temps
        /\ f.base \in Nat /\ f.temps \in Nat /\ Len(f.locals) \in Nat
    BY <2>0, <2>1, <2>7, CallerFacts
  <2>10. FramesOK'
    <3>1. \A n \in 1 .. m : FrameOK(call_frames_'[n], DOMAIN closures)
      <4>1. FrameOK(g, DOMAIN closures)
        BY <2>8, <2>9 DEF FrameOK
      <4>2. \A n \in 1 .. m - 1 : FrameOK(call_frames_[n], DOMAIN closures)
        BY <2>7 DEF MachineIInv, FramesOK
      <4>3. \A n \in 1 .. m : n = m \/ n \in 1 .. m - 1
        BY <2>7
      <4>. QED
        BY <2>8, <4>1, <4>2, <4>3
    <3>2. \A n \in 1 .. m - 1 : call_frames_'[n + 1].begin = Above(call_frames_'[n])
      <4>1. ASSUME NEW n \in 1 .. m - 1
            PROVE  call_frames_'[n + 1].begin = Above(call_frames_'[n])
        <5>1. call_frames_[n + 1].begin = Above(call_frames_[n])
          BY <2>7 DEF MachineIInv, FramesOK
        <5>2. call_frames_'[n] = call_frames_[n] /\ call_frames_'[n + 1].begin = call_frames_[n + 1].begin
          <6>1. n + 1 = m \/ n + 1 \in 1 .. m - 1
            BY <2>7
          <6>. QED
            BY <2>7, <2>8, <2>9, <6>1
        <5>. QED
          BY <5>1, <5>2
      <4>. QED
        BY <4>1
    <3>3. Len(stack_') + 1 = Above(g)
      <4>1. Above(g) = f.base + Len(f.locals) + (f.temps + 1)
        BY <2>8 DEF Above
      <4>2. Len(stack_') + 1 = (f.base + Len(f.locals) + f.temps) + 1
        BY <2>6, <2>9
      <4>3. PICK b, k, t : b = f.base /\ k = Len(f.locals) /\ t = f.temps
        OBVIOUS
      <4>4. b \in Nat /\ k \in Nat /\ t \in Nat
        BY <2>9, <4>3
      <4>5. (b + k + t) + 1 = b + k + (t + 1)
        BY <4>4
      <4>. QED
        BY <4>1, <4>2, <4>3, <4>5
    <3>4. m <= MaxFrames
      BY <2>7, ClosuresAssumption DEF MachineIInv, FramesOK
    <3>. QED
      BY <2>5, <2>8, <3>1, <3>2, <3>3, <3>4 DEF FramesOK
  <2>11. GlobalsOK' /\ CountersOK'
    BY <2>2, <2>5, SameGlobals DEF MachineIInv, CountersOK
  <2>. QED
    BY <2>5, <2>6, <2>10, <2>11 DEF MachineIInv
<1>. QED
  BY <1>1, <1>2, <1>3

-----------------------------------------------------------------------------
(* The collector.  Reached is computed by a recursive function on sets of   *)
(* objects: that it exists, and that it ends with what is reachable.        *)

Next_(E, os) == os \cup UNION {E[o] : o \in os}

Solves(f, N, E) ==
  f = [os \in SUBSET N |-> IF Next_(E, os) = os THEN os ELSE f[Next_(E, os)]]

LEMMA NextFacts ==
  ASSUME NEW N, NEW E, Closed(N, E), NEW os \in SUBSET N
  PROVE  /\ Next_(E, os) \in SUBSET N /\ os \subseteq Next_(E, os)
         /\ Next_(E, os) = os => ReachableFrom(N, E, os) = os
         /\ ReachableFrom(N, E, Next_(E, os)) = ReachableFrom(N, E, os)
<1>1. Next_(E, os) \in SUBSET N /\ os \subseteq Next_(E, os)
  BY DEF Next_, Closed
<1>2. ASSUME Next_(E, os) = os
      PROVE  ReachableFrom(N, E, os) = os
  <2>1. Closed(os, E)
    BY <1>2 DEF Next_, Closed
  <2>2. os \subseteq ReachableFrom(N, E, os)
    BY ReachableClosed
  <2>3. ReachableFrom(N, E, os) \subseteq os
    BY <2>1, ReachableLeast
  <2>. QED
    BY <2>2, <2>3
<1>3. \A S \in SUBSET N : Closed(S, E) => (os \subseteq S <=> Next_(E, os) \subseteq S)
  BY DEF Next_, Closed
<1>. QED
  BY <1>1, <1>2, <1>3 DEF ReachableFrom

LEMMA SolutionExists ==
  ASSUME NEW N, NEW E, Closed(N, E)
  PROVE  \E f : Solves(f, N, E)
<1>1. PICK f : f = [os \in SUBSET N |-> ReachableFrom(N, E, os)]
  OBVIOUS
<1>2. ASSUME NEW os \in SUBSET N
      PROVE  f[os] = IF Next_(E, os) = os THEN os ELSE f[Next_(E, os)]
  BY <1>1, NextFacts
<1>3. Solves(f, N, E)
  BY <1>1, <1>2 DEF Solves
<1>. QED
  BY <1>3

LEMMA SolutionReaches ==
  ASSUME NEW N, NEW E, Closed(N, E), IsFiniteSet(N), NEW f, Solves(f, N, E)
  PROVE  \A os \in SUBSET N : f[os] = ReachableFrom(N, E, os)
<1> DEFINE Wrong == {os \in SUBSET N : f[os] # ReachableFrom(N, E, os)}
           Sizes == {Cardinality(N \ os) : os \in Wrong}
<1>1. SUFFICES ASSUME Wrong # {} PROVE FALSE
  OBVIOUS
<1>2. \A os \in SUBSET N : IsFiniteSet(N \ os) /\ Cardinality(N \ os) \in Nat
  BY FS_Difference, FS_CardinalityType
<1>3. Sizes \in SUBSET Nat /\ Sizes # {}
  BY <1>1, <1>2
<1>4. PICK n \in Sizes : \A k \in Sizes : n <= k
  <2>. HIDE DEF Sizes
  <2>. QED
    BY <1>3, LeastElement
<1>5. PICK os \in Wrong : n = Cardinality(N \ os)
  OBVIOUS
<1>6. os \in SUBSET N /\ f[os] # ReachableFrom(N, E, os)
  OBVIOUS
<1>7. PICK more : more = Next_(E, os)
  OBVIOUS
<1>8. more \in SUBSET N /\ os \subseteq more /\ ReachableFrom(N, E, more) = ReachableFrom(N, E, os)
  BY <1>6, <1>7, NextFacts
<1>9. f[os] = IF more = os THEN os ELSE f[more]
  BY <1>6, <1>7 DEF Solves
<1>10. more # os
  BY <1>6, <1>7, <1>9, NextFacts
<1>11. f[more] # ReachableFrom(N, E, more)
  BY <1>6, <1>8, <1>9, <1>10
<1>12. Cardinality(N \ more) \in Sizes
  BY <1>8, <1>11
<1>13. Cardinality(N \ more) < Cardinality(N \ os)
  <2>1. PICK x : x \in more /\ x \notin os
    BY <1>8, <1>10
  <2>2. x \in N \ os /\ x \notin N \ more /\ N \ more \subseteq N \ os
    BY <1>8, <2>1
  <2>3. Cardinality(N \ more) <= Cardinality(N \ os) /\ N \ more # N \ os
    BY <1>2, <1>6, <2>2, FS_Subset
  <2>4. Cardinality(N \ more) = Cardinality(N \ os) => N \ more = N \ os
    BY <1>2, <1>6, <2>2, FS_Subset
  <2>. QED
    BY <1>2, <1>6, <1>8, <2>3, <2>4
<1>. HIDE DEF Sizes, Wrong
<1>. QED
  BY <1>2, <1>4, <1>5, <1>6, <1>8, <1>12, <1>13

LEMMA TracedFacts ==
  ASSUME MachineIInv
  PROVE  /\ \A c \in DOMAIN closures :
              /\ <<"closure", c>> \in Objects
              /\ Traced[<<"closure", c>>] =
                   UpvalueRefs(ToSet(closures[c].upvalues) \cup ToSet(closures[c].open_upvalues))
         /\ \A u \in DOMAIN upvalues :
              /\ <<"upvalue", u>> \in Objects
              /\ Traced[<<"upvalue", u>>] = ClosureRefs(IF InRange(u) THEN {ValueOf(u)} ELSE {})
         /\ \A o \in Objects : \/ \E c \in DOMAIN closures : o = <<"closure", c>>
                               \/ \E u \in DOMAIN upvalues : o = <<"upvalue", u>>
<1>1. Plain \notin DOMAIN closures
  BY DEF MachineIInv, ClosuresOK, Plain
<1>2. \A c \in DOMAIN closures : <<"closure", c>> \in Objects
  BY <1>1 DEF Objects, ClosureRefs
<1>3. \A u \in DOMAIN upvalues : <<"upvalue", u>> \in Objects
  BY DEF Objects, UpvalueRefs
<1>4. \A o \in Objects : \/ \E c \in DOMAIN closures : o = <<"closure", c>>
                         \/ \E u \in DOMAIN upvalues : o = <<"upvalue", u>>
  BY DEF Objects, UpvalueRefs, ClosureRefs
<1>5. \A x : <<"closure", x>>[1] = "closure" /\ <<"closure", x>>[2] = x
             /\ <<"upvalue", x>>[1] = "upvalue" /\ <<"upvalue", x>>[2] = x
  OBVIOUS
<1>. QED
  BY <1>2, <1>3, <1>4, <1>5 DEF Traced

LEMMA NothingDangles ==
  ASSUME MachineIInv
  PROVE  Closed(Objects, Traced) /\ Roots \subseteq Objects
<1>1. ASSUME NEW c \in DOMAIN closures
      PROVE  Traced[<<"closure", c>>] \subseteq Objects
  <2>1. PICK d : d = closures[c]
    OBVIOUS
  <2>2. ClosureOK(d, DOMAIN upvalues) /\ d.upvalues \in Seq(1 .. NUpvalues)
        /\ d.open_upvalues \in Seq(1 .. NUpvalues)
    BY <2>1, ObjectFacts DEF ClosureOK, Closure
  <2>3. ToSet(d.upvalues) \subseteq DOMAIN upvalues /\ ToSet(d.open_upvalues) \subseteq DOMAIN upvalues
    BY <2>2, ToSetFacts DEF ClosureOK
  <2>4. PICK us : us = ToSet(d.upvalues) \cup ToSet(d.open_upvalues)
    OBVIOUS
  <2>5. Traced[<<"closure", c>>] = {<<"upvalue", u>> : u \in us}
    BY <2>1, <2>4, TracedFacts DEF UpvalueRefs
  <2>6. us \subseteq DOMAIN upvalues
    BY <2>3, <2>4
  <2>. QED
    BY <2>5, <2>6, TracedFacts
<1>2. ASSUME NEW u \in DOMAIN upvalues
      PROVE  Traced[<<"upvalue", u>>] \subseteq Objects
  <2>1. InRange(u) => ValueOf(u) = Plain \/ ValueOf(u) \in DOMAIN closures
    BY ValueFacts DEF Live
  <2>2. PICK vs : vs = IF InRange(u) THEN {ValueOf(u)} ELSE {}
    OBVIOUS
  <2>3. Traced[<<"upvalue", u>>] = {<<"closure", c>> : c \in vs \ {Plain}}
    BY <2>2, TracedFacts DEF ClosureRefs
  <2>4. vs \ {Plain} \subseteq DOMAIN closures
    BY <2>1, <2>2
  <2>. QED
    BY <2>3, <2>4, TracedFacts
<1>3. Closed(Objects, Traced)
  BY <1>1, <1>2, TracedFacts DEF Closed
<1>4. \A v : Live(v, DOMAIN closures) => ClosureRefs({v}) \subseteq Objects
  BY DEF Live, ClosureRefs, Objects
<1>5. \A x \in {call_frames_[i].closure : i \in DOMAIN call_frames_} : x \in DOMAIN closures
  <2>1. DOMAIN call_frames_ = 1 .. Len(call_frames_)
    BY DEF MachineIInv, FramesOK
  <2>. QED
    BY <2>1, LiveFrames
<1>6. \A x \in ToSet(stack_) : Live(x, DOMAIN closures)
  BY ToSetFacts DEF MachineIInv, StackOK
<1>7. \A x \in Range(globals_) : Live(x, DOMAIN closures)
  BY DEF MachineIInv, GlobalsOK, Range
<1>. QED
  BY <1>3, <1>5, <1>6, <1>7 DEF Roots, ClosureRefs, Objects, Live

LEMMA ObjectsFinite ==
  ASSUME MachineIInv
  PROVE  IsFiniteSet(Objects)
<1>1. NClosures \in Nat /\ NUpvalues \in Nat
  BY ClosuresAssumption
<1>2. PICK S, T : S = {"closure", "upvalue"} /\ T = 0 .. NClosures + NUpvalues
  OBVIOUS
<1>3. IsFiniteSet(S)
  <2>1. IsFiniteSet({"closure"}) /\ IsFiniteSet({"upvalue"})
    BY FS_Singleton
  <2>2. S = {"closure"} \cup {"upvalue"}
    BY <1>2
  <2>. QED
    BY <2>1, <2>2, FS_Union
<1>4. IsFiniteSet(T)
  BY <1>1, <1>2, FS_Interval
<1>5. IsFiniteSet(S \X T)
  BY <1>3, <1>4, FS_Product
<1>6. DOMAIN closures \subseteq T /\ DOMAIN upvalues \subseteq T
  BY <1>1, <1>2 DEF MachineIInv, ClosuresOK, UpvaluesOK
<1>7. Objects \subseteq S \X T
  BY <1>2, <1>6, TracedFacts
<1>. QED
  BY <1>5, <1>7, FS_Subset

(* What the model keeps is what is reachable. *)
LEMMA ReachedIsReachable ==
  ASSUME MachineIInv
  PROVE  Reached = ReachableFrom(Objects, Traced, Roots)
<1>1. PICK f : f = CHOOSE g : Solves(g, Objects, Traced)
  OBVIOUS
<1>2. Solves(f, Objects, Traced)
  BY <1>1, SolutionExists, NothingDangles
<1>3. Reached = f[Roots]
  BY <1>1 DEF Reached, Solves, Next_
<1>. QED
  BY <1>2, <1>3, SolutionReaches, NothingDangles, ObjectsFinite

(* The parts of what is kept: roots, what kept closures hold, what kept     *)
(* upvalues hold.                                                           *)
LEMMA KeptFacts ==
  ASSUME MachineIInv, NEW kc, NEW ku,
         kc = {c \in DOMAIN closures : <<"closure", c>> \in Reached},
         ku = {u \in DOMAIN upvalues : <<"upvalue", u>> \in Reached}
  PROVE  /\ \A n \in 1 .. Len(call_frames_) : call_frames_[n].closure \in kc
         /\ \A i \in 1 .. Len(stack_) : Live(stack_[i], kc)
         /\ \A g \in Globals : Live(globals_[g], kc)
         /\ \A c \in kc : ToSet(closures[c].upvalues) \cup ToSet(closures[c].open_upvalues) \subseteq ku
         /\ \A u \in ku : InRange(u) => Live(ValueOf(u), kc)
<1>1. PICK R : R = Reached
  OBVIOUS
<1>2. R \subseteq Objects /\ Roots \subseteq R /\ Closed(R, Traced)
  BY <1>1, ReachedIsReachable, NothingDangles, ReachableClosed
<1>3. \A x, y : (<<"closure", x>> = <<"closure", y>> => x = y)
             /\ (<<"upvalue", x>> = <<"upvalue", y>> => x = y)
             /\ <<"closure", x>> # <<"upvalue", y>>
  OBVIOUS
<1>4. \A c : <<"closure", c>> \in R => c \in kc
  <2>1. \A c : <<"closure", c>> \in Objects => c \in DOMAIN closures
    BY <1>3, TracedFacts
  <2>. QED
    BY <1>1, <1>2, <2>1
<1>5. \A u : <<"upvalue", u>> \in R => u \in ku
  <2>1. \A u : <<"upvalue", u>> \in Objects => u \in DOMAIN upvalues
    BY <1>3, TracedFacts
  <2>. QED
    BY <1>1, <1>2, <2>1
<1>6. \A v : v \in {call_frames_[i].closure : i \in DOMAIN call_frames_} \cup ToSet(stack_) \cup Range(globals_)
             => Live(v, kc)
  <2>1. \A v : v \in {call_frames_[i].closure : i \in DOMAIN call_frames_} \cup ToSet(stack_) \cup Range(globals_)
               => v = Plain \/ <<"closure", v>> \in Roots
    BY DEF Roots, ClosureRefs
  <2>. QED
    BY <1>2, <1>4, <2>1 DEF Live
<1>7. ASSUME NEW n \in 1 .. Len(call_frames_)
      PROVE  call_frames_[n].closure \in kc
  <2>1. DOMAIN call_frames_ = 1 .. Len(call_frames_)
    BY DEF MachineIInv, FramesOK
  <2>2. call_frames_[n].closure # Plain
    BY LiveFrames DEF MachineIInv, ClosuresOK, Plain
  <2>. QED
    BY <1>6, <2>1, <2>2 DEF Live
<1>8. ASSUME NEW i \in 1 .. Len(stack_)
      PROVE  Live(stack_[i], kc)
  <2>1. stack_[i] \in ToSet(stack_)
    BY ToSetFacts DEF MachineIInv, StackOK
  <2>. QED
    BY <1>6, <2>1
<1>9. ASSUME NEW g \in Globals
      PROVE  Live(globals_[g], kc)
  <2>1. globals_[g] \in Range(globals_)
    BY DEF MachineIInv, GlobalsOK, Range
  <2>. QED
    BY <1>6, <2>1
<1>10. ASSUME NEW c \in kc, NEW u \in ToSet(closures[c].upvalues) \cup ToSet(closures[c].open_upvalues)
       PROVE  u \in ku
  <2>1. c \in DOMAIN closures /\ <<"closure", c>> \in R
    BY <1>1
  <2>2. <<"upvalue", u>> \in Traced[<<"closure", c>>]
    BY <2>1, TracedFacts DEF UpvalueRefs
  <2>. QED
    BY <1>2, <1>5, <2>1, <2>2 DEF Closed
<1>11. ASSUME NEW u \in ku, InRange(u)
       PROVE  Live(ValueOf(u), kc)
  <2>1. u \in DOMAIN upvalues /\ <<"upvalue", u>> \in R
    BY <1>1
  <2>2. PICK v : v = ValueOf(u)
    OBVIOUS
  <2>3. Traced[<<"upvalue", u>>] = {<<"closure", c>> : c \in {v} \ {Plain}}
    BY <1>11, <2>1, <2>2, TracedFacts DEF ClosureRefs
  <2>4. v = Plain \/ <<"closure", v>> \in R
    BY <1>2, <2>1, <2>3 DEF Closed
  <2>. QED
    BY <1>4, <2>2, <2>4 DEF Live
<1>. QED
  BY <1>7, <1>8, <1>9, <1>10, <1>11

LEMMA CollectGarbageKeeps ==
  ASSUME MachineIInv, CollectGarbage
  PROVE  MachineIInv'
<1>1. PICK kc, ku : /\ kc = {c \in DOMAIN closures : <<"closure", c>> \in Reached}
                    /\ ku = {u \in DOMAIN upvalues : <<"upvalue", u>> \in Reached}
  OBVIOUS
<1>2. \/ Crash("out_of_range")
      \/ /\ \A u \in ku : InRange(u)
         /\ closures' = Restrict(closures, kc) /\ upvalues' = Restrict(upvalues, ku)
         /\ UNCHANGED <<stack_, call_frames_, globals_, crashed, scripts, errors>>
  BY <1>1 DEF CollectGarbage
<1>3. ASSUME Crash("out_of_range")
      PROVE  MachineIInv'
  BY <1>3, CrashKeeps DEF Exceptions
<1>4. ASSUME \A u \in ku : InRange(u),
             closures' = Restrict(closures, kc), upvalues' = Restrict(upvalues, ku),
             UNCHANGED <<stack_, call_frames_, globals_, crashed, scripts, errors>>
      PROVE  MachineIInv'
  <2>1. /\ DOMAIN closures' = kc /\ \A c \in kc : closures'[c] = closures[c]
        /\ DOMAIN upvalues' = ku /\ \A u \in ku : upvalues'[u] = upvalues[u]
        /\ kc \subseteq DOMAIN closures /\ ku \subseteq DOMAIN upvalues
    BY <1>1, <1>4 DEF Restrict
  <2>2. /\ \A n \in 1 .. Len(call_frames_) : call_frames_[n].closure \in kc
        /\ \A i \in 1 .. Len(stack_) : Live(stack_[i], kc)
        /\ \A g \in Globals : Live(globals_[g], kc)
        /\ \A c \in kc : ToSet(closures[c].upvalues) \cup ToSet(closures[c].open_upvalues) \subseteq ku
        /\ \A u \in ku : InRange(u) => Live(ValueOf(u), kc)
    BY <1>1, KeptFacts
  <2>3. FramesOK' /\ StackOK' /\ GlobalsOK'
    BY <1>4, <2>1, <2>2, SameFrames DEF MachineIInv, StackOK, GlobalsOK
  <2>4. UpvaluesOK'
    <3>1. ASSUME NEW u \in ku
          PROVE  UpvalueOK(upvalues[u], kc)
      <4>1. PICK w : w = upvalues[u]
        OBVIOUS
      <4>2. UpvalueOK(w, DOMAIN closures)
        BY <2>1, <4>1, ObjectFacts
      <4>3. ~w.open => Live(w.value, kc)
        BY <1>4, <2>2, <4>1 DEF ValueOf, InRange
      <4>. QED
        BY <4>1, <4>2, <4>3 DEF UpvalueOK, Live
    <3>. QED
      BY <2>1, <3>1 DEF MachineIInv, UpvaluesOK
  <2>5. ClosuresOK'
    <3>1. ASSUME NEW c \in kc
          PROVE  ClosureOK(closures[c], ku)
      <4>1. PICK d : d = closures[c]
        OBVIOUS
      <4>2. ClosureOK(d, DOMAIN upvalues) /\ d.upvalues \in Seq(1 .. NUpvalues)
            /\ d.open_upvalues \in Seq(1 .. NUpvalues)
        BY <2>1, <4>1, ObjectFacts DEF ClosureOK, Closure
      <4>3. ToSet(d.upvalues) \subseteq ku /\ ToSet(d.open_upvalues) \subseteq ku
        BY <2>2, <4>1
      <4>4. \A i \in 1 .. Len(d.upvalues) : d.upvalues[i] \in ku
        BY <4>2, <4>3, ToSetFacts
      <4>5. \A i \in 1 .. Len(d.open_upvalues) : d.open_upvalues[i] \in ku
        BY <4>2, <4>3, ToSetFacts
      <4>. QED
        BY <4>1, <4>2, <4>4, <4>5 DEF ClosureOK
    <3>. QED
      BY <2>1, <3>1 DEF MachineIInv, ClosuresOK
  <2>6. CountersOK'
    BY <1>4 DEF MachineIInv, CountersOK
  <2>. QED
    BY <2>3, <2>4, <2>5, <2>6 DEF MachineIInv
<1>. QED
  BY <1>2, <1>3, <1>4

-----------------------------------------------------------------------------
(* The closure instruction: one round of its loop, and all of them *)

(* What the loop changes, while it goes on and when it has failed. *)
Going(us, open, captured) ==
  [failed |-> FALSE, upvalues |-> us, open |-> open, captured |-> captured]
Stopped(us, open, captured) ==
  [failed |-> TRUE, upvalues |-> us, open |-> open, captured |-> captured]

(* Where the search of the open list ends, where the new entry goes, which  *)
(* address it gets.                                                         *)
Hits(us, o, slot) == {i \in 1 .. Len(o) : ~us[o[i]].open \/ us[o[i]].stack_index = slot}
Hit(us, o, slot) == IF Hits(us, o, slot) # {} THEN Min(Hits(us, o, slot)) ELSE 0
Afters(us, o, slot) == {i \in 1 .. Len(o) : us[o[i]].stack_index > slot}
After(us, o, slot) == IF Afters(us, o, slot) # {} THEN Min(Afters(us, o, slot)) ELSE 0
Place(us, o, slot) == IF After(us, o, slot) = 0 THEN Len(o) + 1 ELSE After(us, o, slot)
NewUpvalue(us) == Min((1 .. NUpvalues) \ DOMAIN us)
Fresh(i) == [open |-> TRUE, stack_index |-> SlotOf(i), value |-> Plain, var |-> Top.base + i - 1]

LEMMA FailedSet ==
  ASSUME NEW f, NEW us, NEW o, NEW c, NEW t
  PROVE  [[failed |-> f, upvalues |-> us, open |-> o, captured |-> c] EXCEPT !.failed = t]
         = [failed |-> t, upvalues |-> us, open |-> o, captured |-> c]
OBVIOUS

LEMMA CaptureCases ==
  ASSUME NEW us, NEW o, NEW c, NEW d, NEW made, made = Going(us, o, c), d.is_direct \in BOOLEAN,
         NEW s, s = SlotOf(d.index), NEW hit, hit = Hit(us, o, s),
         NEW new, new = NewUpvalue(us), NEW e, e = Fresh(d.index)
  PROVE  /\ ~d.is_direct => Capture(made, d) = Going(us, o, Append(c, Captured[d.index]))
         /\ d.is_direct /\ hit # 0 /\ ~us[o[hit]].open => Capture(made, d) = Stopped(us, o, c)
         /\ d.is_direct /\ hit # 0 /\ us[o[hit]].open => Capture(made, d) = Going(us, o, Append(c, o[hit]))
         /\ d.is_direct /\ hit = 0 =>
              Capture(made, d) = Going(With(us, new, e), InsertAt(o, Place(us, o, s), new), Append(c, new))
<1>1. /\ made.failed = FALSE /\ made.upvalues = us /\ made.open = o /\ made.captured = c
      /\ made = [failed |-> FALSE, upvalues |-> us, open |-> o, captured |-> c]
  BY DEF Going
<1>2. s = SlotOf(d.index)
  OBVIOUS
<1>3. PICK after : after = After(us, o, s)
  OBVIOUS
<1>4. hit = Hit(us, o, s) /\ new = NewUpvalue(us) /\ e = Fresh(d.index)
  OBVIOUS
<1>5. /\ {i \in 1 .. Len(made.open) : ~made.upvalues[made.open[i]].open
                                     \/ made.upvalues[made.open[i]].stack_index = SlotOf(d.index)}
         = Hits(us, o, s)
      /\ {i \in 1 .. Len(made.open) : made.upvalues[made.open[i]].stack_index > SlotOf(d.index)}
         = Afters(us, o, s)
      /\ Min((1 .. NUpvalues) \ DOMAIN made.upvalues) = new
  BY <1>1, <1>2, <1>4 DEF Hits, Afters, NewUpvalue
<1>0. PICK r : r = [made EXCEPT !.failed = TRUE]
  OBVIOUS
<1>6. Capture(made, d) =
        CASE ~d.is_direct -> [made EXCEPT !.captured = Append(@, Captured[d.index])]
          [] d.is_direct /\ hit # 0 /\ ~made.upvalues[made.open[hit]].open -> r
          [] d.is_direct /\ hit # 0 /\ ~ ~made.upvalues[made.open[hit]].open ->
               [made EXCEPT !.captured = Append(@, made.open[hit])]
          [] d.is_direct /\ hit = 0 ->
               [made EXCEPT !.captured = Append(@, new), !.upvalues = With(@, new, e),
                            !.open = InsertAt(@, IF after = 0 THEN Len(@) + 1 ELSE after, new)]
  <2>1. SelectInSeq(made.open, LAMBDA u : ~made.upvalues[u].open \/ made.upvalues[u].stack_index = SlotOf(d.index))
        = hit
    BY <1>4, <1>5 DEF SelectInSeq, Hit
  <2>2. SelectInSeq(made.open, LAMBDA u : made.upvalues[u].stack_index > SlotOf(d.index)) = after
    BY <1>3, <1>5 DEF SelectInSeq, After
  <2>. QED
    BY <1>0, <1>1, <1>4, <1>5, <2>1, <2>2 DEF Capture, Fresh, SelectInSeq
<1>7. ASSUME ~d.is_direct
      PROVE  Capture(made, d) = Going(us, o, Append(c, Captured[d.index]))
  BY <1>1, <1>6, <1>7 DEF Going
<1>8. ASSUME d.is_direct, hit # 0, ~us[o[hit]].open
      PROVE  Capture(made, d) = Stopped(us, o, c)
  <2>1. PICK t : t = TRUE
    OBVIOUS
  <2>2. [made EXCEPT !.failed = TRUE] = [made EXCEPT !.failed = t]
    BY <2>1
  <2>3. [made EXCEPT !.failed = t] = [failed |-> t, upvalues |-> us, open |-> o, captured |-> c]
    BY <1>1, FailedSet
  <2>4. Capture(made, d) = [failed |-> t, upvalues |-> us, open |-> o, captured |-> c]
    <3>1. Capture(made, d) = r
      BY <1>1, <1>6, <1>8
    <3>. QED
      BY <1>0, <2>2, <2>3, <3>1
  <2>. QED
    BY <2>1, <2>4, Zenon DEF Stopped
<1>9. ASSUME d.is_direct, hit # 0, us[o[hit]].open
      PROVE  Capture(made, d) = Going(us, o, Append(c, o[hit]))
  BY <1>1, <1>6, <1>9 DEF Going
<1>10. ASSUME d.is_direct, hit = 0
       PROVE  Capture(made, d) = Going(With(us, new, e), InsertAt(o, Place(us, o, s), new), Append(c, new))
  BY <1>1, <1>2, <1>3, <1>4, <1>6, <1>10 DEF Going, Place
<1>. QED
  BY <1>7, <1>8, <1>9, <1>10

(* The loop's function exists. *)
LEMMA CaptureAllUnfolds ==
  ASSUME NEW ds, Len(ds) \in Nat
  PROVE  \E made : /\ CaptureAll(ds) = made[Len(ds)]
                   /\ made[0] = Going(upvalues, Open, <<>>)
                   /\ \A n \in 1 .. Len(ds) : made[n] = Capture(made[n - 1], ds[n])
<1> DEFINE first == Going(upvalues, Open, <<>>)
           Runs(f, m) == f = [n \in 0 .. m |-> IF n = 0 THEN first ELSE Capture(f[n - 1], ds[n])]
           Bad == {m \in Nat : ~ \E f : Runs(f, m)}
<1>1. Bad = {}
  <2>1. SUFFICES ASSUME Bad # {} PROVE FALSE
    OBVIOUS
  <2>2. PICK m \in Bad : \A n \in Bad : m <= n
    <3>1. Bad \in SUBSET Nat
      OBVIOUS
    <3>. HIDE DEF Bad
    <3>. QED
      BY <2>1, <3>1, LeastElement
  <2>3. m # 0
    <3>1. PICK f : f = [n \in 0 .. 0 |-> first]
      OBVIOUS
    <3>2. f = [n \in 0 .. 0 |-> IF n = 0 THEN first ELSE Capture(f[n - 1], ds[n])]
      <4>1. \A n \in 0 .. 0 : n = 0
        OBVIOUS
      <4>. HIDE DEF first
      <4>. QED
        BY <3>1, <4>1
    <3>. QED
      BY <3>2
  <2>4. m \in Nat /\ m - 1 \in Nat /\ ~ (m <= m - 1)
    BY <2>3
  <2>5. m - 1 \notin Bad
    BY <2>2, <2>4
  <2>6. PICK f : Runs(f, m - 1)
    BY <2>4, <2>5
  <2>7. PICK g : g = [n \in 0 .. m |-> IF n = m THEN Capture(f[m - 1], ds[m]) ELSE f[n]]
    OBVIOUS
  <2>. HIDE DEF first
  <2>8. \A n \in 0 .. m - 1 : f[n] = IF n = 0 THEN first ELSE Capture(f[n - 1], ds[n])
    BY <2>6
  <2>9. ASSUME NEW n \in 0 .. m
        PROVE  g[n] = IF n = 0 THEN first ELSE Capture(g[n - 1], ds[n])
    <3>1. CASE n = 0
      BY <2>3, <2>4, <2>7, <2>8, <3>1
    <3>2. CASE n # 0
      <4>1. n - 1 \in 0 .. m - 1 /\ n - 1 \in 0 .. m /\ n - 1 # m
        BY <2>4, <3>2
      <4>2. g[n - 1] = f[n - 1]
        BY <2>7, <4>1
      <4>3. CASE n = m
        BY <2>7, <3>2, <4>2, <4>3
      <4>4. CASE n # m
        <5>1. n \in 0 .. m - 1
          BY <2>4, <4>4
        <5>. QED
          BY <2>7, <2>8, <3>2, <4>2, <4>4, <5>1
      <4>. QED
        BY <4>3, <4>4
    <3>. QED
      BY <3>1, <3>2
  <2>10. Runs(g, m)
    BY <2>7, <2>9
  <2>. QED
    BY <2>2, <2>10
<1>2. \E f : Runs(f, Len(ds))
  BY <1>1
<1>3. PICK made : made = CHOOSE f : Runs(f, Len(ds))
  OBVIOUS
<1>4. Runs(made, Len(ds))
  <2>. HIDE DEF Runs
  <2>. QED
    BY <1>2, <1>3
<1>5. CaptureAll(ds) = made[Len(ds)]
  BY <1>3 DEF CaptureAll, Going
<1>6. made[0] = first /\ \A n \in 1 .. Len(ds) : made[n] = Capture(made[n - 1], ds[n])
  <2>. HIDE DEF first
  <2>1. \A n \in 0 .. Len(ds) : made[n] = IF n = 0 THEN first ELSE Capture(made[n - 1], ds[n])
    BY <1>4
  <2>2. 0 \in 0 .. Len(ds) /\ \A n \in 1 .. Len(ds) : n \in 0 .. Len(ds) /\ n # 0
    OBVIOUS
  <2>. QED
    BY <2>1, <2>2
<1>. QED
  BY <1>5, <1>6

(* What the loop leaves alone and what it may add, whatever it captures. *)
LoopOK(us, o, c) ==
  /\ DOMAIN upvalues \subseteq DOMAIN us /\ DOMAIN us \subseteq 1 .. NUpvalues
  /\ \A u \in DOMAIN upvalues : us[u] = upvalues[u]
  /\ \A u \in DOMAIN us : UpvalueOK(us[u], DOMAIN closures)
  /\ o \in Seq(DOMAIN us) /\ c \in Seq(DOMAIN us)

LEMMA HitFacts ==
  ASSUME NEW us, NEW o, Len(o) \in Nat, NEW slot
  PROVE  /\ Hit(us, o, slot) \in 0 .. Len(o)
         /\ Hit(us, o, slot) = 0 <=> Hits(us, o, slot) = {}
         /\ Hit(us, o, slot) # 0 => /\ Hit(us, o, slot) \in Hits(us, o, slot)
                                    /\ \A i \in Hits(us, o, slot) : Hit(us, o, slot) <= i
         /\ Place(us, o, slot) \in 1 .. Len(o) + 1
         /\ \A i \in 1 .. Place(us, o, slot) - 1 : i \notin Afters(us, o, slot)
         /\ Place(us, o, slot) # Len(o) + 1 => Place(us, o, slot) \in Afters(us, o, slot)
<1>1. PICK n \in Nat : n = Len(o)
  OBVIOUS
<1>2. Hits(us, o, slot) \in SUBSET (1 .. n) /\ Afters(us, o, slot) \in SUBSET (1 .. n)
  BY <1>1 DEF Hits, Afters
<1>3. PICK h : h = Hit(us, o, slot)
  OBVIOUS
<1>4. /\ h \in 0 .. n
      /\ h = 0 <=> Hits(us, o, slot) = {}
      /\ h # 0 => h \in Hits(us, o, slot) /\ \A i \in Hits(us, o, slot) : h <= i
  BY <1>2, <1>3, SelectFacts DEF Hit
<1>5. PICK a : a = After(us, o, slot)
  OBVIOUS
<1>6. /\ a \in 0 .. n
      /\ a = 0 <=> Afters(us, o, slot) = {}
      /\ a # 0 => a \in Afters(us, o, slot) /\ \A i \in Afters(us, o, slot) : a <= i
  BY <1>2, <1>5, SelectFacts DEF After
<1>7. PICK p : p = Place(us, o, slot)
  OBVIOUS
<1>8. p = IF a = 0 THEN n + 1 ELSE a
  BY <1>1, <1>5, <1>7 DEF Place
<1>9. PICK A : A = Afters(us, o, slot)
  OBVIOUS
<1>10. p \in 1 .. n + 1 /\ (\A i \in 1 .. p - 1 : i \notin A) /\ (p # n + 1 => p \in A)
  BY <1>2, <1>6, <1>8, <1>9
<1>. QED
  BY <1>1, <1>3, <1>4, <1>7, <1>9, <1>10

LEMMA FreshFacts ==
  ASSUME MachineIInv, Running, NEW i \in 1 .. Len(Top.locals)
  PROVE  /\ UpvalueOK(Fresh(i), DOMAIN closures)
         /\ Fresh(i).open /\ Fresh(i).stack_index = SlotOf(i) /\ Fresh(i).var = Top.base + i - 1
         /\ Fresh(i).value = Plain
<1>1. PICK s, v : s = SlotOf(i) /\ v = Top.base + i - 1
  OBVIOUS
<1>2. s \in 1 .. Len(stack_) /\ v \in 1 .. Len(stack_) /\ Len(stack_) \in Nat /\ Len(stack_) <= MaxStack
  BY <1>1, TopFacts DEF MachineIInv, StackOK
<1>3. MaxStack \in Nat /\ NUpvalues \in Nat
  BY ClosuresAssumption
<1>4. s \in 0 .. MaxStack /\ s >= 1 /\ v \in Var
  BY <1>2, <1>3 DEF Var, Lost
<1>5. Fresh(i) = [open |-> TRUE, stack_index |-> s, value |-> Plain, var |-> v]
  BY <1>1 DEF Fresh
<1>6. Plain \in Value
  BY DEF Value
<1>. QED
  BY <1>1, <1>4, <1>5, <1>6 DEF UpvalueOK, Upvalue, Live

LEMMA CaptureIsDirect ==
  ASSUME NEW d \in Captures
  PROVE  /\ d.is_direct \in BOOLEAN
         /\ d.is_direct => d.index \in DOMAIN Top.locals
         /\ ~d.is_direct => d.index \in DOMAIN Captured
<1>1. ASSUME NEW i \in DOMAIN Top.locals, d = [is_direct |-> TRUE, index |-> i]
      PROVE  d.is_direct /\ d.index \in DOMAIN Top.locals
  BY <1>1
<1>2. ASSUME NEW k \in DOMAIN Captured, d = [is_direct |-> FALSE, index |-> k]
      PROVE  ~d.is_direct /\ d.is_direct \in BOOLEAN /\ d.index \in DOMAIN Captured
  BY <1>2
<1>3. \/ \E i \in DOMAIN Top.locals : d = [is_direct |-> TRUE, index |-> i]
      \/ \E k \in DOMAIN Captured : d = [is_direct |-> FALSE, index |-> k]
  BY DEF Captures
<1>4. ASSUME NEW i \in DOMAIN Top.locals, d = [is_direct |-> TRUE, index |-> i]
      PROVE  d.is_direct \in BOOLEAN
  BY <1>4
<1>. QED
  BY <1>1, <1>2, <1>3, <1>4

LEMMA NewUpvalueFacts ==
  ASSUME NEW us, DOMAIN us \subseteq 1 .. NUpvalues, DOMAIN us # 1 .. NUpvalues
  PROVE  NewUpvalue(us) \in (1 .. NUpvalues) \ DOMAIN us
<1>1. (1 .. NUpvalues) \ DOMAIN us # {}
  OBVIOUS
<1>2. (1 .. NUpvalues) \ DOMAIN us \in SUBSET Nat
  BY ClosuresAssumption
<1>. QED
  BY <1>1, <1>2, MinFacts DEF NewUpvalue

LEMMA WithFacts ==
  ASSUME NEW f, NEW a, a \notin DOMAIN f, NEW e
  PROVE  /\ DOMAIN With(f, a, e) = DOMAIN f \cup {a} /\ With(f, a, e)[a] = e
         /\ \A x \in DOMAIN f : With(f, a, e)[x] = f[x]
BY DEF With

LEMMA MoreMembers ==
  ASSUME NEW S, NEW T, S \subseteq T, NEW s \in Seq(S)
  PROVE  s \in Seq(T)
OBVIOUS

LEMMA TheseMembers ==
  ASSUME NEW S, NEW T, NEW s \in Seq(S), \A i \in 1 .. Len(s) : s[i] \in T
  PROVE  s \in Seq(T)
OBVIOUS

(* One round keeps LoopOK and takes an address for a direct capture only. *)
RoundOK(us, c, d, next) ==
  \E vs, p, e :
    /\ LoopOK(vs, p, e)
    /\ next = Stopped(vs, p, e) \/ (next = Going(vs, p, e) /\ Len(e) = Len(c) + 1)
    /\ \/ DOMAIN vs = DOMAIN us
       \/ d.is_direct /\ \E a : a \notin DOMAIN us /\ DOMAIN vs = DOMAIN us \cup {a}

LEMMA CaptureKeeps ==
  ASSUME MachineIInv, Running, NEW us, NEW o, NEW c, LoopOK(us, o, c), NEW d \in Captures,
         NEW made, made = Going(us, o, c),
         d.is_direct => DOMAIN us # 1 .. NUpvalues
  PROVE  RoundOK(us, c, d, Capture(made, d))
<1>1. /\ o \in Seq(DOMAIN us) /\ c \in Seq(DOMAIN us) /\ Len(o) \in Nat /\ Len(c) \in Nat
      /\ DOMAIN upvalues \subseteq DOMAIN us /\ DOMAIN us \subseteq 1 .. NUpvalues
  BY DEF LoopOK
<1>2. ASSUME NEW u \in DOMAIN us
      PROVE  LoopOK(us, o, Append(c, u)) /\ Len(Append(c, u)) = Len(c) + 1
  <2>1. PICK e : e = Append(c, u)
    OBVIOUS
  <2>2. e \in Seq(DOMAIN us) /\ Len(e) = Len(c) + 1
    BY <1>1, <2>1, AppendFacts
  <2>. QED
    BY <2>1, <2>2 DEF LoopOK
<1>3. d.is_direct \in BOOLEAN
  BY CaptureIsDirect
<1>4. PICK s, hit, a, x : s = SlotOf(d.index) /\ hit = Hit(us, o, s) /\ a = NewUpvalue(us)
                          /\ x = Fresh(d.index)
  OBVIOUS
<1>5. /\ ~d.is_direct => Capture(made, d) = Going(us, o, Append(c, Captured[d.index]))
      /\ d.is_direct /\ hit # 0 /\ ~us[o[hit]].open => Capture(made, d) = Stopped(us, o, c)
      /\ d.is_direct /\ hit # 0 /\ us[o[hit]].open => Capture(made, d) = Going(us, o, Append(c, o[hit]))
      /\ d.is_direct /\ hit = 0 =>
           Capture(made, d) = Going(With(us, a, x), InsertAt(o, Place(us, o, s), a), Append(c, a))
  BY <1>3, <1>4, CaptureCases
<1>6. ASSUME ~d.is_direct
      PROVE  /\ Capture(made, d) = Going(us, o, Append(c, Captured[d.index]))
             /\ Captured[d.index] \in DOMAIN us
  <2>1. d.index \in DOMAIN Captured
    BY <1>6, CaptureIsDirect
  <2>2. Captured[d.index] \in DOMAIN upvalues
    BY <2>1, RunningClosure
  <2>. QED
    BY <1>1, <1>5, <1>6, <2>2
<1>7. ASSUME d.is_direct, hit # 0
      PROVE  /\ o[hit] \in DOMAIN us
             /\ \/ Capture(made, d) = Stopped(us, o, c)
                \/ Capture(made, d) = Going(us, o, Append(c, o[hit]))
  <2>1. hit \in 0 .. Len(o)
    BY <1>1, <1>4, HitFacts
  <2>2. hit \in 1 .. Len(o)
    BY <1>1, <1>7, <2>1
  <2>. QED
    BY <1>1, <1>5, <1>7, <2>2
<1>8. ASSUME d.is_direct, hit = 0
      PROVE  \E vs, p :
               /\ Capture(made, d) = Going(vs, p, Append(c, a))
               /\ a \notin DOMAIN us /\ DOMAIN vs = DOMAIN us \cup {a}
               /\ LoopOK(vs, p, Append(c, a)) /\ Len(Append(c, a)) = Len(c) + 1
  <2>1. PICK vs, p : vs = With(us, a, x) /\ p = InsertAt(o, Place(us, o, s), a)
    OBVIOUS
  <2>2. Capture(made, d) = Going(vs, p, Append(c, a))
    BY <1>5, <1>8, <2>1
  <2>3. a \in 1 .. NUpvalues /\ a \notin DOMAIN us
    <3>1. DOMAIN us \subseteq 1 .. NUpvalues /\ DOMAIN us # 1 .. NUpvalues
      BY <1>1, <1>8
    <3>. QED
      BY <1>4, <3>1, NewUpvalueFacts
  <2>4. d.index \in 1 .. Len(Top.locals)
    <3>1. d.index \in DOMAIN Top.locals
      BY <1>8, CaptureIsDirect
    <3>2. Top.locals \in Seq(BOOLEAN)
      BY TopFacts
    <3>. QED
      BY <3>1, <3>2
  <2>5. UpvalueOK(x, DOMAIN closures)
    BY <1>4, <2>4, FreshFacts
  <2>6. DOMAIN vs = DOMAIN us \cup {a} /\ vs[a] = x /\ \A u \in DOMAIN us : vs[u] = us[u]
    BY <2>1, <2>3 DEF With
  <2>7. PICK n : n = Place(us, o, s)
    OBVIOUS
  <2>8. n \in 1 .. Len(o) + 1
    BY <1>1, <2>7, HitFacts
  <2>9. o \in Seq(DOMAIN vs) /\ c \in Seq(DOMAIN vs) /\ a \in DOMAIN vs
    BY <1>1, <2>6, MoreMembers
  <2>10. p \in Seq(DOMAIN vs)
    BY <2>1, <2>7, <2>8, <2>9, InsertFacts
  <2>11. PICK e : e = Append(c, a)
    OBVIOUS
  <2>12. e \in Seq(DOMAIN vs) /\ Len(e) = Len(c) + 1
    BY <2>9, <2>11, AppendFacts
  <2>13. LoopOK(vs, p, e)
    BY <1>1, <2>3, <2>5, <2>6, <2>10, <2>12 DEF LoopOK
  <2>. QED
    BY <2>2, <2>3, <2>6, <2>11, <2>12, <2>13
<1>9. CASE ~d.is_direct
  BY <1>2, <1>6, <1>9 DEF RoundOK
<1>10. CASE d.is_direct /\ hit # 0
  BY <1>2, <1>7, <1>10 DEF RoundOK
<1>11. CASE d.is_direct /\ hit = 0
  BY <1>8, <1>11 DEF RoundOK
<1>. QED
  BY <1>3, <1>9, <1>10, <1>11

LEMMA CaptureStopped ==
  ASSUME NEW us, NEW o, NEW c, NEW d, NEW made, made = Stopped(us, o, c)
  PROVE  Capture(made, d) = made
<1>1. made.failed
  BY DEF Stopped
<1>. QED
  BY <1>1 DEF Capture

(* Which locals the first rounds captured directly. *)
Seen(ds, n) == {ds[i].index : i \in {j \in 1 .. n : ds[j].is_direct}}

LEMMA CaptureIsRecord ==
  ASSUME NEW d \in Captures, NEW e \in Captures, d.is_direct, e.is_direct, d.index = e.index
  PROVE  d = e
<1>1. ASSUME NEW f \in Captures, f.is_direct
      PROVE  \E i : f = [is_direct |-> TRUE, index |-> i]
  <2>1. \/ \E i \in DOMAIN Top.locals : f = [is_direct |-> TRUE, index |-> i]
        \/ \E k \in DOMAIN Captured : f = [is_direct |-> FALSE, index |-> k]
    BY DEF Captures
  <2>2. ASSUME NEW k \in DOMAIN Captured, f = [is_direct |-> FALSE, index |-> k]
        PROVE  FALSE
    BY <1>1, <2>2
  <2>. QED
    BY <2>1, <2>2
<1>2. PICK i : d = [is_direct |-> TRUE, index |-> i]
  BY <1>1
<1>3. PICK j : e = [is_direct |-> TRUE, index |-> j]
  BY <1>1
<1>4. i = j
  BY <1>2, <1>3
<1>. QED
  BY <1>2, <1>3, <1>4

LEMMA SeenFacts ==
  ASSUME MachineIInv, Running, NEW ds \in Seq(Captures), IsInjective(ds),
         NEW direct, direct = {d.index : d \in {e \in ToSet(ds) : e.is_direct}},
         NEW n \in 0 .. Len(ds)
  PROVE  /\ IsFiniteSet(direct) /\ IsFiniteSet(Seen(ds, n))
         /\ Cardinality(direct) \in Nat /\ Cardinality(Seen(ds, n)) \in Nat
         /\ direct \subseteq DOMAIN Top.locals /\ Seen(ds, n) \subseteq direct
         /\ n # Len(ds) /\ ~ds[n + 1].is_direct => Seen(ds, n + 1) = Seen(ds, n)
         /\ n # Len(ds) /\ ds[n + 1].is_direct =>
              /\ ds[n + 1].index \in direct /\ ds[n + 1].index \notin Seen(ds, n)
              /\ Seen(ds, n + 1) = Seen(ds, n) \cup {ds[n + 1].index}
<1>1. PICK m \in Nat : m = Len(ds)
  OBVIOUS
<1>2. /\ \A i \in 1 .. m : ds[i] \in Captures
      /\ ToSet(ds) = {ds[i] : i \in 1 .. m}
      /\ DOMAIN ds = 1 .. m
  BY <1>1, ToSetFacts
<1>3. direct \subseteq DOMAIN Top.locals
  BY <1>2, CaptureIsDirect
<1>4. Seen(ds, n) \subseteq direct
  <2>1. \A i \in 1 .. n : i \in 1 .. m
    BY <1>1
  <2>2. ASSUME NEW i \in 1 .. n, ds[i].is_direct
        PROVE  ds[i].index \in direct
    <3>1. ds[i] \in ToSet(ds)
      BY <1>2, <2>1
    <3>. QED
      BY <2>2, <3>1
  <2>. QED
    BY <2>2 DEF Seen
<1>5. IsFiniteSet(direct) /\ IsFiniteSet(Seen(ds, n))
  <2>1. DOMAIN Top.locals = 1 .. Len(Top.locals) /\ Len(Top.locals) \in Nat
    BY TopFacts
  <2>2. IsFiniteSet(1 .. Len(Top.locals))
    BY <2>1, FS_Interval
  <2>3. direct \subseteq 1 .. Len(Top.locals) /\ Seen(ds, n) \subseteq 1 .. Len(Top.locals)
    BY <1>3, <1>4, <2>1
  <2>. QED
    BY <2>2, <2>3, FS_Subset
<1>6. Cardinality(direct) \in Nat /\ Cardinality(Seen(ds, n)) \in Nat
  BY <1>5, FS_CardinalityType
<1>7. ASSUME n # Len(ds), ~ds[n + 1].is_direct
      PROVE  Seen(ds, n + 1) = Seen(ds, n)
  <2>1. {j \in 1 .. n + 1 : ds[j].is_direct} = {j \in 1 .. n : ds[j].is_direct}
    BY <1>7
  <2>. QED
    BY <2>1 DEF Seen
<1>8. ASSUME n # Len(ds), ds[n + 1].is_direct
      PROVE  /\ ds[n + 1].index \in direct /\ ds[n + 1].index \notin Seen(ds, n)
             /\ Seen(ds, n + 1) = Seen(ds, n) \cup {ds[n + 1].index}
  <2>1. n + 1 \in 1 .. m
    BY <1>1, <1>8
  <2>2. ds[n + 1] \in ToSet(ds)
    BY <1>2, <2>1
  <2>3. ds[n + 1].index \in direct
    BY <1>8, <2>2
  <2>4. ASSUME NEW i \in 1 .. n, ds[i].is_direct, ds[i].index = ds[n + 1].index
        PROVE  FALSE
    <3>1. i \in 1 .. m /\ i # n + 1
      BY <1>1
    <3>2. ds[i] = ds[n + 1]
      BY <1>2, <1>8, <2>1, <2>4, <3>1, CaptureIsRecord
    <3>. QED
      BY <1>2, <2>1, <3>1, <3>2 DEF IsInjective
  <2>5. {j \in 1 .. n + 1 : ds[j].is_direct} = {j \in 1 .. n : ds[j].is_direct} \cup {n + 1}
    BY <1>8
  <2>. QED
    BY <2>3, <2>4, <2>5 DEF Seen
<1>. QED
  BY <1>3, <1>4, <1>5, <1>6, <1>7, <1>8

(* All rounds: there is always an address left, and every capture of the    *)
(* function text becomes an upvalue of the closure.                         *)
Rounds(made, ds) ==
  /\ CaptureAll(ds) = made[Len(ds)]
  /\ made[0] = Going(upvalues, Open, <<>>)
  /\ \A n \in 1 .. Len(ds) : made[n] = Capture(made[n - 1], ds[n])

RoundDone(made, ds, n) ==
  \E us, o, c :
    /\ LoopOK(us, o, c)
    /\ made[n] = Stopped(us, o, c) \/ (made[n] = Going(us, o, c) /\ Len(c) = n)
    /\ n # Len(ds) /\ ds[n + 1].is_direct => DOMAIN us # 1 .. NUpvalues

LEMMA CaptureRounds ==
  ASSUME MachineIInv, Running, NEW ds \in Seq(Captures), IsInjective(ds),
         NEW direct, direct = {d.index : d \in {e \in ToSet(ds) : e.is_direct}},
         Cardinality(DOMAIN upvalues) + Cardinality(direct) <= NUpvalues
  PROVE  \E made : Rounds(made, ds) /\ \A n \in 0 .. Len(ds) : RoundDone(made, ds, n)
<1>1. Len(ds) \in Nat
  OBVIOUS
<1>2. PICK made : /\ CaptureAll(ds) = made[Len(ds)]
                  /\ made[0] = Going(upvalues, Open, <<>>)
                  /\ \A n \in 1 .. Len(ds) : made[n] = Capture(made[n - 1], ds[n])
  BY <1>1, CaptureAllUnfolds
<1> DEFINE K == Cardinality(DOMAIN upvalues)
           Done(n) == \E us, o, c :
             /\ LoopOK(us, o, c)
             /\ made[n] = Stopped(us, o, c) \/ (made[n] = Going(us, o, c) /\ Len(c) = n)
             /\ Cardinality(DOMAIN us) <= K + Cardinality(Seen(ds, n))
           Bad == {n \in 0 .. Len(ds) : ~Done(n)}
<1>3. NUpvalues \in Nat /\ IsFiniteSet(1 .. NUpvalues) /\ Cardinality(1 .. NUpvalues) = NUpvalues
  <2>1. NUpvalues \in Nat
    BY ClosuresAssumption
  <2>. QED
    BY <2>1, FS_Interval
<1>4. \A us, o, c : LoopOK(us, o, c) =>
        IsFiniteSet(DOMAIN us) /\ Cardinality(DOMAIN us) \in Nat /\ DOMAIN us \subseteq 1 .. NUpvalues
  BY <1>3, FS_Subset, FS_CardinalityType DEF LoopOK
<1>5. LoopOK(upvalues, Open, <<>>) /\ K \in Nat
  <2>1. Open \in Seq(DOMAIN upvalues)
    BY RunningClosure, TheseMembers
  <2>2. DOMAIN upvalues \subseteq 1 .. NUpvalues
    BY DEF MachineIInv, UpvaluesOK
  <2>3. LoopOK(upvalues, Open, <<>>)
    BY <2>1, <2>2, ObjectFacts DEF LoopOK
  <2>. QED
    BY <1>4, <2>3
<1>6. Done(0)
  <2>1. 0 \in 0 .. Len(ds)
    BY <1>1
  <2>2. Cardinality(Seen(ds, 0)) \in Nat
    BY <2>1, SeenFacts
  <2>3. PICK us, o, c : us = upvalues /\ o = Open /\ c = <<>>
    OBVIOUS
  <2>4. LoopOK(us, o, c) /\ made[0] = Going(us, o, c) /\ Len(c) = 0
        /\ Cardinality(DOMAIN us) <= K + Cardinality(Seen(ds, 0))
    BY <1>2, <1>5, <2>2, <2>3
  <2>. QED
    BY <2>4
<1>7. ASSUME NEW n \in 0 .. Len(ds), n # Len(ds), Done(n)
      PROVE  Done(n + 1)
  <2>1. PICK us, o, c :
          /\ LoopOK(us, o, c)
          /\ made[n] = Stopped(us, o, c) \/ (made[n] = Going(us, o, c) /\ Len(c) = n)
          /\ Cardinality(DOMAIN us) <= K + Cardinality(Seen(ds, n))
    BY <1>7
  <2>2. PICK d : d = ds[n + 1]
    OBVIOUS
  <2>3. d \in Captures /\ n + 1 \in 1 .. Len(ds) /\ n + 1 \in 0 .. Len(ds)
    BY <1>1, <1>7, <2>2
  <2>4. made[n + 1] = Capture(made[n], d)
    BY <1>2, <2>2, <2>3
  <2>5. /\ IsFiniteSet(direct) /\ IsFiniteSet(Seen(ds, n)) /\ Seen(ds, n) \subseteq direct
        /\ Cardinality(direct) \in Nat /\ Cardinality(Seen(ds, n)) \in Nat
        /\ Cardinality(Seen(ds, n + 1)) \in Nat
        /\ ~d.is_direct => Seen(ds, n + 1) = Seen(ds, n)
        /\ d.is_direct => /\ d.index \in direct /\ d.index \notin Seen(ds, n)
                          /\ Seen(ds, n + 1) = Seen(ds, n) \cup {d.index}
    BY <1>7, <2>2, <2>3, SeenFacts
  <2>6. d.is_direct \in BOOLEAN
    BY <2>3, CaptureIsDirect
  <2>7. PICK p, q, r : p = Cardinality(Seen(ds, n)) /\ q = Cardinality(Seen(ds, n + 1))
                       /\ r = Cardinality(direct)
    OBVIOUS
  <2>8. p \in Nat /\ q \in Nat /\ r \in Nat /\ q >= p /\ (d.is_direct => q = p + 1 /\ p < r)
    <3>1. ASSUME d.is_direct
          PROVE  q = p + 1 /\ p < r
      <4>1. q = p + 1
        BY <2>5, <2>7, <3>1, FS_AddElement
      <4>2. p <= r /\ (r = p => direct = Seen(ds, n))
        BY <2>5, <2>7, FS_Subset
      <4>. QED
        BY <2>5, <2>7, <3>1, <4>1, <4>2
    <3>. QED
      BY <2>5, <2>6, <2>7, <3>1
  <2>9. CASE made[n] = Stopped(us, o, c)
    <3>1. made[n + 1] = Stopped(us, o, c)
      BY <2>4, <2>9, CaptureStopped
    <3>2. Cardinality(DOMAIN us) <= K + q
      BY <1>4, <1>5, <2>1, <2>7, <2>8
    <3>3. Cardinality(DOMAIN us) <= K + Cardinality(Seen(ds, n + 1))
      BY <2>7, <3>2
    <3>. QED
      BY <2>1, <3>1, <3>3
  <2>10. CASE made[n] = Going(us, o, c) /\ Len(c) = n
    <3>1. d.is_direct => DOMAIN us # 1 .. NUpvalues
      BY <1>3, <1>4, <1>5, <2>1, <2>7, <2>8
    <3>2. PICK vs, t, e :
            /\ LoopOK(vs, t, e)
            /\ \/ made[n + 1] = Stopped(vs, t, e)
               \/ made[n + 1] = Going(vs, t, e) /\ Len(e) = n + 1
            /\ \/ DOMAIN vs = DOMAIN us
               \/ d.is_direct /\ \E a : a \notin DOMAIN us /\ DOMAIN vs = DOMAIN us \cup {a}
      <4>1. LoopOK(us, o, c)
        BY <2>1
      <4>2. PICK w : w = Going(us, o, c)
        OBVIOUS
      <4>3. RoundOK(us, c, d, Capture(w, d))
        BY <2>3, <3>1, <4>1, <4>2, CaptureKeeps
      <4>4. made[n + 1] = Capture(w, d) /\ Len(c) = n
        BY <2>4, <2>10, <4>2
      <4>. QED
        BY <4>3, <4>4 DEF RoundOK
    <3>3. Cardinality(DOMAIN vs) <= K + q
      <4>1. ASSUME DOMAIN vs = DOMAIN us
            PROVE  Cardinality(DOMAIN vs) <= K + q
        BY <1>4, <1>5, <2>1, <2>7, <2>8, <4>1
      <4>2. ASSUME d.is_direct, NEW a, a \notin DOMAIN us, DOMAIN vs = DOMAIN us \cup {a}
            PROVE  Cardinality(DOMAIN vs) <= K + q
        <5>1. Cardinality(DOMAIN vs) = Cardinality(DOMAIN us) + 1
          BY <1>4, <2>1, <4>2, FS_AddElement
        <5>2. PICK x, y : x = Cardinality(DOMAIN us) /\ y = K
          OBVIOUS
        <5>3. x \in Nat /\ y \in Nat /\ x <= y + p /\ q = p + 1
          BY <1>4, <1>5, <2>1, <2>7, <2>8, <4>2, <5>2
        <5>4. x + 1 <= y + q
          BY <2>8, <5>3
        <5>. QED
          BY <5>1, <5>2, <5>4
      <4>. QED
        BY <3>2, <4>1, <4>2
    <3>4. Cardinality(DOMAIN vs) <= K + Cardinality(Seen(ds, n + 1))
      BY <2>7, <3>3
    <3>. QED
      BY <3>2, <3>4
  <2>. QED
    BY <2>1, <2>9, <2>10
<1>8. Bad = {}
  <2>1. SUFFICES ASSUME Bad # {} PROVE FALSE
    OBVIOUS
  <2>2. PICK m \in Bad : \A n \in Bad : m <= n
    <3>1. Bad \in SUBSET Nat
      OBVIOUS
    <3>. HIDE DEF Bad
    <3>. QED
      BY <2>1, <3>1, LeastElement
  <2>3. m \in 0 .. Len(ds) /\ ~Done(m)
    OBVIOUS
  <2>. HIDE DEF Done
  <2>4. m # 0
    BY <1>6, <2>3
  <2>5. m - 1 \in 0 .. Len(ds) /\ m - 1 # Len(ds) /\ ~ (m <= m - 1) /\ m - 1 + 1 = m
    BY <1>1, <2>3, <2>4
  <2>6. Done(m - 1)
    BY <2>2, <2>5
  <2>. QED
    BY <1>7, <2>3, <2>5, <2>6
<1>9. ASSUME NEW n \in 0 .. Len(ds)
      PROVE  RoundDone(made, ds, n)
  <2>1. PICK us, o, c :
          /\ LoopOK(us, o, c)
          /\ made[n] = Stopped(us, o, c) \/ (made[n] = Going(us, o, c) /\ Len(c) = n)
          /\ Cardinality(DOMAIN us) <= K + Cardinality(Seen(ds, n))
    BY <1>8
  <2>2. ASSUME n # Len(ds), ds[n + 1].is_direct
        PROVE  DOMAIN us # 1 .. NUpvalues
    <3>1. /\ IsFiniteSet(direct) /\ Seen(ds, n) \subseteq direct /\ Cardinality(direct) \in Nat
          /\ Cardinality(Seen(ds, n)) \in Nat
          /\ ds[n + 1].index \in direct /\ ds[n + 1].index \notin Seen(ds, n)
      BY <2>2, SeenFacts
    <3>2. PICK q, r : q = Cardinality(Seen(ds, n)) /\ r = Cardinality(direct)
      OBVIOUS
    <3>3. q \in Nat /\ r \in Nat /\ q <= r /\ (q = r => direct = Seen(ds, n))
      BY <3>1, <3>2, FS_Subset
    <3>4. q < r
      BY <3>1, <3>3
    <3>5. PICK x, y : x = Cardinality(DOMAIN us) /\ y = K
      OBVIOUS
    <3>6. x \in Nat /\ y \in Nat /\ x <= y + q /\ y + r <= NUpvalues
      BY <1>4, <1>5, <2>1, <3>2, <3>5
    <3>7. x < NUpvalues
      BY <1>3, <3>3, <3>4, <3>6
    <3>8. x # NUpvalues
      BY <1>3, <3>6, <3>7
    <3>. QED
      BY <1>3, <3>5, <3>8
  <2>. QED
    BY <2>1, <2>2 DEF RoundDone
<1>. QED
  BY <1>2, <1>9 DEF Rounds

LEMMA CaptureAllKeeps ==
  ASSUME MachineIInv, Running, NEW ds \in Seq(Captures), IsInjective(ds),
         NEW direct, direct = {d.index : d \in {e \in ToSet(ds) : e.is_direct}},
         Cardinality(DOMAIN upvalues) + Cardinality(direct) <= NUpvalues
  PROVE  \E us, o, c :
           /\ LoopOK(us, o, c)
           /\ \/ CaptureAll(ds) = Stopped(us, o, c)
              \/ CaptureAll(ds) = Going(us, o, c) /\ Len(c) = Len(ds)
<1>1. PICK made : Rounds(made, ds) /\ \A n \in 0 .. Len(ds) : RoundDone(made, ds, n)
  BY CaptureRounds
<1>2. Len(ds) \in 0 .. Len(ds)
  OBVIOUS
<1>3. RoundDone(made, ds, Len(ds)) /\ CaptureAll(ds) = made[Len(ds)]
  BY <1>1, <1>2 DEF Rounds
<1>. QED
  BY <1>3 DEF RoundDone

LEMMA CaptureListsFacts ==
  ASSUME MachineIInv, NEW ds \in CaptureLists
  PROVE  Running /\ ds \in Seq(Captures) /\ IsInjective(ds) /\ Len(ds) \in Nat
<1>1. Running
  BY DEF CaptureLists
<1>2. ds \in BoundedSeq(Captures, MaxCaptures) /\ IsInjective(ds)
  BY <1>1 DEF CaptureLists
<1>3. MaxCaptures \in Nat
  BY ClosuresAssumption
<1>4. PICK m \in 0 .. MaxCaptures : ds \in [1 .. m -> Captures]
  BY <1>2 DEF BoundedSeq, SeqOf
<1>5. ds \in Seq(Captures)
  BY <1>3, <1>4
<1>. QED
  BY <1>1, <1>2, <1>5

LEMMA MeantFacts ==
  ASSUME MachineIInv, Running, NEW d \in Captures
  PROVE  Meant(d) \in Var
<1>1. CASE d.is_direct
  <2>1. d.index \in 1 .. Len(Top.locals)
    <3>1. Top.locals \in Seq(BOOLEAN)
      BY TopFacts
    <3>2. d.index \in DOMAIN Top.locals
      BY <1>1, CaptureIsDirect
    <3>. QED
      BY <3>1, <3>2
  <2>2. PICK v : v = Top.base + d.index - 1
    OBVIOUS
  <2>3. v \in 1 .. Len(stack_) /\ Len(stack_) <= MaxStack /\ Len(stack_) \in Nat
    BY <2>1, <2>2, TopFacts DEF MachineIInv, StackOK
  <2>4. v \in Var
    BY <2>3, ClosuresAssumption DEF Var, Lost
  <2>. QED
    BY <1>1, <2>2, <2>4 DEF Meant
<1>2. CASE ~d.is_direct
  <2>1. d.index \in DOMAIN Captured
    BY <1>2, CaptureIsDirect
  <2>2. PICK vs : vs = closures[Top.closure].vars
    OBVIOUS
  <2>3. vs \in Seq(Var) /\ d.index \in 1 .. Len(vs)
    BY <2>1, <2>2, RunningClosure
  <2>4. vs[d.index] \in Var
    BY <2>3
  <2>. QED
    BY <1>2, <2>2, <2>4 DEF Meant
<1>. QED
  BY <1>1, <1>2

Marked(direct) == [Pushed EXCEPT !.locals = [i \in DOMAIN @ |-> @[i] \/ i \in direct]]

(* What the instruction does to the state when the search did not fail. *)
MakeClosureStep(c, d, us, o, direct) ==
  /\ Push(c)
  /\ upvalues' = us
  /\ closures' = With([closures EXCEPT ![Top.closure].open_upvalues = o], c, d)
  /\ call_frames_' = WithTop(Marked(direct))
  /\ UNCHANGED <<globals_, crashed, scripts, errors>>

LEMMA MakeClosureCases ==
  ASSUME MachineIInv, NEW arity, NEW anonymous, NEW ds \in CaptureLists,
         MakeClosure(arity, anonymous, ds)
  PROVE  \E us, o, cc, direct :
           /\ direct = {d.index : d \in {e \in ToSet(ds) : e.is_direct}}
           /\ ReenterCapturing \/ direct = {} \/ ~Nested
           /\ LoopOK(us, o, cc)
           /\ \/ CaptureAll(ds) = Stopped(us, o, cc) /\ Crash("bad_variant_access")
              \/ /\ CaptureAll(ds) = Going(us, o, cc) /\ Len(cc) = Len(ds)
                 /\ DOMAIN closures # 1 .. NClosures
                 /\ MakeClosureStep(NewClosure,
                      [arity |-> arity, anonymous |-> anonymous, upvalues |-> cc,
                       open_upvalues |-> <<>>, vars |-> [i \in DOMAIN ds |-> Meant(ds[i])]],
                      us, o, direct)
<1>1. PICK made, direct : /\ made = CaptureAll(ds)
                          /\ direct = {d.index : d \in {e \in ToSet(ds) : e.is_direct}}
  OBVIOUS
<1>2. /\ Running /\ DOMAIN closures # 1 .. NClosures
      /\ Cardinality(DOMAIN upvalues) + Cardinality(direct) <= NUpvalues
      /\ ReenterCapturing \/ direct = {} \/ ~Nested
      /\ \/ made.failed /\ Crash("bad_variant_access")
         \/ /\ ~made.failed
            /\ MakeClosureStep(NewClosure,
                 [arity |-> arity, anonymous |-> anonymous, upvalues |-> made.captured,
                  open_upvalues |-> <<>>, vars |-> [i \in DOMAIN ds |-> Meant(ds[i])]],
                 made.upvalues, made.open, direct)
  BY <1>1 DEF MakeClosure, MakeClosureStep, Marked
<1>3. Running /\ ds \in Seq(Captures) /\ IsInjective(ds)
  BY CaptureListsFacts
<1>4. PICK us, o, cc : /\ LoopOK(us, o, cc)
                       /\ \/ made = Stopped(us, o, cc)
                          \/ made = Going(us, o, cc) /\ Len(cc) = Len(ds)
  <2>1. Cardinality(DOMAIN upvalues) + Cardinality(direct) <= NUpvalues
    BY <1>2
  <2>. QED
    BY <1>1, <1>3, <2>1, CaptureAllKeeps
<1>5. CASE made = Stopped(us, o, cc)
  <2>1. made.failed
    BY <1>5 DEF Stopped
  <2>2. Crash("bad_variant_access")
    BY <1>2, <2>1
  <2>. QED
    BY <1>1, <1>2, <1>4, <1>5, <2>2
<1>6. CASE made = Going(us, o, cc) /\ Len(cc) = Len(ds)
  <2>1. ~made.failed /\ made.upvalues = us /\ made.open = o /\ made.captured = cc
    BY <1>6 DEF Going
  <2>2. MakeClosureStep(NewClosure,
          [arity |-> arity, anonymous |-> anonymous, upvalues |-> cc,
           open_upvalues |-> <<>>, vars |-> [i \in DOMAIN ds |-> Meant(ds[i])]],
          us, o, direct)
    BY <1>2, <2>1
  <2>. QED
    BY <1>1, <1>2, <1>4, <1>6, <2>2
<1>. QED
  BY <1>4, <1>5, <1>6

(* The activation that made the closure: one operand more, and the locals   *)
(* it captured are marked.                                                  *)
LEMMA MarkedFacts ==
  ASSUME MachineIInv, Running, NEW direct, NEW g, g = Marked(direct)
  PROVE  /\ g \in Frame /\ g.closure = Top.closure /\ g.begin = Top.begin /\ g.base = Top.base
         /\ g.fixed = Top.fixed /\ g.temps = Top.temps + 1
         /\ g.locals \in Seq(BOOLEAN) /\ Len(g.locals) = Len(Top.locals)
         /\ \A i \in 1 .. Len(Top.locals) : g.locals[i] <=> (Top.locals[i] \/ i \in direct)
<1>1. PICK t : t = [i \in DOMAIN Top.locals |-> Top.locals[i] \/ i \in direct]
  OBVIOUS
<1>2. PICK n \in Nat : n = Len(Top.locals)
  BY TopFacts
<1>3. DOMAIN Top.locals = 1 .. n
  BY <1>2, TopFacts
<1>4. t \in [1 .. n -> BOOLEAN] /\ \A i \in 1 .. n : t[i] <=> (Top.locals[i] \/ i \in direct)
  BY <1>1, <1>3
<1>5. t \in Seq(BOOLEAN) /\ Len(t) = n
  BY <1>4
<1>6. PICK k \in Nat : k = Top.temps + 1
  BY TopFacts
<1>7. g = [[Top EXCEPT !.temps = k] EXCEPT !.locals = t]
  BY <1>1, <1>6, TopFacts DEF Pushed, Frame, Marked
<1>8. /\ g \in Frame /\ g.closure = Top.closure /\ g.begin = Top.begin /\ g.base = Top.base
      /\ g.fixed = Top.fixed /\ g.temps = k /\ g.locals = t
  BY <1>5, <1>7, TopFacts DEF Frame
<1>. QED
  BY <1>2, <1>4, <1>5, <1>6, <1>8

LEMMA MakeClosureKeeps ==
  ASSUME MachineIInv, NEW arity \in Arities, NEW anonymous \in BOOLEAN, NEW ds \in CaptureLists,
         MakeClosure(arity, anonymous, ds)
  PROVE  MachineIInv'
<1>1. Running /\ ds \in Seq(Captures) /\ Len(ds) \in Nat
  BY CaptureListsFacts
<1>2. PICK us, o, cc, direct :
        /\ LoopOK(us, o, cc)
        /\ \/ Crash("bad_variant_access")
           \/ /\ Len(cc) = Len(ds)
              /\ DOMAIN closures # 1 .. NClosures
              /\ MakeClosureStep(NewClosure,
                   [arity |-> arity, anonymous |-> anonymous, upvalues |-> cc,
                    open_upvalues |-> <<>>, vars |-> [i \in DOMAIN ds |-> Meant(ds[i])]],
                   us, o, direct)
  BY MakeClosureCases
<1>3. ASSUME Crash("bad_variant_access")
      PROVE  MachineIInv'
  BY <1>3, CrashKeeps DEF Exceptions
<1>4. PICK c, d, vs : /\ c = NewClosure
                      /\ vs = [i \in DOMAIN ds |-> Meant(ds[i])]
                      /\ d = [arity |-> arity, anonymous |-> anonymous, upvalues |-> cc,
                              open_upvalues |-> <<>>, vars |-> vs]
  OBVIOUS
<1>5. ASSUME Len(cc) = Len(ds), DOMAIN closures # 1 .. NClosures, MakeClosureStep(c, d, us, o, direct)
      PROVE  MachineIInv'
  <2>1. c \in 1 .. NClosures /\ c \notin DOMAIN closures
    BY <1>4, <1>5, FreeAddress
  <2>2. /\ DOMAIN upvalues \subseteq DOMAIN us /\ DOMAIN us \subseteq 1 .. NUpvalues
        /\ \A u \in DOMAIN us : UpvalueOK(us[u], DOMAIN closures)
        /\ o \in Seq(DOMAIN us) /\ cc \in Seq(DOMAIN us)
    BY <1>2 DEF LoopOK
  <2>3. o \in Seq(1 .. NUpvalues) /\ cc \in Seq(1 .. NUpvalues)
    BY <2>2, MoreMembers
  <2>4. PICK es : es = [closures EXCEPT ![Top.closure].open_upvalues = o]
    OBVIOUS
  <2>5. DOMAIN es = DOMAIN closures /\ \A x \in DOMAIN closures : ClosureOK(es[x], DOMAIN us)
    <3>1. PICK a, w : a = Top.closure /\ w = DOMAIN us
      OBVIOUS
    <3>2. a \in DOMAIN closures /\ DOMAIN upvalues \subseteq w /\ \A i \in 1 .. Len(o) : o[i] \in w
      <4>1. a \in DOMAIN closures
        BY <1>1, <3>1, TopFacts
      <4>. QED
        BY <2>2, <3>1, <4>1
    <3>3. /\ DOMAIN [closures EXCEPT ![a].open_upvalues = o] = DOMAIN closures
          /\ \A x \in DOMAIN closures : ClosureOK([closures EXCEPT ![a].open_upvalues = o][x], w)
      BY <2>3, <3>2, OpenListSet
    <3>. QED
      BY <2>4, <3>1, <3>3
  <2>6. /\ closures' = With(es, c, d) /\ upvalues' = us /\ Push(c)
        /\ UNCHANGED <<globals_, crashed, scripts, errors>>
    BY <1>5, <2>4 DEF MakeClosureStep
  <2>7. /\ DOMAIN closures' = DOMAIN closures \cup {c} /\ closures'[c] = d
        /\ \A x \in DOMAIN closures : closures'[x] = es[x]
    BY <2>1, <2>5, <2>6 DEF With
  <2>8. vs \in Seq(Var) /\ Len(vs) = Len(ds)
    <3>1. PICK n \in Nat : n = Len(ds)
      BY <1>1
    <3>2. DOMAIN ds = 1 .. n /\ \A i \in 1 .. n : Meant(ds[i]) \in Var
      BY <1>1, <3>1, MeantFacts
    <3>3. vs \in [1 .. n -> Var]
      BY <1>4, <3>2
    <3>. QED
      BY <3>1, <3>3
  <2>9. ClosureOK(d, DOMAIN us)
    <3>1. arity \in 0 .. 1
      BY ClosuresAssumption
    <3>2. /\ d \in Closure /\ d.upvalues = cc /\ d.open_upvalues = <<>> /\ d.vars = vs
      BY <1>4, <2>3, <2>8, <3>1 DEF Closure
    <3>. QED
      BY <1>5, <2>2, <2>8, <3>2 DEF ClosureOK
  <2>10. ClosuresOK'
    BY <2>1, <2>5, <2>6, <2>7, <2>9 DEF MachineIInv, ClosuresOK
  <2>11. UpvaluesOK'
    <3>1. \A u \in DOMAIN us : UpvalueOK(us[u], DOMAIN closures')
      BY <2>2, <2>7 DEF UpvalueOK, Live
    <3>. QED
      BY <2>2, <2>6, <3>1 DEF UpvaluesOK
  <2>12. StackOK' /\ Len(stack_') = Len(stack_) + 1
    <3>1. c \in Value /\ Live(c, DOMAIN closures') /\ DOMAIN closures \subseteq DOMAIN closures'
      BY <2>1, <2>7 DEF Value, Live
    <3>. QED
      BY <2>6, <3>1, StackPushed
  <2>13. FramesOK'
    <3>1. PICK g : g = Marked(direct)
      OBVIOUS
    <3>2. /\ g \in Frame /\ g.closure = Top.closure /\ g.begin = Top.begin /\ g.base = Top.base
          /\ g.temps = Top.temps + 1 /\ Len(g.locals) = Len(Top.locals)
      BY <1>1, <3>1, MarkedFacts
    <3>3. call_frames_' = WithTop(g)
      BY <1>5, <3>1 DEF MakeClosureStep
    <3>4. Len(stack_') + 1 = Above(g)
      <4>1. Above(g) = Top.base + Len(Top.locals) + (Top.temps + 1)
        BY <3>2 DEF Above
      <4>2. PICK h, b, k, t : h = Len(stack_) /\ b = Top.base /\ k = Len(Top.locals) /\ t = Top.temps
        OBVIOUS
      <4>3. h \in Nat /\ b \in Nat /\ k \in Nat /\ t \in Nat /\ h + 1 = b + k + t
        BY <1>1, <4>2, Counts
      <4>4. h + 1 + 1 = b + k + (t + 1)
        BY <4>3
      <4>. QED
        BY <2>12, <4>1, <4>2, <4>4
    <3>5. \A n \in 1 .. Len(call_frames_) : call_frames_[n].closure \in DOMAIN closures'
      BY <2>7, LiveFrames
    <3>. QED
      BY <1>1, <3>2, <3>3, <3>4, <3>5, TopReplaced
  <2>14. GlobalsOK' /\ CountersOK'
    BY <2>6, <2>7, SameGlobals DEF MachineIInv, CountersOK
  <2>. QED
    BY <2>10, <2>11, <2>12, <2>13, <2>14 DEF MachineIInv
<1>. QED
  BY <1>2, <1>3, <1>4, <1>5

-----------------------------------------------------------------------------
(* For any bounds, and whatever the exclusions *)

LEMMA MachineInit ==
  ASSUME Init
  PROVE  MachineIInv
<1>1. /\ stack_ = <<>> /\ call_frames_ = <<>> /\ globals_ = [g \in Globals |-> Plain]
      /\ closures = <<>> /\ upvalues = <<>> /\ crashed = "none" /\ scripts = 0 /\ errors = 0
  BY DEF Init
<1>2. {MaxFrames, MaxStack, MaxScripts, MaxErrors} \subseteq Nat
  BY ClosuresAssumption
<1>3. FramesOK /\ StackOK
  BY <1>1, <1>2 DEF FramesOK, StackOK
<1>4. GlobalsOK
  BY <1>1 DEF GlobalsOK, Live, Value
<1>5. UpvaluesOK /\ ClosuresOK
  BY <1>1 DEF UpvaluesOK, ClosuresOK
<1>6. CountersOK
  BY <1>1, <1>2 DEF CountersOK, Exceptions
<1>. QED
  BY <1>3, <1>4, <1>5, <1>6 DEF MachineIInv

LEMMA MachineStutter ==
  ASSUME MachineIInv, UNCHANGED vars
  PROVE  MachineIInv'
<1>1. NoObjectChanges /\ call_frames_' = call_frames_ /\ stack_' = stack_ /\ closures' = closures
  BY DEF vars, NoObjectChanges
<1>2. FramesOK' /\ StackOK'
  BY <1>1, LiveFrames, SameFrames DEF MachineIInv, StackOK
<1>. QED
  BY <1>1, <1>2, OperandsKeep

LEMMA MachineNext ==
  ASSUME MachineIInv, Next
  PROVE  MachineIInv'
<1>1. ASSUME NEW arity \in Arities, NEW anonymous \in {FALSE, AnonymousFunctions},
             NEW ds \in CaptureLists, MakeClosure(arity, anonymous, ds)
      PROVE  MachineIInv'
  <2>1. anonymous \in BOOLEAN
    BY ClosuresAssumption
  <2>. QED
    BY <1>1, <2>1, MakeClosureKeeps
<1>. QED
  BY <1>1, RunScriptKeeps, EndScriptKeeps, RuntimeErrorKeeps, ConstantKeeps, PopKeeps,
     DeclareLocalKeeps, GetLocalKeeps, SetLocalKeeps, GetGlobalKeeps, SetGlobalKeeps,
     GetUpvalueKeeps, SetUpvalueKeeps, PopLocalKeeps, CloseUpvalueKeeps, CallKeeps, ReturnKeeps,
     CollectGarbageKeeps DEF Next

(* Whatever the program does, with function expressions, reentered closures  *)
(* and runtime errors too: the activations lie on the stack end to end, each *)
(* as high as the compiler counted, and everything named exists.             *)
THEOREM MachineInvariant == Spec => []MachineIInv
<1>1. Init => MachineIInv
  BY MachineInit
<1>2. MachineIInv /\ [Next]_vars => MachineIInv'
  BY MachineNext, MachineStutter
<1>. QED
  BY <1>1, <1>2, PTL DEF Spec

(* Every value, activation, upvalue and closure is of its type, and the     *)
(* stack, the activations and the heap are within their bounds.             *)
LEMMA TypeFacts ==
  ASSUME MachineIInv
  PROVE  TypeOK
<1>1. Range(closures) \subseteq Closure
  BY DEF MachineIInv, ClosuresOK, ClosureOK, Range
<1>2. Range(upvalues) \subseteq Upvalue
  BY DEF MachineIInv, UpvaluesOK, UpvalueOK, Range
<1>. QED
  BY <1>1, <1>2
  DEF MachineIInv, FramesOK, StackOK, GlobalsOK, UpvaluesOK, ClosuresOK, CountersOK, TypeOK

(* TypeOK: every value of the stack and the globals, every activation,       *)
(* upvalue and closure is what the instructions of VM::run take it for, and  *)
(* nothing outgrows its bound.                                               *)
THEOREM ClosuresTypes == Spec => []TypeOK
BY MachineInvariant, TypeFacts, PTL

LEMMA NothingFreedFacts ==
  ASSUME MachineIInv
  PROVE  NothingFreedInUse
<1>1. /\ \A i \in DOMAIN stack_ : LiveValue(stack_[i])
      /\ \A g \in Globals : LiveValue(globals_[g])
  BY DEF MachineIInv, StackOK, GlobalsOK, Live, LiveValue
<1>2. \A f \in ToSet(call_frames_) : f.closure \in DOMAIN closures
  <2>1. ToSet(call_frames_) = {call_frames_[i] : i \in 1 .. Len(call_frames_)}
    BY ToSetFacts DEF MachineIInv, FramesOK
  <2>. QED
    BY <2>1, LiveFrames
<1>3. ASSUME NEW c \in DOMAIN closures,
             NEW u \in ToSet(closures[c].upvalues) \cup ToSet(closures[c].open_upvalues)
      PROVE  LiveUpvalue(u)
  <2>1. PICK d : d = closures[c]
    OBVIOUS
  <2>2. ClosureOK(d, DOMAIN upvalues) /\ d.upvalues \in Seq(1 .. NUpvalues)
        /\ d.open_upvalues \in Seq(1 .. NUpvalues)
    BY <2>1, ObjectFacts DEF ClosureOK, Closure
  <2>3. ToSet(d.upvalues) \subseteq DOMAIN upvalues /\ ToSet(d.open_upvalues) \subseteq DOMAIN upvalues
    BY <2>2, ToSetFacts DEF ClosureOK
  <2>. QED
    BY <2>1, <2>3 DEF LiveUpvalue
<1>4. ASSUME NEW u \in DOMAIN upvalues, InRange(u)
      PROVE  LiveValue(ValueOf(u))
  BY <1>4, ValueFacts DEF Live, LiveValue
<1>. QED
  BY <1>1, <1>2, <1>3, <1>4 DEF NothingFreedInUse

(* Whatever is collected, and whenever, everything the running program can  *)
(* still name exists; with the exclusions and without them.                 *)
THEOREM NothingFreed == Spec => []NothingFreedInUse
BY MachineInvariant, NothingFreedFacts, PTL

-----------------------------------------------------------------------------
(* Without the three known defects: no closure has two activations that     *)
(* capture, no function is written as an expression, no script follows a    *)
(* runtime error.                                                           *)
Exclusions == ~ReenterCapturing /\ ~AnonymousFunctions /\ (MaxErrors = 0 \/ MaxScripts <= 1)

InList(u, s) == \E i \in 1 .. Len(s) : s[i] = u

(* An open upvalue is the variable at its slot: some activation fs[n] has a *)
(* local there, marked as captured, and the upvalue in its open list.       *)
OwnedBy(u, w, fs, cs, n) ==
  /\ w.stack_index \in Locals(fs[n])
  /\ fs[n].locals[w.stack_index - fs[n].base + 1]
  /\ InList(u, cs[fs[n].closure].open_upvalues)

Owned(u, w, fs, cs) == w.var = w.stack_index /\ \E n \in 1 .. Len(fs) : OwnedBy(u, w, fs, cs, n)

VariablesOK ==
  \A u \in DOMAIN upvalues :
    IF upvalues[u].open /\ errors = 0
    THEN Owned(u, upvalues[u], call_frames_, closures)
    ELSE upvalues[u].var = Escaped(u)

(* A closure's body means the variables of its upvalues. *)
MeansOK(d, us) ==
  /\ ~d.anonymous
  /\ \A k \in 1 .. Len(d.upvalues) : us[d.upvalues[k]].var = d.vars[k]

BodiesOK == \A c \in DOMAIN closures : MeansOK(closures[c], upvalues)

ListOK(f, us, o) ==
  /\ \A i \in 1 .. Len(o) : us[o[i]].open /\ us[o[i]].stack_index \in Locals(f)
  /\ \A i, j \in 1 .. Len(o) : i < j => us[o[i]].stack_index < us[o[j]].stack_index

ListsOK ==
  \A n \in 1 .. Len(call_frames_) :
    ListOK(call_frames_[n], upvalues, closures[call_frames_[n].closure].open_upvalues)

BaseOK ==
  /\ \A n \in 1 .. Len(call_frames_) : call_frames_[n].base = call_frames_[n].begin
  /\ call_frames_ # <<>> => call_frames_[1].begin = 1

SessionOK ==
  /\ crashed = "none"
  /\ call_frames_ # <<>> => scripts >= 1
  /\ errors > 0 => call_frames_ = <<>> /\ scripts >= MaxScripts
  /\ errors = 0 /\ call_frames_ = <<>> => stack_ = <<>>

SharingIInv == VariablesOK /\ BodiesOK /\ ListsOK /\ BaseOK /\ SessionOK
(* Activations lie above one another, so they share no local. *)
LEMMA FramesOrdered ==
  ASSUME MachineIInv, NEW n \in 1 .. Len(call_frames_), NEW m \in 1 .. Len(call_frames_), n < m
  PROVE  Above(call_frames_[n]) <= call_frames_[m].begin
<1>1. PICK k \in Nat : k = Len(call_frames_)
  BY DEF MachineIInv, FramesOK
<1>2. ASSUME NEW i \in 1 .. k
      PROVE  /\ call_frames_[i].begin \in Nat /\ Above(call_frames_[i]) \in Nat
             /\ call_frames_[i].begin <= Above(call_frames_[i])
  <2>1. PICK f : f = call_frames_[i]
    OBVIOUS
  <2>2. FrameOK(f, DOMAIN closures) /\ f \in Frame
    BY <1>1, <2>1 DEF MachineIInv, FramesOK, FrameOK
  <2>3. f.begin \in Nat /\ f.base \in Nat /\ f.temps \in Nat /\ Len(f.locals) \in Nat
    BY <2>2, FrameFields
  <2>4. f.base >= f.begin
    BY <2>2 DEF FrameOK
  <2>5. PICK b, e, l, t : b = f.begin /\ e = f.base /\ l = Len(f.locals) /\ t = f.temps
    OBVIOUS
  <2>6. b \in Nat /\ e \in Nat /\ l \in Nat /\ t \in Nat /\ e >= b
    BY <2>3, <2>4, <2>5
  <2>7. e + l + t \in Nat /\ b <= e + l + t
    BY <2>6
  <2>8. Above(f) = e + l + t
    BY <2>5 DEF Above
  <2>. QED
    BY <2>1, <2>5, <2>6, <2>7, <2>8
<1> DEFINE Bad == {i \in n + 1 .. k : call_frames_[i].begin < Above(call_frames_[n])}
<1>3. Bad = {}
  <2>1. SUFFICES ASSUME Bad # {} PROVE FALSE
    OBVIOUS
  <2>2. PICK i \in Bad : \A j \in Bad : i <= j
    <3>1. Bad \in SUBSET Nat
      BY <1>1
    <3>. HIDE DEF Bad
    <3>. QED
      BY <2>1, <3>1, LeastElement
  <2>3. i \in n + 1 .. k /\ call_frames_[i].begin < Above(call_frames_[n]) /\ i - 1 \in 1 .. k - 1
        /\ i - 1 + 1 = i /\ ~ (i <= i - 1)
    BY <1>1
  <2>4. call_frames_[i].begin = Above(call_frames_[i - 1])
    <3>1. call_frames_[i - 1 + 1].begin = Above(call_frames_[i - 1])
      BY <1>1, <2>3 DEF MachineIInv, FramesOK
    <3>. QED
      BY <2>3, <3>1
  <2>5. i - 1 # n
    BY <1>1, <1>2, <2>3, <2>4
  <2>6. i - 1 \in n + 1 .. k /\ i - 1 \notin Bad
    BY <1>1, <2>2, <2>3, <2>5
  <2>7. PICK a, b, c, d : /\ a = Above(call_frames_[n]) /\ b = call_frames_[i - 1].begin
                          /\ c = Above(call_frames_[i - 1]) /\ d = call_frames_[i].begin
    OBVIOUS
  <2>8. a \in Nat /\ b \in Nat /\ c \in Nat /\ d \in Nat /\ b <= c /\ d = c /\ d < a /\ ~ (b < a)
    <3>1. i - 1 \in 1 .. k /\ i \in 1 .. k /\ n \in 1 .. k
      BY <1>1, <2>3
    <3>. QED
      BY <1>2, <2>3, <2>4, <2>6, <2>7, <3>1
  <2>. QED
    BY <2>8
<1>4. m \in n + 1 .. k /\ m \notin Bad
  BY <1>1, <1>3
<1>. QED
  BY <1>1, <1>2, <1>4

(* The slots of an activation's locals. *)
LEMMA LocalsFacts ==
  ASSUME MachineIInv, NEW n \in 1 .. Len(call_frames_), NEW i \in Locals(call_frames_[n])
  PROVE  /\ i \in Nat /\ i \in 1 .. Len(stack_) /\ i \in 1 .. MaxStack
         /\ i >= call_frames_[n].base /\ i >= call_frames_[n].begin
         /\ i - call_frames_[n].base + 1 \in 1 .. Len(call_frames_[n].locals)
         /\ \A m \in 1 .. Len(call_frames_) : n < m => i < call_frames_[m].begin
         /\ \A m \in 1 .. Len(call_frames_) : i \in Locals(call_frames_[m]) => m = n
<1>1. PICK k \in Nat : k = Len(call_frames_)
  BY DEF MachineIInv, FramesOK
<1>2. k # 0 /\ call_frames_ # <<>> /\ Top = call_frames_[k]
  BY <1>1 DEF Top
<1>3. ASSUME NEW m \in 1 .. k
      PROVE  /\ call_frames_[m].begin \in Nat /\ call_frames_[m].base \in Nat
             /\ call_frames_[m].temps \in Nat /\ Len(call_frames_[m].locals) \in Nat
             /\ call_frames_[m].begin >= 1 /\ call_frames_[m].base >= call_frames_[m].begin
             /\ Above(call_frames_[m]) = call_frames_[m].base + Len(call_frames_[m].locals) + call_frames_[m].temps
             /\ Locals(call_frames_[m]) =
                  call_frames_[m].base .. call_frames_[m].base + Len(call_frames_[m].locals) - 1
  <2>1. FrameOK(call_frames_[m], DOMAIN closures) /\ call_frames_[m] \in Frame
    BY <1>1 DEF MachineIInv, FramesOK, FrameOK
  <2>. QED
    BY <2>1, FrameFields DEF FrameOK, Above, Locals
<1>4. \A m \in 1 .. k : \A j \in Locals(call_frames_[m]) :
        /\ j \in Nat /\ j >= call_frames_[m].begin /\ j < Above(call_frames_[m])
        /\ j >= call_frames_[m].base
        /\ j - call_frames_[m].base + 1 \in 1 .. Len(call_frames_[m].locals)
  <2>1. ASSUME NEW m \in 1 .. k, NEW j \in Locals(call_frames_[m])
        PROVE  /\ j \in Nat /\ j >= call_frames_[m].begin /\ j < Above(call_frames_[m])
               /\ j >= call_frames_[m].base
               /\ j - call_frames_[m].base + 1 \in 1 .. Len(call_frames_[m].locals)
    <3>1. PICK b, e, l, t, a : /\ b = call_frames_[m].begin /\ e = call_frames_[m].base
                               /\ l = Len(call_frames_[m].locals) /\ t = call_frames_[m].temps
                               /\ a = Above(call_frames_[m])
      OBVIOUS
    <3>2. b \in Nat /\ e \in Nat /\ l \in Nat /\ t \in Nat /\ a = e + l + t /\ e >= b
          /\ j \in e .. e + l - 1
      BY <1>3, <3>1
    <3>3. j \in Nat /\ j >= b /\ j < a /\ j >= e /\ j - e + 1 \in 1 .. l
      BY <3>2
    <3>. QED
      BY <3>1, <3>3
  <2>. QED
    BY <2>1
<1>5. \A p, q \in 1 .. k : p < q => Above(call_frames_[p]) <= call_frames_[q].begin
  BY <1>1, FramesOrdered
<1>6. Len(stack_) + 1 = Above(Top) /\ Len(stack_) \in Nat /\ Len(stack_) <= MaxStack /\ MaxStack \in Nat
  BY <1>2, ClosuresAssumption DEF MachineIInv, FramesOK, StackOK
<1>7. \A p \in 1 .. k : Above(call_frames_[p]) \in Nat /\ call_frames_[p].begin \in Nat
      /\ call_frames_[p].begin <= Above(call_frames_[p]) /\ call_frames_[p].begin >= 1
  <2>1. ASSUME NEW p \in 1 .. k
        PROVE  Above(call_frames_[p]) \in Nat /\ call_frames_[p].begin \in Nat
               /\ call_frames_[p].begin <= Above(call_frames_[p]) /\ call_frames_[p].begin >= 1
    <3>1. PICK b, e, l, t, a : /\ b = call_frames_[p].begin /\ e = call_frames_[p].base
                               /\ l = Len(call_frames_[p].locals) /\ t = call_frames_[p].temps
                               /\ a = Above(call_frames_[p])
      OBVIOUS
    <3>2. b \in Nat /\ e \in Nat /\ l \in Nat /\ t \in Nat /\ a = e + l + t /\ e >= b /\ b >= 1
      BY <1>3, <3>1
    <3>3. a \in Nat /\ b <= a
      BY <3>2
    <3>. QED
      BY <3>1, <3>2, <3>3
  <2>. QED
    BY <2>1
<1>8. \A m \in 1 .. k : n < m => i < call_frames_[m].begin
  <2>1. ASSUME NEW m \in 1 .. k, n < m
        PROVE  i < call_frames_[m].begin
    <3>1. n \in 1 .. k
      BY <1>1
    <3>2. PICK a, b : a = Above(call_frames_[n]) /\ b = call_frames_[m].begin
      OBVIOUS
    <3>3. i \in Nat /\ a \in Nat /\ b \in Nat /\ i < a /\ a <= b
      BY <1>4, <1>5, <1>7, <2>1, <3>1, <3>2
    <3>. QED
      BY <3>2, <3>3
  <2>. QED
    BY <2>1
<1>9. \A m \in 1 .. k : i \in Locals(call_frames_[m]) => m = n
  <2>1. ASSUME NEW m \in 1 .. k, i \in Locals(call_frames_[m]), m # n
        PROVE  FALSE
    <3>0. n \in 1 .. k
      BY <1>1
    <3>1. PICK a, b, c, d : /\ a = Above(call_frames_[n]) /\ b = call_frames_[m].begin
                            /\ c = Above(call_frames_[m]) /\ d = call_frames_[n].begin
      OBVIOUS
    <3>2. i \in Nat /\ a \in Nat /\ b \in Nat /\ c \in Nat /\ d \in Nat
          /\ i < a /\ i < c /\ i >= b /\ i >= d /\ (n < m => a <= b) /\ (m < n => c <= d)
      BY <1>4, <1>5, <1>7, <2>1, <3>0, <3>1
    <3>3. n < m \/ m < n
      BY <2>1, <3>0
    <3>. QED
      BY <3>2, <3>3
  <2>. QED
    BY <2>1
<1>10. i \in 1 .. Len(stack_)
  <2>0. n \in 1 .. k /\ k \in 1 .. k
    BY <1>1, <1>2
  <2>1. PICK a, b, c, d, h : /\ a = Above(call_frames_[n]) /\ b = call_frames_[k].begin /\ c = Above(call_frames_[k])
                          /\ d = call_frames_[n].begin /\ h = Len(stack_)
    OBVIOUS
  <2>2. /\ i \in Nat /\ a \in Nat /\ b \in Nat /\ c \in Nat /\ d \in Nat /\ h \in Nat
        /\ i < a /\ i >= d /\ d >= 1 /\ b <= c /\ h + 1 = c /\ (n < k => a <= b) /\ (n = k => a = c)
    BY <1>2, <1>4, <1>5, <1>6, <1>7, <2>0, <2>1
  <2>3. n < k \/ n = k
    BY <2>0
  <2>4. i \in 1 .. h
    BY SMTT(40), <2>2, <2>3
  <2>. QED
    BY <2>1, <2>4
<1>. QED
  BY <1>1, <1>4, <1>6, <1>8, <1>9, <1>10

-----------------------------------------------------------------------------
(* One upvalue for each variable *)

LEMMA ListFacts ==
  ASSUME MachineIInv, ListsOK, NEW n \in 1 .. Len(call_frames_),
         NEW o, o = closures[call_frames_[n].closure].open_upvalues
  PROVE  /\ o \in Seq(1 .. NUpvalues) /\ Len(o) \in Nat
         /\ \A i \in 1 .. Len(o) : /\ o[i] \in DOMAIN upvalues /\ upvalues[o[i]].open
                                   /\ upvalues[o[i]].stack_index \in Locals(call_frames_[n])
                                   /\ upvalues[o[i]].stack_index \in Nat
         /\ \A i, j \in 1 .. Len(o) : i < j => upvalues[o[i]].stack_index < upvalues[o[j]].stack_index
         /\ \A i, j \in 1 .. Len(o) : upvalues[o[i]].stack_index = upvalues[o[j]].stack_index => i = j
<1>1. PICK c : c = call_frames_[n].closure
  OBVIOUS
<1>2. c \in DOMAIN closures
  BY <1>1, LiveFrames
<1>3. PICK d : d = closures[c]
  OBVIOUS
<1>4. ClosureOK(d, DOMAIN upvalues) /\ o = d.open_upvalues
  BY <1>1, <1>2, <1>3, ObjectFacts
<1>5. o \in Seq(1 .. NUpvalues) /\ Len(o) \in Nat /\ \A i \in 1 .. Len(o) : o[i] \in DOMAIN upvalues
  BY <1>4 DEF ClosureOK, Closure
<1>6. ListOK(call_frames_[n], upvalues, o)
  BY DEF ListsOK
<1>7. \A i \in 1 .. Len(o) : upvalues[o[i]].stack_index \in Nat
  BY <1>6, LocalsFacts DEF ListOK
<1>8. ASSUME NEW i \in 1 .. Len(o), NEW j \in 1 .. Len(o),
             upvalues[o[i]].stack_index = upvalues[o[j]].stack_index, i # j
      PROVE  FALSE
  <2>1. i < j \/ j < i
    BY <1>5, <1>8
  <2>2. upvalues[o[i]].stack_index < upvalues[o[j]].stack_index
        \/ upvalues[o[j]].stack_index < upvalues[o[i]].stack_index
    BY <1>6, <2>1 DEF ListOK
  <2>3. PICK a, b : a = upvalues[o[i]].stack_index /\ b = upvalues[o[j]].stack_index
    BY SMTT(40)
  <2>4. a \in Nat /\ a = b /\ (a < b \/ b < a)
    BY <1>7, <1>8, <2>2, <2>3
  <2>. QED
    BY <2>4
<1>. QED
  BY <1>5, <1>6, <1>7, <1>8 DEF ListOK

LEMMA OpenFacts ==
  ASSUME MachineIInv, SharingIInv, errors = 0, NEW u \in DOMAIN upvalues, upvalues[u].open
  PROVE  /\ upvalues[u].var = upvalues[u].stack_index
         /\ upvalues[u].stack_index \in Nat /\ upvalues[u].stack_index \in 1 .. Len(stack_)
         /\ upvalues[u].stack_index \in 1 .. MaxStack
         /\ \E n \in 1 .. Len(call_frames_) :
              /\ OwnedBy(u, upvalues[u], call_frames_, closures, n)
              /\ upvalues[u].stack_index \in Locals(call_frames_[n])
<1>1. Owned(u, upvalues[u], call_frames_, closures)
  BY DEF SharingIInv, VariablesOK
<1>2. PICK n \in 1 .. Len(call_frames_) : OwnedBy(u, upvalues[u], call_frames_, closures, n)
  BY <1>1 DEF Owned
<1>3. upvalues[u].stack_index \in Locals(call_frames_[n])
  BY <1>2 DEF OwnedBy
<1>4. /\ upvalues[u].stack_index \in Nat /\ upvalues[u].stack_index \in 1 .. Len(stack_)
      /\ upvalues[u].stack_index \in 1 .. MaxStack
  BY <1>3, LocalsFacts
<1>. QED
  BY <1>1, <1>2, <1>3, <1>4 DEF Owned

(* A variable that has left its scope has no slot's name. *)
LEMMA EscapedFacts ==
  ASSUME MachineIInv, NEW u \in DOMAIN upvalues
  PROVE  /\ Escaped(u) \in Nat /\ Escaped(u) \notin 1 .. MaxStack
         /\ \A w \in DOMAIN upvalues : Escaped(u) = Escaped(w) => u = w
<1>1. MaxStack \in Nat
  BY ClosuresAssumption
<1>2. \A w \in DOMAIN upvalues : w \in Nat /\ w >= 1
  BY ClosuresAssumption DEF MachineIInv, UpvaluesOK
<1>. QED
  BY <1>1, <1>2 DEF Escaped

LEMMA OneUpvalue ==
  ASSUME MachineIInv, SharingIInv, NEW u \in DOMAIN upvalues, NEW w \in DOMAIN upvalues,
         upvalues[u].var = upvalues[w].var
  PROVE  u = w
<1>1. \A x \in DOMAIN upvalues : ~ (upvalues[x].open /\ errors = 0) => upvalues[x].var = Escaped(x)
  BY DEF SharingIInv, VariablesOK
<1>2. \A x \in DOMAIN upvalues : upvalues[x].open /\ errors = 0 => upvalues[x].var \in 1 .. MaxStack
  BY OpenFacts
<1>3. CASE upvalues[u].open /\ upvalues[w].open /\ errors = 0
  <2>1. PICK s : s = upvalues[u].stack_index
    OBVIOUS
  <2>2. s = upvalues[w].stack_index
    BY <1>3, <2>1, OpenFacts
  <2>3. PICK n \in 1 .. Len(call_frames_) :
          OwnedBy(u, upvalues[u], call_frames_, closures, n) /\ s \in Locals(call_frames_[n])
    BY <1>3, <2>1, OpenFacts
  <2>4. PICK m \in 1 .. Len(call_frames_) :
          OwnedBy(w, upvalues[w], call_frames_, closures, m) /\ s \in Locals(call_frames_[m])
    BY <1>3, <2>2, OpenFacts
  <2>5. m = n
    BY <2>3, <2>4, LocalsFacts
  <2>6. PICK o : o = closures[call_frames_[n].closure].open_upvalues
    OBVIOUS
  <2>7. InList(u, o) /\ InList(w, o)
    BY <2>3, <2>4, <2>5, <2>6 DEF OwnedBy
  <2>8. PICK i \in 1 .. Len(o), j \in 1 .. Len(o) : o[i] = u /\ o[j] = w
    BY <2>7 DEF InList
  <2>9. i = j
    BY <2>1, <2>2, <2>6, <2>8, ListFacts DEF SharingIInv
  <2>. QED
    BY <2>8, <2>9
<1>4. CASE ~ (upvalues[u].open /\ errors = 0) /\ ~ (upvalues[w].open /\ errors = 0)
  BY <1>1, <1>4, EscapedFacts
<1>. QED
  BY <1>1, <1>2, <1>3, <1>4, EscapedFacts

(* What the variable of an upvalue is called when variables leave. *)
LEMMA LeavingOwn ==
  ASSUME MachineIInv, SharingIInv, NEW u \in DOMAIN upvalues, NEW slots
  PROVE  Leaving(slots, upvalues[u].var)
         = IF upvalues[u].var \in slots THEN Escaped(u) ELSE upvalues[u].var
<1>1. PICK v : v = upvalues[u].var
  OBVIOUS
<1>2. {w \in DOMAIN upvalues : upvalues[w].var = v} = {u}
  BY <1>1, OneUpvalue
<1>3. Min({u}) = u
  <2>1. {u} \in SUBSET Nat
    BY ClosuresAssumption DEF MachineIInv, UpvaluesOK
  <2>. QED
    BY <2>1, MinFacts
<1>. QED
  BY <1>1, <1>2, <1>3 DEF Leaving

-----------------------------------------------------------------------------
(* Steps that let the activations grow and leave every variable where it is *)

Extends(f, g) ==
  /\ g.closure = f.closure /\ g.begin = f.begin /\ g.base = f.base
  /\ Len(g.locals) >= Len(f.locals)
  /\ \A i \in 1 .. Len(f.locals) : f.locals[i] => g.locals[i]

FramesExtend(fs) ==
  /\ Len(fs) >= Len(call_frames_)
  /\ \A n \in 1 .. Len(call_frames_) : Extends(call_frames_[n], fs[n]) /\ Len(fs[n].locals) \in Nat

LEMMA FrameAt ==
  ASSUME MachineIInv, NEW n \in 1 .. Len(call_frames_)
  PROVE  /\ call_frames_[n] \in Frame /\ FrameOK(call_frames_[n], DOMAIN closures)
         /\ call_frames_[n].base \in Nat /\ call_frames_[n].begin \in Nat
         /\ Len(call_frames_[n].locals) \in Nat
         /\ call_frames_[n].closure \in DOMAIN closures
         /\ Locals(call_frames_[n]) =
              call_frames_[n].base .. call_frames_[n].base + Len(call_frames_[n].locals) - 1
<1>1. FrameOK(call_frames_[n], DOMAIN closures) /\ call_frames_[n] \in Frame
  BY DEF MachineIInv, FramesOK, FrameOK
<1>. QED
  BY <1>1, FrameFields DEF FrameOK, Locals

LEMMA LocalsExtend ==
  ASSUME NEW f, NEW g, Extends(f, g), f.base \in Nat, Len(f.locals) \in Nat, Len(g.locals) \in Nat
  PROVE  Locals(f) \subseteq Locals(g)
<1>1. PICK b, k, l : b = f.base /\ k = Len(f.locals) /\ l = Len(g.locals)
  OBVIOUS
<1>2. b \in Nat /\ k \in Nat /\ l \in Nat /\ l >= k /\ g.base = b
  BY <1>1 DEF Extends
<1>3. b .. b + k - 1 \subseteq b .. b + l - 1
  BY <1>2
<1>4. Locals(f) = b .. b + k - 1 /\ Locals(g) = b .. b + l - 1
  BY <1>1, <1>2 DEF Locals
<1>. QED
  BY <1>3, <1>4

LEMMA OwnedExtends ==
  ASSUME MachineIInv, NEW u, NEW w, NEW fs, NEW cs, FramesExtend(fs), Len(fs) \in Nat,
         Owned(u, w, call_frames_, closures),
         \A n \in 1 .. Len(call_frames_) :
           InList(u, closures[call_frames_[n].closure].open_upvalues)
           => InList(u, cs[call_frames_[n].closure].open_upvalues)
  PROVE  Owned(u, w, fs, cs)
<1>1. PICK n \in 1 .. Len(call_frames_) : OwnedBy(u, w, call_frames_, closures, n)
  BY DEF Owned
<1>2. PICK f, g : f = call_frames_[n] /\ g = fs[n]
  OBVIOUS
<1>3. Extends(f, g) /\ Len(g.locals) \in Nat /\ f.base \in Nat /\ Len(f.locals) \in Nat
  BY <1>2, FrameAt DEF FramesExtend
<1>4. PICK s : s = w.stack_index
  OBVIOUS
<1>5. s \in Locals(f) /\ f.locals[s - f.base + 1] /\ InList(u, cs[f.closure].open_upvalues)
  BY <1>1, <1>2, <1>4 DEF OwnedBy
<1>6. s - f.base + 1 \in 1 .. Len(f.locals)
  BY <1>2, <1>5, LocalsFacts
<1>7. s \in Locals(g)
  BY <1>3, <1>5, LocalsExtend
<1>8. g.base = f.base /\ g.closure = f.closure /\ g.locals[s - g.base + 1]
  BY <1>3, <1>5, <1>6 DEF Extends
<1>9. OwnedBy(u, w, fs, cs, n)
  BY <1>2, <1>4, <1>5, <1>7, <1>8 DEF OwnedBy
<1>10. n \in 1 .. Len(fs)
  <2>1. Len(call_frames_) \in Nat
    BY DEF MachineIInv, FramesOK
  <2>2. PICK k, l : k = Len(call_frames_) /\ l = Len(fs)
    OBVIOUS
  <2>3. k \in Nat /\ l \in Nat /\ l >= k /\ n \in 1 .. k
    BY <2>1, <2>2 DEF FramesExtend
  <2>4. n \in 1 .. l
    BY <2>3
  <2>. QED
    BY <2>2, <2>4
<1>11. w.var = w.stack_index
  BY DEF Owned
<1>. QED
  BY <1>9, <1>10, <1>11 DEF Owned

LEMMA NoErrors ==
  ASSUME MachineIInv, SharingIInv, call_frames_ # <<>>
  PROVE  errors = 0
<1>1. errors \in Nat
  BY ClosuresAssumption DEF MachineIInv, CountersOK
<1>. QED
  BY <1>1 DEF SharingIInv, SessionOK

LEMMA SameMeaning ==
  ASSUME MachineIInv, SharingIInv, MachineIInv', call_frames_ # <<>>,
         Len(call_frames_') = Len(call_frames_), FramesExtend(call_frames_'),
         UNCHANGED <<closures, crashed, scripts, errors>>, DOMAIN upvalues' = DOMAIN upvalues,
         \A u \in DOMAIN upvalues : /\ upvalues'[u].open = upvalues[u].open
                                    /\ upvalues'[u].stack_index = upvalues[u].stack_index
                                    /\ upvalues'[u].var = upvalues[u].var
  PROVE  SharingIInv'
<1>1. PICK k \in Nat : k = Len(call_frames_)
  BY DEF MachineIInv, FramesOK
<1>2. errors' = 0 /\ errors = 0 /\ k # 0 /\ call_frames_' # <<>>
  <2>1. k # 0
    BY <1>1 DEF MachineIInv, FramesOK
  <2>. QED
    BY <1>1, <2>1, NoErrors
<1>3. \A n \in 1 .. k : Extends(call_frames_[n], call_frames_'[n]) /\ Len(call_frames_'[n].locals) \in Nat
  BY <1>1 DEF FramesExtend
<1>4. VariablesOK'
  <2>1. ASSUME NEW u \in DOMAIN upvalues, upvalues[u].open
        PROVE  Owned(u, upvalues'[u], call_frames_', closures')
    <3>1. Owned(u, upvalues[u], call_frames_, closures)
      BY <1>2, <2>1 DEF SharingIInv, VariablesOK
    <3>2. PICK w, v, fs, cs : w = upvalues[u] /\ v = upvalues'[u] /\ fs = call_frames_' /\ cs = closures'
      OBVIOUS
    <3>3. v.open = w.open /\ v.stack_index = w.stack_index /\ v.var = w.var
      BY <3>2
    <3>4. Len(fs) \in Nat /\ FramesExtend(fs)
      BY <1>1, <3>2
    <3>5. Owned(u, w, fs, cs)
      BY <3>1, <3>2, <3>4, OwnedExtends
    <3>6. Owned(u, v, fs, cs)
      BY <3>3, <3>5 DEF Owned, OwnedBy
    <3>. QED
      BY <3>2, <3>6
  <2>2. ASSUME NEW u \in DOMAIN upvalues, ~upvalues[u].open
        PROVE  upvalues'[u].var = Escaped(u)
    BY <2>2 DEF SharingIInv, VariablesOK
  <2>. QED
    BY <1>2, <2>1, <2>2 DEF VariablesOK
<1>5. BodiesOK'
  <2>1. ASSUME NEW c \in DOMAIN closures
        PROVE  MeansOK(closures[c], upvalues')
    <3>1. MeansOK(closures[c], upvalues)
      BY DEF SharingIInv, BodiesOK
    <3>2. \A i \in 1 .. Len(closures[c].upvalues) : closures[c].upvalues[i] \in DOMAIN upvalues
      BY ObjectFacts DEF ClosureOK
    <3>. QED
      BY <3>1, <3>2 DEF MeansOK
  <2>. QED
    BY <2>1 DEF BodiesOK
<1>6. ListsOK'
  <2>1. ASSUME NEW n \in 1 .. k
        PROVE  ListOK(call_frames_'[n], upvalues', closures[call_frames_'[n].closure].open_upvalues)
    <3>1. PICK f, g : f = call_frames_[n] /\ g = call_frames_'[n]
      OBVIOUS
    <3>2. Extends(f, g) /\ Len(g.locals) \in Nat /\ f.base \in Nat /\ Len(f.locals) \in Nat
      BY <1>1, <1>3, <3>1, FrameAt
    <3>3. Locals(f) \subseteq Locals(g) /\ g.closure = f.closure
      BY SMTT(40), <3>2, LocalsExtend DEF Extends
    <3>4. PICK o : o = closures[f.closure].open_upvalues
      OBVIOUS
    <3>5. /\ \A i \in 1 .. Len(o) : o[i] \in DOMAIN upvalues /\ upvalues[o[i]].open
                                    /\ upvalues[o[i]].stack_index \in Locals(f)
          /\ \A i, j \in 1 .. Len(o) : i < j => upvalues[o[i]].stack_index < upvalues[o[j]].stack_index
      <4>1. n \in 1 .. Len(call_frames_) /\ o = closures[call_frames_[n].closure].open_upvalues /\ ListsOK
        BY <1>1, <3>1, <3>4 DEF SharingIInv
      <4>. QED
        BY <3>1, <4>1, ListFacts
    <3>6. ListOK(g, upvalues', o)
      BY <3>3, <3>5 DEF ListOK
    <3>. QED
      BY <3>1, <3>3, <3>4, <3>6
  <2>. QED
    BY <1>1, <2>1 DEF ListsOK
<1>7. BaseOK'
  <2>1. \A n \in 1 .. k : call_frames_[n].base = call_frames_[n].begin
    BY <1>1 DEF SharingIInv, BaseOK
  <2>2. call_frames_[1].begin = 1 /\ 1 \in 1 .. k
    BY <1>1, <1>2 DEF SharingIInv, BaseOK
  <2>. QED
    BY <1>1, <1>3, <2>1, <2>2 DEF BaseOK, Extends
<1>8. SessionOK'
  <2>1. crashed = "none" /\ scripts >= 1
    BY DEF SharingIInv, SessionOK
  <2>. QED
    BY <1>2, <2>1 DEF SessionOK
<1>. QED
  BY <1>4, <1>5, <1>6, <1>7, <1>8 DEF SharingIInv

-----------------------------------------------------------------------------
(* Instructions on operands, locals, globals and values of upvalues *)

LEMMA WithTopFacts ==
  ASSUME MachineIInv, Running, NEW g \in Frame, Extends(Top, g), call_frames_' = WithTop(g)
  PROVE  Len(call_frames_') = Len(call_frames_) /\ FramesExtend(call_frames_')
<1>1. PICK m \in Nat \ {0} : m = Len(call_frames_)
  BY TopFacts
<1>2. call_frames_ \in Seq(Frame) /\ Top = call_frames_[m]
  BY <1>1, TopFacts DEF MachineIInv, FramesOK
<1>3. call_frames_' = [call_frames_ EXCEPT ![m] = g]
  BY <1>1 DEF WithTop
<1>4. /\ Len(call_frames_') = m
      /\ \A n \in 1 .. m : call_frames_'[n] = IF n = m THEN g ELSE call_frames_[n]
  BY <1>1, <1>2, <1>3
<1>5. Len(g.locals) \in Nat
  BY FrameFields
<1>6. \A n \in 1 .. m : Extends(call_frames_[n], call_frames_[n]) /\ Len(call_frames_[n].locals) \in Nat
  BY <1>1, FrameAt DEF Extends
<1>7. ASSUME NEW n \in 1 .. m
      PROVE  Extends(call_frames_[n], call_frames_'[n]) /\ Len(call_frames_'[n].locals) \in Nat
  BY <1>2, <1>4, <1>5, <1>6
<1>. QED
  BY <1>1, <1>4, <1>7 DEF FramesExtend

LEMMA TempsExtend ==
  ASSUME MachineIInv, Running, NEW t \in Nat
  PROVE  LET g == [Top EXCEPT !.temps = t] IN g \in Frame /\ Extends(Top, g)
<1>1. PICK g : g = [Top EXCEPT !.temps = t]
  OBVIOUS
<1>2. Top \in Frame /\ Len(Top.locals) \in Nat
  BY TopFacts
<1>3. g \in Frame /\ g.closure = Top.closure /\ g.begin = Top.begin /\ g.base = Top.base
      /\ g.locals = Top.locals
  BY <1>1, <1>2 DEF Frame
<1>4. Extends(Top, g)
  BY <1>2, <1>3 DEF Extends
<1>. QED
  BY <1>1, <1>3, <1>4

LEMMA FramesStay ==
  ASSUME MachineIInv, UNCHANGED call_frames_
  PROVE  Len(call_frames_') = Len(call_frames_) /\ FramesExtend(call_frames_')
<1>1. \A n \in 1 .. Len(call_frames_) :
        Extends(call_frames_[n], call_frames_[n]) /\ Len(call_frames_[n].locals) \in Nat
  BY FrameAt DEF Extends
<1>2. Len(call_frames_) \in Nat
  BY DEF MachineIInv, FramesOK
<1>. QED
  BY <1>1, <1>2 DEF FramesExtend

LEMMA OperandsShare ==
  ASSUME MachineIInv, SharingIInv, MachineIInv', Running, NEW t \in Nat,
         call_frames_' = WithTop([Top EXCEPT !.temps = t]),
         UNCHANGED <<closures, upvalues, crashed, scripts, errors>>
  PROVE  SharingIInv'
<1>1. PICK g : g = [Top EXCEPT !.temps = t]
  OBVIOUS
<1>2. g \in Frame /\ Extends(Top, g) /\ call_frames_' = WithTop(g)
  BY <1>1, TempsExtend
<1>3. Len(call_frames_') = Len(call_frames_) /\ FramesExtend(call_frames_')
  BY <1>2, WithTopFacts
<1>4. call_frames_ # <<>>
  BY DEF Running
<1>. QED
  BY <1>3, <1>4, SameMeaning

LEMMA PushShares ==
  ASSUME MachineIInv, SharingIInv, MachineIInv', Running, call_frames_' = WithTop(Pushed),
         UNCHANGED <<closures, upvalues, crashed, scripts, errors>>
  PROVE  SharingIInv'
<1>1. PICK t \in Nat : t = Top.temps + 1
  BY TopFacts
<1>2. call_frames_' = WithTop([Top EXCEPT !.temps = t])
  BY <1>1 DEF Pushed
<1>. QED
  BY <1>2, OperandsShare

LEMMA FramesStayShares ==
  ASSUME MachineIInv, SharingIInv, MachineIInv', Running, UNCHANGED call_frames_,
         UNCHANGED <<closures, upvalues, crashed, scripts, errors>>
  PROVE  SharingIInv'
<1>1. Len(call_frames_') = Len(call_frames_) /\ FramesExtend(call_frames_')
  BY FramesStay
<1>2. call_frames_ # <<>>
  BY DEF Running
<1>. QED
  BY <1>1, <1>2, SameMeaning

LEMMA DeclareLocalShares ==
  ASSUME MachineIInv, SharingIInv, MachineIInv', DeclareLocal
  PROVE  SharingIInv'
<1>1. /\ Running /\ call_frames_' = WithTop([Top EXCEPT !.locals = Append(@, FALSE), !.temps = 0])
      /\ UNCHANGED <<closures, upvalues, crashed, scripts, errors>>
  BY DEF DeclareLocal, NoObjectChanges
<1>2. PICK f : f = FALSE
  OBVIOUS
<1>3. PICK l : l = Append(Top.locals, f)
  OBVIOUS
<1>4. Top \in Frame /\ Top.locals \in Seq(BOOLEAN) /\ f \in BOOLEAN
  BY <1>1, <1>2, TopFacts
<1>5. /\ l \in Seq(BOOLEAN) /\ Len(l) = Len(Top.locals) + 1 /\ Len(Top.locals) \in Nat
      /\ \A i \in 1 .. Len(Top.locals) : l[i] = Top.locals[i]
  BY <1>3, <1>4, AppendFacts
<1>6. PICK g : g = [Top EXCEPT !.locals = l, !.temps = 0]
  OBVIOUS
<1>7. g \in Frame /\ g.closure = Top.closure /\ g.begin = Top.begin /\ g.base = Top.base /\ g.locals = l
  BY <1>4, <1>5, <1>6 DEF Frame
<1>8. Extends(Top, g)
  BY <1>5, <1>7 DEF Extends
<1>9. call_frames_' = WithTop(g)
  BY <1>1, <1>2, <1>3, <1>6
<1>10. Len(call_frames_') = Len(call_frames_) /\ FramesExtend(call_frames_')
  BY <1>1, <1>7, <1>8, <1>9, WithTopFacts
<1>11. call_frames_ # <<>>
  BY <1>1 DEF Running
<1>. QED
  BY <1>1, <1>10, <1>11, SameMeaning

LEMMA PopShares ==
  ASSUME MachineIInv, SharingIInv, MachineIInv', Pop
  PROVE  SharingIInv'
<1>1. /\ Running /\ Top.temps > 0 /\ call_frames_' = WithTop([Top EXCEPT !.temps = @ - 1])
      /\ UNCHANGED <<closures, upvalues, crashed, scripts, errors>>
  BY DEF Pop, NoObjectChanges
<1>2. PICK t \in Nat : t = Top.temps - 1
  <2>1. Top.temps \in Nat
    BY <1>1, TopFacts
  <2>. QED
    BY <1>1, <2>1
<1>3. call_frames_' = WithTop([Top EXCEPT !.temps = t])
  BY <1>1, <1>2
<1>. QED
  BY <1>1, <1>3, OperandsShare

(* While a program runs, every open upvalue has its slot. *)
LEMMA AllInRange ==
  ASSUME MachineIInv, SharingIInv, call_frames_ # <<>>, NEW u \in DOMAIN upvalues
  PROVE  InRange(u)
<1>1. errors = 0
  BY NoErrors
<1>2. ASSUME upvalues[u].open
      PROVE  upvalues[u].stack_index <= Len(stack_)
  <2>1. upvalues[u].stack_index \in 1 .. Len(stack_)
    BY <1>1, <1>2, OpenFacts
  <2>2. Len(stack_) \in Nat
    BY DEF MachineIInv, StackOK
  <2>. QED
    BY <2>1, <2>2
<1>. QED
  BY <1>2 DEF InRange

LEMMA GetUpvalueShares ==
  ASSUME MachineIInv, SharingIInv, MachineIInv', NEW k, GetUpvalue(k)
  PROVE  SharingIInv'
<1>1. PICK u : u = Captured[k]
  OBVIOUS
<1>2. /\ Running /\ k \in DOMAIN Captured
      /\ \/ ~InRange(u)
         \/ call_frames_' = WithTop(Pushed) /\ NoObjectChanges
  BY <1>1 DEF GetUpvalue
<1>3. u \in DOMAIN upvalues
  BY <1>1, <1>2, RunningClosure
<1>4. InRange(u)
  BY <1>2, <1>3, AllInRange DEF Running
<1>5. call_frames_' = WithTop(Pushed) /\ UNCHANGED <<closures, upvalues, crashed, scripts, errors>>
  BY <1>2, <1>4 DEF NoObjectChanges
<1>. QED
  BY <1>2, <1>5, PushShares

LEMMA SetUpvalueShares ==
  ASSUME MachineIInv, SharingIInv, MachineIInv', NEW k, SetUpvalue(k)
  PROVE  SharingIInv'
<1>1. PICK u : u = Captured[k]
  OBVIOUS
<1>2. /\ Running /\ k \in DOMAIN Captured /\ Top.temps > 0
      /\ \/ ~InRange(u)
         \/ /\ UNCHANGED upvalues \/ upvalues' = [upvalues EXCEPT ![u].value = Last(stack_)]
            /\ UNCHANGED <<call_frames_, closures, crashed, scripts, errors>>
  BY <1>1 DEF SetUpvalue
<1>3. u \in DOMAIN upvalues
  BY <1>1, <1>2, RunningClosure
<1>4. InRange(u)
  BY <1>2, <1>3, AllInRange DEF Running
<1>5. /\ UNCHANGED upvalues \/ upvalues' = [upvalues EXCEPT ![u].value = Last(stack_)]
      /\ UNCHANGED <<call_frames_, closures, crashed, scripts, errors>>
  BY <1>2, <1>4
<1>6. PICK v : v = Last(stack_)
  OBVIOUS
<1>7. ASSUME upvalues' = [upvalues EXCEPT ![u].value = v]
      PROVE  SharingIInv'
  <2>1. DOMAIN upvalues' = DOMAIN upvalues
    BY <1>7
  <2>2. ASSUME NEW x \in DOMAIN upvalues
        PROVE  /\ upvalues'[x].open = upvalues[x].open
               /\ upvalues'[x].stack_index = upvalues[x].stack_index
               /\ upvalues'[x].var = upvalues[x].var
    <3>1. PICK w : w = upvalues[x]
      OBVIOUS
    <3>2. w \in Upvalue
      BY <3>1, ObjectFacts DEF UpvalueOK
    <3>3. upvalues'[x] = IF x = u THEN [w EXCEPT !.value = v] ELSE w
      BY <1>3, <1>7, <3>1
    <3>. QED
      BY <3>1, <3>2, <3>3 DEF Upvalue
  <2>3. Len(call_frames_') = Len(call_frames_) /\ FramesExtend(call_frames_')
    BY <1>5, FramesStay
  <2>4. call_frames_ # <<>>
    BY <1>2 DEF Running
  <2>. QED
    BY <1>5, <2>1, <2>2, <2>3, <2>4, SameMeaning
<1>8. ASSUME UNCHANGED upvalues
      PROVE  SharingIInv'
  BY <1>2, <1>5, <1>8, FramesStayShares
<1>. QED
  BY <1>5, <1>6, <1>7, <1>8

-----------------------------------------------------------------------------
(* Variables that leave their scope *)

LEMMA RenamedFacts ==
  ASSUME MachineIInv, NEW slots, NEW us, NEW ds,
         DOMAIN us = DOMAIN upvalues, DOMAIN ds = DOMAIN closures,
         \A u \in DOMAIN upvalues : UpvalueOK(us[u], DOMAIN closures),
         \A c \in DOMAIN closures : ClosureOK(ds[c], DOMAIN upvalues),
         upvalues' = RenamedUpvalues(slots, us), closures' = RenamedClosures(slots, ds)
  PROVE  /\ DOMAIN upvalues' = DOMAIN upvalues
         /\ \A u \in DOMAIN upvalues :
              /\ upvalues'[u].open = us[u].open /\ upvalues'[u].stack_index = us[u].stack_index
              /\ upvalues'[u].value = us[u].value /\ upvalues'[u].var = Leaving(slots, us[u].var)
         /\ DOMAIN closures' = DOMAIN closures
         /\ \A c \in DOMAIN closures :
              /\ closures'[c].upvalues = ds[c].upvalues
              /\ closures'[c].open_upvalues = ds[c].open_upvalues
              /\ closures'[c].anonymous = ds[c].anonymous
              /\ \A k \in 1 .. Len(ds[c].vars) : closures'[c].vars[k] = Leaving(slots, ds[c].vars[k])
<1>1. PICK ws : ws = RenamedUpvalues(slots, us)
  OBVIOUS
<1>2. DOMAIN ws = DOMAIN us /\ \A u \in DOMAIN us : ws[u] = [us[u] EXCEPT !.var = Leaving(slots, @)]
  BY <1>1 DEF RenamedUpvalues
<1>3. ASSUME NEW u \in DOMAIN us
      PROVE  /\ ws[u].open = us[u].open /\ ws[u].stack_index = us[u].stack_index
             /\ ws[u].value = us[u].value /\ ws[u].var = Leaving(slots, us[u].var)
  <2>1. PICK w, v : w = us[u] /\ v = Leaving(slots, us[u].var)
    OBVIOUS
  <2>2. w \in Upvalue
    BY <2>1 DEF UpvalueOK
  <2>3. ws[u] = [w EXCEPT !.var = v]
    BY <1>2, <2>1
  <2>. QED
    BY <2>1, <2>2, <2>3 DEF Upvalue
<1>4. PICK es : es = RenamedClosures(slots, ds)
  OBVIOUS
<1>5. /\ DOMAIN es = DOMAIN ds
      /\ \A c \in DOMAIN ds :
           es[c] = [ds[c] EXCEPT !.vars = [k \in DOMAIN @ |-> Leaving(slots, @[k])]]
  BY <1>4 DEF RenamedClosures
<1>6. ASSUME NEW c \in DOMAIN ds
      PROVE  /\ es[c].upvalues = ds[c].upvalues /\ es[c].open_upvalues = ds[c].open_upvalues
             /\ es[c].anonymous = ds[c].anonymous
             /\ \A k \in 1 .. Len(ds[c].vars) : es[c].vars[k] = Leaving(slots, ds[c].vars[k])
  <2>1. PICK d, vs : d = ds[c] /\ vs = [k \in DOMAIN ds[c].vars |-> Leaving(slots, ds[c].vars[k])]
    OBVIOUS
  <2>2. d \in Closure /\ DOMAIN d.vars = 1 .. Len(d.vars)
    BY <2>1 DEF ClosureOK, Closure
  <2>3. es[c] = [d EXCEPT !.vars = vs]
    BY <1>5, <2>1
  <2>4. /\ es[c].upvalues = d.upvalues /\ es[c].open_upvalues = d.open_upvalues
        /\ es[c].anonymous = d.anonymous /\ es[c].vars = vs
    BY <2>2, <2>3 DEF Closure
  <2>. QED
    BY <2>1, <2>2, <2>4
<1>. QED
  BY <1>1, <1>2, <1>3, <1>4, <1>5, <1>6

LEMMA BodiesRenamed ==
  ASSUME MachineIInv, BodiesOK, NEW slots, NEW us, NEW ds,
         DOMAIN us = DOMAIN upvalues, DOMAIN ds = DOMAIN closures,
         \A u \in DOMAIN upvalues : UpvalueOK(us[u], DOMAIN closures) /\ us[u].var = upvalues[u].var,
         \A c \in DOMAIN closures :
           /\ ClosureOK(ds[c], DOMAIN upvalues)
           /\ ds[c].upvalues = closures[c].upvalues /\ ds[c].vars = closures[c].vars
           /\ ds[c].anonymous = closures[c].anonymous,
         upvalues' = RenamedUpvalues(slots, us), closures' = RenamedClosures(slots, ds)
  PROVE  BodiesOK'
<1>1. /\ \A u \in DOMAIN upvalues : upvalues'[u].var = Leaving(slots, us[u].var)
      /\ DOMAIN closures' = DOMAIN closures
      /\ \A c \in DOMAIN closures :
           /\ closures'[c].upvalues = ds[c].upvalues
           /\ closures'[c].anonymous = ds[c].anonymous
           /\ \A k \in 1 .. Len(ds[c].vars) : closures'[c].vars[k] = Leaving(slots, ds[c].vars[k])
  BY RenamedFacts
<1>2. ASSUME NEW c \in DOMAIN closures
      PROVE  MeansOK(closures'[c], upvalues')
  <2>1. PICK d, e : d = closures[c] /\ e = closures'[c]
    OBVIOUS
  <2>2. MeansOK(d, upvalues)
    BY <2>1 DEF BodiesOK
  <2>3. ClosureOK(d, DOMAIN upvalues) /\ Len(d.vars) = Len(d.upvalues)
        /\ \A k \in 1 .. Len(d.upvalues) : d.upvalues[k] \in DOMAIN upvalues
    BY <2>1, ObjectFacts DEF ClosureOK
  <2>4. /\ e.upvalues = d.upvalues /\ e.anonymous = d.anonymous
        /\ \A k \in 1 .. Len(d.vars) : e.vars[k] = Leaving(slots, d.vars[k])
    BY <1>1, <2>1
  <2>5. ASSUME NEW k \in 1 .. Len(d.upvalues)
        PROVE  upvalues'[e.upvalues[k]].var = e.vars[k]
    <3>1. PICK u : u = d.upvalues[k]
      OBVIOUS
    <3>2. u \in DOMAIN upvalues /\ upvalues[u].var = d.vars[k]
      BY <2>2, <2>3, <3>1 DEF MeansOK
    <3>3. upvalues'[u].var = Leaving(slots, d.vars[k])
      BY <1>1, <3>2
    <3>. QED
      BY <2>3, <2>4, <3>1, <3>3
  <2>6. MeansOK(e, upvalues')
    BY <2>2, <2>4, <2>5 DEF MeansOK
  <2>. QED
    BY <2>1, <2>6
<1>. QED
  BY <1>1, <1>2 DEF BodiesOK

LEMMA InScopeFacts ==
  ASSUME MachineIInv
  PROVE  /\ \A i : i \in InScope <=> \E n \in 1 .. Len(call_frames_) : i \in Locals(call_frames_[n])
         /\ InScope \subseteq 1 .. MaxStack
<1>1. ToSet(call_frames_) = {call_frames_[n] : n \in 1 .. Len(call_frames_)}
  BY ToSetFacts DEF MachineIInv, FramesOK
<1>2. \A i : i \in InScope <=> \E n \in 1 .. Len(call_frames_) : i \in Locals(call_frames_[n])
  BY <1>1 DEF InScope
<1>. QED
  BY <1>2, LocalsFacts

LEMMA RuntimeErrorShares ==
  ASSUME Exclusions, MachineIInv, SharingIInv, MachineIInv', RuntimeError
  PROVE  SharingIInv'
<1>1. /\ Running /\ errors < MaxErrors /\ errors' = errors + 1 /\ call_frames_' = <<>>
      /\ upvalues' = RenamedUpvalues(InScope, upvalues)
      /\ closures' = RenamedClosures(InScope, closures)
      /\ UNCHANGED <<stack_, crashed, scripts>>
  BY DEF RuntimeError
<1>2. errors = 0 /\ call_frames_ # <<>> /\ crashed = "none" /\ scripts >= 1
  BY <1>1, NoErrors DEF Running, SharingIInv, SessionOK
<1>3. /\ DOMAIN upvalues' = DOMAIN upvalues
      /\ \A u \in DOMAIN upvalues : upvalues'[u].var = Leaving(InScope, upvalues[u].var)
  BY <1>1, ObjectFacts, RenamedFacts
<1>4. ASSUME NEW u \in DOMAIN upvalues
      PROVE  upvalues'[u].var = Escaped(u)
  <2>1. Leaving(InScope, upvalues[u].var)
        = IF upvalues[u].var \in InScope THEN Escaped(u) ELSE upvalues[u].var
    BY LeavingOwn
  <2>2. ASSUME upvalues[u].open
        PROVE  upvalues[u].var \in InScope
    BY <1>2, <2>2, OpenFacts, InScopeFacts
  <2>3. ASSUME ~upvalues[u].open
        PROVE  upvalues[u].var = Escaped(u)
    BY <2>3 DEF SharingIInv, VariablesOK
  <2>. QED
    BY <1>3, <2>1, <2>2, <2>3
<1>5. errors' = 1 /\ MaxErrors # 0
  BY <1>1, <1>2
<1>6. VariablesOK'
  BY <1>3, <1>4, <1>5 DEF VariablesOK
<1>7. BodiesOK'
  BY <1>1, ObjectFacts, BodiesRenamed DEF SharingIInv
<1>8. Len(call_frames_') = 0
  BY <1>1
<1>9. ListsOK' /\ BaseOK'
  BY <1>1, <1>8 DEF ListsOK, BaseOK
<1>10. SessionOK'
  <2>1. MaxScripts <= 1 /\ MaxScripts \in Nat /\ scripts \in Nat
    BY <1>5, ClosuresAssumption DEF Exclusions, MachineIInv, CountersOK
  <2>2. scripts' >= MaxScripts
    BY <1>1, <1>2, <2>1
  <2>. QED
    BY <1>1, <1>2, <1>5, <2>2 DEF SessionOK
<1>. QED
  BY <1>6, <1>7, <1>9, <1>10 DEF SharingIInv

-----------------------------------------------------------------------------
(* Scripts *)

LEMMA EndScriptShares ==
  ASSUME MachineIInv, SharingIInv, MachineIInv', EndScript
  PROVE  SharingIInv'
<1>1. /\ Running /\ Len(call_frames_) = 1 /\ Top.temps = 0 /\ Top.locals = <<>> /\ call_frames_' = <<>>
      /\ UNCHANGED <<stack_, closures, upvalues, crashed, scripts, errors>>
  BY DEF EndScript, AtStatement
<1>2. errors = 0 /\ call_frames_ # <<>> /\ crashed = "none" /\ Len(call_frames_') = 0
  BY <1>1, NoErrors DEF Running
<1>3. Top = call_frames_[1] /\ Len(Top.locals) = 0
  BY <1>1 DEF Top
<1>4. Locals(Top) = {}
  <2>1. PICK b \in Nat : b = Top.base
    BY <1>1, TopFacts
  <2>2. b .. b + 0 - 1 = {}
    BY <2>1
  <2>. QED
    BY <1>3, <2>1, <2>2 DEF Locals
<1>5. \A u \in DOMAIN upvalues : ~upvalues[u].open
  <2>1. ASSUME NEW u \in DOMAIN upvalues, upvalues[u].open
        PROVE  FALSE
    <3>1. PICK n \in 1 .. Len(call_frames_) : upvalues[u].stack_index \in Locals(call_frames_[n])
      BY <1>2, <2>1, OpenFacts
    <3>2. n = 1
      BY <1>1
    <3>. QED
      BY <1>3, <1>4, <3>1, <3>2
  <2>. QED
    BY <2>1
<1>6. VariablesOK' /\ BodiesOK'
  BY <1>1, <1>2, <1>5 DEF SharingIInv, VariablesOK, BodiesOK
<1>7. ListsOK' /\ BaseOK'
  BY <1>1, <1>2 DEF ListsOK, BaseOK
<1>8. stack_ = <<>>
  <2>1. Top.base = Top.begin /\ Top.begin = 1
    BY <1>1, <1>2, <1>3 DEF SharingIInv, BaseOK
  <2>2. Len(stack_) + 1 = 1 + 0 + 0 /\ Len(stack_) \in Nat /\ stack_ \in Seq(Value)
    BY <1>1, <1>3, <2>1, TopFacts
  <2>3. Len(stack_) = 0
    BY <2>2
  <2>. QED
    BY <2>2, <2>3, EmptySeq
<1>9. SessionOK'
  BY <1>1, <1>2, <1>8 DEF SessionOK
<1>. QED
  BY <1>6, <1>7, <1>9 DEF SharingIInv

LEMMA RunScriptShares ==
  ASSUME MachineIInv, SharingIInv, MachineIInv', RunScript
  PROVE  SharingIInv'
<1>1. PICK c, d, f :
        /\ c = NewClosure
        /\ d = [arity |-> 0, anonymous |-> FALSE, upvalues |-> <<>>, open_upvalues |-> <<>>, vars |-> <<>>]
        /\ f = [closure |-> c, begin |-> 1, base |-> Len(stack_) + 1, fixed |-> 0, locals |-> <<>>,
                temps |-> 0]
  OBVIOUS
<1>2. /\ call_frames_ = <<>> /\ crashed = "none" /\ scripts < MaxScripts /\ scripts' = scripts + 1
      /\ DOMAIN closures # 1 .. NClosures
      /\ closures' = With(closures, c, d) /\ call_frames_' = <<f>>
      /\ UNCHANGED <<stack_, globals_, upvalues, crashed, errors>>
  BY <1>1 DEF RunScript
<1>3. errors = 0 /\ stack_ = <<>> /\ scripts \in Nat
  <2>1. scripts \in Nat /\ errors \in Nat /\ MaxScripts \in Nat
    BY ClosuresAssumption DEF MachineIInv, CountersOK
  <2>2. errors > 0 => scripts >= MaxScripts
    BY DEF SharingIInv, SessionOK
  <2>3. errors = 0
    BY <1>2, <2>1, <2>2
  <2>. QED
    BY <1>2, <2>1, <2>3 DEF SharingIInv, SessionOK
<1>4. c \notin DOMAIN closures
  BY <1>1, <1>2, FreeAddress
<1>5. DOMAIN closures' = DOMAIN closures \cup {c} /\ closures'[c] = d
      /\ \A x \in DOMAIN closures : closures'[x] = closures[x]
  BY <1>2, <1>4 DEF With
<1>6. Len(call_frames_) = 0 /\ Len(call_frames_') = 1 /\ call_frames_'[1] = f /\ call_frames_' # <<>>
  BY <1>2
<1>7. \A u \in DOMAIN upvalues : ~upvalues[u].open
  BY <1>3, <1>6, OpenFacts
<1>8. VariablesOK'
  BY <1>2, <1>3, <1>7 DEF SharingIInv, VariablesOK
<1>9. d.upvalues = <<>> /\ d.open_upvalues = <<>> /\ d.anonymous = FALSE
  BY <1>1
<1>10. BodiesOK'
  <2>1. MeansOK(d, upvalues)
    <3>1. Len(d.upvalues) = 0 /\ ~d.anonymous
      BY <1>9
    <3>. QED
      BY <3>1 DEF MeansOK
  <2>. QED
    BY <1>2, <1>5, <2>1 DEF SharingIInv, BodiesOK
<1>11. f.closure = c /\ f.base = Len(stack_) + 1 /\ f.begin = 1
  BY <1>1
<1>12. ListsOK'
  <2>1. ListOK(f, upvalues, d.open_upvalues)
    <3>1. Len(d.open_upvalues) = 0
      BY <1>9
    <3>. QED
      BY <3>1 DEF ListOK
  <2>2. closures'[call_frames_'[1].closure].open_upvalues = d.open_upvalues
    BY <1>5, <1>6, <1>11
  <2>3. \A n \in 1 .. Len(call_frames_') : n = 1
    BY <1>6
  <2>. QED
    BY <1>2, <1>6, <2>1, <2>2, <2>3 DEF ListsOK
<1>13. BaseOK'
  <2>1. f.base = f.begin
    BY <1>3, <1>11
  <2>2. \A n \in 1 .. Len(call_frames_') : n = 1
    BY <1>6
  <2>. QED
    BY <1>6, <1>11, <2>1, <2>2 DEF BaseOK
<1>14. SessionOK'
  BY <1>2, <1>3, <1>6 DEF SessionOK
<1>. QED
  BY <1>8, <1>10, <1>12, <1>13, <1>14 DEF SharingIInv

-----------------------------------------------------------------------------
(* Ends of blocks and of activations: the upvalues of the slots that go are *)
(* closed and no others, and the lists that stay hold none of them.         *)

(* The activations fs left, the closures ds, what of them names no slot of  *)
(* these: all of it, if these upvalues are the ones of these slots.         *)
FramesLeft(fs) ==
  /\ Len(fs) \in 1 .. Len(call_frames_)
  /\ \A n \in 1 .. Len(fs) : /\ fs[n].closure = call_frames_[n].closure
                             /\ fs[n].begin = call_frames_[n].begin
                             /\ fs[n].base = call_frames_[n].base

SameBodies(ds) ==
  /\ DOMAIN ds = DOMAIN closures
  /\ \A c \in DOMAIN closures :
       /\ ClosureOK(ds[c], DOMAIN upvalues)
       /\ ds[c].upvalues = closures[c].upvalues /\ ds[c].vars = closures[c].vars
       /\ ds[c].anonymous = closures[c].anonymous

ListLeft(f, o, p, slots) ==
  /\ Len(p) <= Len(o)
  /\ \A i \in 1 .. Len(p) : /\ p[i] = o[i] /\ upvalues[o[i]].stack_index \notin slots
                            /\ upvalues[o[i]].stack_index \in Locals(f)

ListsLeft(fs, ds, slots) ==
  \A n \in 1 .. Len(fs) :
    ListLeft(fs[n], closures[call_frames_[n].closure].open_upvalues,
             ds[call_frames_[n].closure].open_upvalues, slots)

OwnersLeft(fs, ds, slots) ==
  \A u \in DOMAIN upvalues : \A n \in 1 .. Len(call_frames_) :
    /\ upvalues[u].open /\ upvalues[u].stack_index \notin slots
    /\ OwnedBy(u, upvalues[u], call_frames_, closures, n)
    => n <= Len(fs) /\ OwnedBy(u, upvalues[u], fs, ds, n)

TheseOpenAt(us, slots) ==
  /\ us \subseteq DOMAIN upvalues
  /\ \A u \in DOMAIN upvalues : upvalues[u].open => (upvalues[u].stack_index \in slots <=> u \in us)

LEMMA LeaveShares ==
  ASSUME MachineIInv, SharingIInv, Running, NEW slots, slots \subseteq 1 .. MaxStack,
         NEW us, TheseOpenAt(us, slots), NEW ds, SameBodies(ds),
         upvalues' = RenamedUpvalues(slots, Closing(us)), closures' = RenamedClosures(slots, ds),
         UNCHANGED crashed, UNCHANGED scripts, UNCHANGED errors,
         FramesLeft(call_frames_'), ListsLeft(call_frames_', ds, slots),
         OwnersLeft(call_frames_', ds, slots)
  PROVE  SharingIInv'
<1>1. errors = 0 /\ crashed = "none" /\ call_frames_ # <<>>
  BY NoErrors DEF Running
<1>2. PICK k \in Nat, l \in Nat : k = Len(call_frames_) /\ l = Len(call_frames_') /\ 1 <= l /\ l <= k
  <2>1. Len(call_frames_) \in Nat
    BY DEF MachineIInv, FramesOK
  <2>2. PICK k : k = Len(call_frames_)
    OBVIOUS
  <2>. QED
    BY <2>1, <2>2 DEF FramesLeft
<1>3. call_frames_' # <<>>
  BY <1>2
<1>0. /\ us \subseteq DOMAIN upvalues /\ DOMAIN ds = DOMAIN closures
      /\ \A u \in DOMAIN upvalues : upvalues[u].open => (upvalues[u].stack_index \in slots <=> u \in us)
      /\ \A c \in DOMAIN closures :
           /\ ClosureOK(ds[c], DOMAIN upvalues)
           /\ ds[c].upvalues = closures[c].upvalues /\ ds[c].vars = closures[c].vars
           /\ ds[c].anonymous = closures[c].anonymous
      /\ \A n \in 1 .. l : /\ call_frames_'[n].closure = call_frames_[n].closure
                           /\ call_frames_'[n].begin = call_frames_[n].begin
                           /\ call_frames_'[n].base = call_frames_[n].base
  BY <1>2 DEF TheseOpenAt, SameBodies, FramesLeft
<1>4. PICK ws : ws = Closing(us)
  OBVIOUS
<1>5. /\ DOMAIN ws = DOMAIN upvalues
      /\ \A u \in DOMAIN upvalues :
           /\ UpvalueOK(ws[u], DOMAIN closures) /\ ws[u].var = upvalues[u].var
           /\ u \in us => ~ws[u].open
           /\ u \notin us => ws[u] = upvalues[u]
  <2>1. \A u \in us \cap DOMAIN upvalues : InRange(u)
    BY <1>1, AllInRange
  <2>. QED
    BY <1>4, <2>1, ClosingType
<1>6. /\ DOMAIN upvalues' = DOMAIN upvalues
      /\ \A u \in DOMAIN upvalues :
           /\ upvalues'[u].open = ws[u].open /\ upvalues'[u].stack_index = ws[u].stack_index
           /\ upvalues'[u].var = Leaving(slots, ws[u].var)
      /\ DOMAIN closures' = DOMAIN closures
      /\ \A c \in DOMAIN closures : closures'[c].open_upvalues = ds[c].open_upvalues
  BY <1>0, <1>4, <1>5, RenamedFacts
<1>7. ASSUME NEW u \in DOMAIN upvalues
      PROVE  upvalues'[u].var = IF upvalues[u].var \in slots THEN Escaped(u) ELSE upvalues[u].var
  BY <1>5, <1>6, LeavingOwn
<1>8. \A u \in DOMAIN upvalues :
        u \notin us => upvalues'[u].open = upvalues[u].open
                       /\ upvalues'[u].stack_index = upvalues[u].stack_index
  BY <1>5, <1>6
<1>9. ASSUME NEW u \in DOMAIN upvalues, ~upvalues[u].open \/ u \in us
      PROVE  ~upvalues'[u].open /\ upvalues'[u].var = Escaped(u)
  <2>1. ~upvalues'[u].open
    BY <1>5, <1>6, <1>8, <1>9
  <2>2. CASE upvalues[u].open
    <3>1. upvalues[u].var = upvalues[u].stack_index
      BY <1>1, <2>2, OpenFacts
    <3>. QED
      BY <1>0, <1>7, <1>9, <2>1, <2>2, <3>1
  <2>3. CASE ~upvalues[u].open
    <3>1. upvalues[u].var = Escaped(u)
      BY <2>3 DEF SharingIInv, VariablesOK
    <3>. QED
      BY <1>7, <2>1, <3>1
  <2>. QED
    BY <2>2, <2>3
<1>10. ASSUME NEW u \in DOMAIN upvalues, upvalues[u].open, u \notin us
       PROVE  Owned(u, upvalues'[u], call_frames_', closures')
  <2>1. PICK w, v, fs, cs : w = upvalues[u] /\ v = upvalues'[u] /\ fs = call_frames_' /\ cs = closures'
    OBVIOUS
  <2>2. w.stack_index \notin slots /\ w.var = w.stack_index
    BY <1>0, <1>1, <1>10, <2>1, OpenFacts
  <2>3. v.stack_index = w.stack_index /\ v.var = w.var
    BY <1>7, <1>8, <1>10, <2>1, <2>2
  <2>4. PICK n \in 1 .. k : OwnedBy(u, w, call_frames_, closures, n)
    BY <1>1, <1>2, <1>10, <2>1, OpenFacts
  <2>5. n <= Len(fs) /\ OwnedBy(u, w, fs, ds, n)
    BY <1>2, <1>10, <2>1, <2>2, <2>4 DEF OwnersLeft
  <2>6. n \in 1 .. l /\ n \in 1 .. k
    BY <1>2, <2>1, <2>4, <2>5
  <2>7. call_frames_[n].closure \in DOMAIN closures
    BY <1>2, <2>6, LiveFrames
  <2>8. cs[fs[n].closure].open_upvalues = ds[fs[n].closure].open_upvalues
    BY <1>0, <1>6, <2>1, <2>6, <2>7
  <2>9. OwnedBy(u, v, fs, cs, n)
    BY <2>3, <2>5, <2>8 DEF OwnedBy
  <2>10. n \in 1 .. Len(fs)
    BY <1>2, <2>1, <2>6
  <2>11. Owned(u, v, fs, cs)
    BY <2>2, <2>3, <2>9, <2>10 DEF Owned
  <2>. QED
    BY <2>1, <2>11
<1>11. VariablesOK'
  <2>1. \A u \in DOMAIN upvalues : u \notin us => upvalues'[u].open = upvalues[u].open
    BY <1>8
  <2>2. errors' = 0
    BY <1>1
  <2>3. ASSUME NEW u \in DOMAIN upvalues
        PROVE  IF upvalues'[u].open /\ errors' = 0
               THEN Owned(u, upvalues'[u], call_frames_', closures')
               ELSE upvalues'[u].var = Escaped(u)
    <3>1. CASE ~upvalues[u].open \/ u \in us
      BY <1>9, <3>1
    <3>2. CASE upvalues[u].open /\ u \notin us
      BY <1>10, <2>1, <2>2, <3>2
    <3>. QED
      BY <3>1, <3>2
  <2>. QED
    BY <1>6, <2>3 DEF VariablesOK
<1>12. BodiesOK'
  BY <1>0, <1>4, <1>5, BodiesRenamed DEF SharingIInv
<1>13. ListsOK'
  <2>1. ASSUME NEW n \in 1 .. l
        PROVE  ListOK(call_frames_'[n], upvalues', closures'[call_frames_'[n].closure].open_upvalues)
    <3>1. PICK c : c = call_frames_[n].closure
      OBVIOUS
    <3>2. PICK o, p, g : o = closures[c].open_upvalues /\ p = ds[c].open_upvalues /\ g = call_frames_'[n]
      OBVIOUS
    <3>3. n \in 1 .. k /\ n \in 1 .. Len(call_frames_') /\ n \in 1 .. Len(call_frames_)
      BY <1>2
    <3>4. c \in DOMAIN closures /\ g.closure = c
      BY <1>0, <3>1, <3>2, <3>3, LiveFrames
    <3>5. /\ Len(p) <= Len(o)
          /\ \A i \in 1 .. Len(p) : /\ p[i] = o[i] /\ upvalues[o[i]].stack_index \notin slots
                                    /\ upvalues[o[i]].stack_index \in Locals(g)
      BY <3>1, <3>2, <3>3 DEF ListsLeft, ListLeft
    <3>6. /\ Len(o) \in Nat
          /\ \A i \in 1 .. Len(o) : o[i] \in DOMAIN upvalues /\ upvalues[o[i]].open
          /\ \A i, j \in 1 .. Len(o) : i < j => upvalues[o[i]].stack_index < upvalues[o[j]].stack_index
      <4>1. n \in 1 .. Len(call_frames_) /\ o = closures[call_frames_[n].closure].open_upvalues /\ ListsOK
        BY <3>1, <3>2, <3>3 DEF SharingIInv
      <4>. QED
        BY <4>1, ListFacts
    <3>7. Len(p) \in Nat
      <4>1. ClosureOK(ds[c], DOMAIN upvalues)
        BY <1>0, <3>4
      <4>. QED
        BY <3>2, <4>1 DEF ClosureOK, Closure
    <3>8. \A i \in 1 .. Len(p) : i \in 1 .. Len(o)
      BY <3>5, <3>6, <3>7
    <3>9. ASSUME NEW i \in 1 .. Len(p)
          PROVE  /\ p[i] = o[i] /\ upvalues'[p[i]].open
                 /\ upvalues'[p[i]].stack_index = upvalues[o[i]].stack_index
                 /\ upvalues'[p[i]].stack_index \in Locals(g)
      <4>1. p[i] = o[i] /\ o[i] \in DOMAIN upvalues /\ upvalues[o[i]].open
            /\ upvalues[o[i]].stack_index \notin slots /\ upvalues[o[i]].stack_index \in Locals(g)
        BY <3>5, <3>6, <3>8
      <4>2. o[i] \notin us
        BY <1>0, <4>1
      <4>. QED
        BY <1>8, <4>1, <4>2
    <3>10. ListOK(g, upvalues', p)
      BY <3>6, <3>8, <3>9 DEF ListOK
    <3>. QED
      BY <1>6, <3>2, <3>4, <3>10
  <2>. QED
    BY <1>2, <2>1 DEF ListsOK
<1>14. BaseOK'
  <2>1. \A n \in 1 .. k : call_frames_[n].base = call_frames_[n].begin
    BY <1>2 DEF SharingIInv, BaseOK
  <2>2. call_frames_[1].begin = 1 /\ 1 \in 1 .. l
    BY <1>1, <1>2 DEF SharingIInv, BaseOK
  <2>3. \A n \in 1 .. l : n \in 1 .. k
    BY <1>2
  <2>. QED
    BY <1>0, <1>2, <2>1, <2>2, <2>3 DEF BaseOK
<1>15. SessionOK'
  <2>1. scripts >= 1
    BY <1>1 DEF SharingIInv, SessionOK
  <2>. QED
    BY <1>1, <1>3, <2>1 DEF SessionOK
<1>. QED
  BY <1>11, <1>12, <1>13, <1>14, <1>15 DEF SharingIInv

(* The end of a local: it was the topmost value, and the other locals stay. *)
LEMMA EndLocalFacts ==
  ASSUME MachineIInv, EndLocal
  PROVE  /\ Ending = {Len(stack_)} /\ Ending \subseteq 1 .. MaxStack
         /\ Len(stack_) \in Locals(Top) /\ Top.base + Len(Top.locals) - 1 = Len(stack_)
         /\ Len(call_frames_') \in 1 .. Len(call_frames_) /\ Len(call_frames_') = Len(call_frames_)
         /\ \A n \in 1 .. Len(call_frames_) :
              /\ call_frames_'[n].closure = call_frames_[n].closure
              /\ call_frames_'[n].begin = call_frames_[n].begin
              /\ call_frames_'[n].base = call_frames_[n].base
              /\ Locals(call_frames_'[n]) = Locals(call_frames_[n]) \ Ending
              /\ \A i \in Locals(call_frames_[n]) \ Ending :
                   call_frames_'[n].locals[i - call_frames_[n].base + 1]
                   = call_frames_[n].locals[i - call_frames_[n].base + 1]
<1>1. /\ Running /\ Top.temps = 0 /\ Len(Top.locals) > Top.fixed
      /\ call_frames_' = WithTop([Top EXCEPT !.locals = Front(@)])
  BY DEF EndLocal, AtStatement
<1>2. PICK m \in Nat \ {0} : m = Len(call_frames_)
  BY <1>1, TopFacts
<1>3. /\ call_frames_ \in Seq(Frame) /\ Top = call_frames_[m] /\ Top \in Frame
      /\ Top.locals \in Seq(BOOLEAN)
  BY <1>1, <1>2, TopFacts DEF MachineIInv, FramesOK
<1>4. PICK b, h, s : b = Top.base /\ h = Len(Top.locals) /\ s = Len(stack_)
  OBVIOUS
<1>5. b \in Nat /\ h \in Nat /\ s \in Nat /\ s + 1 = b + h + 0 /\ h > 0
  <2>1. b \in Nat /\ h \in Nat /\ s \in Nat /\ Top.fixed \in Nat /\ s + 1 = b + h + Top.temps
    BY <1>1, <1>4, TopFacts
  <2>. QED
    BY <1>1, <1>4, <2>1
<1>6. PICK l : l = Front(Top.locals)
  OBVIOUS
<1>7. /\ l \in Seq(BOOLEAN) /\ Len(l) = h - 1
      /\ \A i \in 1 .. h - 1 : l[i] = Top.locals[i]
  <2>1. Top.locals # <<>>
    BY <1>4, <1>5
  <2>. QED
    BY <1>3, <1>4, <1>6, <2>1, FrontLast
<1>8. PICK g : g = [Top EXCEPT !.locals = l]
  OBVIOUS
<1>9. /\ g \in Frame /\ g.closure = Top.closure /\ g.begin = Top.begin /\ g.base = b /\ g.locals = l
  BY <1>3, <1>4, <1>7, <1>8 DEF Frame
<1>10. call_frames_' = [call_frames_ EXCEPT ![m] = g]
  BY <1>1, <1>2, <1>6, <1>8 DEF WithTop
<1>11. /\ Len(call_frames_') = m
       /\ \A n \in 1 .. m : call_frames_'[n] = IF n = m THEN g ELSE call_frames_[n]
  BY <1>2, <1>3, <1>9, <1>10
<1>12. b + h - 1 = s /\ b .. b + h - 1 = (b .. b + (h - 1) - 1) \cup {s}
       /\ s \notin b .. b + (h - 1) - 1
  BY <1>5
<1>13. /\ Ending = {s} /\ Locals(Top) = b .. b + h - 1 /\ s \in Locals(Top)
       /\ Locals(g) = b .. b + (h - 1) - 1
  BY <1>4, <1>7, <1>9, <1>12 DEF Ending, Locals
<1>14. Locals(g) = Locals(Top) \ {s}
  BY <1>12, <1>13
<1>15. m \in 1 .. Len(call_frames_)
  BY <1>2
<1>16. ASSUME NEW n \in 1 .. m
       PROVE  /\ call_frames_'[n].closure = call_frames_[n].closure
              /\ call_frames_'[n].begin = call_frames_[n].begin
              /\ call_frames_'[n].base = call_frames_[n].base
              /\ Locals(call_frames_'[n]) = Locals(call_frames_[n]) \ {s}
              /\ \A i \in Locals(call_frames_[n]) \ {s} :
                   call_frames_'[n].locals[i - call_frames_[n].base + 1]
                   = call_frames_[n].locals[i - call_frames_[n].base + 1]
  <2>1. CASE n # m
    <3>1. call_frames_'[n] = call_frames_[n]
      BY <1>11, <2>1
    <3>2. s \in Locals(call_frames_[m])
      BY <1>3, <1>13
    <3>3. s \notin Locals(call_frames_[n])
      BY <1>2, <1>15, <2>1, <3>2, LocalsFacts
    <3>. QED
      BY <3>1, <3>3
  <2>2. CASE n = m
    <3>1. call_frames_'[n] = g /\ call_frames_[n] = Top
      BY <1>3, <1>11, <2>2
    <3>2. ASSUME NEW i \in Locals(Top) \ {s}
          PROVE  l[i - b + 1] = Top.locals[i - b + 1]
      <4>1. i \in b .. b + (h - 1) - 1
        BY <1>13, <1>14, <3>2
      <4>2. i - b + 1 \in 1 .. h - 1
        BY <1>5, <4>1
      <4>. QED
        BY <1>7, <4>2
    <3>. QED
      BY <1>4, <1>9, <1>14, <3>1, <3>2
  <2>. QED
    BY <2>1, <2>2
<1>17. s \in 1 .. MaxStack
  BY <1>2, <1>3, <1>13, <1>15, LocalsFacts
<1>. QED
  BY <1>2, <1>4, <1>11, <1>12, <1>13, <1>15, <1>16, <1>17

LEMMA EndLocalOwned ==
  ASSUME MachineIInv, EndLocal, NEW u \in DOMAIN upvalues, NEW n \in 1 .. Len(call_frames_), NEW ds,
         OwnedBy(u, upvalues[u], call_frames_, closures, n), upvalues[u].stack_index \notin Ending,
         InList(u, ds[call_frames_[n].closure].open_upvalues)
  PROVE  n <= Len(call_frames_') /\ OwnedBy(u, upvalues[u], call_frames_', ds, n)
<1>1. PICK f, g, i : f = call_frames_[n] /\ g = call_frames_'[n] /\ i = upvalues[u].stack_index
  OBVIOUS
<1>2. i \in Locals(f) /\ f.locals[i - f.base + 1]
  BY <1>1 DEF OwnedBy
<1>3. i \in Locals(f) \ Ending
  BY <1>1, <1>2
<1>4. g.closure = f.closure /\ g.base = f.base /\ i \in Locals(g)
      /\ g.locals[i - f.base + 1] = f.locals[i - f.base + 1]
  BY <1>1, <1>3, EndLocalFacts
<1>5. g.locals[i - g.base + 1] /\ InList(u, ds[g.closure].open_upvalues)
  BY <1>1, <1>2, <1>4
<1>6. PICK fs : fs = call_frames_'
  OBVIOUS
<1>7. OwnedBy(u, upvalues[u], fs, ds, n)
  BY <1>1, <1>4, <1>5, <1>6 DEF OwnedBy
<1>8. n <= Len(call_frames_')
  <2>1. Len(call_frames_) \in Nat
    BY DEF MachineIInv, FramesOK
  <2>2. Len(call_frames_') = Len(call_frames_)
    BY EndLocalFacts
  <2>. QED
    BY <2>1, <2>2
<1>. QED
  BY <1>6, <1>7, <1>8

LEMMA PopLocalShares ==
  ASSUME MachineIInv, SharingIInv, PopLocal
  PROVE  SharingIInv'
<1>1. /\ EndLocal /\ ~Last(Top.locals)
      /\ upvalues' = RenamedUpvalues(Ending, upvalues)
      /\ closures' = RenamedClosures(Ending, closures)
  BY DEF PopLocal
<1>2. /\ Running /\ UNCHANGED <<crashed, scripts, errors>>
      /\ errors = 0
  <2>1. Running
    BY <1>1 DEF EndLocal
  <2>2. errors = 0
    BY <2>1, NoErrors DEF Running
  <2>. QED
    BY <1>1, <2>1, <2>2 DEF EndLocal
<1>3. PICK us : us = {}
  OBVIOUS
<1>4. RenamedUpvalues(Ending, Closing(us)) = RenamedUpvalues(Ending, upvalues)
  <2>1. \A u \in DOMAIN upvalues : u \notin us
    BY <1>3
  <2>2. \A u \in us \cap DOMAIN upvalues : InRange(u)
    BY <1>3
  <2>3. DOMAIN Closing(us) = DOMAIN upvalues
        /\ \A u \in DOMAIN upvalues : u \notin us => Closing(us)[u] = upvalues[u]
    BY <2>2, ClosingType
  <2>. QED
    BY <2>1, <2>3 DEF RenamedUpvalues
<1>5. PICK m \in Nat \ {0} : m = Len(call_frames_)
  BY <1>2, TopFacts
<1>6. Top = call_frames_[m] /\ m \in 1 .. Len(call_frames_) /\ Top.locals \in Seq(BOOLEAN)
      /\ Len(Top.locals) \in Nat /\ Top.base \in Nat
  BY <1>2, <1>5, TopFacts
<1>7. /\ Ending = {Len(stack_)} /\ Ending \subseteq 1 .. MaxStack /\ Len(stack_) \in Locals(Top)
      /\ Top.base + Len(Top.locals) - 1 = Len(stack_)
      /\ Len(call_frames_') \in 1 .. Len(call_frames_) /\ Len(call_frames_') = Len(call_frames_)
      /\ \A n \in 1 .. Len(call_frames_') :
           /\ call_frames_'[n].closure = call_frames_[n].closure
           /\ call_frames_'[n].begin = call_frames_[n].begin
           /\ call_frames_'[n].base = call_frames_[n].base
           /\ Locals(call_frames_'[n]) = Locals(call_frames_[n]) \ Ending
  BY <1>1, EndLocalFacts
<1>8. ASSUME NEW u \in DOMAIN upvalues, upvalues[u].open
      PROVE  upvalues[u].stack_index \notin Ending
  <2>1. PICK i : i = upvalues[u].stack_index
    OBVIOUS
  <2>2. SUFFICES ASSUME i = Len(stack_) PROVE FALSE
    BY <1>7, <2>1
  <2>3. PICK n \in 1 .. Len(call_frames_) :
          OwnedBy(u, upvalues[u], call_frames_, closures, n) /\ i \in Locals(call_frames_[n])
    BY <1>2, <1>8, <2>1, OpenFacts
  <2>4. i \in Locals(call_frames_[m])
    BY <1>6, <1>7, <2>2
  <2>5. n = m
    BY <1>6, <2>3, <2>4, LocalsFacts
  <2>6. Top.locals[i - Top.base + 1]
    BY <1>6, <2>1, <2>3, <2>5 DEF OwnedBy
  <2>7. PICK b, h : b = Top.base /\ h = Len(Top.locals)
    OBVIOUS
  <2>8. b \in Nat /\ h \in Nat /\ b + h - 1 = i
    BY <1>6, <1>7, <2>2, <2>7
  <2>9. i - b + 1 = h
    BY <2>8
  <2>10. Top.locals[Len(Top.locals)]
    BY <2>6, <2>7, <2>9
  <2>11. Last(Top.locals) = Top.locals[Len(Top.locals)]
    BY DEF Last
  <2>. QED
    BY <1>1, <2>10, <2>11
<1>9. \A c \in DOMAIN closures : ClosureOK(closures[c], DOMAIN upvalues)
  BY ObjectFacts
<1>10. ASSUME NEW n \in 1 .. Len(call_frames_'), NEW o, NEW p,
              o = closures[call_frames_[n].closure].open_upvalues,
              p = closures[call_frames_[n].closure].open_upvalues
       PROVE  /\ Len(p) <= Len(o)
              /\ \A i \in 1 .. Len(p) : /\ p[i] = o[i] /\ upvalues[o[i]].stack_index \notin Ending
                                        /\ upvalues[o[i]].stack_index \in Locals(call_frames_'[n])
  <2>1. n \in 1 .. Len(call_frames_) /\ ListsOK
    BY <1>7 DEF SharingIInv
  <2>2. /\ Len(o) \in Nat
        /\ \A i \in 1 .. Len(o) : /\ o[i] \in DOMAIN upvalues /\ upvalues[o[i]].open
                                  /\ upvalues[o[i]].stack_index \in Locals(call_frames_[n])
    BY <1>10, <2>1, ListFacts
  <2>3. ASSUME NEW i \in 1 .. Len(o)
        PROVE  upvalues[o[i]].stack_index \notin Ending
    BY <1>8, <2>2
  <2>4. Locals(call_frames_'[n]) = Locals(call_frames_[n]) \ Ending
    BY <1>7, <2>1
  <2>5. p = o
    BY <1>10
  <2>6. Len(p) <= Len(o)
    BY <2>2, <2>5
  <2>. QED
    BY <2>2, <2>3, <2>4, <2>5, <2>6
<1>11. ASSUME NEW u \in DOMAIN upvalues, NEW n \in 1 .. Len(call_frames_),
              upvalues[u].open, upvalues[u].stack_index \notin Ending,
              OwnedBy(u, upvalues[u], call_frames_, closures, n)
       PROVE  n <= Len(call_frames_') /\ OwnedBy(u, upvalues[u], call_frames_', closures, n)
  <2>1. InList(u, closures[call_frames_[n].closure].open_upvalues)
    BY <1>11 DEF OwnedBy
  <2>. QED
    BY <1>1, <1>11, <2>1, EndLocalOwned
<1>12. \A u \in DOMAIN upvalues :
         upvalues[u].open => (upvalues[u].stack_index \in Ending <=> u \in us)
  BY <1>3, <1>8
<1>13. upvalues' = RenamedUpvalues(Ending, Closing(us)) /\ us \subseteq DOMAIN upvalues
  BY <1>1, <1>3, <1>4
<1>14. PICK slots, ds : slots = Ending /\ ds = closures
  OBVIOUS
<1>15. /\ slots \subseteq 1 .. MaxStack
       /\ upvalues' = RenamedUpvalues(slots, Closing(us)) /\ closures' = RenamedClosures(slots, ds)
  BY <1>1, <1>7, <1>13, <1>14
<1>16. SameBodies(ds)
  BY <1>9, <1>14 DEF SameBodies
<1>17. FramesLeft(call_frames_')
  BY <1>7 DEF FramesLeft
<1>18. ListsLeft(call_frames_', ds, slots)
  BY <1>10, <1>14 DEF ListsLeft, ListLeft
<1>19. OwnersLeft(call_frames_', ds, slots)
  BY <1>11, <1>14 DEF OwnersLeft
<1>20. TheseOpenAt(us, slots)
  BY <1>12, <1>13, <1>14 DEF TheseOpenAt
<1>. QED
  BY <1>2, <1>15, <1>16, <1>17, <1>18, <1>19, <1>20, LeaveShares

(* The entry that closes is the last of the list, and the only upvalue of   *)
(* the slot that goes.                                                      *)
AtTop == IF Open # <<>> /\ upvalues[Last(Open)].stack_index = Len(stack_) THEN {Last(Open)} ELSE {}
Without(cl) == IF cl = {} THEN Open ELSE Front(Open)

LEMMA ClosingLast ==
  ASSUME MachineIInv, SharingIInv, EndLocal, NEW cl, NEW p,
         cl = AtTop, p = Without(cl)
  PROVE  /\ TheseOpenAt(cl, Ending)
         /\ p \in Seq(1 .. NUpvalues) /\ Len(p) \in Nat /\ Len(p) <= Len(Open)
         /\ \A i \in 1 .. Len(p) : i \in 1 .. Len(Open) /\ p[i] = Open[i] /\ p[i] \notin cl
         /\ \A u : InList(u, Open) /\ u \notin cl => InList(u, p)
<1>1. Running /\ errors = 0
  <2>1. Running
    BY DEF EndLocal
  <2>. QED
    BY <2>1, NoErrors DEF Running
<1>2. PICK m \in Nat \ {0} : m = Len(call_frames_)
  BY <1>1, TopFacts
<1>3. Top = call_frames_[m] /\ m \in 1 .. Len(call_frames_)
  BY <1>1, <1>2, TopFacts
<1>4. PICK o : o = Open
  BY SMTT(40)
<1>5. /\ o \in Seq(1 .. NUpvalues) /\ Len(o) \in Nat
      /\ \A i \in 1 .. Len(o) : /\ o[i] \in DOMAIN upvalues /\ upvalues[o[i]].open
                                /\ upvalues[o[i]].stack_index \in Locals(Top)
                                /\ upvalues[o[i]].stack_index \in Nat
      /\ \A i, j \in 1 .. Len(o) : i < j => upvalues[o[i]].stack_index < upvalues[o[j]].stack_index
      /\ \A i, j \in 1 .. Len(o) : upvalues[o[i]].stack_index = upvalues[o[j]].stack_index => i = j
  <2>1. o = closures[call_frames_[m].closure].open_upvalues /\ ListsOK
    BY <1>3, <1>4 DEF Open, SharingIInv
  <2>. QED
    BY <1>3, <2>1, ListFacts
<1>6. PICK s \in Nat : s = Len(stack_) /\ Ending = {s} /\ s \in Locals(Top)
  <2>1. Len(stack_) \in Nat
    BY <1>1, TopFacts
  <2>. QED
    BY <2>1, EndLocalFacts
<1>7. \A i \in Locals(Top) : i \in Nat /\ i <= s
  <2>1. PICK b, h : b = Top.base /\ h = Len(Top.locals)
    OBVIOUS
  <2>2. b \in Nat /\ h \in Nat /\ b + h - 1 = s /\ Locals(Top) = b .. b + h - 1
    BY <1>1, <1>6, <2>1, TopFacts, EndLocalFacts DEF Locals
  <2>3. \A i \in b .. b + h - 1 : i \in Nat /\ i <= s
    BY <2>2
  <2>. QED
    BY <2>2, <2>3
<1>8. ASSUME NEW i \in 1 .. Len(o), upvalues[o[i]].stack_index = s
      PROVE  i = Len(o) /\ cl = {o[i]}
  <2>1. PICK l \in Nat : l = Len(o) /\ i \in 1 .. l /\ l \in 1 .. l
    BY <1>5
  <2>2. i = l
    <3>1. SUFFICES ASSUME i < l PROVE FALSE
      BY <2>1
    <3>2. PICK x, y : x = upvalues[o[i]].stack_index /\ y = upvalues[o[l]].stack_index
      OBVIOUS
    <3>3. x < y /\ y \in Locals(Top)
      BY <1>5, <2>1, <3>1, <3>2
    <3>4. x = s /\ y \in Nat /\ y <= s
      BY <1>7, <1>8, <3>2, <3>3
    <3>. QED
      BY <1>6, <3>3, <3>4
  <2>3. o # <<>> /\ Last(o) = o[i]
    BY <2>1, <2>2 DEF Last
  <2>. QED
    BY <1>4, <1>6, <1>8, <2>1, <2>2, <2>3 DEF AtTop
<1>9. ASSUME cl # {}
      PROVE  /\ o # <<>> /\ Len(o) \in 1 .. Len(o) /\ cl = {o[Len(o)]}
             /\ upvalues[o[Len(o)]].stack_index = s
  <2>1. o # <<>> /\ cl = {Last(o)} /\ upvalues[Last(o)].stack_index = s
    BY <1>4, <1>6, <1>9 DEF AtTop
  <2>2. o \in Seq(1 .. NUpvalues) /\ o # <<>>
    BY <1>5, <2>1
  <2>3. Last(o) = o[Len(o)] /\ Len(o) \in Nat \ {0}
    BY <2>2, FrontLast
  <2>4. Len(o) \in 1 .. Len(o)
    BY <2>3
  <2>. QED
    BY <2>1, <2>3, <2>4
<1>10. TheseOpenAt(cl, Ending)
  <2>1. cl \subseteq DOMAIN upvalues
    BY <1>5, <1>9
  <2>2. \A u \in cl : upvalues[u].stack_index = s
    BY <1>9
  <2>3. ASSUME NEW u \in DOMAIN upvalues, upvalues[u].open, upvalues[u].stack_index = s
        PROVE  u \in cl
    <3>1. PICK n \in 1 .. Len(call_frames_) :
            OwnedBy(u, upvalues[u], call_frames_, closures, n) /\ s \in Locals(call_frames_[n])
      BY <1>1, <2>3, OpenFacts
    <3>2. n = m
      BY <1>3, <1>6, <3>1, LocalsFacts
    <3>3. InList(u, o)
      BY <1>3, <1>4, <3>1, <3>2 DEF OwnedBy, Open
    <3>4. PICK i \in 1 .. Len(o) : o[i] = u
      BY <3>3 DEF InList
    <3>. QED
      BY <1>8, <2>3, <3>4
  <2>. QED
    BY <1>6, <2>1, <2>2, <2>3 DEF TheseOpenAt
<1>11. ASSUME cl = {}
       PROVE  /\ p \in Seq(1 .. NUpvalues) /\ Len(p) \in Nat /\ Len(p) <= Len(o)
              /\ \A i \in 1 .. Len(p) : i \in 1 .. Len(o) /\ p[i] = o[i] /\ p[i] \notin cl
              /\ \A u : InList(u, o) /\ u \notin cl => InList(u, p)
  <2>1. p = o /\ \A u : u \notin cl
    BY <1>4, <1>11 DEF Without
  <2>2. Len(o) <= Len(o)
    BY <1>5
  <2>. QED
    BY <1>5, <2>1, <2>2
<1>12. ASSUME cl # {}
       PROVE  /\ p \in Seq(1 .. NUpvalues) /\ Len(p) \in Nat /\ Len(p) <= Len(o)
              /\ \A i \in 1 .. Len(p) : i \in 1 .. Len(o) /\ p[i] = o[i] /\ p[i] \notin cl
              /\ \A u : InList(u, o) /\ u \notin cl => InList(u, p)
  <2>1. PICK l \in Nat : l = Len(o) /\ l \in 1 .. l
    BY <1>5, <1>9, <1>12
  <2>2. p = Front(o) /\ o # <<>>
    BY <1>4, <1>9, <1>12 DEF Without
  <2>3. /\ p \in Seq(1 .. NUpvalues) /\ Len(p) = l - 1
        /\ \A i \in 1 .. l - 1 : p[i] = o[i]
    <3>1. o \in Seq(1 .. NUpvalues)
      BY <1>5
    <3>2. /\ Front(o) \in Seq(1 .. NUpvalues) /\ Len(Front(o)) = Len(o) - 1
          /\ \A i \in 1 .. Len(o) - 1 : Front(o)[i] = o[i]
      BY <2>2, <3>1, FrontLast
    <3>. QED
      BY <2>1, <2>2, <3>2
  <2>4. Len(p) \in Nat /\ Len(p) <= l /\ \A i \in 1 .. l - 1 : i \in 1 .. l /\ i < l
    BY <2>1, <2>3
  <2>5. ASSUME NEW i \in 1 .. l - 1
        PROVE  o[i] \notin cl
    <3>1. i \in 1 .. l /\ i # l
      BY <2>4, <2>5
    <3>2. ASSUME o[i] = o[l]
          PROVE  FALSE
      <4>1. i = l
        BY <1>5, <2>1, <3>1, <3>2
      <4>. QED
        BY <3>1, <4>1
    <3>. QED
      BY <1>9, <1>12, <2>1, <3>2
  <2>6. ASSUME NEW u, InList(u, o), u \notin cl
        PROVE  InList(u, p)
    <3>1. PICK i \in 1 .. l : o[i] = u
      BY <2>1, <2>6 DEF InList
    <3>2. i # l
      BY <1>9, <1>12, <2>1, <2>6, <3>1
    <3>3. i \in 1 .. l - 1
      BY <2>1, <3>1, <3>2
    <3>4. i \in 1 .. Len(p) /\ p[i] = u
      BY <2>3, <3>1, <3>3
    <3>. QED
      BY <3>4 DEF InList
  <2>. QED
    BY <2>1, <2>3, <2>4, <2>5, <2>6
<1>. QED
  BY <1>4, <1>10, <1>11, <1>12

LEMMA CloseUpvalueShares ==
  ASSUME MachineIInv, SharingIInv, CloseUpvalue
  PROVE  SharingIInv'
<1> DEFINE openToo == Open # <<>> => upvalues[Last(Open)].open
           closing == IF Open # <<>> /\ openToo /\ upvalues[Last(Open)].stack_index = Len(stack_)
                      THEN {Last(Open)} ELSE {}
           list == IF closing = {} THEN Open ELSE Front(Open)
<1>a. /\ Running
      /\ \/ ~openToo
         \/ /\ EndLocal /\ upvalues' = RenamedUpvalues(Ending, Closing(closing))
            /\ closures' = RenamedClosures(Ending,
                 [closures EXCEPT ![Top.closure].open_upvalues = IF closing = {} THEN @ ELSE Front(@)])
  BY DEF CloseUpvalue
<1>b. [closures EXCEPT ![Top.closure].open_upvalues = IF closing = {} THEN @ ELSE Front(@)]
      = [closures EXCEPT ![Top.closure].open_upvalues = list]
  <2>. HIDE DEF closing
  <2>. QED
    BY DEF Open
<1>c. PICK o, v, cl, p :
        /\ o = Open /\ (v <=> openToo) /\ cl = closing /\ p = list
  OBVIOUS
<1>1. /\ o = Open /\ (v <=> (Open # <<>> => upvalues[Last(Open)].open))
      /\ cl = IF Open # <<>> /\ v /\ upvalues[Last(Open)].stack_index = Len(stack_)
              THEN {Last(Open)} ELSE {}
      /\ p = IF cl = {} THEN Open ELSE Front(Open)
  BY <1>c
<1>. HIDE DEF openToo, closing, list
<1>2. /\ Running
      /\ \/ ~v
         \/ /\ EndLocal
            /\ upvalues' = RenamedUpvalues(Ending, Closing(cl))
            /\ closures' = RenamedClosures(Ending, [closures EXCEPT ![Top.closure].open_upvalues = p])
  BY <1>a, <1>b, <1>c
<1>3. PICK m \in Nat \ {0} : m = Len(call_frames_)
  BY <1>2, TopFacts
<1>4. Top = call_frames_[m] /\ m \in 1 .. Len(call_frames_) /\ Top.closure \in DOMAIN closures
  BY <1>2, <1>3, TopFacts
<1>5. v
  <2>1. o = closures[call_frames_[m].closure].open_upvalues /\ ListsOK
    BY <1>1, <1>4 DEF Open, SharingIInv
  <2>2. o \in Seq(1 .. NUpvalues) /\ \A i \in 1 .. Len(o) : upvalues[o[i]].open
    BY <1>4, <2>1, ListFacts
  <2>3. ASSUME o # <<>>
        PROVE  upvalues[Last(o)].open
    <3>1. Last(o) = o[Len(o)] /\ Len(o) \in Nat \ {0}
      BY <2>2, <2>3, FrontLast
    <3>2. Len(o) \in 1 .. Len(o)
      BY <3>1
    <3>. QED
      BY <2>2, <3>1, <3>2
  <2>. QED
    BY <1>1, <2>3
<1>6. PICK slots, ds : slots = Ending /\ ds = [closures EXCEPT ![Top.closure].open_upvalues = p]
  OBVIOUS
<1>7. /\ EndLocal
      /\ upvalues' = RenamedUpvalues(slots, Closing(cl))
      /\ closures' = RenamedClosures(slots, ds)
  BY <1>2, <1>5, <1>6
<1>8. cl = AtTop /\ p = Without(cl)
  BY <1>1, <1>5 DEF AtTop, Without
<1>9. /\ TheseOpenAt(cl, Ending)
      /\ p \in Seq(1 .. NUpvalues) /\ Len(p) \in Nat /\ Len(p) <= Len(Open)
      /\ \A i \in 1 .. Len(p) : i \in 1 .. Len(Open) /\ p[i] = Open[i] /\ p[i] \notin cl
      /\ \A u : InList(u, Open) /\ u \notin cl => InList(u, p)
  BY <1>7, <1>8, ClosingLast
<1>10. TheseOpenAt(cl, slots)
  BY <1>6, <1>9
<1>11. /\ slots = {Len(stack_)} /\ slots \subseteq 1 .. MaxStack /\ Len(stack_) \in Locals(Top)
       /\ Len(call_frames_') \in 1 .. Len(call_frames_) /\ Len(call_frames_') = Len(call_frames_)
       /\ \A n \in 1 .. Len(call_frames_') :
            /\ call_frames_'[n].closure = call_frames_[n].closure
            /\ call_frames_'[n].begin = call_frames_[n].begin
            /\ call_frames_'[n].base = call_frames_[n].base
            /\ Locals(call_frames_'[n]) = Locals(call_frames_[n]) \ slots
  BY <1>6, <1>7, EndLocalFacts
<1>12. FramesLeft(call_frames_')
  BY <1>11 DEF FramesLeft
<1>13. /\ DOMAIN ds = DOMAIN closures
       /\ \A c \in DOMAIN closures :
            /\ ClosureOK(ds[c], DOMAIN upvalues)
            /\ ds[c].upvalues = closures[c].upvalues /\ ds[c].vars = closures[c].vars
            /\ ds[c].anonymous = closures[c].anonymous
            /\ ds[c].open_upvalues = IF c = Top.closure THEN p ELSE closures[c].open_upvalues
  <2>1. \A i \in 1 .. Len(p) : p[i] \in DOMAIN upvalues
    BY <1>2, <1>9, RunningClosure
  <2>2. PICK us, a : us = DOMAIN upvalues /\ a = Top.closure
    OBVIOUS
  <2>3. a \in DOMAIN closures /\ p \in Seq(1 .. NUpvalues)
        /\ DOMAIN upvalues \subseteq us /\ \A i \in 1 .. Len(p) : p[i] \in us
    BY <1>4, <1>9, <2>1, <2>2
  <2>4. ds = [closures EXCEPT ![a].open_upvalues = p]
    BY <1>6, <2>2
  <2>5. /\ DOMAIN ds = DOMAIN closures
        /\ \A c \in DOMAIN closures :
             /\ ClosureOK(ds[c], us)
             /\ ds[c].upvalues = closures[c].upvalues /\ ds[c].vars = closures[c].vars
             /\ ds[c].anonymous = closures[c].anonymous
             /\ ds[c].open_upvalues = IF c = a THEN p ELSE closures[c].open_upvalues
    <3>1. LET es == [closures EXCEPT ![a].open_upvalues = p]
          IN  /\ DOMAIN es = DOMAIN closures
              /\ \A c \in DOMAIN closures :
                   /\ ClosureOK(es[c], us)
                   /\ es[c].upvalues = closures[c].upvalues /\ es[c].vars = closures[c].vars
                   /\ es[c].arity = closures[c].arity /\ es[c].anonymous = closures[c].anonymous
                   /\ es[c].open_upvalues = IF c = a THEN p ELSE closures[c].open_upvalues
      BY <2>3, OpenListSet
    <3>. QED
      BY <2>4, <3>1
  <2>. QED
    BY <2>2, <2>5
<1>14. SameBodies(ds)
  BY <1>13 DEF SameBodies
<1>15. ListsLeft(call_frames_', ds, slots)
  <2>1. ASSUME NEW n \in 1 .. Len(call_frames_')
        PROVE  ListLeft(call_frames_'[n], closures[call_frames_[n].closure].open_upvalues,
                        ds[call_frames_[n].closure].open_upvalues, slots)
    <3>1. n \in 1 .. Len(call_frames_) /\ ListsOK
      BY <1>11 DEF SharingIInv
    <3>2. PICK c, f, g, q, r : /\ c = call_frames_[n].closure /\ f = call_frames_[n] /\ g = call_frames_'[n]
                               /\ q = closures[call_frames_[n].closure].open_upvalues
                               /\ r = ds[call_frames_[n].closure].open_upvalues
      OBVIOUS
    <3>3. c \in DOMAIN closures /\ Locals(g) = Locals(f) \ slots
      BY SMTT(40), <1>11, <3>1, <3>2, LiveFrames
    <3>4. /\ q \in Seq(1 .. NUpvalues) /\ Len(q) \in Nat
          /\ \A i \in 1 .. Len(q) : /\ q[i] \in DOMAIN upvalues /\ upvalues[q[i]].open
                                    /\ upvalues[q[i]].stack_index \in Locals(f)
      <4>1. /\ q \in Seq(1 .. NUpvalues) /\ Len(q) \in Nat
            /\ \A i \in 1 .. Len(q) : /\ q[i] \in DOMAIN upvalues /\ upvalues[q[i]].open
                                      /\ upvalues[q[i]].stack_index \in Locals(call_frames_[n])
        BY <3>1, <3>2, ListFacts
      <4>. QED
        BY <3>2, <4>1
    <3>5. Len(r) <= Len(q) /\ \A i \in 1 .. Len(r) : i \in 1 .. Len(q) /\ r[i] = q[i] /\ q[i] \notin cl
      <4>1. CASE c = Top.closure
        <5>1. r = p /\ q = Open
          BY <1>13, <3>2, <3>3, <4>1 DEF Open
        <5>. QED
          BY <1>9, <5>1
      <4>2. CASE c # Top.closure
        <5>1. r = q /\ n # m
          BY <1>4, <1>13, <3>2, <3>3, <4>2
        <5>2. ASSUME NEW i \in 1 .. Len(q), q[i] \in cl
              PROVE  FALSE
          <6>1. upvalues[q[i]].stack_index = Len(stack_)
            BY SMTT(40), <1>10, <1>11, <3>4, <5>2 DEF TheseOpenAt
          <6>2. Len(stack_) \in Locals(call_frames_[n]) /\ Len(stack_) \in Locals(call_frames_[m])
            BY <1>4, <1>11, <3>2, <3>4, <5>2, <6>1
          <6>3. n = m
            BY <1>4, <3>1, <6>2, LocalsFacts
          <6>. QED
            BY <5>1, <6>3
        <5>3. Len(q) <= Len(q)
          BY <3>4
        <5>. QED
          BY <5>1, <5>2, <5>3
      <4>. QED
        BY <4>1, <4>2
    <3>6. ASSUME NEW i \in 1 .. Len(r)
          PROVE  /\ r[i] = q[i] /\ upvalues[q[i]].stack_index \notin slots
                 /\ upvalues[q[i]].stack_index \in Locals(g)
      <4>1. i \in 1 .. Len(q) /\ r[i] = q[i] /\ q[i] \notin cl
        BY <3>5
      <4>2. upvalues[q[i]].stack_index \notin slots
        BY <1>10, <3>4, <4>1 DEF TheseOpenAt
      <4>. QED
        BY <3>3, <3>4, <4>1, <4>2
    <3>7. ListLeft(g, q, r, slots)
      BY <3>5, <3>6 DEF ListLeft
    <3>. QED
      BY <3>2, <3>7
  <2>. QED
    BY <2>1 DEF ListsLeft
<1>16. OwnersLeft(call_frames_', ds, slots)
  <2>1. ASSUME NEW u \in DOMAIN upvalues, NEW n \in 1 .. Len(call_frames_),
               upvalues[u].open, upvalues[u].stack_index \notin slots,
               OwnedBy(u, upvalues[u], call_frames_, closures, n)
        PROVE  n <= Len(call_frames_') /\ OwnedBy(u, upvalues[u], call_frames_', ds, n)
    <3>1. PICK c : c = call_frames_[n].closure
      OBVIOUS
    <3>2. InList(u, closures[c].open_upvalues) /\ c \in DOMAIN closures
      BY <2>1, <3>1, LiveFrames DEF OwnedBy
    <3>3. u \notin cl
      BY <1>10, <2>1 DEF TheseOpenAt
    <3>4. InList(u, ds[c].open_upvalues)
      <4>1. CASE c = Top.closure
        <5>1. ds[c].open_upvalues = p /\ closures[c].open_upvalues = Open
          BY <1>13, <3>2, <4>1 DEF Open
        <5>. QED
          BY <1>9, <3>2, <3>3, <5>1
      <4>2. CASE c # Top.closure
        BY <1>13, <3>2, <4>2
      <4>. QED
        BY <4>1, <4>2
    <3>5. InList(u, ds[call_frames_[n].closure].open_upvalues) /\ upvalues[u].stack_index \notin Ending
      BY <1>6, <2>1, <3>1, <3>4
    <3>. QED
      BY <1>7, <2>1, <3>5, EndLocalOwned
  <2>. QED
    BY <2>1 DEF OwnersLeft
<1>17. UNCHANGED crashed /\ UNCHANGED scripts /\ UNCHANGED errors
  BY <1>7 DEF EndLocal
<1>. QED
  BY <1>2, <1>7, <1>10, <1>11, <1>12, <1>14, <1>15, <1>16, <1>17, LeaveShares

LEMMA ReturnShares ==
  ASSUME MachineIInv, SharingIInv, Return
  PROVE  SharingIInv'
<1>1. /\ Running /\ Len(call_frames_) > 1
      /\ \/ \E u \in ToSet(Open) : ~InRange(u)
         \/ LeaveActivation(Top.begin - 1, ToSet(Open))
  BY DEF Return
<1>2. PICK slots, us, ds : slots = Locals(Top) /\ us = ToSet(Open) /\ ds = closures
  OBVIOUS
<1>3. us \subseteq DOMAIN upvalues
  BY <1>1, <1>2, RunningClosure
<1>4. \A u \in us : InRange(u)
  BY <1>1, <1>3, AllInRange DEF Running
<1>5. /\ upvalues' = RenamedUpvalues(slots, Closing(us)) /\ closures' = RenamedClosures(slots, ds)
      /\ call_frames_' = [Front(call_frames_) EXCEPT
           ![Len(call_frames_) - 1] = [call_frames_[Len(call_frames_) - 1] EXCEPT !.temps = @ + 1]]
      /\ UNCHANGED crashed /\ UNCHANGED scripts /\ UNCHANGED errors
  BY <1>1, <1>2, <1>4 DEF LeaveActivation
<1>6. PICK m \in Nat \ {0} : m = Len(call_frames_)
  BY <1>1, TopFacts
<1>7. Top = call_frames_[m] /\ m \in 1 .. Len(call_frames_) /\ errors = 0
  BY <1>1, <1>6, TopFacts, NoErrors
<1>8. PICK g : g = [call_frames_[Len(call_frames_) - 1] EXCEPT !.temps = @ + 1]
  OBVIOUS
<1>9. /\ Len(call_frames_') = m - 1
      /\ \A n \in 1 .. m - 2 : call_frames_'[n] = call_frames_[n]
      /\ call_frames_'[m - 1] = g
      /\ g.closure = call_frames_[m - 1].closure /\ g.begin = call_frames_[m - 1].begin
      /\ g.base = call_frames_[m - 1].base /\ g.locals = call_frames_[m - 1].locals
  <2>1. call_frames_' = [Front(call_frames_) EXCEPT ![Len(call_frames_) - 1] = g]
    BY <1>5, <1>8
  <2>. QED
    BY <1>1, <1>6, <1>8, <2>1, FramesReturned
<1>10. m > 1
  BY <1>1, <1>6
<1>11. ASSUME NEW n \in 1 .. m - 1
       PROVE  /\ n \in 1 .. Len(call_frames_) /\ n # m
              /\ call_frames_'[n].closure = call_frames_[n].closure
              /\ call_frames_'[n].begin = call_frames_[n].begin
              /\ call_frames_'[n].base = call_frames_[n].base
              /\ call_frames_'[n].locals = call_frames_[n].locals
              /\ Locals(call_frames_'[n]) = Locals(call_frames_[n])
  <2>1. n \in 1 .. m /\ n # m /\ (n \in 1 .. m - 2 \/ n = m - 1)
    BY <1>6, <1>11
  <2>2. /\ call_frames_'[n].closure = call_frames_[n].closure
        /\ call_frames_'[n].begin = call_frames_[n].begin
        /\ call_frames_'[n].base = call_frames_[n].base
        /\ call_frames_'[n].locals = call_frames_[n].locals
    BY <1>9, <2>1
  <2>. QED
    BY <1>6, <2>1, <2>2 DEF Locals
<1>12. FramesLeft(call_frames_')
  <2>1. m - 1 \in 1 .. m
    BY <1>6, <1>10
  <2>. QED
    BY <1>6, <1>9, <1>11, <2>1 DEF FramesLeft
<1>13. SameBodies(ds)
  BY <1>2, ObjectFacts DEF SameBodies
<1>14. slots \subseteq 1 .. MaxStack
  BY <1>2, <1>7, LocalsFacts
<1>15. PICK o : o = Open
  OBVIOUS
<1>16. /\ o \in Seq(1 .. NUpvalues) /\ us = {o[i] : i \in 1 .. Len(o)}
       /\ \A i \in 1 .. Len(o) : upvalues[o[i]].stack_index \in slots
  <2>1. o = closures[call_frames_[m].closure].open_upvalues /\ ListsOK
    BY <1>7, <1>15 DEF Open, SharingIInv
  <2>2. o \in Seq(1 .. NUpvalues) /\ \A i \in 1 .. Len(o) : upvalues[o[i]].stack_index \in Locals(call_frames_[m])
    BY <1>7, <2>1, ListFacts
  <2>. QED
    BY <1>2, <1>7, <1>15, <2>2, ToSetFacts
<1>17. TheseOpenAt(us, slots)
  <2>1. ASSUME NEW u \in DOMAIN upvalues, upvalues[u].open, upvalues[u].stack_index \in slots
        PROVE  u \in us
    <3>1. PICK n \in 1 .. Len(call_frames_) :
            /\ OwnedBy(u, upvalues[u], call_frames_, closures, n)
            /\ upvalues[u].stack_index \in Locals(call_frames_[n])
      BY <1>7, <2>1, OpenFacts
    <3>2. n = m
      BY <1>2, <1>7, <2>1, <3>1, LocalsFacts
    <3>3. InList(u, o)
      BY <1>7, <1>15, <3>1, <3>2 DEF OwnedBy, Open
    <3>. QED
      BY <1>16, <3>3 DEF InList
  <2>. QED
    BY <1>3, <1>16, <2>1 DEF TheseOpenAt
<1>18. ListsLeft(call_frames_', ds, slots)
  <2>1. ASSUME NEW n \in 1 .. m - 1
        PROVE  ListLeft(call_frames_'[n], closures[call_frames_[n].closure].open_upvalues,
                        ds[call_frames_[n].closure].open_upvalues, slots)
    <3>1. PICK q : q = closures[call_frames_[n].closure].open_upvalues
      OBVIOUS
    <3>2. n \in 1 .. Len(call_frames_) /\ n # m /\ ListsOK /\ Locals(call_frames_'[n]) = Locals(call_frames_[n])
      BY <1>11 DEF SharingIInv
    <3>3. Len(q) \in Nat /\ \A i \in 1 .. Len(q) : upvalues[q[i]].stack_index \in Locals(call_frames_[n])
      BY <3>1, <3>2, ListFacts
    <3>4. \A j \in Locals(call_frames_[n]) : j \notin slots
      BY <1>2, <1>7, <3>2, LocalsFacts
    <3>5. Len(q) <= Len(q)
      BY <3>3
    <3>6. ListLeft(call_frames_'[n], q, q, slots)
      BY <3>2, <3>3, <3>4, <3>5 DEF ListLeft
    <3>. QED
      BY <1>2, <3>1, <3>6
  <2>. QED
    BY <1>9, <2>1 DEF ListsLeft
<1>19. OwnersLeft(call_frames_', ds, slots)
  <2>1. ASSUME NEW u \in DOMAIN upvalues, NEW n \in 1 .. Len(call_frames_),
               upvalues[u].open, upvalues[u].stack_index \notin slots,
               OwnedBy(u, upvalues[u], call_frames_, closures, n)
        PROVE  n <= Len(call_frames_') /\ OwnedBy(u, upvalues[u], call_frames_', ds, n)
    <3>1. n # m
      BY <1>2, <1>7, <2>1 DEF OwnedBy
    <3>2. n \in 1 .. m - 1 /\ n <= m - 1
      BY <1>6, <3>1
    <3>3. /\ call_frames_'[n].closure = call_frames_[n].closure
          /\ call_frames_'[n].base = call_frames_[n].base
          /\ call_frames_'[n].locals = call_frames_[n].locals
          /\ Locals(call_frames_'[n]) = Locals(call_frames_[n])
      BY <1>11, <3>2
    <3>4. PICK fs : fs = call_frames_'
      OBVIOUS
    <3>5. OwnedBy(u, upvalues[u], fs, ds, n)
      BY SMTT(40), <1>2, <2>1, <3>3, <3>4 DEF OwnedBy
    <3>. QED
      BY <1>9, <3>2, <3>4, <3>5
  <2>. QED
    BY <2>1 DEF OwnersLeft
<1>. QED
  BY <1>1, <1>5, <1>12, <1>13, <1>14, <1>17, <1>18, <1>19, LeaveShares

-----------------------------------------------------------------------------
(* Calls and the collector *)

LEMMA ListExtends ==
  ASSUME MachineIInv, SharingIInv, NEW n \in 1 .. Len(call_frames_), NEW g, Extends(call_frames_[n], g),
         Len(g.locals) \in Nat
  PROVE  ListOK(g, upvalues, closures[g.closure].open_upvalues)
<1>1. PICK f, o : f = call_frames_[n] /\ o = closures[f.closure].open_upvalues
  OBVIOUS
<1>2. Extends(f, g) /\ f.base \in Nat /\ Len(f.locals) \in Nat
  BY <1>1, FrameAt
<1>3. Locals(f) \subseteq Locals(g) /\ g.closure = f.closure
  BY SMTT(40), <1>2, LocalsExtend DEF Extends
<1>4. /\ \A i \in 1 .. Len(o) : upvalues[o[i]].open /\ upvalues[o[i]].stack_index \in Locals(f)
      /\ \A i, j \in 1 .. Len(o) : i < j => upvalues[o[i]].stack_index < upvalues[o[j]].stack_index
  BY <1>1 DEF SharingIInv, ListsOK, ListOK
<1>. QED
  BY <1>1, <1>3, <1>4 DEF ListOK

(* Without the exclusions' defects, a callee starts where its body counts   *)
(* from and with an empty list.                                             *)
LEMMA CallShares ==
  ASSUME Exclusions, MachineIInv, SharingIInv, NEW n \in Arities, Call(n)
  PROVE  SharingIInv'
<1>1. PICK b, c, t : /\ b = Len(stack_) - n /\ c = stack_[b]
                     /\ t = IF closures[c].anonymous THEN n ELSE n + 1
  OBVIOUS
<1>2. PICK g, f : /\ g = [Top EXCEPT !.temps = @ - (n + 1)]
                  /\ f = [closure |-> c, begin |-> b, base |-> Len(stack_) - t + 1, fixed |-> t,
                          locals |-> [i \in 1 .. t |-> FALSE], temps |-> 0]
  OBVIOUS
<1>3. /\ Running /\ Top.temps > n /\ c # Plain /\ closures[c].open_upvalues = <<>>
      /\ call_frames_' = Append(WithTop(g), f)
      /\ UNCHANGED stack_ /\ UNCHANGED closures /\ UNCHANGED upvalues /\ UNCHANGED crashed
      /\ UNCHANGED scripts /\ UNCHANGED errors
  BY <1>1, <1>2 DEF Call, Exclusions, NoObjectChanges
<1>4. n \in 0 .. 1 /\ n \in Nat
  BY ClosuresAssumption
<1>5. PICK h, k : h = Len(stack_) /\ k = Top.temps
  OBVIOUS
<1>6. h \in Nat /\ k \in Nat /\ k > n /\ b = h - n /\ b \in 1 .. h
  <2>1. PICK e, l : e = Top.base /\ l = Len(Top.locals)
    OBVIOUS
  <2>2. h \in Nat /\ k \in Nat /\ e \in Nat /\ l \in Nat /\ e >= 1 /\ h + 1 = e + l + k /\ k > n
        /\ b = h - n
    <3>1. Top.begin \in Nat /\ Top.begin >= 1 /\ Top.base >= Top.begin /\ Top.base \in Nat
      BY <1>3, TopFacts
    <3>2. Top.base >= 1
      BY <3>1
    <3>. QED
      BY <1>1, <1>3, <1>5, <2>1, <3>2, TopFacts
  <2>. QED
    BY <1>4, <2>2
<1>7. c \in DOMAIN closures
  <2>1. Live(c, DOMAIN closures)
    BY <1>1, <1>5, <1>6 DEF MachineIInv, StackOK
  <2>. QED
    BY <1>3, <2>1 DEF Live
<1>8. ~closures[c].anonymous
  BY <1>7 DEF SharingIInv, BodiesOK, MeansOK
<1>9. f.closure = c /\ f.begin = b /\ f.base = b
  <2>1. t = n + 1
    BY <1>1, <1>8
  <2>2. h - (n + 1) + 1 = b
    BY <1>4, <1>6
  <2>. QED
    BY <1>2, <1>5, <2>1, <2>2
<1>10. g \in Frame /\ Extends(Top, g)
  <2>1. PICK s \in Nat : s = k - (n + 1)
    BY <1>4, <1>6
  <2>2. g = [Top EXCEPT !.temps = s]
    BY <1>2, <1>5, <2>1
  <2>. QED
    BY <1>3, <2>2, TempsExtend
<1>11. PICK m \in Nat \ {0} : m = Len(call_frames_)
  BY <1>3, TopFacts
<1>12. /\ call_frames_ \in Seq(Frame) /\ Top = call_frames_[m]
  BY <1>3, <1>11, TopFacts DEF MachineIInv, FramesOK
<1>13. PICK ws : ws = WithTop(g)
  OBVIOUS
<1>14. /\ ws \in Seq(Frame) /\ Len(ws) = m
       /\ \A i \in 1 .. m : ws[i] = IF i = m THEN g ELSE call_frames_[i]
  BY <1>10, <1>11, <1>12, <1>13 DEF WithTop
<1>15. PICK S : S = Frame \cup {f}
  OBVIOUS
<1>16. /\ Len(call_frames_') = m + 1
       /\ \A i \in 1 .. m : call_frames_'[i] = ws[i]
       /\ call_frames_'[m + 1] = f
  <2>1. ws \in Seq(S) /\ f \in S
    BY <1>14, <1>15, MoreMembers
  <2>2. call_frames_' = Append(ws, f)
    BY <1>3, <1>13
  <2>. QED
    BY <1>14, <2>1, <2>2, AppendFacts
<1>17. ASSUME NEW i \in 1 .. m
       PROVE  Extends(call_frames_[i], call_frames_'[i]) /\ Len(call_frames_'[i].locals) \in Nat
  <2>1. Len(g.locals) \in Nat
    BY <1>10, FrameFields
  <2>2. Extends(call_frames_[i], call_frames_[i]) /\ Len(call_frames_[i].locals) \in Nat
    BY <1>11, FrameAt DEF Extends
  <2>. QED
    BY <1>10, <1>12, <1>14, <1>16, <2>1, <2>2
<1>18. FramesExtend(call_frames_')
  BY <1>11, <1>16, <1>17 DEF FramesExtend
<1>19. errors = 0 /\ errors' = 0 /\ call_frames_ # <<>> /\ call_frames_' # <<>>
  <2>1. m + 1 # 0
    BY <1>11
  <2>. QED
    BY <1>3, <1>16, <2>1, NoErrors DEF Running
<1>20. VariablesOK'
  <2>1. ASSUME NEW u \in DOMAIN upvalues, upvalues[u].open
        PROVE  Owned(u, upvalues'[u], call_frames_', closures')
    <3>1. Owned(u, upvalues[u], call_frames_, closures)
      BY <1>19, <2>1 DEF SharingIInv, VariablesOK
    <3>2. PICK w, fs, cs : w = upvalues[u] /\ fs = call_frames_' /\ cs = closures
      OBVIOUS
    <3>3. Len(fs) \in Nat /\ FramesExtend(fs)
      BY <1>11, <1>16, <1>18, <3>2
    <3>4. Owned(u, w, fs, cs)
      BY <3>1, <3>2, <3>3, OwnedExtends
    <3>. QED
      BY <1>3, <3>2, <3>4
  <2>2. ASSUME NEW u \in DOMAIN upvalues, ~upvalues[u].open
        PROVE  upvalues[u].var = Escaped(u)
    BY <2>2 DEF SharingIInv, VariablesOK
  <2>. QED
    BY <1>3, <1>19, <2>1, <2>2 DEF VariablesOK
<1>21. BodiesOK'
  BY <1>3 DEF SharingIInv, BodiesOK
<1>22. ListsOK'
  <2>1. ASSUME NEW i \in 1 .. m
        PROVE  ListOK(call_frames_'[i], upvalues, closures[call_frames_'[i].closure].open_upvalues)
    <3>1. PICK e : e = call_frames_'[i]
      OBVIOUS
    <3>2. i \in 1 .. Len(call_frames_) /\ Extends(call_frames_[i], e) /\ Len(e.locals) \in Nat
      BY <1>11, <1>17, <3>1
    <3>3. ListOK(e, upvalues, closures[e.closure].open_upvalues)
      BY <3>2, ListExtends
    <3>. QED
      BY <3>1, <3>3
  <2>2. ListOK(f, upvalues, closures[f.closure].open_upvalues)
    <3>1. Len(closures[f.closure].open_upvalues) = 0
      BY <1>3, <1>9
    <3>. QED
      BY <3>1 DEF ListOK
  <2>3. \A i \in 1 .. m + 1 : i \in 1 .. m \/ i = m + 1
    BY <1>11
  <2>. QED
    BY <1>3, <1>16, <2>1, <2>2, <2>3 DEF ListsOK
<1>23. BaseOK'
  <2>1. \A i \in 1 .. m : call_frames_[i].base = call_frames_[i].begin
    BY <1>11 DEF SharingIInv, BaseOK
  <2>2. call_frames_[1].begin = 1 /\ 1 \in 1 .. m
    BY <1>11, <1>19 DEF SharingIInv, BaseOK
  <2>3. \A i \in 1 .. m + 1 : i \in 1 .. m \/ i = m + 1
    BY <1>11
  <2>. QED
    BY <1>9, <1>16, <1>17, <2>1, <2>2, <2>3 DEF BaseOK, Extends
<1>24. SessionOK'
  <2>1. crashed = "none" /\ scripts >= 1
    BY <1>19 DEF SharingIInv, SessionOK
  <2>. QED
    BY <1>3, <1>19, <2>1 DEF SessionOK
<1>. QED
  BY <1>20, <1>21, <1>22, <1>23, <1>24 DEF SharingIInv

LEMMA CollectGarbageShares ==
  ASSUME MachineIInv, SharingIInv, CollectGarbage
  PROVE  SharingIInv'
<1>1. PICK kc, ku : /\ kc = {c \in DOMAIN closures : <<"closure", c>> \in Reached}
                    /\ ku = {u \in DOMAIN upvalues : <<"upvalue", u>> \in Reached}
  OBVIOUS
<1>2. /\ Running
      /\ \/ \E u \in ku : ~InRange(u)
         \/ /\ closures' = Restrict(closures, kc) /\ upvalues' = Restrict(upvalues, ku)
            /\ UNCHANGED <<stack_, call_frames_, globals_, crashed, scripts, errors>>
  BY <1>1 DEF CollectGarbage
<1>3. /\ closures' = Restrict(closures, kc) /\ upvalues' = Restrict(upvalues, ku)
      /\ UNCHANGED call_frames_ /\ UNCHANGED crashed /\ UNCHANGED scripts /\ UNCHANGED errors
  BY <1>1, <1>2, AllInRange DEF Running
<1>4. /\ DOMAIN closures' = kc /\ \A c \in kc : closures'[c] = closures[c]
      /\ DOMAIN upvalues' = ku /\ \A u \in ku : upvalues'[u] = upvalues[u]
      /\ kc \subseteq DOMAIN closures /\ ku \subseteq DOMAIN upvalues
  BY <1>1, <1>3 DEF Restrict
<1>5. /\ \A n \in 1 .. Len(call_frames_) : call_frames_[n].closure \in kc
      /\ \A c \in kc : ToSet(closures[c].upvalues) \cup ToSet(closures[c].open_upvalues) \subseteq ku
  BY <1>1, KeptFacts
<1>6. ASSUME NEW c \in kc
      PROVE  /\ \A i \in 1 .. Len(closures[c].upvalues) : closures[c].upvalues[i] \in ku
             /\ \A i \in 1 .. Len(closures[c].open_upvalues) : closures[c].open_upvalues[i] \in ku
  <2>1. PICK d : d = closures[c]
    OBVIOUS
  <2>2. d.upvalues \in Seq(1 .. NUpvalues) /\ d.open_upvalues \in Seq(1 .. NUpvalues)
    BY <1>4, <2>1, ObjectFacts DEF ClosureOK, Closure
  <2>3. ToSet(d.upvalues) \subseteq ku /\ ToSet(d.open_upvalues) \subseteq ku
    BY <1>5, <2>1
  <2>4. \A i \in 1 .. Len(d.upvalues) : d.upvalues[i] \in ku
    BY <2>2, <2>3, ToSetFacts
  <2>5. \A i \in 1 .. Len(d.open_upvalues) : d.open_upvalues[i] \in ku
    BY <2>2, <2>3, ToSetFacts
  <2>. QED
    BY <2>1, <2>4, <2>5
<1>7. VariablesOK'
  <2>1. ASSUME NEW u \in ku
        PROVE  IF upvalues[u].open /\ errors = 0
               THEN Owned(u, upvalues[u], call_frames_, closures')
               ELSE upvalues[u].var = Escaped(u)
    <3>1. IF upvalues[u].open /\ errors = 0
          THEN Owned(u, upvalues[u], call_frames_, closures)
          ELSE upvalues[u].var = Escaped(u)
      BY <1>4 DEF SharingIInv, VariablesOK
    <3>2. PICK cs : cs = closures'
      OBVIOUS
    <3>3. \A n \in 1 .. Len(call_frames_) : cs[call_frames_[n].closure] = closures[call_frames_[n].closure]
      BY <1>4, <1>5, <3>2
    <3>4. Owned(u, upvalues[u], call_frames_, closures) => Owned(u, upvalues[u], call_frames_, cs)
      BY <3>3 DEF Owned, OwnedBy
    <3>. QED
      BY <3>1, <3>2, <3>4
  <2>. QED
    BY <1>3, <1>4, <2>1 DEF VariablesOK
<1>8. BodiesOK'
  <2>1. ASSUME NEW c \in kc
        PROVE  MeansOK(closures[c], upvalues')
    <3>1. PICK d : d = closures[c]
      OBVIOUS
    <3>2. MeansOK(d, upvalues)
      BY <1>4, <3>1 DEF SharingIInv, BodiesOK
    <3>3. \A i \in 1 .. Len(d.upvalues) : upvalues'[d.upvalues[i]] = upvalues[d.upvalues[i]]
      BY <1>4, <1>6, <3>1
    <3>4. MeansOK(d, upvalues')
      BY <3>2, <3>3 DEF MeansOK
    <3>. QED
      BY <3>1, <3>4
  <2>. QED
    BY <1>4, <2>1 DEF BodiesOK
<1>9. ListsOK'
  <2>1. ASSUME NEW n \in 1 .. Len(call_frames_)
        PROVE  ListOK(call_frames_[n], upvalues', closures'[call_frames_[n].closure].open_upvalues)
    <3>1. PICK c, o : c = call_frames_[n].closure /\ o = closures[c].open_upvalues
      OBVIOUS
    <3>2. c \in kc /\ closures'[c] = closures[c]
      BY <1>4, <1>5, <3>1
    <3>3. ListOK(call_frames_[n], upvalues, o)
      BY <3>1 DEF SharingIInv, ListsOK
    <3>4. \A i \in 1 .. Len(o) : upvalues'[o[i]] = upvalues[o[i]]
      BY <1>4, <1>6, <3>1, <3>2
    <3>5. ListOK(call_frames_[n], upvalues', o)
      BY <3>3, <3>4 DEF ListOK
    <3>. QED
      BY <3>1, <3>2, <3>5
  <2>. QED
    BY <1>3, <2>1 DEF ListsOK
<1>10. BaseOK' /\ SessionOK'
  <2>1. UNCHANGED stack_
    BY <1>1, <1>2, AllInRange DEF Running
  <2>. QED
    BY <1>3, <2>1 DEF SharingIInv, BaseOK, SessionOK
<1>. QED
  BY <1>7, <1>8, <1>9, <1>10 DEF SharingIInv

-----------------------------------------------------------------------------
(* The closure instruction *)

(* vs is us with an upvalue at a, open at the slot s of f; q is the sorted  *)
(* list o with it.                                                          *)
Inserted(f, us, o, vs, q, a, s) ==
  /\ o \in Seq(DOMAIN us) /\ a \notin DOMAIN us /\ DOMAIN vs = DOMAIN us \cup {a}
  /\ \A u \in DOMAIN us : vs[u] = us[u]
  /\ s \in Nat /\ vs[a].open /\ vs[a].stack_index = s /\ s \in Locals(f) /\ ListOK(f, us, o)
  /\ \A i \in 1 .. Len(o) : us[o[i]].stack_index \in Nat
  /\ Hits(us, o, s) = {} /\ q = InsertAt(o, Place(us, o, s), a)

(* A new entry goes where it keeps the list sorted. *)
LEMMA ListInserted ==
  ASSUME NEW f, NEW us, NEW o, NEW vs, NEW q, NEW a, NEW s, Inserted(f, us, o, vs, q, a, s)
  PROVE  /\ ListOK(f, vs, q) /\ Len(q) = Len(o) + 1
         /\ \A i \in 1 .. Len(q) : q[i] = a \/ InList(q[i], o)
         /\ InList(a, q) /\ \A u : InList(u, o) => InList(u, q)
<1>0. /\ o \in Seq(DOMAIN us) /\ a \notin DOMAIN us /\ DOMAIN vs = DOMAIN us \cup {a}
      /\ \A u \in DOMAIN us : vs[u] = us[u]
      /\ s \in Nat /\ vs[a].open /\ vs[a].stack_index = s /\ s \in Locals(f) /\ ListOK(f, us, o)
      /\ \A i \in 1 .. Len(o) : us[o[i]].stack_index \in Nat
      /\ Hits(us, o, s) = {} /\ q = InsertAt(o, Place(us, o, s), a)
  BY DEF Inserted
<1>p. PICK p : p = Place(us, o, s) /\ q = InsertAt(o, p, a)
  BY <1>0
<1>. USE <1>0, <1>p
<1>1. PICK l \in Nat : l = Len(o)
  OBVIOUS
<1>2. p \in 1 .. l + 1
  BY <1>1, HitFacts
<1>3. o \in Seq(DOMAIN vs) /\ a \in DOMAIN vs
  BY MoreMembers
<1>4. /\ Len(q) = l + 1
      /\ \A i \in 1 .. p - 1 : q[i] = o[i]
      /\ q[p] = a
      /\ \A i \in p + 1 .. l + 1 : q[i] = o[i - 1]
  <2>1. PICK T : T = DOMAIN vs
    OBVIOUS
  <2>2. o \in Seq(T) /\ a \in T /\ p \in 1 .. Len(o) + 1
    BY <1>1, <1>2, <1>3, <2>1
  <2>3. /\ Len(InsertAt(o, p, a)) = Len(o) + 1
        /\ \A i \in 1 .. p - 1 : InsertAt(o, p, a)[i] = o[i]
        /\ InsertAt(o, p, a)[p] = a
        /\ \A i \in p + 1 .. Len(o) + 1 : InsertAt(o, p, a)[i] = o[i - 1]
    BY <2>2, InsertFacts
  <2>. QED
    BY <1>1, <2>3
<1>5. /\ \A i \in 1 .. l : us[o[i]].open /\ us[o[i]].stack_index \in Locals(f)
      /\ \A i, j \in 1 .. l : i < j => us[o[i]].stack_index < us[o[j]].stack_index
      /\ \A i \in 1 .. l : o[i] \in DOMAIN us /\ us[o[i]].stack_index \in Nat
  BY <1>1 DEF ListOK
<1>6. ASSUME NEW i \in 1 .. p - 1
      PROVE  i \in 1 .. l /\ us[o[i]].stack_index < s
  <2>1. i \in 1 .. l
    BY <1>1, <1>2
  <2>2. i \notin Afters(us, o, s)
    BY <1>1, HitFacts
  <2>3. ~ (us[o[i]].stack_index > s)
    BY <1>1, <2>1, <2>2 DEF Afters
  <2>4. us[o[i]].stack_index # s
    BY <1>1, <2>1 DEF Hits
  <2>5. PICK x : x = us[o[i]].stack_index
    OBVIOUS
  <2>6. x \in Nat /\ x # s /\ ~ (x > s)
    BY <1>5, <2>1, <2>3, <2>4, <2>5
  <2>7. x < s
    BY <2>6
  <2>. QED
    BY <2>1, <2>5, <2>7
<1>7. ASSUME NEW i \in p .. l
      PROVE  i \in 1 .. l /\ us[o[i]].stack_index > s
  <2>1. i \in 1 .. l /\ p \in 1 .. l /\ p # l + 1 /\ (i = p \/ p < i)
    BY <1>1, <1>2
  <2>2. p \in Afters(us, o, s)
    BY <1>1, <2>1, HitFacts
  <2>3. us[o[p]].stack_index > s
    BY <2>2 DEF Afters
  <2>4. PICK x, y : x = us[o[p]].stack_index /\ y = us[o[i]].stack_index
    OBVIOUS
  <2>5. x \in Nat /\ y \in Nat /\ x > s /\ (y = x \/ x < y)
    BY <1>5, <2>1, <2>3, <2>4
  <2>6. y > s
    BY <2>5
  <2>. QED
    BY <2>1, <2>4, <2>6
<1> DEFINE Key(i) == vs[q[i]].stack_index
<1>8. ASSUME NEW i \in 1 .. l + 1
      PROVE  \/ i \in 1 .. p - 1 /\ q[i] = o[i] /\ vs[q[i]] = us[o[i]] /\ i \in 1 .. l
             \/ i = p /\ q[i] = a
             \/ /\ i \in p + 1 .. l + 1 /\ i - 1 \in p .. l /\ i - 1 \in 1 .. l
                /\ q[i] = o[i - 1] /\ vs[q[i]] = us[o[i - 1]]
  <2>1. i \in 1 .. p - 1 \/ i = p \/ i \in p + 1 .. l + 1
    BY <1>1, <1>2
  <2>2. i \in 1 .. p - 1 => i \in 1 .. l
    BY <1>1, <1>2
  <2>3. i \in p + 1 .. l + 1 => i - 1 \in p .. l /\ i - 1 \in 1 .. l
    BY <1>1, <1>2
  <2>. QED
    BY <1>4, <1>5, <2>1, <2>2, <2>3
<1>9. ASSUME NEW i \in 1 .. l + 1
      PROVE  vs[q[i]].open /\ Key(i) \in Locals(f)
  BY <1>5, <1>8
<1>10. ASSUME NEW i \in 1 .. l + 1, NEW j \in 1 .. l + 1, i < j
       PROVE  Key(i) < Key(j)
  <2>1. CASE j \in 1 .. p - 1
    <3>1. i \in 1 .. p - 1 /\ i \in 1 .. l /\ j \in 1 .. l /\ ~ (i = p) /\ ~ (j = p)
          /\ i \notin p + 1 .. l + 1 /\ j \notin p + 1 .. l + 1
      BY <1>1, <1>2, <1>10, <2>1
    <3>2. Key(i) = us[o[i]].stack_index /\ Key(j) = us[o[j]].stack_index
      BY <1>8, <3>1
    <3>. QED
      BY <1>5, <1>10, <3>1, <3>2
  <2>2. CASE j = p
    <3>1. i \in 1 .. p - 1 /\ ~ (i = p) /\ i \notin p + 1 .. l + 1
      BY <1>1, <1>2, <1>10, <2>2
    <3>2. Key(i) = us[o[i]].stack_index /\ Key(j) = s
      BY <1>4, <1>8, <2>2, <3>1
    <3>. QED
      BY <1>6, <3>1, <3>2
  <2>3. CASE j \in p + 1 .. l + 1
    <3>1. j - 1 \in p .. l /\ j - 1 \in 1 .. l /\ Key(j) = us[o[j - 1]].stack_index
      <4>1. ~ (j = p) /\ j \notin 1 .. p - 1
        BY <1>1, <1>2, <2>3
      <4>. QED
        BY <1>8, <4>1
    <3>2. PICK y : y = us[o[j - 1]].stack_index
      OBVIOUS
    <3>3. y \in Nat /\ y > s /\ Key(j) = y
      BY <1>5, <1>7, <3>1, <3>2
    <3>4. CASE i \in 1 .. p - 1
      <4>1. ~ (i = p) /\ i \notin p + 1 .. l + 1
        BY <1>1, <1>2, <3>4
      <4>2. Key(i) = us[o[i]].stack_index /\ us[o[i]].stack_index < s /\ i \in 1 .. l
        BY <1>6, <1>8, <3>4, <4>1
      <4>3. PICK x : x = us[o[i]].stack_index
        OBVIOUS
      <4>4. x \in Nat /\ x < s /\ Key(i) = x
        BY <1>5, <4>2, <4>3
      <4>5. x < y
        BY <3>3, <4>4
      <4>. QED
        BY <3>3, <4>4, <4>5
    <3>5. CASE i = p
      <4>1. Key(i) = s
        BY <1>4, <3>5
      <4>2. s < y
        BY <3>3
      <4>. QED
        BY <3>3, <4>1, <4>2
    <3>6. CASE i \in p + 1 .. l + 1
      <4>1. ~ (i = p) /\ i \notin 1 .. p - 1 /\ i - 1 < j - 1
        BY <1>1, <1>2, <1>10, <3>6
      <4>2. i - 1 \in 1 .. l /\ Key(i) = us[o[i - 1]].stack_index
        BY <1>8, <4>1
      <4>. QED
        BY <1>5, <3>1, <4>1, <4>2
    <3>. QED
      BY <1>8, <3>4, <3>5, <3>6
  <2>. QED
    BY <1>8, <2>1, <2>2, <2>3
<1>11. ListOK(f, vs, q)
  BY <1>4, <1>9, <1>10 DEF ListOK
<1>12. ASSUME NEW i \in 1 .. l + 1
       PROVE  q[i] = a \/ InList(q[i], o)
  BY <1>1, <1>8 DEF InList
<1>13. InList(a, q)
  BY <1>2, <1>4 DEF InList
<1>14. ASSUME NEW u, InList(u, o)
       PROVE  InList(u, q)
  <2>1. PICK i \in 1 .. l : o[i] = u
    BY <1>1, <1>14 DEF InList
  <2>2. CASE i \in 1 .. p - 1
    <3>1. q[i] = u /\ i \in 1 .. l + 1
      BY <1>1, <1>4, <2>1, <2>2
    <3>. QED
      BY <1>4, <3>1 DEF InList
  <2>3. CASE i \notin 1 .. p - 1
    <3>1. i + 1 \in p + 1 .. l + 1 /\ i + 1 \in 1 .. l + 1 /\ i + 1 - 1 = i
      BY <1>1, <1>2, <2>3
    <3>2. q[i + 1] = u
      BY <1>4, <2>1, <3>1
    <3>. QED
      BY <1>4, <3>1, <3>2 DEF InList
  <2>. QED
    BY <2>2, <2>3
<1>. QED
  BY <1>1, <1>4, <1>11, <1>12, <1>13, <1>14

LEMMA TopShares ==
  ASSUME MachineIInv, SharingIInv, Running
  PROVE  /\ Top.base = Top.begin /\ ListOK(Top, upvalues, Open)
         /\ \A i \in 1 .. Len(Open) : upvalues[Open[i]].var = upvalues[Open[i]].stack_index
         /\ \A k \in 1 .. Len(Captured) : upvalues[Captured[k]].var = closures[Top.closure].vars[k]
<1>1. PICK m \in Nat \ {0} : m = Len(call_frames_)
  BY TopFacts
<1>2. Top = call_frames_[m] /\ m \in 1 .. Len(call_frames_) /\ Top.closure \in DOMAIN closures /\ errors = 0
  BY <1>1, TopFacts, NoErrors
<1>3. Top.base = Top.begin /\ ListOK(Top, upvalues, Open)
  BY <1>2 DEF SharingIInv, BaseOK, ListsOK, Open
<1>4. \A i \in 1 .. Len(Open) : Open[i] \in DOMAIN upvalues /\ upvalues[Open[i]].open
  BY <1>3, RunningClosure DEF ListOK
<1>5. \A i \in 1 .. Len(Open) : upvalues[Open[i]].var = upvalues[Open[i]].stack_index
  BY <1>2, <1>4, OpenFacts
<1>6. MeansOK(closures[Top.closure], upvalues)
  BY <1>2 DEF SharingIInv, BodiesOK
<1>. QED
  BY <1>3, <1>5, <1>6 DEF MeansOK, Captured

(* After n rounds: the list is still one of the activation, holds all it    *)
(* held and all that is new, and every capture so far is of the variable    *)
(* the program means.                                                       *)
LoopShares(us, o, c, ds, n) ==
  /\ ListOK(Top, us, o)
  /\ \A i \in 1 .. Len(o) : us[o[i]].var = us[o[i]].stack_index
  /\ \A u : InList(u, Open) => InList(u, o)
  /\ \A u \in DOMAIN us \ DOMAIN upvalues :
       InList(u, o) /\ us[u].stack_index - Top.base + 1 \in Seen(ds, n)
  /\ Len(c) = n /\ \A k \in 1 .. n : us[c[k]].var = Meant(ds[k])
  /\ Seen(ds, n) = {} => o = Open

RoundShares(made, ds, n) ==
  \E us, o, c : made[n] = Going(us, o, c) /\ LoopOK(us, o, c) /\ LoopShares(us, o, c, ds, n)

LEMMA GoingFields ==
  ASSUME NEW us, NEW o, NEW c, NEW vs, NEW p, NEW e,
         Going(us, o, c) = Stopped(vs, p, e) \/ Going(us, o, c) = Going(vs, p, e)
  PROVE  vs = us /\ p = o /\ e = c
<1>1. PICK x, y : x = Going(us, o, c) /\ (y = Stopped(vs, p, e) \/ y = Going(vs, p, e)) /\ x = y
  OBVIOUS
<1>2. x.upvalues = us /\ x.open = o /\ x.captured = c
  BY <1>1 DEF Going
<1>3. y.upvalues = vs /\ y.open = p /\ y.captured = e
  BY <1>1 DEF Going, Stopped
<1>. QED
  BY <1>1, <1>2, <1>3

(* A round that goes on keeps LoopOK. *)
LEMMA RoundLoopOK ==
  ASSUME MachineIInv, Running, NEW us, NEW o, NEW c, LoopOK(us, o, c), NEW d \in Captures,
         d.is_direct => DOMAIN us # 1 .. NUpvalues, NEW vs, NEW p, NEW e,
         Capture(Going(us, o, c), d) = Going(vs, p, e)
  PROVE  LoopOK(vs, p, e)
<1>1. PICK made : made = Going(us, o, c)
  OBVIOUS
<1>2. RoundOK(us, c, d, Capture(made, d))
  BY <1>1, CaptureKeeps
<1>3. PICK ws, q, f :
        LoopOK(ws, q, f) /\ (Going(vs, p, e) = Stopped(ws, q, f) \/ Going(vs, p, e) = Going(ws, q, f))
  BY <1>1, <1>2 DEF RoundOK
<1>4. ws = vs /\ q = p /\ f = e
  <2>1. Going(vs, p, e) = Stopped(ws, q, f) \/ Going(vs, p, e) = Going(ws, q, f)
    BY <1>3
  <2>. QED
    BY <2>1, GoingFields
<1>. QED
  BY <1>3, <1>4

LEMMA CapturedMore ==
  ASSUME NEW us, NEW c \in Seq(DOMAIN us), NEW n \in Nat, Len(c) = n, NEW ds, NEW u \in DOMAIN us,
         \A k \in 1 .. n : us[c[k]].var = Meant(ds[k]), us[u].var = Meant(ds[n + 1]),
         NEW e, e = Append(c, u)
  PROVE  Len(e) = n + 1 /\ \A k \in 1 .. n + 1 : us[e[k]].var = Meant(ds[k])
<1>1. /\ Len(e) = n + 1 /\ e[n + 1] = u
      /\ \A k \in 1 .. n : e[k] = c[k]
  <2>1. PICK T : T = DOMAIN us
    OBVIOUS
  <2>2. c \in Seq(T) /\ u \in T
    BY <2>1
  <2>3. /\ Len(Append(c, u)) = Len(c) + 1 /\ Append(c, u)[Len(c) + 1] = u
        /\ \A k \in 1 .. Len(c) : Append(c, u)[k] = c[k]
    BY <2>2, AppendFacts
  <2>. QED
    BY <2>3
<1>2. \A k \in 1 .. n + 1 : k \in 1 .. n \/ k = n + 1
  OBVIOUS
<1>. QED
  BY <1>1, <1>2

(* One round: the search of the open list finds the variable's upvalue if   *)
(* there is one, and never a closed one.                                    *)
LEMMA RoundKeepsShares ==
  ASSUME MachineIInv, SharingIInv, Running, NEW ds \in Seq(Captures), IsInjective(ds),
         NEW n \in 0 .. Len(ds), n # Len(ds),
         NEW us, NEW o, NEW c, LoopOK(us, o, c), LoopShares(us, o, c, ds, n),
         NEW d, d = ds[n + 1], d.is_direct => DOMAIN us # 1 .. NUpvalues
  PROVE  \E vs, p, e : /\ Capture(Going(us, o, c), d) = Going(vs, p, e)
                       /\ LoopOK(vs, p, e) /\ LoopShares(vs, p, e, ds, n + 1)
<1>1. /\ n \in Nat /\ n + 1 \in 1 .. Len(ds) /\ d \in Captures /\ d.is_direct \in BOOLEAN
  <2>1. n \in Nat /\ n + 1 \in 1 .. Len(ds)
    OBVIOUS
  <2>2. d \in Captures
    BY <2>1
  <2>. QED
    BY <2>1, <2>2, CaptureIsDirect
<1>2. /\ o \in Seq(DOMAIN us) /\ c \in Seq(DOMAIN us) /\ Len(o) \in Nat
      /\ DOMAIN upvalues \subseteq DOMAIN us /\ DOMAIN us \subseteq 1 .. NUpvalues
      /\ \A u \in DOMAIN upvalues : us[u] = upvalues[u]
  BY DEF LoopOK
<1>3. /\ ListOK(Top, us, o)
      /\ \A i \in 1 .. Len(o) : us[o[i]].var = us[o[i]].stack_index
      /\ \A u : InList(u, Open) => InList(u, o)
      /\ \A u \in DOMAIN us \ DOMAIN upvalues :
           InList(u, o) /\ us[u].stack_index - Top.base + 1 \in Seen(ds, n)
      /\ Len(c) = n /\ \A k \in 1 .. n : us[c[k]].var = Meant(ds[k])
      /\ Seen(ds, n) = {} => o = Open
  BY DEF LoopShares
<1>4. PICK s, hit, a, x : s = SlotOf(d.index) /\ hit = Hit(us, o, s) /\ a = NewUpvalue(us)
                          /\ x = Fresh(d.index)
  OBVIOUS
<1>5. PICK made : made = Going(us, o, c)
  OBVIOUS
<1>6. /\ ~d.is_direct => Capture(made, d) = Going(us, o, Append(c, Captured[d.index]))
      /\ d.is_direct /\ hit # 0 /\ us[o[hit]].open => Capture(made, d) = Going(us, o, Append(c, o[hit]))
      /\ d.is_direct /\ hit = 0 =>
           Capture(made, d) = Going(With(us, a, x), InsertAt(o, Place(us, o, s), a), Append(c, a))
  BY <1>1, <1>4, <1>5, CaptureCases
<1>7. /\ ~d.is_direct => Seen(ds, n + 1) = Seen(ds, n)
      /\ d.is_direct => Seen(ds, n + 1) = Seen(ds, n) \cup {d.index}
  <2>1. PICK direct : direct = {e.index : e \in {f \in ToSet(ds) : f.is_direct}}
    OBVIOUS
  <2>. QED
    BY <2>1, SeenFacts
<1>8. Seen(ds, n) \subseteq Seen(ds, n + 1)
  BY <1>1, <1>7
<1>9. ASSUME NEW u \in DOMAIN us, us[u].var = Meant(d), NEW e, e = Append(c, u),
             d.is_direct \/ Seen(ds, n + 1) = Seen(ds, n)
      PROVE  LoopShares(us, o, e, ds, n + 1)
  <2>1. Len(e) = n + 1 /\ \A k \in 1 .. n + 1 : us[e[k]].var = Meant(ds[k])
    BY <1>1, <1>2, <1>3, <1>9, CapturedMore
  <2>2. Seen(ds, n + 1) = {} => o = Open
    BY <1>3, <1>7, <1>9
  <2>. QED
    BY <1>3, <1>8, <2>1, <2>2 DEF LoopShares
<1>10. ASSUME ~d.is_direct
       PROVE  \E vs, p, e : /\ Capture(made, d) = Going(vs, p, e)
                            /\ LoopOK(vs, p, e) /\ LoopShares(vs, p, e, ds, n + 1)
  <2>1. PICK u, e : u = Captured[d.index] /\ e = Append(c, u)
    OBVIOUS
  <2>2. Capture(made, d) = Going(us, o, e)
    BY <1>6, <1>10, <2>1
  <2>3. d.index \in 1 .. Len(Captured)
    <3>1. Captured \in Seq(1 .. NUpvalues) /\ d.index \in DOMAIN Captured
      BY <1>1, <1>10, RunningClosure, CaptureIsDirect
    <3>. QED
      BY <3>1
  <2>4. u \in DOMAIN upvalues /\ upvalues[u].var = closures[Top.closure].vars[d.index]
    BY <2>1, <2>3, RunningClosure, TopShares
  <2>5. u \in DOMAIN us /\ us[u].var = Meant(d)
    BY <1>2, <1>10, <2>4 DEF Meant
  <2>6. LoopShares(us, o, e, ds, n + 1)
    BY <1>7, <1>9, <1>10, <2>1, <2>5
  <2>7. LoopOK(us, o, e)
    BY <1>1, <1>5, <1>10, <2>2, RoundLoopOK
  <2>. QED
    BY <2>2, <2>6, <2>7
<1>11. ASSUME d.is_direct
       PROVE  /\ d.index \in 1 .. Len(Top.locals) /\ s \in Nat /\ s \in Locals(Top)
              /\ s = Meant(d) /\ s - Top.base + 1 = d.index
  <2>1. Top.locals \in Seq(BOOLEAN) /\ d.index \in DOMAIN Top.locals
    BY <1>1, <1>11, TopFacts, CaptureIsDirect
  <2>2. PICK b, l, i : b = Top.base /\ l = Len(Top.locals) /\ i = d.index
    OBVIOUS
  <2>3. b \in Nat /\ l \in Nat /\ i \in 1 .. l /\ Top.begin = b /\ b >= 1
    <3>1. Top.begin \in Nat /\ Top.begin >= 1 /\ Top.base \in Nat /\ Top.begin = Top.base
      BY TopFacts, TopShares
    <3>. QED
      BY <2>1, <2>2, <3>1
  <2>4. s = b + i - 1 /\ Meant(d) = b + i - 1 /\ Locals(Top) = b .. b + l - 1
    BY <1>4, <1>11, <2>2, <2>3 DEF SlotOf, Meant, Locals
  <2>5. b + i - 1 \in Nat /\ b + i - 1 \in b .. b + l - 1 /\ b + i - 1 - b + 1 = i
    BY <2>3
  <2>. QED
    BY SMTT(40), <2>2, <2>3, <2>4, <2>5
<1>12. ASSUME d.is_direct, hit # 0
       PROVE  \E vs, p, e : /\ Capture(made, d) = Going(vs, p, e)
                            /\ LoopOK(vs, p, e) /\ LoopShares(vs, p, e, ds, n + 1)
  <2>1. hit \in 0 .. Len(o) /\ hit \in Hits(us, o, s)
    BY <1>2, <1>4, <1>12, HitFacts
  <2>2. hit \in 1 .. Len(o) /\ (~us[o[hit]].open \/ us[o[hit]].stack_index = s)
    BY <2>1 DEF Hits
  <2>3. PICK u, e : u = o[hit] /\ e = Append(c, u)
    OBVIOUS
  <2>4. u \in DOMAIN us /\ us[u].open /\ us[u].stack_index = s /\ us[u].var = s
    BY <1>2, <1>3, <2>2, <2>3 DEF ListOK
  <2>5. Capture(made, d) = Going(us, o, e)
    BY <1>6, <1>12, <2>3, <2>4
  <2>6. LoopShares(us, o, e, ds, n + 1)
    BY <1>9, <1>11, <1>12, <2>3, <2>4
  <2>7. LoopOK(us, o, e)
    BY <1>1, <1>5, <2>5, RoundLoopOK
  <2>. QED
    BY <2>5, <2>6, <2>7
<1>13. ASSUME d.is_direct, hit = 0
       PROVE  \E vs, p, e : /\ Capture(made, d) = Going(vs, p, e)
                            /\ LoopOK(vs, p, e) /\ LoopShares(vs, p, e, ds, n + 1)
  <2>1. PICK q, vs, p, e : /\ q = Place(us, o, s) /\ vs = With(us, a, x) /\ p = InsertAt(o, q, a)
                           /\ e = Append(c, a)
    OBVIOUS
  <2>2. Capture(made, d) = Going(vs, p, e)
    BY <1>6, <1>13, <2>1
  <2>3. LoopOK(vs, p, e)
    BY <1>1, <1>5, <2>2, RoundLoopOK
  <2>4. a \in 1 .. NUpvalues /\ a \notin DOMAIN us
    BY <1>2, <1>4, <1>13, NewUpvalueFacts
  <2>5. DOMAIN vs = DOMAIN us \cup {a} /\ vs[a] = x /\ \A u \in DOMAIN us : vs[u] = us[u]
    BY <2>1, <2>4 DEF With
  <2>6. d.index \in 1 .. Len(Top.locals) /\ s \in Nat /\ s \in Locals(Top) /\ s = Meant(d)
        /\ s - Top.base + 1 = d.index
    BY <1>11, <1>13
  <2>7. x.open /\ x.stack_index = s /\ x.var = s
    <3>1. x.open /\ x.stack_index = SlotOf(d.index) /\ x.var = Top.base + d.index - 1
      BY <1>4, <2>6, FreshFacts
    <3>. QED
      BY <1>4, <1>13, <2>6, <3>1 DEF Meant
  <2>8. Hits(us, o, s) = {}
    BY <1>2, <1>4, <1>13, HitFacts
  <2>9. \A i \in 1 .. Len(o) : us[o[i]].stack_index \in Nat
    <3>1. \A i \in Locals(Top) : i \in Nat
      BY TopFacts DEF Locals
    <3>. QED
      BY <1>3, <3>1 DEF ListOK
  <2>10. /\ ListOK(Top, vs, p) /\ Len(p) = Len(o) + 1
         /\ \A i \in 1 .. Len(p) : p[i] = a \/ InList(p[i], o)
         /\ InList(a, p) /\ \A u : InList(u, o) => InList(u, p)
    <3>1. PICK f : f = Top
      OBVIOUS
    <3>2. Inserted(f, us, o, vs, p, a, s)
      BY <1>2, <1>3, <2>1, <2>4, <2>5, <2>6, <2>7, <2>8, <2>9, <3>1 DEF Inserted
    <3>3. /\ ListOK(f, vs, p) /\ Len(p) = Len(o) + 1
          /\ \A i \in 1 .. Len(p) : p[i] = a \/ InList(p[i], o)
          /\ InList(a, p) /\ \A u : InList(u, o) => InList(u, p)
      BY <3>2, ListInserted
    <3>. QED
      BY <3>1, <3>3
  <2>11. ASSUME NEW i \in 1 .. Len(p)
         PROVE  vs[p[i]].var = vs[p[i]].stack_index
    <3>1. CASE p[i] = a
      BY <2>5, <2>7, <3>1
    <3>2. CASE InList(p[i], o)
      <4>1. PICK j \in 1 .. Len(o) : o[j] = p[i]
        BY <3>2 DEF InList
      <4>2. vs[o[j]] = us[o[j]]
        BY <1>2, <2>5, <4>1
      <4>. QED
        BY <1>3, <4>1, <4>2
    <3>. QED
      BY <2>10, <3>1, <3>2
  <2>12. ASSUME NEW u \in DOMAIN vs \ DOMAIN upvalues
         PROVE  InList(u, p) /\ vs[u].stack_index - Top.base + 1 \in Seen(ds, n + 1)
    <3>1. CASE u = a
      <4>1. d.index \in Seen(ds, n + 1)
        BY <1>7, <1>13
      <4>. QED
        BY <2>5, <2>6, <2>7, <2>10, <3>1, <4>1
    <3>2. CASE u \in DOMAIN us
      <4>1. InList(u, o) /\ us[u].stack_index - Top.base + 1 \in Seen(ds, n) /\ vs[u] = us[u]
        BY <1>3, <2>5, <3>2
      <4>. QED
        BY <1>8, <2>10, <4>1
    <3>. QED
      BY <2>5, <3>1, <3>2
  <2>13. Len(e) = n + 1 /\ \A k \in 1 .. n + 1 : vs[e[k]].var = Meant(ds[k])
    <3>1. c \in Seq(DOMAIN vs) /\ a \in DOMAIN vs /\ vs[a].var = Meant(ds[n + 1])
      BY <1>2, <2>5, <2>6, <2>7, MoreMembers
    <3>2. \A k \in 1 .. n : vs[c[k]].var = Meant(ds[k])
      BY <1>2, <1>3, <2>5
    <3>. QED
      BY <1>1, <1>3, <2>1, <3>1, <3>2, CapturedMore
  <2>14. Seen(ds, n + 1) # {}
    BY <1>7, <1>13
  <2>15. LoopShares(vs, p, e, ds, n + 1)
    BY <1>3, <2>10, <2>11, <2>12, <2>13, <2>14 DEF LoopShares
  <2>. QED
    BY <2>2, <2>3, <2>15
<1>. QED
  BY <1>1, <1>5, <1>10, <1>12, <1>13
(* All rounds, and none of them fails. *)
LEMMA CaptureAllShares ==
  ASSUME MachineIInv, SharingIInv, Running, NEW ds \in Seq(Captures), IsInjective(ds),
         NEW direct, direct = {d.index : d \in {e \in ToSet(ds) : e.is_direct}},
         Cardinality(DOMAIN upvalues) + Cardinality(direct) <= NUpvalues
  PROVE  \E us, o, c : /\ CaptureAll(ds) = Going(us, o, c) /\ LoopOK(us, o, c)
                       /\ LoopShares(us, o, c, ds, Len(ds))
<1>1. PICK made : Rounds(made, ds) /\ \A n \in 0 .. Len(ds) : RoundDone(made, ds, n)
  BY CaptureRounds
<1>2. Len(ds) \in Nat
  OBVIOUS
<1> DEFINE Bad == {n \in 0 .. Len(ds) : ~RoundShares(made, ds, n)}
<1>3. RoundShares(made, ds, 0)
  <2>1. LoopOK(upvalues, Open, <<>>)
    <3>1. Open \in Seq(DOMAIN upvalues)
      BY RunningClosure, TheseMembers
    <3>2. <<>> \in Seq(DOMAIN upvalues)
      OBVIOUS
    <3>. QED
      BY <3>1, <3>2 DEF MachineIInv, UpvaluesOK, LoopOK
  <2>2. Seen(ds, 0) = {}
    BY DEF Seen
  <2>3. PICK c : c = <<>>
    OBVIOUS
  <2>4. Len(c) = 0 /\ 1 .. 0 = {}
    BY <2>3
  <2>5. LoopShares(upvalues, Open, c, ds, 0)
    BY <2>2, <2>4, TopShares DEF LoopShares
  <2>6. made[0] = Going(upvalues, Open, c) /\ LoopOK(upvalues, Open, c)
    BY <1>1, <2>1, <2>3 DEF Rounds
  <2>. QED
    BY <2>5, <2>6 DEF RoundShares
<1>4. ASSUME NEW n \in 0 .. Len(ds), n # Len(ds), RoundShares(made, ds, n)
      PROVE  RoundShares(made, ds, n + 1)
  <2>1. PICK us, o, c : made[n] = Going(us, o, c) /\ LoopOK(us, o, c) /\ LoopShares(us, o, c, ds, n)
    BY <1>4 DEF RoundShares
  <2>2. PICK d : d = ds[n + 1]
    OBVIOUS
  <2>3. d.is_direct => DOMAIN us # 1 .. NUpvalues
    <3>1. RoundDone(made, ds, n)
      BY <1>1
    <3>2. PICK vs, p, e :
            /\ made[n] = Stopped(vs, p, e) \/ made[n] = Going(vs, p, e)
            /\ n # Len(ds) /\ ds[n + 1].is_direct => DOMAIN vs # 1 .. NUpvalues
      BY <3>1 DEF RoundDone
    <3>3. Going(us, o, c) = Stopped(vs, p, e) \/ Going(us, o, c) = Going(vs, p, e)
      BY <2>1, <3>2
    <3>4. vs = us
      BY <3>3, GoingFields
    <3>. QED
      BY <1>4, <2>2, <3>2, <3>4
  <2>4. PICK vs, p, e : /\ Capture(Going(us, o, c), d) = Going(vs, p, e)
                        /\ LoopOK(vs, p, e) /\ LoopShares(vs, p, e, ds, n + 1)
    <3>1. LoopOK(us, o, c) /\ LoopShares(us, o, c, ds, n) /\ n # Len(ds)
          /\ (d.is_direct => DOMAIN us # 1 .. NUpvalues)
      BY <1>4, <2>1, <2>3
    <3>. QED
      BY <2>2, <3>1, RoundKeepsShares
  <2>5. made[n + 1] = Capture(made[n], d)
    <3>1. n + 1 \in 1 .. Len(ds) /\ n + 1 - 1 = n
      BY <1>2, <1>4
    <3>2. made[n + 1] = Capture(made[n + 1 - 1], ds[n + 1])
      BY <1>1, <3>1 DEF Rounds
    <3>. QED
      BY <2>2, <3>1, <3>2
  <2>. QED
    BY <2>1, <2>4, <2>5 DEF RoundShares
<1>5. Bad = {}
  <2>1. SUFFICES ASSUME Bad # {} PROVE FALSE
    OBVIOUS
  <2>2. PICK m \in Bad : \A n \in Bad : m <= n
    <3>1. Bad \in SUBSET Nat
      OBVIOUS
    <3>. HIDE DEF Bad
    <3>. QED
      BY <2>1, <3>1, LeastElement
  <2>3. m \in 0 .. Len(ds) /\ ~RoundShares(made, ds, m)
    OBVIOUS
  <2>4. m # 0
    BY <1>3, <2>3
  <2>5. m - 1 \in 0 .. Len(ds) /\ m - 1 # Len(ds) /\ ~ (m <= m - 1) /\ m - 1 + 1 = m
    BY <1>2, <2>3, <2>4
  <2>6. RoundShares(made, ds, m - 1)
    BY <2>2, <2>5
  <2>7. RoundShares(made, ds, m - 1 + 1)
    BY <1>4, <2>5, <2>6
  <2>. QED
    BY <2>3, <2>5, <2>7
<1>6. RoundShares(made, ds, Len(ds)) /\ CaptureAll(ds) = made[Len(ds)]
  <2>1. Len(ds) \in 0 .. Len(ds)
    BY <1>2
  <2>. QED
    BY <1>1, <1>5, <2>1 DEF Rounds
<1>. QED
  BY <1>6 DEF RoundShares
LEMMA MakeClosureGoes ==
  ASSUME MachineIInv, SharingIInv, NEW arity, NEW anonymous, NEW ds \in CaptureLists,
         MakeClosure(arity, anonymous, ds)
  PROVE  \E us, o, cc, direct :
           /\ direct = {d.index : d \in {e \in ToSet(ds) : e.is_direct}}
           /\ ReenterCapturing \/ direct = {} \/ ~Nested
           /\ LoopOK(us, o, cc) /\ LoopShares(us, o, cc, ds, Len(ds))
           /\ DOMAIN closures # 1 .. NClosures
           /\ MakeClosureStep(NewClosure,
                [arity |-> arity, anonymous |-> anonymous, upvalues |-> cc,
                 open_upvalues |-> <<>>, vars |-> [i \in DOMAIN ds |-> Meant(ds[i])]],
                us, o, direct)
<1>1. PICK made, direct : /\ made = CaptureAll(ds)
                          /\ direct = {d.index : d \in {e \in ToSet(ds) : e.is_direct}}
  OBVIOUS
<1>2. /\ Running /\ DOMAIN closures # 1 .. NClosures
      /\ Cardinality(DOMAIN upvalues) + Cardinality(direct) <= NUpvalues
      /\ ReenterCapturing \/ direct = {} \/ ~Nested
      /\ \/ made.failed
         \/ MakeClosureStep(NewClosure,
              [arity |-> arity, anonymous |-> anonymous, upvalues |-> made.captured,
               open_upvalues |-> <<>>, vars |-> [i \in DOMAIN ds |-> Meant(ds[i])]],
              made.upvalues, made.open, direct)
  BY <1>1 DEF MakeClosure, MakeClosureStep, Marked
<1>3. Running /\ ds \in Seq(Captures) /\ IsInjective(ds)
  BY CaptureListsFacts
<1>4. PICK us, o, cc : made = Going(us, o, cc) /\ LoopOK(us, o, cc)
                       /\ LoopShares(us, o, cc, ds, Len(ds))
  <2>1. Cardinality(DOMAIN upvalues) + Cardinality(direct) <= NUpvalues
    BY <1>2
  <2>. QED
    BY <1>1, <1>3, <2>1, CaptureAllShares
<1>5. ~made.failed /\ made.upvalues = us /\ made.open = o /\ made.captured = cc
  BY <1>4 DEF Going
<1>6. MakeClosureStep(NewClosure,
        [arity |-> arity, anonymous |-> anonymous, upvalues |-> cc,
         open_upvalues |-> <<>>, vars |-> [i \in DOMAIN ds |-> Meant(ds[i])]],
        us, o, direct)
  BY <1>2, <1>5
<1>. QED
  BY <1>1, <1>2, <1>4, <1>6

(* The new closure shares with the old ones what the program says it does;  *)
(* a list grows only if no other activation has the same one.               *)
LEMMA MakeClosureShares ==
  ASSUME Exclusions, MachineIInv, SharingIInv, MachineIInv', NEW arity, NEW anonymous, ~anonymous,
         NEW ds \in CaptureLists, MakeClosure(arity, anonymous, ds)
  PROVE  SharingIInv'
<1>1. Running /\ ds \in Seq(Captures) /\ IsInjective(ds) /\ Len(ds) \in Nat
  BY CaptureListsFacts
<1>2. PICK us, o, cc, direct :
        /\ direct = {d.index : d \in {e \in ToSet(ds) : e.is_direct}}
        /\ ReenterCapturing \/ direct = {} \/ ~Nested
        /\ LoopOK(us, o, cc) /\ LoopShares(us, o, cc, ds, Len(ds))
        /\ DOMAIN closures # 1 .. NClosures
        /\ MakeClosureStep(NewClosure,
             [arity |-> arity, anonymous |-> anonymous, upvalues |-> cc,
              open_upvalues |-> <<>>, vars |-> [i \in DOMAIN ds |-> Meant(ds[i])]],
             us, o, direct)
  BY MakeClosureGoes
<1>3. PICK c, d, g, a : /\ c = NewClosure /\ g = Marked(direct) /\ a = Top.closure
                        /\ d = [arity |-> arity, anonymous |-> anonymous, upvalues |-> cc,
                                open_upvalues |-> <<>>, vars |-> [i \in DOMAIN ds |-> Meant(ds[i])]]
  OBVIOUS
<1>4. PICK es : es = [closures EXCEPT ![a].open_upvalues = o]
  OBVIOUS
<1>5. /\ upvalues' = us /\ closures' = With(es, c, d) /\ call_frames_' = WithTop(g)
      /\ UNCHANGED crashed /\ UNCHANGED scripts /\ UNCHANGED errors
  BY <1>2, <1>3, <1>4 DEF MakeClosureStep
<1>6. /\ DOMAIN upvalues \subseteq DOMAIN us /\ DOMAIN us \subseteq 1 .. NUpvalues
      /\ \A u \in DOMAIN upvalues : us[u] = upvalues[u]
      /\ o \in Seq(DOMAIN us) /\ cc \in Seq(DOMAIN us) /\ Len(o) \in Nat
  BY <1>2 DEF LoopOK
<1>7. /\ ListOK(Top, us, o)
      /\ \A i \in 1 .. Len(o) : us[o[i]].var = us[o[i]].stack_index
      /\ \A u : InList(u, Open) => InList(u, o)
      /\ \A u \in DOMAIN us \ DOMAIN upvalues :
           InList(u, o) /\ us[u].stack_index - Top.base + 1 \in Seen(ds, Len(ds))
      /\ Len(cc) = Len(ds) /\ \A k \in 1 .. Len(ds) : us[cc[k]].var = Meant(ds[k])
      /\ Seen(ds, Len(ds)) = {} => o = Open
  BY <1>2 DEF LoopShares
<1>8. Seen(ds, Len(ds)) \subseteq direct
  <2>1. Len(ds) \in 0 .. Len(ds)
    BY <1>1
  <2>. QED
    BY <1>1, <1>2, <2>1, SeenFacts
<1>9. c \notin DOMAIN closures /\ a \in DOMAIN closures
  BY <1>1, <1>2, <1>3, FreeAddress, TopFacts
<1>10. /\ DOMAIN es = DOMAIN closures
       /\ \A x \in DOMAIN closures :
            /\ es[x].upvalues = closures[x].upvalues /\ es[x].vars = closures[x].vars
            /\ es[x].anonymous = closures[x].anonymous
            /\ es[x].open_upvalues = IF x = a THEN o ELSE closures[x].open_upvalues
  <2>1. PICK w : w = DOMAIN us
    OBVIOUS
  <2>2. o \in Seq(1 .. NUpvalues) /\ DOMAIN upvalues \subseteq w /\ \A i \in 1 .. Len(o) : o[i] \in w
    <3>1. o \in Seq(w) /\ w \subseteq 1 .. NUpvalues /\ DOMAIN upvalues \subseteq w
      BY <1>6, <2>1
    <3>2. o \in Seq(1 .. NUpvalues)
      BY <3>1, MoreMembers
    <3>. QED
      BY <3>1, <3>2
  <2>3. /\ DOMAIN [closures EXCEPT ![a].open_upvalues = o] = DOMAIN closures
        /\ \A x \in DOMAIN closures :
             /\ [closures EXCEPT ![a].open_upvalues = o][x].upvalues = closures[x].upvalues
             /\ [closures EXCEPT ![a].open_upvalues = o][x].vars = closures[x].vars
             /\ [closures EXCEPT ![a].open_upvalues = o][x].anonymous = closures[x].anonymous
             /\ [closures EXCEPT ![a].open_upvalues = o][x].open_upvalues
                  = IF x = a THEN o ELSE closures[x].open_upvalues
    BY <1>9, <2>2, OpenListSet
  <2>. QED
    BY <1>4, <2>3
<1>11. /\ DOMAIN closures' = DOMAIN closures \cup {c} /\ closures'[c] = d
       /\ \A x \in DOMAIN closures : closures'[x] = es[x]
  BY <1>5, <1>9, <1>10 DEF With
<1>12. /\ g \in Frame /\ g.closure = Top.closure /\ g.begin = Top.begin /\ g.base = Top.base
       /\ Len(g.locals) = Len(Top.locals) /\ Len(Top.locals) \in Nat /\ Top.base \in Nat
       /\ \A i \in 1 .. Len(Top.locals) : g.locals[i] <=> (Top.locals[i] \/ i \in direct)
  BY <1>1, <1>3, MarkedFacts, TopFacts
<1>13. Extends(Top, g)
  BY <1>12 DEF Extends
<1>14. Len(call_frames_') = Len(call_frames_) /\ FramesExtend(call_frames_')
  BY <1>1, <1>5, <1>12, <1>13, WithTopFacts
<1>15. PICK m \in Nat \ {0} : m = Len(call_frames_)
  BY <1>1, TopFacts
<1>16. /\ m \in 1 .. Len(call_frames_) /\ Top = call_frames_[m] /\ call_frames_'[m] = g
  <2>1. call_frames_ \in Seq(Frame) /\ Top = call_frames_[m]
    BY <1>1, <1>15, TopFacts DEF MachineIInv, FramesOK
  <2>. QED
    BY <1>5, <1>15, <2>1 DEF WithTop
<1>17. errors = 0 /\ call_frames_ # <<>> /\ call_frames_' # <<>>
  <2>1. call_frames_ # <<>>
    BY <1>1 DEF Running
  <2>2. m # 0
    BY <1>15
  <2>. QED
    BY <1>14, <1>15, <2>1, <2>2, NoErrors
<1>18. Locals(Top) \subseteq Locals(g)
  BY <1>12, <1>13, LocalsExtend
<1>19. VariablesOK'
  <2>1. PICK fs, cs : fs = call_frames_' /\ cs = closures'
    OBVIOUS
  <2>2. Len(fs) \in Nat /\ FramesExtend(fs)
    BY <1>14, <1>15, <2>1
  <2>3. ASSUME NEW u \in DOMAIN upvalues, upvalues[u].open
        PROVE  Owned(u, upvalues[u], fs, cs)
    <3>1. Owned(u, upvalues[u], call_frames_, closures)
      BY <1>17, <2>3 DEF SharingIInv, VariablesOK
    <3>2. ASSUME NEW n \in 1 .. Len(call_frames_),
                 InList(u, closures[call_frames_[n].closure].open_upvalues)
          PROVE  InList(u, cs[call_frames_[n].closure].open_upvalues)
      <4>1. PICK x : x = call_frames_[n].closure
        OBVIOUS
      <4>2. x \in DOMAIN closures
        BY <4>1, LiveFrames
      <4>3. cs[x].open_upvalues = IF x = a THEN o ELSE closures[x].open_upvalues
        BY <1>10, <1>11, <2>1, <4>2
      <4>4. x = a => closures[x].open_upvalues = Open
        BY <1>3 DEF Open
      <4>. QED
        BY <1>7, <3>2, <4>1, <4>3, <4>4
    <3>3. PICK w : w = upvalues[u]
      OBVIOUS
    <3>4. Owned(u, w, call_frames_, closures)
      BY <3>1, <3>3
    <3>5. Owned(u, w, fs, cs)
      BY <2>2, <3>2, <3>4, OwnedExtends
    <3>. QED
      BY <3>3, <3>5
  <2>4. ASSUME NEW u \in DOMAIN us \ DOMAIN upvalues
        PROVE  us[u].open /\ Owned(u, us[u], fs, cs)
    <3>1. InList(u, o) /\ us[u].stack_index - Top.base + 1 \in direct
      BY <1>7, <1>8
    <3>2. PICK i \in 1 .. Len(o) : o[i] = u
      BY <3>1 DEF InList
    <3>3. us[u].open /\ us[u].stack_index \in Locals(Top) /\ us[u].var = us[u].stack_index
      BY <1>7, <3>2 DEF ListOK
    <3>4. us[u].stack_index - Top.base + 1 \in 1 .. Len(Top.locals)
      <4>1. PICK s : s = us[u].stack_index
        OBVIOUS
      <4>2. s \in Locals(call_frames_[m])
        BY <1>16, <3>3, <4>1
      <4>3. s - call_frames_[m].base + 1 \in 1 .. Len(call_frames_[m].locals)
        BY <1>16, <4>2, LocalsFacts
      <4>. QED
        BY <1>16, <4>1, <4>3
    <3>5. fs[m].locals[us[u].stack_index - fs[m].base + 1] /\ us[u].stack_index \in Locals(fs[m])
      BY <1>12, <1>16, <1>18, <2>1, <3>1, <3>3, <3>4
    <3>6. cs[fs[m].closure].open_upvalues = o
      BY <1>3, <1>9, <1>10, <1>11, <1>12, <1>16, <2>1
    <3>7. OwnedBy(u, us[u], fs, cs, m)
      BY <3>1, <3>5, <3>6 DEF OwnedBy
    <3>8. m \in 1 .. Len(fs)
      BY <1>14, <1>16, <2>1
    <3>. QED
      BY <3>3, <3>7, <3>8 DEF Owned
  <2>5. ASSUME NEW u \in DOMAIN upvalues, ~upvalues[u].open
        PROVE  upvalues[u].var = Escaped(u)
    BY <2>5 DEF SharingIInv, VariablesOK
  <2>6. \A u \in DOMAIN us : IF us[u].open /\ errors = 0
                             THEN Owned(u, us[u], fs, cs) ELSE us[u].var = Escaped(u)
    BY <1>6, <1>17, <2>3, <2>4, <2>5
  <2>. QED
    BY <1>5, <2>1, <2>6 DEF VariablesOK
<1>20. BodiesOK'
  <2>1. ASSUME NEW x \in DOMAIN closures
        PROVE  MeansOK(es[x], us)
    <3>1. MeansOK(closures[x], upvalues)
      BY DEF SharingIInv, BodiesOK
    <3>2. \A i \in 1 .. Len(closures[x].upvalues) : closures[x].upvalues[i] \in DOMAIN upvalues
      BY ObjectFacts DEF ClosureOK
    <3>. QED
      BY <1>6, <1>10, <3>1, <3>2 DEF MeansOK
  <2>2. MeansOK(d, us)
    <3>1. PICK vs : vs = [i \in DOMAIN ds |-> Meant(ds[i])]
      OBVIOUS
    <3>2. d.upvalues = cc /\ d.vars = vs /\ d.anonymous = anonymous
      BY <1>3, <3>1
    <3>3. \A k \in 1 .. Len(ds) : vs[k] = Meant(ds[k])
      BY <1>1, <3>1
    <3>4. \A k \in 1 .. Len(cc) : us[cc[k]].var = vs[k]
      BY <1>7, <3>3
    <3>. QED
      BY <3>2, <3>4 DEF MeansOK
  <2>3. \A x \in DOMAIN closures' : MeansOK(closures'[x], us)
    BY <1>11, <2>1, <2>2
  <2>. QED
    BY <1>5, <2>3 DEF BodiesOK
<1>21. ListsOK'
  <2>1. ASSUME NEW n \in 1 .. Len(call_frames_)
        PROVE  ListOK(call_frames_'[n], us, closures'[call_frames_'[n].closure].open_upvalues)
    <3>1. PICK f, h, x, p : /\ f = call_frames_[n] /\ h = call_frames_'[n] /\ x = f.closure
                            /\ p = closures[x].open_upvalues
      OBVIOUS
    <3>2. Extends(f, h) /\ Len(h.locals) \in Nat /\ h.closure = x /\ x \in DOMAIN closures
      BY <1>14, <3>1, LiveFrames DEF FramesExtend, Extends
    <3>3. ListOK(h, upvalues, p)
      <4>1. Extends(call_frames_[n], h)
        BY <3>1, <3>2
      <4>2. ListOK(h, upvalues, closures[h.closure].open_upvalues)
        BY <3>2, <4>1, ListExtends
      <4>. QED
        BY <3>1, <3>2, <4>2
    <3>4. \A i \in 1 .. Len(p) : us[p[i]] = upvalues[p[i]]
      BY <1>6, <3>1, <3>2, ObjectFacts DEF ClosureOK, Closure
    <3>5. ListOK(h, us, p)
      BY <3>3, <3>4 DEF ListOK
    <3>6. closures'[x].open_upvalues = IF x = a THEN o ELSE p
      BY <1>10, <1>11, <3>1, <3>2
    <3>7. CASE x # a
      BY <3>1, <3>2, <3>5, <3>6, <3>7
    <3>8. CASE x = a /\ n = m
      <4>1. h = g
        BY <1>16, <3>1, <3>8
      <4>2. ListOK(g, us, o)
        BY <1>7, <1>18 DEF ListOK
      <4>. QED
        BY <3>1, <3>2, <3>6, <3>8, <4>1, <4>2
    <3>9. CASE x = a /\ n # m
      <4>1. n \in 1 .. Len(call_frames_) - 1
        BY <1>15, <3>9
      <4>2. call_frames_[n].closure = Top.closure
        BY <1>3, <3>1, <3>9
      <4>3. Nested
        BY <4>1, <4>2 DEF Nested
      <4>4. direct = {}
        BY <1>2, <4>3 DEF Exclusions
      <4>5. o = Open
        BY <1>7, <1>8, <4>4
      <4>6. p = o
        BY <1>3, <3>1, <3>9, <4>5 DEF Open
      <4>. QED
        BY <3>1, <3>2, <3>5, <3>6, <3>9, <4>6
    <3>. QED
      BY <3>7, <3>8, <3>9
  <2>. QED
    BY <1>5, <1>14, <2>1 DEF ListsOK
<1>22. BaseOK'
  <2>1. /\ \A n \in 1 .. Len(call_frames_) : call_frames_[n].base = call_frames_[n].begin
        /\ call_frames_[1].begin = 1 /\ 1 \in 1 .. Len(call_frames_)
    BY <1>15, <1>17 DEF SharingIInv, BaseOK
  <2>2. \A n \in 1 .. Len(call_frames_) : /\ call_frames_'[n].base = call_frames_[n].base
                                          /\ call_frames_'[n].begin = call_frames_[n].begin
    BY <1>14 DEF FramesExtend, Extends
  <2>. QED
    BY <1>14, <2>1, <2>2 DEF BaseOK
<1>23. SessionOK'
  <2>1. crashed = "none" /\ scripts >= 1
    BY <1>17 DEF SharingIInv, SessionOK
  <2>. QED
    BY <1>5, <1>17, <2>1 DEF SessionOK
<1>. QED
  BY <1>19, <1>20, <1>21, <1>22, <1>23 DEF SharingIInv

-----------------------------------------------------------------------------
(* The invariant, for any bounds *)

LEMMA SharingInit ==
  ASSUME Init
  PROVE  SharingIInv
<1>1. /\ stack_ = <<>> /\ call_frames_ = <<>> /\ closures = <<>> /\ upvalues = <<>>
      /\ crashed = "none" /\ errors = 0
  BY DEF Init
<1>2. DOMAIN closures = {} /\ DOMAIN upvalues = {} /\ 1 .. Len(call_frames_) = {}
  BY <1>1
<1>. QED
  BY <1>1, <1>2 DEF SharingIInv, VariablesOK, BodiesOK, ListsOK, BaseOK, SessionOK

LEMMA SharingStutter ==
  ASSUME SharingIInv, UNCHANGED vars
  PROVE  SharingIInv'
<1>1. /\ UNCHANGED stack_ /\ UNCHANGED call_frames_ /\ UNCHANGED closures /\ UNCHANGED upvalues
      /\ UNCHANGED crashed /\ UNCHANGED scripts /\ UNCHANGED errors
  BY DEF vars
<1>. QED
  BY <1>1 DEF SharingIInv, VariablesOK, BodiesOK, ListsOK, BaseOK, SessionOK

LEMMA SharingNext ==
  ASSUME Exclusions, MachineIInv, SharingIInv, Next
  PROVE  SharingIInv'
<1>1. MachineIInv'
  BY MachineNext
<1>2. ASSUME NEW arity \in Arities, NEW anonymous \in {FALSE, AnonymousFunctions},
             NEW ds \in CaptureLists, MakeClosure(arity, anonymous, ds)
      PROVE  SharingIInv'
  <2>1. ~anonymous
    BY DEF Exclusions
  <2>. QED
    BY <1>1, <1>2, <2>1, MakeClosureShares
<1>3. ASSUME Constant
      PROVE  SharingIInv'
  <2>1. Running /\ call_frames_' = WithTop(Pushed) /\ UNCHANGED <<closures, upvalues, crashed, scripts, errors>>
    BY <1>3 DEF Constant, NoObjectChanges
  <2>. QED
    BY <1>1, <2>1, PushShares
<1>4. ASSUME NEW i \in 1 .. MaxStack, GetLocal(i)
      PROVE  SharingIInv'
  <2>1. Running /\ call_frames_' = WithTop(Pushed) /\ UNCHANGED <<closures, upvalues, crashed, scripts, errors>>
    BY <1>4 DEF GetLocal, NoObjectChanges
  <2>. QED
    BY <1>1, <2>1, PushShares
<1>5. ASSUME NEW i \in 1 .. MaxStack, SetLocal(i)
      PROVE  SharingIInv'
  <2>1. Running /\ UNCHANGED call_frames_ /\ UNCHANGED <<closures, upvalues, crashed, scripts, errors>>
    BY <1>5 DEF SetLocal, NoObjectChanges
  <2>. QED
    BY <1>1, <2>1, FramesStayShares
<1>6. ASSUME NEW v \in Globals, GetGlobal(v)
      PROVE  SharingIInv'
  <2>1. Running /\ call_frames_' = WithTop(Pushed) /\ UNCHANGED <<closures, upvalues, crashed, scripts, errors>>
    BY <1>6 DEF GetGlobal, NoObjectChanges
  <2>. QED
    BY <1>1, <2>1, PushShares
<1>7. ASSUME NEW v \in Globals, SetGlobal(v)
      PROVE  SharingIInv'
  <2>1. Running /\ UNCHANGED call_frames_ /\ UNCHANGED <<closures, upvalues, crashed, scripts, errors>>
    BY <1>7 DEF SetGlobal
  <2>. QED
    BY <1>1, <2>1, FramesStayShares
<1>8. ASSUME NEW k \in 1 .. MaxCaptures, GetUpvalue(k) \/ SetUpvalue(k)
      PROVE  SharingIInv'
  BY <1>1, <1>8, GetUpvalueShares, SetUpvalueShares
<1>9. ASSUME RunScript \/ EndScript \/ RuntimeError
      PROVE  SharingIInv'
  BY <1>1, <1>9, RunScriptShares, EndScriptShares, RuntimeErrorShares
<1>10. ASSUME Pop \/ DeclareLocal \/ PopLocal \/ CloseUpvalue \/ Return \/ CollectGarbage
       PROVE  SharingIInv'
  BY <1>1, <1>10, PopShares, DeclareLocalShares, PopLocalShares, CloseUpvalueShares, ReturnShares,
     CollectGarbageShares
<1>11. ASSUME NEW n \in Arities, Call(n)
       PROVE  SharingIInv'
  BY <1>11, CallShares
<1>. QED
  BY <1>2, <1>3, <1>4, <1>5, <1>6, <1>7, <1>8, <1>9, <1>10, <1>11 DEF Next

(* Without the three defects the invariant holds, for any bounds.           *)
THEOREM SharingInvariant == Exclusions => (Spec => [](MachineIInv /\ SharingIInv))
<1>. SUFFICES ASSUME Exclusions PROVE Spec => [](MachineIInv /\ SharingIInv)
  OBVIOUS
<1>1. Init => MachineIInv /\ SharingIInv
  BY MachineInit, SharingInit
<1>2. MachineIInv /\ SharingIInv /\ [Next]_vars => MachineIInv' /\ SharingIInv'
  BY MachineNext, MachineStutter, SharingNext, SharingStutter
<1>. QED
  BY <1>1, <1>2, PTL DEF Spec

LEMMA SlotsFacts ==
  ASSUME MachineIInv, SharingIInv
  PROVE  SlotsLineUp
<1>1. PICK k \in Nat : k = Len(call_frames_) /\ DOMAIN call_frames_ = 1 .. k
  BY DEF MachineIInv, FramesOK
<1>2. \A f \in ToSet(call_frames_) : f.base = f.begin
  <2>1. ToSet(call_frames_) = {call_frames_[n] : n \in 1 .. Len(call_frames_)}
    BY ToSetFacts DEF MachineIInv, FramesOK
  <2>. QED
    BY <2>1 DEF SharingIInv, BaseOK
<1>3. ASSUME NEW n \in 1 .. k, NEW f, f = call_frames_[n], NEW end,
             end = IF n = k THEN Len(stack_) ELSE call_frames_[n + 1].begin - 1
      PROVE  end = f.base - 1 + Len(f.locals) + f.temps
  <2>1. f.base \in Nat /\ Len(f.locals) \in Nat /\ f.temps \in Nat
    BY <1>1, <1>3, FrameAt, FrameFields
  <2>2. PICK b, l, t, h : b = f.base /\ l = Len(f.locals) /\ t = f.temps /\ h = Len(stack_)
    OBVIOUS
  <2>3. h \in Nat /\ b \in Nat /\ l \in Nat /\ t \in Nat
    BY <2>1, <2>2 DEF MachineIInv, StackOK
  <2>4. CASE n = k
    <3>1. k # 0 /\ f = Top
      BY <1>1, <1>3, <2>4 DEF Top
    <3>2. h + 1 = b + l + t
      BY <1>1, <2>2, <3>1 DEF MachineIInv, FramesOK, Above
    <3>3. h = b - 1 + l + t
      BY <2>3, <3>2
    <3>. QED
      BY <1>3, <2>2, <2>4, <3>3
  <2>5. CASE n # k
    <3>1. n \in 1 .. Len(call_frames_) - 1
      BY <1>1, <2>5
    <3>2. call_frames_[n + 1].begin = b + l + t
      BY <1>3, <2>2, <3>1 DEF MachineIInv, FramesOK, Above
    <3>3. PICK x : x = call_frames_[n + 1].begin
      OBVIOUS
    <3>4. end = x - 1
      BY <1>3, <2>5, <3>3
    <3>5. end = b - 1 + l + t
      BY <2>3, <3>2, <3>3, <3>4
    <3>. QED
      BY <2>2, <3>5
  <2>. QED
    BY <2>4, <2>5
<1>4. ASSUME NEW n \in 1 .. k
      PROVE  (IF n = k THEN Len(stack_) ELSE call_frames_[n + 1].begin - 1)
             = call_frames_[n].base - 1 + Len(call_frames_[n].locals) + call_frames_[n].temps
  <2>1. PICK f, end : f = call_frames_[n]
                      /\ end = IF n = k THEN Len(stack_) ELSE call_frames_[n + 1].begin - 1
    OBVIOUS
  <2>2. end = f.base - 1 + Len(f.locals) + f.temps
    BY <1>3, <2>1
  <2>. QED
    BY <2>1, <2>2
<1>. QED
  BY <1>1, <1>2, <1>4 DEF SlotsLineUp

LEMMA SharedFacts ==
  ASSUME MachineIInv, SharingIInv
  PROVE  SharedVariables
<1>1. ASSUME NEW c \in DOMAIN closures, NEW k \in DOMAIN closures[c].vars
      PROVE  upvalues[closures[c].upvalues[k]].var = closures[c].vars[k]
  <2>1. PICK d : d = closures[c]
    OBVIOUS
  <2>2. d.vars \in Seq(Var) /\ Len(d.vars) = Len(d.upvalues)
    BY <2>1, ObjectFacts DEF ClosureOK, Closure
  <2>3. k \in 1 .. Len(d.upvalues)
    BY <1>1, <2>1, <2>2
  <2>4. MeansOK(d, upvalues)
    BY <2>1 DEF SharingIInv, BodiesOK
  <2>. QED
    BY <2>1, <2>3, <2>4 DEF MeansOK
<1>2. \A u, w \in DOMAIN upvalues : upvalues[u].var = upvalues[w].var => u = w
  BY OneUpvalue
<1>3. ASSUME Running, NEW u \in DOMAIN upvalues
      PROVE  IF upvalues[u].open
             THEN upvalues[u].var = upvalues[u].stack_index /\ upvalues[u].var \in InScope
             ELSE upvalues[u].var \notin InScope
  <2>1. errors = 0
    BY <1>3, NoErrors DEF Running
  <2>2. ASSUME upvalues[u].open
        PROVE  upvalues[u].var = upvalues[u].stack_index /\ upvalues[u].var \in InScope
    BY <2>1, <2>2, OpenFacts, InScopeFacts
  <2>3. ASSUME ~upvalues[u].open
        PROVE  upvalues[u].var \notin InScope
    <3>1. upvalues[u].var = Escaped(u)
      BY <2>3 DEF SharingIInv, VariablesOK
    <3>. QED
      BY <3>1, EscapedFacts, InScopeFacts
  <2>. QED
    BY <2>2, <2>3
<1>. QED
  BY <1>1, <1>2, <1>3 DEF SharedVariables

LEMMA SortedFacts ==
  ASSUME MachineIInv, SharingIInv
  PROVE  OpenListSorted
<1>1. ToSet(call_frames_) = {call_frames_[n] : n \in 1 .. Len(call_frames_)}
  BY ToSetFacts DEF MachineIInv, FramesOK
<1>2. ASSUME NEW n \in 1 .. Len(call_frames_), NEW o,
             o = closures[call_frames_[n].closure].open_upvalues
      PROVE  /\ \A i \in DOMAIN o : upvalues[o[i]].open
             /\ \A i \in DOMAIN o : upvalues[o[i]].stack_index \in Locals(call_frames_[n])
             /\ \A i, j \in DOMAIN o :
                  i < j => upvalues[o[i]].stack_index < upvalues[o[j]].stack_index
  <2>1. ListOK(call_frames_[n], upvalues, o)
    BY <1>2 DEF SharingIInv, ListsOK
  <2>2. DOMAIN o = 1 .. Len(o)
    BY <1>2, ObjectFacts, LiveFrames DEF ClosureOK, Closure
  <2>. QED
    BY <2>1, <2>2 DEF ListOK
<1>3. ASSUME NEW f \in ToSet(call_frames_)
      PROVE  /\ \A i \in DOMAIN closures[f.closure].open_upvalues :
                  upvalues[closures[f.closure].open_upvalues[i]].open
             /\ \A i \in DOMAIN closures[f.closure].open_upvalues :
                  upvalues[closures[f.closure].open_upvalues[i]].stack_index \in Locals(f)
             /\ \A i, j \in DOMAIN closures[f.closure].open_upvalues :
                  i < j => upvalues[closures[f.closure].open_upvalues[i]].stack_index
                             < upvalues[closures[f.closure].open_upvalues[j]].stack_index
  <2>1. PICK n \in 1 .. Len(call_frames_) : f = call_frames_[n]
    BY <1>1, <1>3
  <2>. QED
    BY <1>2, <2>1
<1>. QED
  BY <1>3 DEF OpenListSorted

(* The slot an instruction addresses is where its variable is.              *)
THEOREM SlotsAlwaysLineUp == Exclusions => (Spec => []SlotsLineUp)
<1>. SUFFICES ASSUME Exclusions PROVE Spec => []SlotsLineUp
  OBVIOUS
<1>1. Spec => [](MachineIInv /\ SharingIInv)
  BY SharingInvariant
<1>2. MachineIInv /\ SharingIInv => SlotsLineUp
  BY SlotsFacts
<1>. QED
  BY <1>1, <1>2, PTL

(* Every closure reaches a variable it means through the one upvalue of     *)
(* that variable.                                                           *)
THEOREM VariablesShared == Exclusions => (Spec => []SharedVariables)
<1>. SUFFICES ASSUME Exclusions PROVE Spec => []SharedVariables
  OBVIOUS
<1>1. Spec => [](MachineIInv /\ SharingIInv)
  BY SharingInvariant
<1>2. MachineIInv /\ SharingIInv => SharedVariables
  BY SharedFacts
<1>. QED
  BY <1>1, <1>2, PTL

(* The open list of a running closure is sorted, open, and of that          *)
(* activation: what close_upvalue and the closure instruction take it for.  *)
THEOREM OpenListsSorted == Exclusions => (Spec => []OpenListSorted)
<1>. SUFFICES ASSUME Exclusions PROVE Spec => []OpenListSorted
  OBVIOUS
<1>1. Spec => [](MachineIInv /\ SharingIInv)
  BY SharingInvariant
<1>2. MachineIInv /\ SharingIInv => OpenListSorted
  BY SortedFacts
<1>. QED
  BY <1>1, <1>2, PTL

(* No program ends in an exception that run_prompt does not catch.          *)
THEOREM MachineNeverCrashes == Exclusions => (Spec => []NeverCrashes)
<1>. SUFFICES ASSUME Exclusions PROVE Spec => []NeverCrashes
  OBVIOUS
<1>1. Spec => [](MachineIInv /\ SharingIInv)
  BY SharingInvariant
<1>2. MachineIInv /\ SharingIInv => NeverCrashes
  BY DEF SharingIInv, SessionOK, NeverCrashes
<1>. QED
  BY <1>1, <1>2, PTL

-----------------------------------------------------------------------------
(* A captured variable changes only when it is assigned *)

(* The upvalue still is the slot, and the slot is as it was; or it is closed *)
(* with the value of the slot.                                               *)
SameSlot(u) ==
  /\ upvalues'[u].open = upvalues[u].open /\ upvalues'[u].stack_index = upvalues[u].stack_index
  /\ upvalues'[u].value = upvalues[u].value
  /\ upvalues[u].open => stack_'[upvalues[u].stack_index] = stack_[upvalues[u].stack_index]
ClosedNow(u) == ~upvalues'[u].open /\ upvalues'[u].value = ValueOf(u)

ValuesKept ==
  \A u \in DOMAIN upvalues \cap DOMAIN upvalues' :
    InRange(u) /\ InRange(u)' => ValueOf(u)' = ValueOf(u)

LEMMA KeptWhen ==
  ASSUME \A u \in DOMAIN upvalues \cap DOMAIN upvalues' :
           InRange(u) /\ InRange(u)' => SameSlot(u) \/ ClosedNow(u)
  PROVE  ValuesKept
<1>1. ASSUME NEW u \in DOMAIN upvalues \cap DOMAIN upvalues', SameSlot(u)
      PROVE  ValueOf(u)' = ValueOf(u)
  BY <1>1 DEF SameSlot, ValueOf
<1>2. ASSUME NEW u \in DOMAIN upvalues \cap DOMAIN upvalues', ClosedNow(u)
      PROVE  ValueOf(u)' = ValueOf(u)
  <2>1. PICK v : v = ValueOf(u)
    OBVIOUS
  <2>2. ~upvalues'[u].open /\ upvalues'[u].value = v
    BY <1>2, <2>1 DEF ClosedNow
  <2>3. ValueOf(u)' = v
    BY <2>2 DEF ValueOf
  <2>. QED
    BY <2>1, <2>3
<1>. QED
  BY <1>1, <1>2 DEF ValuesKept

(* As much of the stack as there was and is has not changed. *)
StackAgrees == \A i \in 1 .. Len(stack_) : i \in 1 .. Len(stack_') => stack_'[i] = stack_[i]

LEMMA SlotKept ==
  ASSUME MachineIInv, StackAgrees, Len(stack_') \in Nat, NEW u \in DOMAIN upvalues,
         upvalues[u].open, upvalues[u].stack_index <= Len(stack_),
         upvalues[u].stack_index <= Len(stack_')
  PROVE  stack_'[upvalues[u].stack_index] = stack_[upvalues[u].stack_index]
<1>1. PICK s : s = upvalues[u].stack_index
  OBVIOUS
<1>2. s \in Nat /\ s >= 1
  BY <1>1, ObjectFacts DEF UpvalueOK, Upvalue
<1>3. Len(stack_) \in Nat
  BY DEF MachineIInv, StackOK
<1>4. s \in 1 .. Len(stack_) /\ s \in 1 .. Len(stack_')
  BY <1>1, <1>2, <1>3
<1>. QED
  BY <1>1, <1>4 DEF StackAgrees

LEMMA SlotsKept ==
  ASSUME MachineIInv, StackAgrees, Len(stack_') \in Nat,
         \A u \in DOMAIN upvalues \cap DOMAIN upvalues' :
           \/ /\ upvalues'[u].open = upvalues[u].open
              /\ upvalues'[u].stack_index = upvalues[u].stack_index
              /\ upvalues'[u].value = upvalues[u].value
           \/ ClosedNow(u)
  PROVE  ValuesKept
<1>1. ASSUME NEW u \in DOMAIN upvalues \cap DOMAIN upvalues', InRange(u), InRange(u)', ~ClosedNow(u)
      PROVE  SameSlot(u)
  <2>1. /\ upvalues'[u].open = upvalues[u].open
        /\ upvalues'[u].stack_index = upvalues[u].stack_index
        /\ upvalues'[u].value = upvalues[u].value
    BY <1>1
  <2>2. ASSUME upvalues[u].open
        PROVE  stack_'[upvalues[u].stack_index] = stack_[upvalues[u].stack_index]
    <3>1. upvalues[u].stack_index <= Len(stack_)
      BY <1>1, <2>2 DEF InRange
    <3>2. upvalues'[u].stack_index <= Len(stack_')
      BY <1>1, <2>1, <2>2 DEF InRange
    <3>3. upvalues[u].stack_index <= Len(stack_')
      BY <2>1, <3>2
    <3>. QED
      BY <2>2, <3>1, <3>3, SlotKept
  <2>. QED
    BY <2>1, <2>2 DEF SameSlot
<1>. QED
  BY <1>1, KeptWhen

LEMMA StackStays ==
  ASSUME MachineIInv, UNCHANGED stack_
  PROVE  StackAgrees /\ Len(stack_') \in Nat
BY DEF MachineIInv, StackOK, StackAgrees

LEMMA StackGrows ==
  ASSUME MachineIInv, NEW v, stack_' = Append(stack_, v)
  PROVE  StackAgrees /\ Len(stack_') \in Nat
<1>1. PICK S : S = Value \cup {v}
  OBVIOUS
<1>2. stack_ \in Seq(S) /\ v \in S
  BY <1>1, MoreMembers DEF MachineIInv, StackOK
<1>3. /\ Len(Append(stack_, v)) = Len(stack_) + 1 /\ Len(stack_) \in Nat
      /\ \A i \in 1 .. Len(stack_) : Append(stack_, v)[i] = stack_[i]
  BY <1>2, AppendFacts
<1>. QED
  BY <1>3 DEF StackAgrees

LEMMA StackShrinks ==
  ASSUME MachineIInv, stack_ # <<>>, stack_' = Front(stack_)
  PROVE  StackAgrees /\ Len(stack_') \in Nat
<1>1. stack_ \in Seq(Value)
  BY DEF MachineIInv, StackOK
<1>2. /\ Len(stack_') = Len(stack_) - 1 /\ Len(stack_) \in Nat \ {0}
      /\ \A i \in 1 .. Len(stack_) - 1 : stack_'[i] = stack_[i]
  BY <1>1, FrontLast
<1>. QED
  BY <1>2 DEF StackAgrees

(* Every step that leaves the upvalues alone. *)
LEMMA UpvaluesStay ==
  ASSUME MachineIInv, StackAgrees, Len(stack_') \in Nat, UNCHANGED upvalues
  PROVE  ValuesKept
<1>1. \A u \in DOMAIN upvalues \cap DOMAIN upvalues' :
        /\ upvalues'[u].open = upvalues[u].open
        /\ upvalues'[u].stack_index = upvalues[u].stack_index
        /\ upvalues'[u].value = upvalues[u].value
  OBVIOUS
<1>. QED
  BY <1>1, SlotsKept

(* Every step that closes these upvalues and renames what leaves its scope. *)
LEMMA ClosingKept ==
  ASSUME MachineIInv, NEW slots, NEW us, us \subseteq DOMAIN upvalues, \A u \in us : InRange(u),
         upvalues' = RenamedUpvalues(slots, Closing(us))
  PROVE  \A u \in DOMAIN upvalues :
           /\ u \in us => ClosedNow(u)
           /\ u \notin us => /\ upvalues'[u].open = upvalues[u].open
                             /\ upvalues'[u].stack_index = upvalues[u].stack_index
                             /\ upvalues'[u].value = upvalues[u].value
<1>1. PICK ws, cs : ws = Closing(us) /\ cs = DOMAIN closures
  OBVIOUS
<1>2. /\ DOMAIN ws = DOMAIN upvalues
      /\ \A u \in DOMAIN upvalues :
           /\ UpvalueOK(ws[u], cs)
           /\ u \in us => ~ws[u].open /\ ws[u].value = ValueOf(u)
           /\ u \notin us => ws[u] = upvalues[u]
  BY <1>1, ClosingType
<1>3. \A u \in DOMAIN ws :
        /\ upvalues'[u].open = ws[u].open /\ upvalues'[u].stack_index = ws[u].stack_index
        /\ upvalues'[u].value = ws[u].value
  <2>1. \A u \in DOMAIN ws : UpvalueOK(ws[u], cs)
    BY <1>2
  <2>2. PICK vs : vs = RenamedUpvalues(slots, ws)
    OBVIOUS
  <2>3. /\ DOMAIN vs = DOMAIN ws
        /\ \A u \in DOMAIN ws : vs[u] = [ws[u] EXCEPT !.var = Leaving(slots, @)]
    BY <2>2 DEF RenamedUpvalues
  <2>4. \A u \in DOMAIN ws : ws[u] \in Upvalue
    BY <2>1 DEF UpvalueOK
  <2>5. \A u \in DOMAIN ws :
          vs[u].open = ws[u].open /\ vs[u].stack_index = ws[u].stack_index /\ vs[u].value = ws[u].value
    BY <2>3, <2>4 DEF Upvalue
  <2>. QED
    BY <1>1, <2>2, <2>5
<1>. QED
  BY <1>2, <1>3 DEF ClosedNow

LEMMA NameLeftKept ==
  ASSUME MachineIInv, NEW slots, upvalues' = RenamedUpvalues(slots, upvalues)
  PROVE  \A u \in DOMAIN upvalues :
           /\ upvalues'[u].open = upvalues[u].open
           /\ upvalues'[u].stack_index = upvalues[u].stack_index
           /\ upvalues'[u].value = upvalues[u].value
<1>1. PICK vs : vs = RenamedUpvalues(slots, upvalues)
  OBVIOUS
<1>2. /\ DOMAIN vs = DOMAIN upvalues
      /\ \A u \in DOMAIN upvalues : vs[u] = [upvalues[u] EXCEPT !.var = Leaving(slots, @)]
  BY <1>1 DEF RenamedUpvalues
<1>3. \A u \in DOMAIN upvalues : upvalues[u] \in Upvalue
  BY ObjectFacts DEF UpvalueOK
<1>4. \A u \in DOMAIN upvalues :
        /\ vs[u].open = upvalues[u].open /\ vs[u].stack_index = upvalues[u].stack_index
        /\ vs[u].value = upvalues[u].value
  BY <1>2, <1>3 DEF Upvalue
<1>. QED
  BY <1>1, <1>4

LEMMA GetUpvalueKept ==
  ASSUME MachineIInv, NEW k, GetUpvalue(k)
  PROVE  ValuesKept
<1>1. PICK u : u = Captured[k]
  OBVIOUS
<1>2. \/ UNCHANGED stack_ /\ UNCHANGED upvalues
      \/ Push(ValueOf(u)) /\ UNCHANGED upvalues
  BY <1>1 DEF GetUpvalue, Crash, NoObjectChanges
<1>3. ASSUME UNCHANGED stack_
      PROVE  StackAgrees /\ Len(stack_') \in Nat
  BY <1>3, StackStays
<1>4. ASSUME Push(ValueOf(u))
      PROVE  StackAgrees /\ Len(stack_') \in Nat
  <2>1. PICK v : v = ValueOf(u)
    OBVIOUS
  <2>2. stack_' = Append(stack_, v)
    BY <1>4, <2>1 DEF Push
  <2>. QED
    BY <2>2, StackGrows
<1>. QED
  BY <1>2, <1>3, <1>4, UpvaluesStay

LEMMA PushKept ==
  ASSUME MachineIInv, NEW v, Push(v), UNCHANGED upvalues
  PROVE  ValuesKept
<1>1. stack_' = Append(stack_, v)
  BY DEF Push
<1>. QED
  BY <1>1, StackGrows, UpvaluesStay

LEMMA EndLocalStack ==
  ASSUME MachineIInv, EndLocal
  PROVE  StackAgrees /\ Len(stack_') \in Nat
<1>1. Running /\ Top.temps = 0 /\ Len(Top.locals) > Top.fixed /\ stack_' = Front(stack_)
  BY DEF EndLocal, AtStatement
<1>2. stack_ # <<>>
  <2>1. PICK h, b, l, f : h = Len(stack_) /\ b = Top.base /\ l = Len(Top.locals) /\ f = Top.fixed
    OBVIOUS
  <2>2. h \in Nat /\ b \in Nat /\ l \in Nat /\ f \in Nat /\ b >= 1 /\ l > f /\ h + 1 = b + l + 0
    <3>1. Top.begin >= 1 /\ Top.base >= Top.begin /\ Top.begin \in Nat /\ Top.base \in Nat
      BY <1>1, TopFacts
    <3>2. Top.base >= 1
      BY <3>1
    <3>. QED
      BY <1>1, <2>1, <3>2, TopFacts
  <2>3. h # 0
    BY <2>2
  <2>. QED
    BY <2>1, <2>3
<1>. QED
  BY <1>1, <1>2, StackShrinks

LEMMA CloseUpvalueKept ==
  ASSUME MachineIInv, CloseUpvalue
  PROVE  ValuesKept
<1> DEFINE openToo == Open # <<>> => upvalues[Last(Open)].open
           closing == IF Open # <<>> /\ openToo /\ upvalues[Last(Open)].stack_index = Len(stack_)
                      THEN {Last(Open)} ELSE {}
<1>1. /\ Running
      /\ \/ UNCHANGED stack_ /\ UNCHANGED upvalues
         \/ EndLocal /\ upvalues' = RenamedUpvalues(Ending, Closing(closing))
  BY DEF CloseUpvalue, Crash
<1>2. closing = {} \/ (Open # <<>> /\ closing = {Last(Open)} /\ upvalues[Last(Open)].stack_index = Len(stack_))
  OBVIOUS
<1>3. PICK cl, slots : cl = closing /\ slots = Ending
  OBVIOUS
<1>. HIDE DEF closing
<1>4. ASSUME UNCHANGED stack_, UNCHANGED upvalues
      PROVE  ValuesKept
  BY <1>4, StackStays, UpvaluesStay
<1>5. ASSUME EndLocal, upvalues' = RenamedUpvalues(slots, Closing(cl))
      PROVE  ValuesKept
  <2>1. cl \subseteq DOMAIN upvalues /\ \A u \in cl : InRange(u)
    <3>1. ASSUME Open # <<>>
          PROVE  Last(Open) \in DOMAIN upvalues
      <4>1. Open \in Seq(1 .. NUpvalues) /\ \A k \in 1 .. Len(Open) : Open[k] \in DOMAIN upvalues
        BY <1>1, RunningClosure
      <4>2. Last(Open) = Open[Len(Open)] /\ Len(Open) \in Nat \ {0}
        BY <3>1, <4>1, FrontLast
      <4>3. Len(Open) \in 1 .. Len(Open)
        BY <4>2
      <4>. QED
        BY <4>1, <4>2, <4>3
    <3>2. Len(stack_) \in Nat
      BY DEF MachineIInv, StackOK
    <3>3. \A u \in cl : u \in DOMAIN upvalues /\ upvalues[u].stack_index = Len(stack_)
      BY <1>2, <1>3, <3>1
    <3>. QED
      BY <3>2, <3>3 DEF InRange
  <2>2. \A u \in DOMAIN upvalues :
          /\ u \in cl => ClosedNow(u)
          /\ u \notin cl => /\ upvalues'[u].open = upvalues[u].open
                            /\ upvalues'[u].stack_index = upvalues[u].stack_index
                            /\ upvalues'[u].value = upvalues[u].value
    BY <1>5, <2>1, ClosingKept
  <2>3. StackAgrees /\ Len(stack_') \in Nat
    BY <1>5, EndLocalStack
  <2>. QED
    BY <2>2, <2>3, SlotsKept
<1>. QED
  BY <1>1, <1>3, <1>4, <1>5

(* What the callee's list does not hold lies below the callee. *)
LEMMA ReturnKept ==
  ASSUME MachineIInv, SharingIInv, Return
  PROVE  ValuesKept
<1>1. /\ Running /\ Len(call_frames_) > 1 /\ Top.temps = 1
      /\ \/ \E u \in ToSet(Open) : ~InRange(u)
         \/ LeaveActivation(Top.begin - 1, ToSet(Open))
  BY DEF Return
<1>2. PICK slots, us : slots = Locals(Top) /\ us = ToSet(Open)
  OBVIOUS
<1>3. us \subseteq DOMAIN upvalues
  BY <1>1, <1>2, RunningClosure
<1>4. \A u \in us : InRange(u)
  BY <1>1, <1>3, AllInRange DEF Running
<1>5. /\ upvalues' = RenamedUpvalues(slots, Closing(us)) /\ closures' = RenamedClosures(slots, closures)
      /\ stack_' = Append(SubSeq(stack_, 1, Top.begin - 1), Last(stack_))
  BY <1>1, <1>2, <1>4 DEF LeaveActivation
<1>6. \A i \in 1 .. Top.begin - 1 : stack_'[i] = stack_[i]
  <2>1. DOMAIN closures' = DOMAIN closures
    BY <1>5 DEF RenamedClosures
  <2>. QED
    BY <1>1, <1>5, <2>1, StackReturned
<1>7. \A u \in DOMAIN upvalues :
        /\ u \in us => ClosedNow(u)
        /\ u \notin us => /\ upvalues'[u].open = upvalues[u].open
                          /\ upvalues'[u].stack_index = upvalues[u].stack_index
                          /\ upvalues'[u].value = upvalues[u].value
  BY <1>3, <1>4, <1>5, ClosingKept
<1>8. PICK m \in Nat \ {0} : m = Len(call_frames_)
  BY <1>1, TopFacts
<1>9. Top = call_frames_[m] /\ m \in 1 .. Len(call_frames_) /\ errors = 0 /\ Top.begin \in Nat
  BY <1>1, <1>8, TopFacts, NoErrors
<1>10. ASSUME NEW u \in DOMAIN upvalues, u \notin us, upvalues[u].open
       PROVE  stack_'[upvalues[u].stack_index] = stack_[upvalues[u].stack_index]
  <2>1. PICK s : s = upvalues[u].stack_index
    OBVIOUS
  <2>2. PICK n \in 1 .. Len(call_frames_) :
          OwnedBy(u, upvalues[u], call_frames_, closures, n) /\ s \in Locals(call_frames_[n])
    BY <1>9, <1>10, <2>1, OpenFacts
  <2>3. n # m
    <3>1. Open \in Seq(1 .. NUpvalues)
      BY <1>1, RunningClosure
    <3>2. ToSet(Open) = {Open[i] : i \in 1 .. Len(Open)}
      BY <3>1, ToSetFacts
    <3>3. ~InList(u, Open)
      BY <1>2, <1>10, <3>2 DEF InList
    <3>. QED
      BY <1>9, <2>2, <3>3 DEF OwnedBy, Open
  <2>4. n < m
    BY <1>8, <2>2, <2>3
  <2>5. s < call_frames_[m].begin
    BY <1>9, <2>2, <2>4, LocalsFacts
  <2>6. s \in 1 .. Len(stack_)
    BY <2>2, LocalsFacts
  <2>7. s \in 1 .. Top.begin - 1
    BY <1>9, <2>5, <2>6
  <2>. QED
    BY <1>6, <2>1, <2>7
<1>11. \A u \in DOMAIN upvalues : SameSlot(u) \/ ClosedNow(u)
  BY <1>7, <1>10 DEF SameSlot
<1>. QED
  BY <1>11, KeptWhen

LEMMA MakeClosureKept ==
  ASSUME MachineIInv, NEW arity, NEW anonymous, NEW ds \in CaptureLists,
         MakeClosure(arity, anonymous, ds)
  PROVE  ValuesKept
<1>1. PICK us, o, cc, direct :
        /\ LoopOK(us, o, cc)
        /\ \/ Crash("bad_variant_access")
           \/ MakeClosureStep(NewClosure,
                [arity |-> arity, anonymous |-> anonymous, upvalues |-> cc,
                 open_upvalues |-> <<>>, vars |-> [i \in DOMAIN ds |-> Meant(ds[i])]],
                us, o, direct)
  BY MakeClosureCases
<1>2. PICK c, d : /\ c = NewClosure
                  /\ d = [arity |-> arity, anonymous |-> anonymous, upvalues |-> cc,
                          open_upvalues |-> <<>>, vars |-> [i \in DOMAIN ds |-> Meant(ds[i])]]
  OBVIOUS
<1>3. ASSUME Crash("bad_variant_access")
      PROVE  ValuesKept
  <2>1. UNCHANGED stack_ /\ UNCHANGED upvalues
    BY <1>3 DEF Crash
  <2>. QED
    BY <2>1, StackStays, UpvaluesStay
<1>4. ASSUME MakeClosureStep(c, d, us, o, direct)
      PROVE  ValuesKept
  <2>1. stack_' = Append(stack_, c) /\ upvalues' = us
    BY <1>4 DEF MakeClosureStep, Push
  <2>2. \A u \in DOMAIN upvalues : upvalues'[u] = upvalues[u]
    BY <1>1, <2>1 DEF LoopOK
  <2>3. StackAgrees /\ Len(stack_') \in Nat
    BY <2>1, StackGrows
  <2>. QED
    BY <2>2, <2>3, SlotsKept
<1>. QED
  BY <1>1, <1>2, <1>3, <1>4

LEMMA CollectGarbageKept ==
  ASSUME MachineIInv, CollectGarbage
  PROVE  ValuesKept
<1>1. PICK kc, ku : /\ kc = {c \in DOMAIN closures : <<"closure", c>> \in Reached}
                    /\ ku = {u \in DOMAIN upvalues : <<"upvalue", u>> \in Reached}
  OBVIOUS
<1>2. UNCHANGED stack_ /\ (UNCHANGED upvalues \/ upvalues' = Restrict(upvalues, ku))
  BY <1>1 DEF CollectGarbage, Crash
<1>3. \A u \in DOMAIN upvalues \cap DOMAIN upvalues' : upvalues'[u] = upvalues[u]
  BY <1>1, <1>2 DEF Restrict
<1>. QED
  BY <1>2, <1>3, StackStays, SlotsKept

LEMMA PopKept ==
  ASSUME MachineIInv, Pop
  PROVE  ValuesKept
<1>1. Running /\ Top.temps > 0 /\ stack_' = Front(stack_) /\ UNCHANGED upvalues
  BY DEF Pop, NoObjectChanges
<1>2. stack_ # <<>>
  BY <1>1, LastOperand
<1>. QED
  BY <1>1, <1>2, StackShrinks, UpvaluesStay

LEMMA KeptNext ==
  ASSUME Exclusions, MachineIInv, SharingIInv, Next
  PROVE  ValuesKept \/ Assignment
<1>1. ASSUME Constant
      PROVE  ValuesKept
  <2>1. PICK v : v = Plain
    OBVIOUS
  <2>2. Push(v) /\ UNCHANGED upvalues
    BY <1>1, <2>1 DEF Constant, NoObjectChanges
  <2>. QED
    BY <2>2, PushKept
<1>2. ASSUME NEW i, GetLocal(i)
      PROVE  ValuesKept
  <2>1. PICK v : v = stack_[SlotOf(i)]
    OBVIOUS
  <2>2. Push(v) /\ UNCHANGED upvalues
    BY <1>2, <2>1 DEF GetLocal, NoObjectChanges
  <2>. QED
    BY <2>2, PushKept
<1>3. ASSUME NEW g, GetGlobal(g)
      PROVE  ValuesKept
  <2>1. PICK v : v = globals_[g]
    OBVIOUS
  <2>2. Push(v) /\ UNCHANGED upvalues
    BY <1>3, <2>1 DEF GetGlobal, NoObjectChanges
  <2>. QED
    BY <2>2, PushKept
<1>4. ASSUME UNCHANGED stack_, UNCHANGED upvalues
      PROVE  ValuesKept
  BY <1>4, StackStays, UpvaluesStay
<1>5. ASSUME NEW n, Call(n)
      PROVE  ValuesKept
  BY <1>4, <1>5 DEF Call, NoObjectChanges
<1>6. ASSUME NEW g, SetGlobal(g)
      PROVE  ValuesKept
  BY <1>4, <1>6 DEF SetGlobal
<1>7. ASSUME RunScript \/ EndScript \/ DeclareLocal
      PROVE  ValuesKept
  BY <1>4, <1>7 DEF RunScript, EndScript, DeclareLocal, NoObjectChanges
<1>8. ASSUME RuntimeError
      PROVE  ValuesKept
  <2>1. PICK slots : slots = InScope
    OBVIOUS
  <2>2. upvalues' = RenamedUpvalues(slots, upvalues) /\ UNCHANGED stack_
    BY <1>8, <2>1 DEF RuntimeError
  <2>3. \A u \in DOMAIN upvalues :
          /\ upvalues'[u].open = upvalues[u].open
          /\ upvalues'[u].stack_index = upvalues[u].stack_index
          /\ upvalues'[u].value = upvalues[u].value
    BY <2>2, NameLeftKept
  <2>. QED
    BY <2>2, <2>3, StackStays, SlotsKept
<1>9. ASSUME PopLocal
      PROVE  ValuesKept
  <2>1. PICK slots : slots = Ending
    OBVIOUS
  <2>2. upvalues' = RenamedUpvalues(slots, upvalues) /\ EndLocal
    BY <1>9, <2>1 DEF PopLocal
  <2>3. \A u \in DOMAIN upvalues :
          /\ upvalues'[u].open = upvalues[u].open
          /\ upvalues'[u].stack_index = upvalues[u].stack_index
          /\ upvalues'[u].value = upvalues[u].value
    BY <2>2, NameLeftKept
  <2>. QED
    BY <2>2, <2>3, EndLocalStack, SlotsKept
<1>10. ASSUME NEW i \in 1 .. MaxStack, SetLocal(i)
       PROVE  Assignment
  BY <1>10 DEF Assignment
<1>11. ASSUME NEW k \in 1 .. MaxCaptures, SetUpvalue(k)
       PROVE  Assignment
  BY <1>11 DEF Assignment
<1>12. ASSUME NEW arity \in Arities, NEW anonymous \in {FALSE, AnonymousFunctions},
              NEW ds \in CaptureLists, MakeClosure(arity, anonymous, ds)
       PROVE  ValuesKept
  BY <1>12, MakeClosureKept
<1>13. ASSUME Pop \/ CloseUpvalue \/ Return \/ CollectGarbage
       PROVE  ValuesKept
  BY <1>13, PopKept, CloseUpvalueKept, ReturnKept, CollectGarbageKept
<1>14. ASSUME NEW k, GetUpvalue(k)
       PROVE  ValuesKept
  BY <1>14, GetUpvalueKept
<1>. QED
  BY <1>1, <1>2, <1>3, <1>5, <1>6, <1>7, <1>8, <1>9, <1>10, <1>11, <1>12, <1>13, <1>14 DEF Next

(* A captured variable changes only when it is assigned: not when its block *)
(* or its function ends, not in a call, a capture or a collection.          *)
THEOREM ValuesStay == Exclusions => (Spec => OnlyAssignmentChanges)
<1>. SUFFICES ASSUME Exclusions PROVE Spec => OnlyAssignmentChanges
  OBVIOUS
<1>1. Spec => [](MachineIInv /\ SharingIInv)
  BY SharingInvariant
<1>2. MachineIInv /\ SharingIInv /\ [Next]_vars => [ValuesKept \/ Assignment]_vars
  BY KeptNext
<1>3. OnlyAssignmentChanges <=> [][ValuesKept \/ Assignment]_vars
  <2>1. [ValuesKept \/ Assignment]_vars
        <=> [\/ \A u \in DOMAIN upvalues \cap DOMAIN upvalues' :
                  InRange(u) /\ InRange(u)' => ValueOf(u)' = ValueOf(u)
             \/ Assignment]_vars
    BY DEF ValuesKept
  <2>. QED
    BY <2>1, PTL DEF OnlyAssignmentChanges
<1>. QED
  BY <1>1, <1>2, <1>3, PTL DEF Spec
=============================================================================
